--------------------------- MODULE Contradictions ---------------------------
(***************************************************************************)
(* Contradictory relations and the two agents that drain the same          *)
(* contradiction_detected queue: the Critic, which drops the first of the  *)
(* relations, and the pipeline's Arbiter, which keeps the one an LLM       *)
(* chooses and records a verdict.  Every agent process reads the session   *)
(* from a copy of its own that nothing but its own commits (and a restart) *)
(* brings up to date.                                                      *)
(*                                                                         *)
(* evolve_knowledge is taken at its outcomes (EvolveCommit has its steps): *)
(* it validates the change against the copy, and commits what it validated *)
(* over whatever is persisted by then; or meets a commit made meanwhile,   *)
(* reloads, and validates and applies the change again.                    *)
(***************************************************************************)
EXTENDS FiniteSetsExt, Integers

CONSTANTS
    Relation,       \* relation ids, naturals: only their order matters
    Exclusive,      \* pairs <<r, s>> of one source and target under a MutualExclusionRule,
                    \* r of the relation type that sorts first
    Functional,     \* sets of relations of one source under a FunctionalRelationRule
    Critic,         \* agents that resolve mechanically
    Arbiter,        \* agents that ask an LLM
    MaxRetries,     \* attempts before a task is dead-lettered
    MaxEdits,       \* bound: relations added or removed by others
    MaxSweeps,      \* bound: tasks the sweeper enqueues
    MaxFaults       \* bound: lost leases and restarts

Agent == Critic \cup Arbiter

ASSUME RelationAssumption ==
    /\ Relation \subseteq Nat /\ IsFiniteSet(Relation)
    /\ Exclusive \subseteq Relation \X Relation /\ \A p \in Exclusive : p[1] # p[2]
    /\ Functional \subseteq SUBSET Relation
ASSUME ContradictionAgents == Critic \cap Arbiter = {}
ASSUME ContradictionBounds == MaxRetries \in Nat \ {0} /\ {MaxEdits, MaxSweeps, MaxFaults} \subseteq Nat

VARIABLES
    head,       \* the persisted structure: [relations, verdicts]
    copy,       \* [Agent -> structure]: the session in the memory of the agent's process
    task,       \* [Location -> [state, retry]]: the contradiction_detected tasks
    agent,      \* [Agent -> [pc, at, retry, about, keep]]: its run
    decided,    \* history: what a commit was made for, with the kind of agent
    takenAway,  \* history: what of the structure a commit dropped without having seen it,
                \* or a caller removed
    edits, sweeps, faults

vars == <<head, copy, task, agent, decided, takenAway, edits, sweeps, faults>>

-----------------------------------------------------------------------------
(* Contradictions of a structure                                            *)

None == [id |-> 0, kind |-> "none", relations |-> {}]

(* _find_contradictions.  A functional relation's contradiction is called by the first *)
(* of its relations there are, a mutual exclusion by the one of the first type: the    *)
(* same relation may name two.                                                         *)
Contradicting(relations) ==
    {[id |-> p[1], kind |-> "exclusive", relations |-> {p[1], p[2]}] :
         p \in {q \in Exclusive : {q[1], q[2]} \subseteq relations}}
    \cup
    {[id |-> Min(F \cap relations), kind |-> "functional", relations |-> F \cap relations] :
         F \in {G \in Functional : Cardinality(G \cap relations) > 1}}

\* The Critic's dictionary keeps the last of one name, the Arbiter takes the first.
Named(relations, id, preferred) ==
    LET named == {c \in Contradicting(relations) : c.id = id}
        first == {c \in named : c.kind = preferred}
    IN  IF named = {} THEN None
        ELSE IF first # {} THEN CHOOSE c \in first : TRUE ELSE CHOOSE c \in named : TRUE
About(a) ==
    Named(copy[a].relations, agent[a].at.id, IF a \in Critic THEN "functional" ELSE "exclusive")

\* What a resolver may find: at least two relations that exclude each other.
Contradiction ==
    [id : Relation, kind : {"exclusive", "functional"},
     relations : {S \in SUBSET Relation : \E r, s \in S : r # s}]
\* What a task names: the relation a contradiction is called by, and the code of its rule.
Location == [id : Relation, kind : {"exclusive", "functional"}]
Nowhere == [id |-> 0, kind |-> "none"]
LocationOf(c) == [id |-> c.id, kind |-> c.kind]
\* A verdict's id hashes what the task names and the relations found.
Verdict == [task : Location, relations : SUBSET Relation]
Structure == [relations : SUBSET Relation, verdicts : SUBSET Verdict]
Task == [state : {"none", "pending", "claimed", "done", "dead"}, retry : Nat]
Run ==
    [pc : {"idle", "look", "evolve", "resolved", "failed"},
     at : Location \cup {Nowhere}, retry : Nat,
     about : Contradiction \cup {None}, keep : Relation \cup {0}]

TypeOK ==
    /\ head \in Structure /\ copy \in [Agent -> Structure] /\ takenAway \in Structure
    /\ task \in [Location -> Task]
    /\ agent \in [Agent -> Run]
    /\ decided \subseteq [about : Verdict, critic : BOOLEAN]
    /\ {edits, sweeps, faults} \subseteq Nat

Idle == [pc |-> "idle", at |-> Nowhere, retry |-> 0, about |-> None, keep |-> 0]
Ended(state) == [state |-> state, retry |-> 0]

Init ==
    /\ \E R \in SUBSET Relation : head = [relations |-> R, verdicts |-> {}]
    /\ copy = [a \in Agent |-> head]
    /\ task = [l \in Location |-> Ended("none")]
    /\ agent = [a \in Agent |-> Idle]
    /\ decided = {} /\ takenAway = [relations |-> {}, verdicts |-> {}]
    /\ edits = 0 /\ sweeps = 0 /\ faults = 0

-----------------------------------------------------------------------------
(* Around the agents                                                        *)

\* Some caller edits a relation, without the contradiction extensions.
AddRelation(r) ==
    /\ r \notin head.relations /\ edits < MaxEdits
    /\ head' = [head EXCEPT !.relations = @ \cup {r}]
    /\ edits' = edits + 1
    /\ UNCHANGED <<copy, task, agent, decided, takenAway, sweeps, faults>>

\* Some caller removes a relation.
RemoveRelation(r) ==
    /\ r \in head.relations /\ edits < MaxEdits
    /\ head' = [head EXCEPT !.relations = @ \ {r}]
    /\ takenAway' = [takenAway EXCEPT !.relations = @ \cup {r}]
    /\ edits' = edits + 1
    /\ UNCHANGED <<copy, task, agent, decided, sweeps, faults>>

\* ContradictionSweeper: a task for a contradiction that has none.
Sweep(c) ==
    /\ sweeps < MaxSweeps
    /\ task[LocationOf(c)].state \in {"none", "done"}
    /\ task' = [task EXCEPT ![LocationOf(c)] = [state |-> "pending", retry |-> 0]]
    /\ sweeps' = sweeps + 1
    /\ UNCHANGED <<head, copy, agent, decided, takenAway, edits, faults>>

Claim(a, l) ==
    /\ agent[a].pc = "idle" /\ task[l].state = "pending"
    /\ task' = [task EXCEPT ![l].state = "claimed"]
    /\ agent' = [agent EXCEPT ![a] = [Idle EXCEPT !.pc = "look", !.at = l, !.retry = task[l].retry]]
    /\ UNCHANGED <<head, copy, decided, takenAway, edits, sweeps, faults>>

\* The lease runs out and the row can be claimed again while the agent goes on.
LoseLease(l) ==
    /\ task[l].state = "claimed" /\ faults < MaxFaults
    /\ faults' = faults + 1
    /\ task' = [task EXCEPT ![l].state = "pending"]
    /\ UNCHANGED <<head, copy, agent, decided, takenAway, edits, sweeps>>

\* The agent's process is restarted: it reads the sessions from storage, the lease runs out.
Restart(a) ==
    /\ faults < MaxFaults
    /\ faults' = faults + 1
    /\ copy' = [copy EXCEPT ![a] = head]
    /\ task' = IF agent[a].pc # "idle" /\ task[agent[a].at].state = "claimed"
               THEN [task EXCEPT ![agent[a].at].state = "pending"] ELSE task
    /\ agent' = [agent EXCEPT ![a] = Idle]
    /\ UNCHANGED <<head, decided, takenAway, edits, sweeps>>

-----------------------------------------------------------------------------
(* One attempt                                                              *)

Goto(a, pc) == agent' = [agent EXCEPT ![a].pc = pc]
Keep(a, c, r) == agent' = [agent EXCEPT ![a].pc = "evolve", ![a].about = c, ![a].keep = r]

\* A contradiction that is not (any more) in the copy counts as resolved.
Gone(a) ==
    /\ agent[a].pc = "look" /\ About(a) = None
    /\ Goto(a, "resolved")
    /\ UNCHANGED <<head, copy, task, decided, takenAway, edits, sweeps, faults>>

\* resolve_contradiction: the first of the relations is to go, all others stay.
CriticDecides(a) ==
    /\ a \in Critic /\ agent[a].pc = "look" /\ About(a) # None
    /\ Keep(a, About(a), 0)
    /\ UNCHANGED <<head, copy, task, decided, takenAway, edits, sweeps, faults>>

\* What the Arbiter's verdict on c is known by: what the task's code says, not what c is.
VerdictOn(a, c) == [task |-> agent[a].at, relations |-> c.relations]

\* The Arbiter skips what its transition log says it has arbitrated, whatever is there now.
Arbitrated(a) ==
    /\ a \in Arbiter /\ agent[a].pc = "look" /\ About(a) # None
    /\ VerdictOn(a, About(a)) \in copy[a].verdicts
    /\ Goto(a, "resolved")
    /\ UNCHANGED <<head, copy, task, decided, takenAway, edits, sweeps, faults>>

\* The LLM names one of the relations in contention.
ArbiterDecides(a, r) ==
    /\ a \in Arbiter /\ agent[a].pc = "look"
    /\ About(a) # None /\ VerdictOn(a, About(a)) \notin copy[a].verdicts
    /\ r \in About(a).relations
    /\ Keep(a, About(a), r)
    /\ UNCHANGED <<head, copy, task, decided, takenAway, edits, sweeps, faults>>

\* The LLM call fails, or its answer cannot be parsed or names another relation.
LLMFails(a) ==
    /\ a \in Arbiter /\ agent[a].pc = "look"
    /\ About(a) # None /\ VerdictOn(a, About(a)) \notin copy[a].verdicts
    /\ Goto(a, "failed")
    /\ UNCHANGED <<head, copy, task, decided, takenAway, edits, sweeps, faults>>

Losers(a) ==
    IF a \in Critic THEN {Min(agent[a].about.relations)}
    ELSE agent[a].about.relations \ {agent[a].keep}

Decision(a) == VerdictOn(a, agent[a].about)

\* The operations of the attempt applied to a structure.
Evolved(a, s) ==
    [relations |-> s.relations \ Losers(a),
     verdicts |-> s.verdicts \cup (IF a \in Arbiter THEN {Decision(a)} ELSE {})]

\* Variant: the verdict's id is made up anew at each attempt, so it is never taken.
ClearedFreshVerdict(a, s) ==
    Losers(a) \subseteq s.relations /\ Contradicting(Evolved(a, s).relations) = {}
(* The dry run: what is removed is there, the verdict's id is not taken, and no        *)
(* contradiction at all is left under the mutual_exclusion and functional_relation     *)
(* extensions.                                                                         *)
Cleared(a, s) ==
    /\ Losers(a) \subseteq s.relations
    /\ a \in Arbiter => Decision(a) \notin s.verdicts
    /\ Contradicting(Evolved(a, s).relations) = {}

\* _operations_already_applied; an Arbiter's log entries are updates, which it cannot tell.
Applied(a) == a \in Critic /\ Losers(a) \cap head.relations = {}

Committed(a, s) ==
    /\ head' = Evolved(a, s)
    /\ copy' = [copy EXCEPT ![a] = head']
    /\ decided' = decided \cup {[about |-> Decision(a), critic |-> a \in Critic]}
    /\ takenAway' = [relations |-> takenAway.relations \cup (head.relations \ s.relations),
                       verdicts |-> takenAway.verdicts \cup (head.verdicts \ s.verdicts)]
    /\ Goto(a, "resolved")

Refused(a) == Goto(a, "failed") /\ UNCHANGED <<head, decided, takenAway>>

\* The first attempt: nobody commits between the reload and the commit.
Evolve(a) ==
    /\ agent[a].pc = "evolve"
    /\ IF Cleared(a, copy[a]) THEN Committed(a, copy[a]) ELSE Refused(a) /\ UNCHANGED copy
    /\ UNCHANGED <<task, edits, sweeps, faults>>

\* Somebody has committed since: the copy is reloaded and the change tried on it.
EvolveAfterConflict(a) ==
    /\ agent[a].pc = "evolve" /\ copy[a] # head /\ Cleared(a, copy[a])
    /\ IF Applied(a)
       THEN /\ Goto(a, "resolved")
            /\ copy' = [copy EXCEPT ![a] = head]
            /\ UNCHANGED <<head, decided, takenAway>>
       ELSE IF Cleared(a, head) THEN Committed(a, head)
       ELSE Refused(a) /\ copy' = [copy EXCEPT ![a] = head]
    /\ UNCHANGED <<task, edits, sweeps, faults>>

NextRetry(a) == agent[a].retry + 1
GivesUp(a) == NextRetry(a) >= MaxRetries

\* complete, fail or dead_letter; reports on a row that is gone change nothing.
Report(a) ==
    LET l == agent[a].at IN
    /\ agent[a].pc \in {"resolved", "failed"}
    /\ task' = IF task[l].state \notin {"pending", "claimed"} THEN task
               ELSE [task EXCEPT ![l] =
                        IF agent[a].pc = "resolved" THEN Ended("done")
                        ELSE IF GivesUp(a) THEN Ended("dead")
                        ELSE [@ EXCEPT !.state = "pending", !.retry = NextRetry(a)]]
    /\ agent' = [agent EXCEPT ![a] = Idle]
    /\ UNCHANGED <<head, copy, decided, takenAway, edits, sweeps, faults>>

-----------------------------------------------------------------------------
Resolve(a) ==
    \/ Gone(a) \/ CriticDecides(a) \/ Arbitrated(a) \/ LLMFails(a)
    \/ \E r \in Relation : ArbiterDecides(a, r)
    \/ Evolve(a) \/ EvolveAfterConflict(a)
    \/ Report(a)

Next ==
    \/ \E r \in Relation : AddRelation(r) \/ RemoveRelation(r)
    \/ \E l \in Location : LoseLease(l)
    \/ \E c \in Contradicting(head.relations) : Sweep(c)
    \/ \E a \in Agent : Resolve(a) \/ Restart(a) \/ \E l \in Location : Claim(a, l)

Spec == Init /\ [][Next]_vars

-----------------------------------------------------------------------------
(* Properties                                                               *)

(* However often its task is delivered, relations in contention that share none with    *)
(* another contradiction keep one of theirs, unless a caller removed one or a commit     *)
(* overwrote one unseen (EvolveCommit's ClearedForHead): Critics are kept apart by the   *)
(* order of the ids, Arbiters by the id of the verdict, which nobody but a commit that   *)
(* has not seen it removes.  Nothing keeps a Critic and an Arbiter apart, nor two        *)
(* Arbiters that were shown different ones of the relations or whose tasks bear          *)
(* different codes.                                                                     *)
DecidedIn(R) == {d \in decided : d.about.relations \cap R # {}}
Settled(R) ==
    /\ DecidedIn(R) # {} /\ \A d \in DecidedIn(R) : d.about.relations \subseteq R
    /\ R \cap takenAway.relations = {}
ByCritics(R) == \A d \in DecidedIn(R) : d.critic
ByOneVerdict(R) ==
    \A d, e \in DecidedIn(R) : ~d.critic /\ d = e /\ d.about \notin takenAway.verdicts
Contended == {{p[1], p[2]} : p \in Exclusive} \cup Functional
OneRelationSurvives ==
    \A R \in Contended :
        Settled(R) /\ (ByCritics(R) \/ ByOneVerdict(R)) => R \cap head.relations # {}

(* Does not hold, though an Arbiter "removes every relation except the LLM's pick"       *)
(* (pipeline/arbiter_step.py:16).  One relation may name a mutual exclusion and a        *)
(* functional contradiction.  Their tasks bear different codes, so verdicts on them have *)
(* different ids even where they are on the same relations, of which each may drop what  *)
(* the other kept; so have verdicts of Arbiters that were shown two and three relations  *)
(* of one rule.                                                                          *)
OneSurvivesTheArbiters ==
    \A R \in Contended :
        Settled(R) /\ ~(\E d \in DecidedIn(R) : d.critic) => R \cap head.relations # {}

(* Does not hold, with Critics only, whose resolution is "fully mechanical, no LLM call" *)
(* (CHANGELOG.md:823), and no fault: no contradiction is given up.  evolve validates the *)
(* whole session, so a contradiction of three relations, or one beside another, is not   *)
(* resolved by any number of attempts.                                                  *)
NoneIsGivenUp == \A l \in Location : task[l].state # "dead"
=============================================================================
