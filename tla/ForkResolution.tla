--------------------------- MODULE ForkResolution ---------------------------
(***************************************************************************)
(* The life of a fork: concurrent writes leave several live rows under one *)
(* pointer; the gossip adapter persists the fork and announces it; the     *)
(* subscriber enqueues a crdt_fork task; Fork Resolution Agents and Critics *)
(* drain the queue, each reading the rows, choosing, collapsing the        *)
(* pointer and marking the fork resolved in separate calls, while writes,  *)
(* crashes, lost leases and the other agents go on.                        *)
(*                                                                         *)
(* One pointer is modelled: pointers share nothing.  The CRDT store is     *)
(* cks_runtime, modelled from its use; the outbox is taken at its abstract *)
(* word (TaskLifecycle) with leases that may be lost.                      *)
(***************************************************************************)
EXTENDS ForkPolicy

CONSTANTS
    Object,         \* ids of the objects that may be written, naturals
    Replica,        \* replicas that write
    ForkAgent,      \* Fork Resolution Agents
    Critic,         \* Critic Agents that drain the same queue
    MaxRetries,     \* attempts before a task is dead-lettered
    MaxFaults       \* bound: lost leases, crashes of agents and of the process that enqueues

Agent == ForkAgent \cup Critic

ASSUME ObjectAssumption == Object # {} /\ Object \subseteq Nat
ASSUME AgentAssumption == ForkAgent \cap Critic = {}
ASSUME ForkBounds == MaxRetries \in Nat \ {0} /\ MaxFaults \in Nat

VARIABLES
    rows,       \* live MV-Register rows: id -> [vv, at]
    objects,    \* ids get_object finds (the G-Set)
    written,    \* ids written so far; every write has new content, hence a new id
    knows,      \* per replica: the vector of its last write
    clock,      \* created_at of the last row written
    forks,      \* cks_conflict_events: sequence of [ids, resolved]
    announced,  \* forks whose CRDTForkDetected is being handled
    task,       \* per fork: its crdt_fork task, [state, retry]
    agent,      \* per agent: [pc, fork, retry, ids, choice]; ids are the candidates it loaded
    settled,    \* history: forks since whose detection the pointer has had a single row
    faults

vars == <<rows, objects, written, knows, clock, forks, announced, task, agent, settled, faults>>
storeVars == <<rows, objects, written, knows, clock, settled>>

None == 0
Zero == [r \in Replica |-> 0]
Live == DOMAIN rows
Fork == DOMAIN forks
Idle == [pc |-> "idle", fork |-> None, retry |-> 0, ids |-> {}, choice |-> None]
NoTask == [state |-> "none", retry |-> 0]

Init ==
    /\ rows = <<>> /\ objects = {} /\ written = {} /\ clock = 0
    /\ knows = [r \in Replica |-> Zero]
    /\ forks = <<>> /\ announced = {} /\ task = <<>>
    /\ agent = [a \in Agent |-> Idle]
    /\ settled = {}
    /\ faults = 0

\* History: with R live the pointer is single-valued, and every fork so far is over.
Note(R) == settled' = settled \cup (IF Cardinality(R) <= 1 THEN Fork ELSE {})

-----------------------------------------------------------------------------
(* Writes and the announcement of forks                                     *)

(* A write reaches the store, here or by gossip, having seen some of the other writes: *)
(* rows it dominates go.  When concurrent rows remain the adapter persists the fork    *)
(* and publishes CRDTForkDetected.  vv counts writes by the position in which they     *)
(* are made, so that distinct writes have distinct vectors.                            *)
Write(r, o, seen, at) ==
    LET n == Cardinality(written) + 1
        vv == [x \in Replica |-> IF x = r THEN n
                                 ELSE Max({knows[r][x]} \cup {rows[s].vv[x] : s \in seen})]
        kept == {k \in Live : ~Before(rows[k].vv, vv)}
        ids == kept \cup {o}
    IN
    /\ o \notin written
    /\ rows' = [k \in ids |-> IF k = o THEN [vv |-> vv, at |-> at] ELSE rows[k]]
    /\ objects' = objects \cup {o}
    /\ written' = written \cup {o}
    /\ knows' = [knows EXCEPT ![r] = vv]
    /\ clock' = at
    /\ Note(ids)
    /\ IF Cardinality(ids) > 1
       THEN /\ forks' = Append(forks, [ids |-> ids, resolved |-> FALSE])
            /\ task' = Append(task, NoTask)
            /\ announced' = announced \cup {Len(forks) + 1}
       ELSE UNCHANGED <<forks, task, announced>>
    /\ UNCHANGED <<agent, faults>>

\* _on_fork: the in-memory record (ConflictInbox), then the task.
OnFork(f) ==
    /\ f \in announced
    /\ announced' = announced \ {f}
    /\ task' = [task EXCEPT ![f] = [state |-> "pending", retry |-> 0]]
    /\ UNCHANGED <<storeVars, forks, agent, faults>>

\* The process dies before the subscriber has enqueued: the persisted fork has no task.
ForkMissed(f) ==
    /\ f \in announced /\ faults < MaxFaults
    /\ announced' = announced \ {f}
    /\ faults' = faults + 1
    /\ UNCHANGED <<storeVars, forks, task, agent>>

-----------------------------------------------------------------------------
(* The agents                                                               *)

Goto(a, pc) == agent' = [agent EXCEPT ![a].pc = pc]
AgentOnly == UNCHANGED <<storeVars, forks, announced, task, faults>>

Claim(a, f) ==
    /\ agent[a].pc = "idle" /\ task[f].state = "pending"
    /\ task' = [task EXCEPT ![f].state = "claimed"]
    /\ agent' = [agent EXCEPT ![a] =
                    [pc |-> IF a \in Critic THEN "read" ELSE "load", fork |-> f,
                     retry |-> task[f].retry, ids |-> {}, choice |-> None]]
    /\ UNCHANGED <<storeVars, forks, announced, faults>>

Existing(a) == forks[agent[a].fork].ids \cap objects

\* Step 1 of resolve_fork: the candidates whose object is still in the store.
LoadCandidates(a) ==
    /\ agent[a].pc = "load"
    /\ agent' = CASE Existing(a) = {} -> [agent EXCEPT ![a].pc = "mark"]
                   [] Cardinality(Existing(a)) = 1 ->
                        [agent EXCEPT ![a].pc = "resolve", ![a].choice = Min(Existing(a))]
                   [] OTHER -> [agent EXCEPT ![a].pc = "read", ![a].ids = Existing(a)]
    /\ AgentOnly

\* A candidate without a row gets an empty vector and no timestamp.
Candidate(o) == IF o \in Live THEN [id |-> o, vv |-> rows[o].vv, at |-> rows[o].at]
                ELSE [id |-> o, vv |-> Zero, at |-> 0]

\* The lists of S, which name each of its elements once.
Lists(S) == {ids \in [1..Cardinality(S) -> S] : \A o \in S : \E i \in DOMAIN ids : ids[i] = o}

\* Steps 2-4 of resolve_fork, over the rows as they are now, in the order the payload has.
ChooseWinner(a) ==
    /\ agent[a].pc = "read" /\ a \in ForkAgent
    /\ \E ids \in Lists(agent[a].ids) :
       agent' = [agent EXCEPT ![a].pc = "resolve",
                              ![a].choice = SelectWinner([i \in DOMAIN ids |-> Candidate(ids[i])])]
    /\ AgentOnly

\* Variant: two rows count as converged.
AlreadyConvergedLate(live) == Cardinality(live) <= 2
AlreadyConverged(live) == Cardinality(live) <= 1

\* resolve_crdt_fork: all live rows, whether the fork lists them or not.
CriticChooses(a) ==
    /\ agent[a].pc = "read" /\ a \in Critic
    /\ agent' = IF AlreadyConverged(Live) THEN [agent EXCEPT ![a].pc = "mark"]
                ELSE [agent EXCEPT ![a].pc = "resolve", ![a].choice = CriticWinner(Live)]
    /\ AgentOnly

\* Variant: the answer of resolve_pointer is not looked at.
AfterResolveUnchecked(found) == "mark"
AfterResolve(found) == IF found THEN "mark" ELSE "failed"

(* resolve_pointer: the rows of the other objects go, and with them the objects        *)
(* ("already collapsed by a prior partial resolution", fork_resolution_agent.py:38).   *)
(* It answers False, and changes nothing, when the winner has no row.                  *)
ResolvePointer(a) ==
    LET winner == agent[a].choice
        found == winner \in Live
    IN
    /\ agent[a].pc = "resolve"
    /\ agent' = [agent EXCEPT ![a].pc = AfterResolve(found), ![a].ids = {}, ![a].choice = None]
    /\ IF found
       THEN /\ rows' = [o \in {winner} |-> rows[o]]
            /\ objects' = objects \ (Live \ {winner})
            /\ Note({winner})
       ELSE UNCHANGED <<rows, objects, settled>>
    /\ UNCHANGED <<written, knows, clock, forks, announced, task, faults>>

MarkResolved(a) ==
    /\ agent[a].pc = "mark"
    /\ forks' = [forks EXCEPT ![agent[a].fork].resolved = TRUE]
    /\ Goto(a, "resolved")
    /\ UNCHANGED <<storeVars, announced, task, faults>>

GivesUp(next) == next >= MaxRetries

\* complete, or fail, or dead_letter with the retry_count of the claim.
Report(a) ==
    LET f == agent[a].fork
        next == agent[a].retry + 1
    IN
    /\ agent[a].pc \in {"resolved", "failed"}
    /\ task' = [task EXCEPT ![f] =
                   IF agent[a].pc = "resolved" THEN [state |-> "done", retry |-> 0]
                   ELSE IF task[f].state = "done" THEN @     \* an UPDATE of a deleted row
                   ELSE IF GivesUp(next) THEN [state |-> "dead", retry |-> 0]
                   ELSE [state |-> "pending", retry |-> next]]
    /\ agent' = [agent EXCEPT ![a] = Idle]
    /\ UNCHANGED <<storeVars, forks, announced, faults>>

\* The lease of a claimed task runs out (a stall, or the agent has died).
LoseLease(f) ==
    /\ task[f].state = "claimed" /\ faults < MaxFaults
    /\ faults' = faults + 1
    /\ task' = [task EXCEPT ![f].state = "pending"]
    /\ UNCHANGED <<storeVars, forks, announced, agent>>

\* An agent dies; its lease runs out with it.
AgentCrash(a) ==
    /\ agent[a].pc # "idle" /\ faults < MaxFaults
    /\ faults' = faults + 1
    /\ agent' = [agent EXCEPT ![a] = Idle]
    /\ task' = IF task[agent[a].fork].state = "claimed"
               THEN [task EXCEPT ![agent[a].fork].state = "pending"] ELSE task
    /\ UNCHANGED <<storeVars, forks, announced>>

-----------------------------------------------------------------------------
Work(a) ==
    \/ \E f \in Fork : Claim(a, f)
    \/ LoadCandidates(a)
    \/ ChooseWinner(a)
    \/ CriticChooses(a)
    \/ ResolvePointer(a)
    \/ MarkResolved(a)
    \/ Report(a)

Next ==
    \/ \E r \in Replica, o \in Object, seen \in SUBSET Live, at \in {clock, clock + 1} \ {0} :
           Write(r, o, seen, at)
    \/ \E f \in Fork : OnFork(f) \/ ForkMissed(f) \/ LoseLease(f)
    \/ \E a \in Agent : Work(a) \/ AgentCrash(a)

Spec == Init /\ [][Next]_vars
FairSpec ==
    /\ Spec
    /\ WF_vars(\E f \in Fork : OnFork(f))
    /\ \A a \in Agent : WF_vars(Work(a))

-----------------------------------------------------------------------------
(* Properties                                                               *)

(* A fork is marked resolved (mark_fork_resolved) only if the pointer has had a single *)
(* row since: never after a resolve_pointer that found no row, and in whatever order   *)
(* two agents and new writes interleave with the attempt.                              *)
ResolvedIsSettled == \A f \in Fork : forks[f].resolved => f \in settled

(* The Fork Resolution Agent's choice is a row that is live when it reads the rows,    *)
(* whenever one of the fork's candidates is, except among several live rows with one   *)
(* timestamp, where the first id may be one that has no row any more (the attempt then *)
(* fails, though it could have been decided).                                          *)
ChoosesLiveHead ==
    [][\A a \in ForkAgent :
          LET live == agent[a].ids \cap Live IN
          /\ ChooseWinner(a)
          /\ live # {}
          /\ Cardinality(live) = 1 \/ Cardinality({rows[o].at : o \in live}) > 1
          => agent'[a].choice \in live]_vars

(* Whichever of the objects the candidates are, whether their vectors are equal, before *)
(* one another or concurrent and whatever their stamps, the winner is the same in every *)
(* order they may be listed in.                                                        *)
WinnerIsAgreed ==
    written = {} => \A ids \in SUBSET Object : ids # {} /\ IsFiniteSet(ids) =>
        \A row \in [ids -> [vv : [Replica -> 0..2], at : 0..2]] :
            WinnerIsOrderFree([o \in ids |-> [id |-> o, vv |-> row[o].vv, at |-> row[o].at]])

(* Once writing stops the pointer comes down to one row, for any mix of agents and     *)
(* policies, crashes, lost leases and failed attempts, unless the last fork was never  *)
(* enqueued (its process died in _on_fork; nothing reads list_pending_forks).          *)
NeverEnqueued(f) == task[f].state = "none" /\ f \notin announced
FinallyOneHead ==
    <>[](Cardinality(Live) > 1 => \E f \in Fork : Live \subseteq forks[f].ids /\ NeverEnqueued(f))
=============================================================================
