-------------------------- MODULE InferenceResolver --------------------------
(***************************************************************************)
(* The Critic agent's resolver of inference_conflict tasks, at work inside *)
(* the outbox protocol.  One task bundles two kinds of findings about a    *)
(* session: conclusions with several active steps, put to an LLM arbiter   *)
(* in one batch, and inference steps with stale premises, repaired         *)
(* mechanically.  Each part commits to the session on its own; the task    *)
(* completes only when both parts succeed in one attempt.  The arbiter is  *)
(* guarded by a circuit breaker, one per agent process.                    *)
(*                                                                         *)
(* Every agent has a Runtime of its own, and with it a copy of the session *)
(* that only a restart or a commit of its own brings up to date: it finds, *)
(* decides and repairs what that copy shows.  (The sweeper that enqueues   *)
(* the task works in the server's process.)                                *)
(***************************************************************************)
EXTENDS Outbox

CONSTANTS
    Conclusion,     \* [Task -> SET]: conclusion_ids of the payload
    Premise,        \* [Task -> SET]: stale step ids of the payload
    Threshold       \* llm_breaker_threshold

Payload == UNION {Conclusion[t] \cup Premise[t] : t \in Task}

ASSUME PayloadAssumption ==
    Conclusion \in [Task -> SUBSET Payload] /\ Premise \in [Task -> SUBSET Payload]
ASSUME BreakerAssumption == Threshold \in Nat \ {0}

VARIABLES
    open,       \* the findings that hold of the session as it is persisted:
                \*   conclusions still disputed, steps still on stale premises
    copy,       \* [Worker -> SET]: the findings the agent's copy shows
    stage,      \* [Worker -> STRING]: where the resolver stands
    pending,    \* [Worker -> SET]: conclusions gathered for the arbiter's batch
    ok,         \* [Worker -> BOOLEAN]: "resolved", over the parts so far
    failures,   \* [Worker -> Nat]: _consecutive_failures, capped at Threshold
    tripped,    \* [Worker -> BOOLEAN]: _open_until lies ahead
    overlooked, \* history: [Worker -> SET], open findings the attempt was not shown
    excused     \* history: the open findings that an attempt which ended as resolved
                \*   overlooked, or that a commit over a stale copy brought back

sessionVars == <<open, copy, excused>>
resolverVars == <<stage, pending, ok, overlooked>>
breakerVars == <<failures, tripped>>
inferenceVars == <<sessionVars, resolverVars, breakerVars>>
allVars == <<vars, inferenceVars>>

Stage == {"gather", "arbiter", "premises", "end"}

\* An agent that started before the findings arose does not see them.
InferenceInit ==
    /\ Init
    /\ open = Payload
    /\ copy \in [Worker -> SUBSET Payload]
    /\ stage = [w \in Worker |-> "gather"]
    /\ pending = [w \in Worker |-> {}]
    /\ ok = [w \in Worker |-> TRUE]
    /\ failures = [w \in Worker |-> 0]
    /\ tripped = [w \in Worker |-> FALSE]
    /\ overlooked = [w \in Worker |-> {}]
    /\ excused = {}

At(w, s) == Runs(w) /\ pc[w] = "resolving" /\ stage[w] = s

GoTo(w, s) == stage' = [stage EXCEPT ![w] = s]

-----------------------------------------------------------------------------
(* The circuit breaker                                                     *)

\* The cooldown has passed: is_open clears _open_until and lets a trial
\* through, the failure count kept.
CooldownElapses(w) ==
    /\ tripped[w]
    /\ tripped' = [tripped EXCEPT ![w] = FALSE]
    /\ UNCHANGED <<vars, sessionVars, resolverVars, failures>>

RecordSuccess(w) ==
    /\ failures' = [failures EXCEPT ![w] = 0]
    /\ tripped' = [tripped EXCEPT ![w] = FALSE]

RecordFailure(w) ==
    /\ failures' = [failures EXCEPT ![w] = Capped(@, Threshold)]
    /\ tripped' = [tripped EXCEPT ![w] = failures[w] + 1 >= Threshold]

-----------------------------------------------------------------------------
(* The two parts of the resolver                                           *)

\* evolve_knowledge persists operations that close findings: built on the agent's
\* copy, or anew on the persisted session if the first attempt lost a race.  Over
\* a stale copy, findings that others closed are open again.
Persists(w, closed, base) ==
    /\ open' = base \ closed
    /\ copy' = [copy EXCEPT ![w] = open']
    /\ excused' = (excused \cap open') \cup (open' \ open)

\* It refuses, gives up or raises, before or after a reload, and the uncommitted
\* result may stay in the copy.
Refuses(w, closed, base) ==
    /\ \E shown \in {base, base \ closed} : copy' = [copy EXCEPT ![w] = shown]
    /\ UNCHANGED <<open, excused>>

Commit(w, closed, committed) ==
    \E base \in {copy[w], open} :
        IF committed THEN Persists(w, closed, base) ELSE Refuses(w, closed, base)

\* No conclusions in the payload, or the breaker open: no call of the arbiter.
SkipsArbiter(w) == Conclusion[job[w]] = {} \/ tripped[w]

\* resolve_inference_conflict starts with the conclusions: unless the arbiter is
\* skipped, each conclusion's active steps are read from the copy.  One with
\* fewer than two is no conflict, one that cannot be read an item without a
\* "conflict": neither is missed afterwards.
Gather(w, unreadable) ==
    /\ At(w, "gather")
    /\ LET shown == (Conclusion[job[w]] \cap copy[w]) \ unreadable IN
       IF SkipsArbiter(w)
       THEN /\ GoTo(w, "premises")
            /\ ok' = [ok EXCEPT ![w] = Conclusion[job[w]] = {}]
            /\ UNCHANGED <<pending, overlooked>>
       ELSE /\ GoTo(w, "arbiter")
            /\ pending' = [pending EXCEPT ![w] = shown]
            /\ overlooked' = [overlooked EXCEPT ![w] = (Conclusion[job[w]] \cap open) \ shown]
            /\ UNCHANGED ok
    /\ UNCHANGED <<vars, sessionVars, breakerVars>>

\* Variant: a batch with a decision counts as resolved, whatever was left out.
BatchResolvesAnyDecision(w, decided, committed) == decided # {} /\ committed

\* The batch resolved the part: every gathered conclusion got a valid decision
\* and the one commit of all decisions went through.  An empty batch of
\* operations is the tool's error "missing_decision", also when nothing was
\* left to decide.
BatchResolves(w, decided, committed) ==
    decided # {} /\ decided = pending[w] /\ committed

\* The breaker hears of a failed batch only when the tool reports no error,
\* that is when some conclusion was decided and another was not.
BatchFailureCounts(w, decided) == decided # {} /\ decided # pending[w]

\* The LLM answers with valid decisions for some of the batch (none of them,
\* when the call fails), and evolve_knowledge commits the decisions.
Arbitrate(w, decided, committed) ==
    /\ At(w, "arbiter")
    /\ decided \subseteq pending[w]
    /\ IF decided = {} THEN ~committed /\ UNCHANGED sessionVars
                       ELSE Commit(w, decided, committed)
    /\ ok' = [ok EXCEPT ![w] = BatchResolves(w, decided, committed)]
    /\ IF BatchFailureCounts(w, decided) THEN RecordFailure(w)
       ELSE IF BatchResolves(w, decided, committed) THEN RecordSuccess(w)
       ELSE UNCHANGED <<failures, tripped>>
    /\ pending' = [pending EXCEPT ![w] = {}]
    /\ GoTo(w, "premises")
    /\ UNCHANGED <<vars, overlooked>>

\* The stale premises that the copy shows are patched in one commit; a step id the
\* copy does not have fails the part, the others being committed anyway, and
\* with nothing to patch there is no commit.
RepairPremises(w, missing, committed) ==
    LET shown == Premise[job[w]] \cap copy[w] IN
    /\ At(w, "premises")
    /\ missing \subseteq Premise[job[w]]
    /\ IF shown \subseteq missing
       THEN ~committed /\ UNCHANGED sessionVars
       ELSE Commit(w, shown \ missing, committed)
    /\ ok' = [ok EXCEPT ![w] = @ /\ missing = {} /\ (committed \/ shown = {})]
    /\ overlooked' = [overlooked EXCEPT ![w] = @ \cup ((Premise[job[w]] \cap open) \ shown)]
    /\ GoTo(w, "end")
    /\ UNCHANGED <<vars, pending, breakerVars>>

-----------------------------------------------------------------------------
(* The protocol steps around it                                            *)

\* The locals of an attempt, before it starts and once it is over.
Fresh(w) ==
    /\ GoTo(w, "gather")
    /\ ok' = [ok EXCEPT ![w] = TRUE]
    /\ pending' = [pending EXCEPT ![w] = {}]
    /\ overlooked' = [overlooked EXCEPT ![w] = {}]

ClaimTask(w) ==
    /\ \E t \in Task : Claim(w, t)
    /\ Fresh(w)
    /\ UNCHANGED <<sessionVars, breakerVars>>

EndResolver(w) ==
    /\ \/ stage[w] = "end" /\ ResolverReturns(w, ok[w])
       \/ ResolverRaises(w)
    /\ excused' = IF success'[w] THEN excused \cup (overlooked[w] \cap open) ELSE excused
    /\ Fresh(w)
    /\ UNCHANGED <<open, copy, breakerVars>>

\* A new process starts with a closed breaker, and with the session as persisted.
RestartAgent(w) ==
    /\ Restart(w)
    /\ failures' = [failures EXCEPT ![w] = 0]
    /\ tripped' = [tripped EXCEPT ![w] = FALSE]
    /\ copy' = [copy EXCEPT ![w] = open]
    /\ UNCHANGED <<open, excused, resolverVars>>

ResolverStep(w) ==
    \/ \E unreadable \in SUBSET Conclusion[job[w]] : Gather(w, unreadable)
    \/ \E decided \in SUBSET pending[w], committed \in BOOLEAN :
            Arbitrate(w, decided, committed)
    \/ \E missing \in SUBSET Premise[job[w]], committed \in BOOLEAN :
            RepairPremises(w, missing, committed)

\* The steps of the outbox that touch neither the session nor the resolver.
OutboxStep ==
    /\ \/ \E t \in Task : Enqueue(t) \/ BackoffElapsed(t)
       \/ \E w \in Worker :
            HeartbeatFires(w) \/ Settle(w) \/ Block(w) \/ Unblock(w) \/ Crash(w)
       \/ Tick
    /\ UNCHANGED inferenceVars

InferenceNext ==
    \/ OutboxStep
    \/ \E w \in Worker :
        \/ ClaimTask(w) \/ ResolverStep(w) \/ EndResolver(w)
        \/ RestartAgent(w) \/ CooldownElapses(w)

InferenceSpec == InferenceInit /\ [][InferenceNext]_allVars

-----------------------------------------------------------------------------
(* Properties                                                              *)

\* Every variable of the resolver and the breaker stays in its domain, and an
\* open breaker has the failures that opened it.
InferenceTypeOK ==
    /\ open \in SUBSET Payload
    /\ copy \in [Worker -> SUBSET Payload]
    /\ stage \in [Worker -> Stage]
    /\ pending \in [Worker -> SUBSET Payload]
    /\ ok \in [Worker -> BOOLEAN]
    /\ failures \in [Worker -> 0..Threshold]
    /\ tripped \in [Worker -> BOOLEAN]
    /\ overlooked \in [Worker -> SUBSET Payload]
    /\ excused \in SUBSET open
    /\ \A w \in Worker : tripped[w] => failures[w] = Threshold

\* A row is deleted only when everything in its payload that its resolvers were
\* shown is closed: over any partial decisions, partial commits, failed parts,
\* crashes and reclaims before, what is still open was kept from an attempt that
\* ended as resolved, by a stale copy or an unreadable conclusion, or was closed
\* and brought back by a commit over a stale copy.
DoneMeansHandled ==
    \A t \in Task :
        status[t] = "DONE" =>
            (Conclusion[t] \cup Premise[t]) \cap open \subseteq excused

\* Does not hold: "a task containing both diagnostic types gets one call per type, and
\* the task only completes once both parts succeed" (critic_agent.py:73-75): a
\* completed task leaves nothing of its payload open.  (A conclusion that could not be
\* read is an item without "conflict", which critic_agent.py:711-715 does not miss.)
DoneMeansResolved ==
    \A t \in Task :
        status[t] = "DONE" => (Conclusion[t] \cup Premise[t]) \cap open = {}

\* Does not hold: "Every conclusion_id resolved to conflict: False ... Treat as
\* resolved: the task described a state that no longer needs action" (critic_agent.py:730-733):
\* when an earlier attempt has settled every conclusion of a task, the batch of
\* this attempt, which finds nothing to arbitrate, does not fail the task.
NothingLeftIsResolved ==
    [][\A w \in Worker :
        stage[w] = "arbiter" /\ stage'[w] = "premises" /\ pending[w] = {}
            => ok'[w]]_allVars

\* Does not hold: the breaker "trips after threshold consecutive LLM-attributable arbitration
\* failures" (critic_agent.py:353-354): a batch in which the arbiter decided
\* nothing of what it was shown is counted.
SilentBatchCounts ==
    [][\A w \in Worker :
        Arbitrate(w, {}, FALSE) /\ pending[w] # {}
            => failures'[w] = Capped(failures[w], Threshold)]_allVars
=============================================================================
