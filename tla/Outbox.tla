------------------------------- MODULE Outbox -------------------------------
(***************************************************************************)
(* The persistent outbox (table cks_outbox_tasks) and the agent workers    *)
(* that drain it: claim one task, resolve it while a heartbeat renews the  *)
(* lease, then complete, fail or dead-letter it                            *)
(* (agents/agent_loop.py and the _process_one of the Critic, Fork and      *)
(* Enrichment agents, which are the same function three times).            *)
(*                                                                         *)
(* The outbox itself is cks-runtime, outside this repository: it is        *)
(* modelled from the calls made here.  Every call names a task by id only; *)
(* no call carries the identity of the claim, so a report is applied to    *)
(* whatever the row holds when it arrives.                                 *)
(***************************************************************************)
EXTENDS Naturals, FiniteSets

CONSTANTS
    Task,               \* the rows that may ever be enqueued
    Worker,             \* agent loops, in one process or in several
    MaxRetries,         \* [Worker -> Nat]: settings.max_retries of each agent
    HeartbeatInterval,  \* settings.heartbeat_interval, in ticks
    StaleAfter,         \* the stale-lease reclaim window of dequeue, in ticks
    MaxFaults,          \* bound: crashes and stalls in a behaviour
    LoopBlocks,         \* does synchronous work (urllib, time.sleep) stall the loop?
    TouchFails          \* may touch_outbox_task raise?

ASSUME SomeoneAssumption == Task # {} /\ Worker # {}
ASSUME RetriesAssumption == MaxRetries \in [Worker -> Nat \ {0}]
ASSUME TimingAssumption ==
    /\ HeartbeatInterval \in Nat \ {0}
    /\ StaleAfter \in Nat
    /\ HeartbeatInterval < StaleAfter
ASSUME FaultAssumption ==
    /\ MaxFaults \in Nat
    /\ LoopBlocks \in BOOLEAN
    /\ TouchFails \in BOOLEAN

VARIABLES
    \* the row of each task
    status,     \* "ABSENT" before it is enqueued, "DONE" once it is deleted
    retry,      \* retry_count
    ready,      \* next_retry_at has passed
    age,        \* ticks since the claim or its last renewal
    claimant,   \* history: the worker of the latest claim
    \* the coroutine of each worker
    pc,         \* where _process_one stands
    job,        \* task["task_id"], of the latest claim
    seen,       \* task["retry_count"] as the claim returned it
    hb,         \* the heartbeat: running, ended by a False, ended by an exception
    beat,       \* ticks since the heartbeat went to sleep
    success,    \* resolution.resolved, once the resolver has ended
    blocked,    \* workers whose event loop is inside a synchronous call
    faults      \* crashes and stalls so far

rowVars == <<status, retry, ready, age, claimant>>
workerVars == <<pc, job, seen, hb, beat, success, blocked>>
vars == <<rowVars, workerVars, faults>>

Status == {"ABSENT", "PENDING", "IN_PROGRESS", "DEAD", "DONE"}
Place == {"idle", "resolving", "settling", "down"}
Heartbeat == {"running", "lost", "raised"}

Init ==
    /\ status = [t \in Task |-> "ABSENT"]
    /\ retry = [t \in Task |-> 0]
    /\ ready = [t \in Task |-> TRUE]
    /\ age = [t \in Task |-> 0]
    /\ claimant = [t \in Task |-> CHOOSE w \in Worker : TRUE]  \* before a claim
    /\ pc = [w \in Worker |-> "idle"]
    /\ job = [w \in Worker |-> CHOOSE t \in Task : TRUE]       \* before a claim
    /\ seen = [w \in Worker |-> 0]
    /\ hb = [w \in Worker |-> "running"]
    /\ beat = [w \in Worker |-> 0]
    /\ success = [w \in Worker |-> FALSE]
    /\ blocked = {}
    /\ faults = 0

-----------------------------------------------------------------------------
(* The outbox rows                                                         *)

\* A detector (gossip, CRDT store, inference event, pipeline) enqueues a task.
Enqueue(t) ==
    /\ status[t] = "ABSENT"
    /\ status' = [status EXCEPT ![t] = "PENDING"]
    /\ UNCHANGED <<retry, ready, age, claimant, workerVars, faults>>

\* The next_retry_at that fail_conflict_task computed has passed.
BackoffElapsed(t) ==
    /\ ~ready[t]
    /\ ready' = [ready EXCEPT ![t] = TRUE]
    /\ UNCHANGED <<status, retry, age, claimant, workerVars, faults>>

\* Variant for the mutation checks: a claimed row is never handed out again.
ClaimablePendingOnly(t) == status[t] = "PENDING" /\ ready[t]

\* Variant: every claimed row may be handed out, its lease running or not.
ClaimableAnytime(t) ==
    \/ status[t] = "PENDING" /\ ready[t]
    \/ status[t] = "IN_PROGRESS"

\* What dequeue_next_outbox_task may hand out: a pending row whose backoff has
\* passed, or a claimed one whose lease nobody renewed within the window.
Claimable(t) ==
    \/ status[t] = "PENDING" /\ ready[t]
    \/ status[t] = "IN_PROGRESS" /\ age[t] >= StaleAfter

-----------------------------------------------------------------------------
(* One worker                                                              *)

\* The event loop of w can run its coroutines.
Runs(w) == w \notin blocked /\ pc[w] # "down"

Working(w) == pc[w] \in {"resolving", "settling"}

\* _process_one claims a task and starts the resolver and its heartbeat.
Claim(w, t) ==
    /\ Runs(w) /\ pc[w] = "idle"
    /\ Claimable(t)
    /\ status' = [status EXCEPT ![t] = "IN_PROGRESS"]
    /\ age' = [age EXCEPT ![t] = 0]
    /\ claimant' = [claimant EXCEPT ![t] = w]
    /\ pc' = [pc EXCEPT ![w] = "resolving"]
    /\ job' = [job EXCEPT ![w] = t]
    /\ seen' = [seen EXCEPT ![w] = retry[t]]
    /\ hb' = [hb EXCEPT ![w] = "running"]
    /\ beat' = [beat EXCEPT ![w] = 0]
    /\ success' = [success EXCEPT ![w] = FALSE]
    /\ UNCHANGED <<retry, ready, blocked, faults>>

\* What touch_outbox_task(job[w]) may answer.  The call names only the task:
\* a row that is not claimed refuses, the caller's own claim is renewed, and
\* on a row another worker has claimed since the answer is left open.
TouchAnswers(w) ==
    IF status[job[w]] # "IN_PROGRESS" THEN {FALSE}
    ELSE IF claimant[job[w]] = w THEN {TRUE}
    ELSE BOOLEAN

HeartbeatDue(w) ==
    pc[w] = "resolving" /\ hb[w] = "running" /\ beat[w] = HeartbeatInterval

\* Variant: the heartbeat goes back to sleep without a renewal.
HeartbeatForgetsRow(w) ==
    /\ Runs(w) /\ HeartbeatDue(w)
    /\ TRUE \in TouchAnswers(w)
    /\ beat' = [beat EXCEPT ![w] = 0]
    /\ UNCHANGED <<rowVars, pc, job, seen, hb, success, blocked, faults>>

\* The heartbeat wakes and the lease is renewed.
HeartbeatRenews(w) ==
    /\ Runs(w) /\ HeartbeatDue(w)
    /\ TRUE \in TouchAnswers(w)
    /\ age' = [age EXCEPT ![job[w]] = 0]
    /\ beat' = [beat EXCEPT ![w] = 0]
    /\ UNCHANGED <<status, retry, ready, claimant, pc, job, seen, hb, success,
                   blocked, faults>>

\* The renewal came back False: lease_lost is set and the heartbeat ends; the
\* resolver goes on.
HeartbeatLosesLease(w) ==
    /\ Runs(w) /\ HeartbeatDue(w)
    /\ FALSE \in TouchAnswers(w)
    /\ hb' = [hb EXCEPT ![w] = "lost"]
    /\ UNCHANGED <<rowVars, pc, job, seen, beat, success, blocked, faults>>

\* The renewal raised: nothing catches it inside _heartbeat, which ends.
HeartbeatRaises(w) ==
    /\ TouchFails
    /\ Runs(w) /\ HeartbeatDue(w)
    /\ hb' = [hb EXCEPT ![w] = "raised"]
    /\ UNCHANGED <<rowVars, pc, job, seen, beat, success, blocked, faults>>

\* The resolver returns a Resolution.  With the lease lost the task is
\* abandoned; with a failed heartbeat the "finally" re-raises its exception,
\* which _process_one reports as an unresolved task.
ResolverReturns(w, resolved) ==
    /\ Runs(w) /\ pc[w] = "resolving"
    /\ IF hb[w] = "lost"
       THEN /\ pc' = [pc EXCEPT ![w] = "idle"]
            /\ UNCHANGED success
       ELSE /\ pc' = [pc EXCEPT ![w] = "settling"]
            /\ success' = [success EXCEPT ![w] = resolved /\ hb[w] = "running"]
    /\ UNCHANGED <<rowVars, job, seen, hb, beat, blocked, faults>>

\* The resolver raises: run_resolver_with_heartbeat never gets to return
\* lease_lost, and _process_one sets it to False.
ResolverRaises(w) ==
    /\ Runs(w) /\ pc[w] = "resolving"
    /\ pc' = [pc EXCEPT ![w] = "settling"]
    /\ success' = [success EXCEPT ![w] = FALSE]
    /\ UNCHANGED <<rowVars, job, seen, hb, beat, blocked, faults>>

\* Variant: the attempts are counted afresh at every claim.
NextRetryFresh(w) == 1

NextRetry(w) == seen[w] + 1

\* complete_outbox_task deletes the row, whatever its status.
Complete(w) ==
    /\ Runs(w) /\ pc[w] = "settling" /\ success[w]
    /\ status' = [status EXCEPT ![job[w]] = "DONE"]
    /\ pc' = [pc EXCEPT ![w] = "idle"]
    /\ UNCHANGED <<retry, ready, age, claimant, job, seen, hb, beat, success,
                   blocked, faults>>

\* An update of a row that was deleted changes nothing.
RowExists(t) == status[t] # "DONE"

\* fail_outbox_task puts the row back with the claimant's count and a backoff.
Fail(w) ==
    /\ Runs(w) /\ pc[w] = "settling" /\ ~success[w]
    /\ NextRetry(w) < MaxRetries[w]
    /\ IF RowExists(job[w])
       THEN /\ status' = [status EXCEPT ![job[w]] = "PENDING"]
            /\ retry' = [retry EXCEPT ![job[w]] = NextRetry(w)]
            /\ ready' = [ready EXCEPT ![job[w]] = FALSE]
       ELSE UNCHANGED <<status, retry, ready>>
    /\ pc' = [pc EXCEPT ![w] = "idle"]
    /\ UNCHANGED <<age, claimant, job, seen, hb, beat, success, blocked, faults>>

\* dead_letter_outbox_task marks the row DEAD, whatever its status.
DeadLetter(w) ==
    /\ Runs(w) /\ pc[w] = "settling" /\ ~success[w]
    /\ NextRetry(w) >= MaxRetries[w]
    /\ status' = [status EXCEPT ![job[w]] = IF RowExists(job[w]) THEN "DEAD" ELSE @]
    /\ pc' = [pc EXCEPT ![w] = "idle"]
    /\ UNCHANGED <<retry, ready, age, claimant, job, seen, hb, beat, success,
                   blocked, faults>>

-----------------------------------------------------------------------------
(* Time and faults                                                         *)

\* A synchronous call (an LLM request over urllib, a retry's time.sleep) of
\* this resolver, or of another agent on the same event loop, begins ...
Block(w) ==
    /\ LoopBlocks /\ faults < MaxFaults
    /\ Runs(w)
    /\ blocked' = blocked \cup {w}
    /\ faults' = faults + 1
    /\ UNCHANGED <<rowVars, pc, job, seen, hb, beat, success>>

\* ... and ends.
Unblock(w) ==
    /\ w \in blocked
    /\ blocked' = blocked \ {w}
    /\ UNCHANGED <<rowVars, pc, job, seen, hb, beat, success, faults>>

\* The process dies, the server's shutdown cancels the agent, or a storage
\* error in a report ends its loop: a claimed row stays IN_PROGRESS.
Crash(w) ==
    /\ faults < MaxFaults
    /\ pc[w] # "down"
    /\ pc' = [pc EXCEPT ![w] = "down"]
    /\ blocked' = blocked \ {w}
    /\ faults' = faults + 1
    /\ UNCHANGED <<rowVars, job, seen, hb, beat, success>>

\* The agent is started again with nothing in memory.
Restart(w) ==
    /\ pc[w] = "down"
    /\ pc' = [pc EXCEPT ![w] = "idle"]
    /\ UNCHANGED <<rowVars, job, seen, hb, beat, success, blocked, faults>>

\* A timer that is due fires, and a report is sent, within a tick of a loop
\* that runs: a tick is the heartbeat interval's unit, tens of seconds.
Urgent(w) == Runs(w) /\ (HeartbeatDue(w) \/ pc[w] = "settling")

Capped(n, cap) == IF n < cap THEN n + 1 ELSE cap

\* A tick of the clock.  age and beat stop where nothing distinguishes them.
Tick ==
    /\ \A w \in Worker : ~Urgent(w)
    /\ age' = [t \in Task |-> IF status[t] = "IN_PROGRESS"
                              THEN Capped(age[t], StaleAfter) ELSE age[t]]
    /\ beat' = [w \in Worker |-> IF pc[w] = "resolving" /\ hb[w] = "running"
                                 THEN Capped(beat[w], HeartbeatInterval)
                                 ELSE beat[w]]
    /\ UNCHANGED <<status, retry, ready, claimant, pc, job, seen, hb, success,
                   blocked, faults>>

-----------------------------------------------------------------------------
Settle(w) == Complete(w) \/ Fail(w) \/ DeadLetter(w)

ResolverEnds(w) == ResolverRaises(w) \/ \E r \in BOOLEAN : ResolverReturns(w, r)

HeartbeatFires(w) ==
    HeartbeatRenews(w) \/ HeartbeatLosesLease(w) \/ HeartbeatRaises(w)

WorkerStep(w) ==
    \/ \E t \in Task : Claim(w, t)
    \/ HeartbeatFires(w)
    \/ ResolverEnds(w)
    \/ Settle(w)

FaultStep(w) == Block(w) \/ Unblock(w) \/ Crash(w) \/ Restart(w)

Next ==
    \/ \E t \in Task : Enqueue(t) \/ BackoffElapsed(t)
    \/ \E w \in Worker : WorkerStep(w) \/ FaultStep(w)
    \/ Tick

Spec == Init /\ [][Next]_vars

\* Time passes, blocking calls end (every one has a timeout) and an agent that
\* runs keeps running: it polls, its timers fire, its resolver (a finite
\* program) ends, its report is sent.  Nobody must crash, be restarted or be
\* enqueued.
Fairness ==
    /\ WF_vars(Tick)
    /\ \A t \in Task : WF_vars(BackoffElapsed(t))
    /\ \A w \in Worker :
        /\ WF_vars(Unblock(w))
        /\ WF_vars(\E t \in Task : Claim(w, t))
        /\ WF_vars(HeartbeatFires(w))
        /\ WF_vars(ResolverEnds(w))
        /\ WF_vars(Settle(w))

FairSpec == Spec /\ Fairness

-----------------------------------------------------------------------------
(* Properties                                                              *)

\* Every variable stays in its domain; ages and budgets stay within bounds.
TypeOK ==
    /\ status \in [Task -> Status]
    /\ retry \in [Task -> Nat]
    /\ ready \in [Task -> BOOLEAN]
    /\ age \in [Task -> 0..StaleAfter]
    /\ claimant \in [Task -> Worker]
    /\ pc \in [Worker -> Place]
    /\ job \in [Worker -> Task]
    /\ seen \in [Worker -> Nat]
    /\ hb \in [Worker -> Heartbeat]
    /\ beat \in [Worker -> 0..HeartbeatInterval]
    /\ success \in [Worker -> BOOLEAN]
    /\ blocked \in SUBSET Worker
    /\ faults \in 0..MaxFaults

Holds(w) == Working(w) /\ status[job[w]] = "IN_PROGRESS" /\ claimant[job[w]] = w

\* A slow resolution does not "get picked up by a second worker while this one
\* is still working it" (agent_loop.py:58-63): no task is ever being resolved
\* or reported by two workers at once.
ExclusiveResolution ==
    \A v, w \in Worker : v # w /\ Working(v) /\ Working(w) => job[v] # job[w]

\* complete, fail and dead_letter take a task id and no proof of a claim: still,
\* whoever calls them holds the claim at that moment, so no report ever lands
\* on a row that another worker claimed, finished or gave up.
ReportByHolder == [][\A w \in Worker : Settle(w) => Holds(w)]_vars

\* fail_outbox_task overwrites retry_count with a snapshot taken at the claim:
\* no overwrite is lost or repeated, so a row is DEAD only when the attempts
\* that failed used up the budget of some agent that serves it.
DeadAfterBudget ==
    \A t \in Task : status[t] = "DEAD" =>
        \E w \in Worker : retry[t] + 1 >= MaxRetries[w]

\* However late a loop runs: when a worker's heartbeat last beat less than an
\* interval ago, the lease of the row it holds is at least that young, so the
\* row is not up for reclaim.
LeaseFollowsHeartbeat ==
    \A w \in Worker :
        /\ Holds(w) /\ pc[w] = "resolving" /\ hb[w] = "running"
        /\ beat[w] < HeartbeatInterval
        => age[job[w]] <= beat[w]

\* A worker that abandons its task because a renewal came back False never
\* leaves behind a row that is still its own claim (which would then wait for
\* the whole reclaim window with nobody working on it).
AbandonedIsNotHeld ==
    \A w \in Worker : Holds(w) => hb[w] # "lost"

\* Whatever crashes, stalls and storage errors do to the workers, every task
\* that waits or is claimed is in the end deleted or dead-lettered, unless there
\* comes a moment with every agent down.  (Each stall may cost an attempt that
\* is never counted, so the faults must be finitely many.)
EventuallySettled ==
    \A t \in Task :
        status[t] \in {"PENDING", "IN_PROGRESS"}
            ~> \/ status[t] \in {"DONE", "DEAD"}
               \/ \A w \in Worker : pc[w] = "down"

\* Does not hold: "If lease_lost is True ... its outcome must not be reported via
\* complete/fail/dead_letter" (agent_loop.py:64-68).
LostLeaseNotReported == [][\A w \in Worker : hb[w] = "lost" => ~Settle(w)]_vars

-----------------------------------------------------------------------------
(* The abstract lifecycle this implements                                  *)

\* The worker of the latest claim is still at work on t.
Owned(t) == Working(claimant[t]) /\ job[claimant[t]] = t

PhaseOf(t) ==
    CASE status[t] = "ABSENT" -> "absent"
      [] status[t] = "PENDING" -> "queued"
      [] status[t] = "DONE" -> "done"
      [] status[t] = "DEAD" -> "dead"
      [] OTHER -> IF Owned(t) THEN "owned" ELSE "orphan"

Life == INSTANCE TaskLifecycle WITH
    Budget <- MaxRetries,
    phase <- [t \in Task |-> PhaseOf(t)],
    owner <- claimant,
    attempts <- retry

\* With heartbeats that run on time, claiming, renewing, reporting and crashing
\* implement the lifecycle in which one owner at a time decides a task's fate.
ImplementsLifecycle == Life!LifeSpec
=============================================================================
