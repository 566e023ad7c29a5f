----------------------------- MODULE PipelineRun -----------------------------
(***************************************************************************)
(* A run of CKSAgentOrchestrator: the queues of its steps drained one      *)
(* after the other or concurrently, under a token budget that all drains   *)
(* share, in a sandbox that is merged when nothing went wrong.  Between    *)
(* runs the pipeline agent polls.  Pipeline has what the Researcher and    *)
(* the Reviewer do to one object; here a step succeeds, fails, loses its   *)
(* lease or takes the drain loop down with it, except that a review of an  *)
(* object that is not in the session fails.                                *)
(***************************************************************************)
EXTENDS Integers, FiniteSetsExt

CONSTANTS
    Task,           \* outbox tasks
    StepOf,         \* [Task -> Step]: the queue a task is in
    Follow,         \* [Task -> Task \cup {NoTask}]: what its success enqueues
    Unreviewable,   \* reviews of objects no session has (what the Synthesizer enqueues)
    NoTask,
    StepCount,      \* steps of the orchestrator, in order
    MaxCalls,       \* max_tokens, in calls of the estimated size
    MaxRetries,     \* attempts before a task is dead-lettered
    MaxFaults       \* bound: lost leases, storage errors, crashes

Step == 1..StepCount

ASSUME RunTasks ==
    /\ StepOf \in [Task -> Step] /\ Follow \in [Task -> Task \cup {NoTask}]
    /\ NoTask \notin Task /\ Unreviewable \subseteq Task
ASSUME RunBounds == MaxRetries \in Nat \ {0} /\ {MaxCalls, MaxFaults, StepCount} \subseteq Nat

VARIABLES
    task,       \* [Task -> [state, retry]]
    run,        \* the run: [on, mode, sandbox, at, spent, exhausted, merged]
    drain,      \* [Step -> [pc, task, ok, failed, refused, error]]: its drain loops
    parent,     \* tasks whose results are in the parent session
    spoiled,    \* history: tasks of which an attempt failed or broke off in this run
    calls,      \* history: [Step -> Nat]: calls of the step in this run
    faults

vars == <<task, run, drain, parent, spoiled, calls, faults>>

NoRun == [on |-> FALSE, mode |-> "sequential", sandbox |-> FALSE, at |-> 1,
          spent |-> 0, exhausted |-> FALSE, merged |-> FALSE]
NoDrain == [pc |-> "idle", task |-> NoTask, ok |-> FALSE,
            failed |-> FALSE, refused |-> FALSE, error |-> FALSE]

Enqueued(t) == task[t].state # "none"

\* Any of the tasks that are not follow-ups may have been enqueued (start_pipeline, sweepers).
Init ==
    /\ task \in [Task -> {[state |-> s, retry |-> 0] : s \in {"none", "pending"}}]
    /\ \A t \in Task : Enqueued(t) => \A u \in Task : Follow[u] # t
    /\ run = NoRun /\ drain = [s \in Step |-> NoDrain]
    /\ parent = {} /\ spoiled = {} /\ calls = [s \in Step |-> 0]
    /\ faults = 0

-----------------------------------------------------------------------------
(* The start of a run                                                       *)

Begins(s, mode) == mode = "concurrent" \/ s = 1

(* _enter_sandbox: with a parent session it is forked, or, when that fails, the run     *)
(* goes on without a sandbox.  The run cache is looked up at an object that nothing     *)
(* adds, so it never answers.                                                          *)
StartRun(mode, sandbox) ==
    /\ ~run.on
    /\ run' = [NoRun EXCEPT !.on = TRUE, !.mode = mode, !.sandbox = sandbox]
    /\ drain' = [s \in Step |-> IF Begins(s, mode) THEN [NoDrain EXCEPT !.pc = "claim"] ELSE NoDrain]
    /\ spoiled' = {} /\ calls' = [s \in Step |-> 0]
    /\ UNCHANGED <<task, parent, faults>>

-----------------------------------------------------------------------------
(* _drain_step                                                              *)

Set(s, d) == drain' = [drain EXCEPT ![s] = d]
Pending(s) == {t \in Task : StepOf[t] = s /\ task[t].state = "pending"}

Claim(s, t) ==
    /\ drain[s].pc = "claim" /\ t \in Pending(s)
    /\ task' = [task EXCEPT ![t].state = "claimed"]
    /\ Set(s, [drain[s] EXCEPT !.pc = "budget", !.task = t])
    /\ UNCHANGED <<run, parent, spoiled, calls, faults>>

QueueEmpty(s) ==
    /\ drain[s].pc = "claim" /\ Pending(s) = {}
    /\ Set(s, [drain[s] EXCEPT !.pc = "ended"])
    /\ UNCHANGED <<task, run, parent, spoiled, calls, faults>>

\* Variant: every drain has the budget to itself.
HasRoomEach(s) == calls[s] < MaxCalls
\* TokenBudget.consume: once it has refused it refuses for good.
HasRoom(s) == ~run.exhausted /\ run.spent < MaxCalls

CallStep(s) ==
    /\ drain[s].pc = "budget" /\ ~drain[s].refused /\ HasRoom(s)
    /\ run' = [run EXCEPT !.spent = @ + 1]
    /\ Set(s, [drain[s] EXCEPT !.pc = "run"])
    /\ calls' = [calls EXCEPT ![s] = @ + 1]
    /\ UNCHANGED <<task, parent, spoiled, faults>>

\* Without room the task fails with "budget_exhausted", and so does every later one.
RefuseStep(s) ==
    /\ drain[s].pc = "budget" /\ (drain[s].refused \/ ~HasRoom(s))
    /\ run' = [run EXCEPT !.exhausted = TRUE]
    /\ Set(s, [drain[s] EXCEPT !.pc = "report", !.ok = FALSE, !.refused = TRUE])
    /\ UNCHANGED <<task, parent, spoiled, calls, faults>>

(* The step commits to the session the task names, the parent, unless the log there    *)
(* has its entry for this content already.                                             *)
StepCommits(s) ==
    LET t == drain[s].task IN
    /\ drain[s].pc = "run" /\ t \notin Unreviewable
    /\ parent' = parent \cup {t}
    /\ Set(s, [drain[s] EXCEPT !.pc = "hand on", !.ok = t \notin parent])
    /\ UNCHANGED <<task, run, spoiled, calls, faults>>

\* Variant: what was committed by an earlier attempt is not handed on again.
HandsOnFresh(s) == drain[s].ok
HandsOn(s) == TRUE

(* It enqueues the task of the next stage, on the path that did the work and on the     *)
(* one that skipped it.  A second task for one object is left out (Pipeline has them). *)
StepHandsOn(s) ==
    LET next == Follow[drain[s].task] IN
    /\ drain[s].pc = "hand on"
    /\ task' = IF HandsOn(s) /\ next # NoTask /\ ~Enqueued(next)
               THEN [task EXCEPT ![next].state = "pending"] ELSE task
    /\ Set(s, [drain[s] EXCEPT !.pc = "report", !.ok = TRUE])
    /\ UNCHANGED <<run, parent, spoiled, calls, faults>>

\* A failed LLM call, an answer that cannot be parsed, a refused commit or enqueue.
StepFails(s) ==
    /\ drain[s].pc \in {"run", "hand on"}
    /\ Set(s, [drain[s] EXCEPT !.pc = "report", !.ok = FALSE])
    /\ UNCHANGED <<task, run, parent, spoiled, calls, faults>>

(* A heartbeat was refused: another worker had taken the task, and let go of it again.  *)
(* The step went on to its end, commit and hand-on included, but is not reported.      *)
LeaseLost(s) ==
    /\ drain[s].pc = "report" /\ ~drain[s].refused /\ faults < MaxFaults
    /\ faults' = faults + 1
    /\ task' = [task EXCEPT ![drain[s].task].state = "pending"]
    /\ Set(s, [drain[s] EXCEPT !.pc = "claim", !.task = NoTask])
    /\ UNCHANGED <<run, parent, spoiled, calls>>

NextRetry(t) == task[t].retry + 1
GivesUp(t) == NextRetry(t) >= MaxRetries

\* complete, fail (with a backoff) or dead_letter.
Report(s) ==
    LET t == drain[s].task IN
    /\ drain[s].pc = "report"
    /\ task' = [task EXCEPT ![t] =
                    IF drain[s].ok THEN [state |-> "done", retry |-> 0]
                    ELSE IF GivesUp(t) THEN [state |-> "dead", retry |-> 0]
                    ELSE [state |-> "waiting", retry |-> NextRetry(t)]]
    /\ spoiled' = IF drain[s].ok THEN spoiled ELSE spoiled \cup {t}
    /\ Set(s, [drain[s] EXCEPT !.pc = "claim", !.task = NoTask, !.failed = @ \/ ~drain[s].ok])
    /\ UNCHANGED <<run, parent, calls, faults>>

BackoffElapses(t) ==
    /\ task[t].state = "waiting"
    /\ task' = [task EXCEPT ![t].state = "pending"]
    /\ UNCHANGED <<run, drain, parent, spoiled, calls, faults>>

(* The storage or the event bus raises: the loop ends and says so, a task it holds     *)
(* stays claimed.                                                                      *)
DrainAborts(s) ==
    /\ drain[s].pc \in {"claim", "budget", "report"} /\ faults < MaxFaults
    /\ faults' = faults + 1
    /\ spoiled' = spoiled \cup ({drain[s].task} \ {NoTask})
    /\ Set(s, [drain[s] EXCEPT !.pc = "ended", !.task = NoTask, !.error = TRUE])
    /\ UNCHANGED <<task, run, parent, calls>>

\* The lease of a task that nobody works on runs out.
LeaseExpires(t) ==
    /\ task[t].state = "claimed" /\ \A s \in Step : drain[s].task # t
    /\ task' = [task EXCEPT ![t].state = "pending"]
    /\ UNCHANGED <<run, drain, parent, spoiled, calls, faults>>

-----------------------------------------------------------------------------
(* run_sequential, run_concurrent                                           *)

Degrades(s) == drain[s].failed \/ drain[s].refused

\* Variant: only a failed attempt, not the budget, stops the sequence.
StopsAtFailureOnly(s) == drain[s].failed /\ ~drain[s].refused
\* A failed task or an exhausted budget stops it; an error of the loop does not.
Stops(s) == Degrades(s)

NextStep ==
    LET s == run.at IN
    /\ run.on /\ run.mode = "sequential" /\ drain[s].pc = "ended"
    /\ ~Stops(s) /\ s < StepCount
    /\ run' = [run EXCEPT !.at = s + 1]
    /\ Set(s + 1, [NoDrain EXCEPT !.pc = "claim"])
    /\ UNCHANGED <<task, parent, spoiled, calls, faults>>

AllDrained ==
    /\ run.on
    /\ IF run.mode = "sequential" THEN /\ drain[run.at].pc = "ended"
                                       /\ Stops(run.at) \/ run.at = StepCount
       ELSE \A s \in Step : drain[s].pc = "ended"

\* Variant: an error of a drain loop is not looked at.
CleanButForErrors == \A s \in Step : ~Degrades(s)
Clean == \A s \in Step : ~Degrades(s) /\ ~drain[s].error

(* _exit_sandbox: a clean run merges, which may end in a conflict with what others      *)
(* committed to the parent; the sandbox session stays open in any case.                *)
ExitRun(merges) ==
    /\ AllDrained
    /\ merges => run.sandbox /\ Clean
    /\ run' = [run EXCEPT !.on = FALSE, !.merged = merges]
    /\ drain' = [s \in Step |-> NoDrain]
    /\ UNCHANGED <<task, parent, spoiled, calls, faults>>

\* The agent's process dies: run and drains are gone, the leases will run out.
Crash ==
    /\ run.on /\ faults < MaxFaults
    /\ faults' = faults + 1
    /\ run' = NoRun
    /\ drain' = [s \in Step |-> NoDrain]
    /\ UNCHANGED <<task, parent, spoiled, calls>>

-----------------------------------------------------------------------------
DrainStep(s) ==
    \/ \E t \in Task : Claim(s, t)
    \/ QueueEmpty(s)
    \/ CallStep(s) \/ RefuseStep(s)
    \/ StepCommits(s) \/ StepHandsOn(s) \/ StepFails(s)
    \/ Report(s)

Orchestrate ==
    \/ \E mode \in {"sequential", "concurrent"}, sandbox \in BOOLEAN : StartRun(mode, sandbox)
    \/ NextStep
    \/ \E merges \in BOOLEAN : ExitRun(merges)

Next ==
    \/ Orchestrate \/ Crash
    \/ \E s \in Step : DrainStep(s) \/ LeaseLost(s) \/ DrainAborts(s)
    \/ \E t \in Task : BackoffElapses(t) \/ LeaseExpires(t)

Spec == Init /\ [][Next]_vars

-----------------------------------------------------------------------------
(* Properties                                                               *)

(* However the concurrent drains of a run interleave between a claim and a call, the    *)
(* steps are called no more often than the run's budget has room for.                  *)
BudgetCapsCalls == MapThenSumSet(LAMBDA s : calls[s], Step) <= MaxCalls

(* A run is merged only if every task it claimed was completed, or taken over by        *)
(* another worker: none failed, none was refused, none was left behind by an error.    *)
MergedIsClean == run.merged => spoiled = {}

(* Once a task of a step has failed or was refused, a sequential run claims no task of *)
(* a later step.                                                                       *)
NothingAfterFailure ==
    [][\A s \in Step, t \in spoiled :
          run.mode = "sequential" /\ run.on /\ StepOf[t] < s /\ Degrades(StepOf[t])
          => ~(drain[s].pc = "claim" /\ drain'[s].pc = "budget")]_vars

(* A completed task has handed its object on to the next stage, though an attempt may   *)
(* have ended between its commit and the enqueue.                                      *)
DoneIsHandedOn == \A t \in Task : task[t].state = "done" /\ Follow[t] # NoTask => Enqueued(Follow[t])

(* Does not hold: "every step in this call runs inside a fork_sandbox branch of         *)
(* parent_session_id, merged back only once every step has finished cleanly"            *)
(* (orchestrator.py:640-642).  A sandboxed run does not change the parent before it is   *)
(* merged.                                                                              *)
SandboxIsolates == [][run.sandbox /\ run.on => parent' = parent]_vars
=============================================================================
