-------------------------- MODULE DeadLetterReview --------------------------
(***************************************************************************)
(* The operator's side of the outbox: MCP tools that approve, reject or    *)
(* retry a dead-lettered task while the agents keep draining the queue.    *)
(* approve_resolution and reject_resolution look the task up among the     *)
(* DEAD rows, await other calls, and then act on the row by id alone.      *)
(* (review_dead_letter and list_dead_lettered_conflicts only read.)        *)
(*                                                                         *)
(* A stdio server answers one request at a time; an HTTP server, or several*)
(* servers on one storage, have several in flight.  Nothing locks a row    *)
(* against a second request, so what is promised is promised per task: for *)
(* every task that two requests never held at once.                        *)
(***************************************************************************)
EXTENDS Outbox

CONSTANTS
    Handler,        \* the requests that may be in flight at once
    Approvable      \* tasks whose task_type has a resolution tool

ASSUME ApprovableAssumption == Approvable \subseteq Task

VARIABLES
    request,    \* [Handler -> STRING]: the step of the request it serves
    target,     \* [Handler -> Task]: the request's task_id (NoTarget without one)
    contended   \* history: tasks reached for while another request held them

reviewVars == <<request, target, contended>>

Request == {"none", "approving", "completing", "rejecting"}

NoTarget == CHOOSE t \in Task : TRUE

ReviewInit ==
    /\ Init
    /\ request = [h \in Handler |-> "none"]
    /\ target = [h \in Handler |-> NoTarget]
    /\ contended = {}

\* Variant for the mutation checks: the handler takes the id for a dead-lettered
\* task without a look-up.
DeadRowUnchecked(t) == status[t] # "ABSENT"

\* The task was found by list_dead_letter_tasks; otherwise the tool answers
\* "task_not_dead_lettered" and changes nothing.
DeadRow(t) == status[t] = "DEAD"

\* Another request is between its look-up of t and its write.
HeldByAnother(h, t) == \E g \in Handler \ {h} : request[g] # "none" /\ target[g] = t

Reach(h, t) ==
    contended' = IF HeldByAnother(h, t) THEN contended \cup {t} ELSE contended

Serve(h, from, to) ==
    /\ request[h] = from
    /\ request' = [request EXCEPT ![h] = to]

Answer(h, from) ==
    /\ Serve(h, from, "none")
    /\ target' = [target EXCEPT ![h] = NoTarget]

\* approve_resolution up to the call of the resolution tool.
StartApprove(h, t) ==
    /\ Serve(h, "none", "approving")
    /\ DeadRow(t) /\ t \in Approvable
    /\ target' = [target EXCEPT ![h] = t]
    /\ Reach(h, t)
    /\ UNCHANGED vars

\* The resolution tool returns: a failure leaves the task as it was.
ResolutionEnds(h, succeeded) ==
    /\ IF succeeded
       THEN Serve(h, "approving", "completing") /\ UNCHANGED target
       ELSE Answer(h, "approving")
    /\ UNCHANGED <<vars, contended>>

\* complete_outbox_task(task_id) deletes the row, whatever its status.
FinishApprove(h) ==
    /\ Answer(h, "completing")
    /\ status' = [status EXCEPT ![target[h]] = "DONE"]
    /\ UNCHANGED <<retry, ready, age, claimant, workerVars, faults, contended>>

StartReject(h, t) ==
    /\ Serve(h, "none", "rejecting")
    /\ DeadRow(t)
    /\ target' = [target EXCEPT ![h] = t]
    /\ Reach(h, t)
    /\ UNCHANGED vars

\* dead_letter_outbox_task(task_id, reason) marks the row DEAD, whatever its status.
FinishReject(h) ==
    /\ Answer(h, "rejecting")
    /\ status' = [status EXCEPT ![target[h]] = IF RowExists(target[h]) THEN "DEAD" ELSE @]
    /\ UNCHANGED <<retry, ready, age, claimant, workerVars, faults, contended>>

\* retry_dead_letter_task moves DEAD to PENDING, the attempts counted afresh,
\* in one call of the storage.
RetryDeadLetter(h, t) ==
    /\ request[h] = "none"
    /\ DeadRow(t)
    /\ status' = [status EXCEPT ![t] = "PENDING"]
    /\ retry' = [retry EXCEPT ![t] = 0]
    /\ ready' = [ready EXCEPT ![t] = TRUE]
    /\ Reach(h, t)
    /\ UNCHANGED <<age, claimant, workerVars, faults, request, target>>

\* The server dies inside a request, or a resolution tool raises.
RequestLost(h) ==
    /\ request[h] # "none"
    /\ Answer(h, request[h])
    /\ UNCHANGED <<vars, contended>>

HandlerStep(h) ==
    \/ \E t \in Task : StartApprove(h, t) \/ StartReject(h, t) \/ RetryDeadLetter(h, t)
    \/ \E succeeded \in BOOLEAN : ResolutionEnds(h, succeeded)
    \/ FinishApprove(h)
    \/ FinishReject(h)
    \/ RequestLost(h)

ReviewNext ==
    \/ Next /\ UNCHANGED reviewVars
    \/ \E h \in Handler : HandlerStep(h)

ReviewSpec == ReviewInit /\ [][ReviewNext]_<<vars, reviewVars>>

-----------------------------------------------------------------------------
(* Properties                                                              *)

\* Every request names a task and stands at a known step.
ReviewTypeOK ==
    /\ request \in [Handler -> Request]
    /\ target \in [Handler -> Task]
    /\ contended \in SUBSET Task

\* The look-up an approval or a rejection made at its start still holds when it
\* acts, unless another request reached for the task meanwhile: agents never
\* take a row away from an operator, so a rejection "never retries ... and never
\* removes it", and an approval deletes no row that is being worked on.
ReviewedStaysDead ==
    \A h \in Handler :
        request[h] # "none" /\ target[h] \notin contended => status[target[h]] = "DEAD"

\* No operator action reaches into a claim: while an agent works on a task its
\* row is the agent's, whatever operators approve, reject or retry, as long as
\* no two of their requests ever held this task at once.  What happens to a
\* contended task does not spread to any other.
ClaimsUndisturbed ==
    \A w \in Worker : Working(w) /\ job[w] \notin contended => Holds(w)

\* Does not hold: reject_resolution is "exactly the mechanical, no-status-transition
\* behavior this tool needs" (reject_resolution/handler.py:11-16).
RejectionChangesNoStatus == [][\A h \in Handler : FinishReject(h) => UNCHANGED status]_vars

-----------------------------------------------------------------------------
(* The abstract lifecycle with operators that this implements              *)

Operated == INSTANCE TaskLifecycle WITH
    Budget <- MaxRetries,
    phase <- [t \in Task |-> IF t \in contended THEN "contested" ELSE PhaseOf(t)],
    owner <- claimant,
    attempts <- retry

\* Agents with heartbeats on time and operators beside them keep the promise: an
\* owner alone decides the fate of a task it works on, and operators that of a
\* task given up; only a task given up can be contested, and a contested one
\* disturbs no other.
ImplementsOperatedLifecycle == Operated!OperatedSpec
=============================================================================
