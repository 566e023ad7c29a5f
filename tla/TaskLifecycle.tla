---------------------------- MODULE TaskLifecycle ----------------------------
(***************************************************************************)
(* What the outbox and its agents promise together: a task is owned by at  *)
(* most one worker at a time, only its owner decides its fate, a failed    *)
(* attempt is counted exactly once, a worker that dies leaves its task to  *)
(* be taken again, and a task is given up only once its attempts are used. *)
(* No lease, no clock, no heartbeat.                                       *)
(***************************************************************************)
EXTENDS Naturals

CONSTANTS Task, Worker, Budget

VARIABLES phase, owner, attempts

lvars == <<phase, owner, attempts>>

\* "contested": two operators reached for the task at once (see Contest).
Phase == {"absent", "queued", "owned", "orphan", "done", "dead", "contested"}

LifeInit ==
    /\ phase = [t \in Task |-> "absent"]
    /\ owner \in [Task -> Worker]
    /\ attempts = [t \in Task |-> 0]

Owns(w, t) == phase[t] = "owned" /\ owner[t] = w

Moves(t, to) == phase' = [phase EXCEPT ![t] = to]

Submit(t) ==
    /\ phase[t] = "absent"
    /\ Moves(t, "queued")
    /\ UNCHANGED <<owner, attempts>>

Take(w, t) ==
    /\ phase[t] \in {"queued", "orphan"}
    /\ \A u \in Task : ~Owns(w, u)
    /\ Moves(t, "owned")
    /\ owner' = [owner EXCEPT ![t] = w]
    /\ UNCHANGED attempts

Succeed(w, t) ==
    /\ Owns(w, t)
    /\ Moves(t, "done")
    /\ UNCHANGED <<owner, attempts>>

Retry(w, t) ==
    /\ Owns(w, t)
    /\ attempts[t] + 1 < Budget[w]
    /\ Moves(t, "queued")
    /\ attempts' = [attempts EXCEPT ![t] = @ + 1]
    /\ UNCHANGED owner

GiveUp(w, t) ==
    /\ Owns(w, t)
    /\ attempts[t] + 1 >= Budget[w]
    /\ Moves(t, "dead")
    /\ UNCHANGED <<owner, attempts>>

\* The owner of t dies; its attempt is not counted.
Orphan(t) ==
    /\ phase[t] = "owned"
    /\ Moves(t, "orphan")
    /\ UNCHANGED <<owner, attempts>>

LifeNext ==
    \E t \in Task :
        \/ Submit(t)
        \/ Orphan(t)
        \/ \E w \in Worker : Take(w, t) \/ Succeed(w, t) \/ Retry(w, t) \/ GiveUp(w, t)

LifeSpec == LifeInit /\ [][LifeNext]_lvars

(* Operators may take a task that was given up out of the agents' hands for *)
(* good, or put it back with its attempts forgotten; they touch no other.   *)

Discard(t) ==
    /\ phase[t] = "dead"
    /\ Moves(t, "done")
    /\ UNCHANGED <<owner, attempts>>

Reopen(t) ==
    /\ phase[t] = "dead"
    /\ Moves(t, "queued")
    /\ attempts' = [attempts EXCEPT ![t] = 0]
    /\ UNCHANGED owner

\* Two operators reach for a task that was given up: nothing is promised about
\* it from then on, and everything still is about the others.
Contest(t) ==
    /\ phase[t] \in {"dead", "contested"}
    /\ Moves(t, "contested")
    /\ owner' = [owner EXCEPT ![t] = owner'[t]]
    /\ attempts' = [attempts EXCEPT ![t] = attempts'[t]]

OperatedNext == LifeNext \/ \E t \in Task : Discard(t) \/ Reopen(t) \/ Contest(t)

OperatedSpec == LifeInit /\ [][OperatedNext]_lvars
=============================================================================
