---------------------------- MODULE OutboxProofs ----------------------------
(***************************************************************************)
(* Theorems of Outbox, and of the two modules that run its workers inside  *)
(* more of the system: DeadLetterReview, with the operator's tools beside  *)
(* the agents, and InferenceResolver, with the resolver they run.  Their   *)
(* steps of the outbox are Outbox's own, so its step lemmas carry over.    *)
(* For any tasks, payloads, agents, budgets, intervals and faults.         *)
(***************************************************************************)
EXTENDS DeadLetterReview, InferenceResolver, TLAPS

USE DEF Status, Place, Heartbeat

-----------------------------------------------------------------------------
(* Type correctness                                                        *)

LEMMA TypeInit == Init => TypeOK
BY SomeoneAssumption, TimingAssumption, FaultAssumption DEF Init, TypeOK

LEMMA TypeStep == TypeOK /\ [Next]_vars => TypeOK'
<1> SUFFICES ASSUME TypeOK, [Next]_vars
             PROVE  TypeOK'
  OBVIOUS
<1> USE TimingAssumption, FaultAssumption DEF TypeOK, rowVars, workerVars
<1>1. ASSUME NEW t \in Task, Enqueue(t) PROVE TypeOK'
  BY <1>1 DEF Enqueue
<1>2. ASSUME NEW t \in Task, BackoffElapsed(t) PROVE TypeOK'
  BY <1>2 DEF BackoffElapsed
<1>3. ASSUME NEW w \in Worker, WorkerStep(w) PROVE TypeOK'
  <2>1. ASSUME NEW t \in Task, Claim(w, t) PROVE TypeOK'
    BY <2>1 DEF Claim
  <2>2. CASE HeartbeatFires(w)
    <3>1. CASE HeartbeatRenews(w)
      <4>1. age' \in [Task -> 0..StaleAfter] /\ beat' \in [Worker -> 0..HeartbeatInterval]
        BY <3>1 DEF HeartbeatRenews
      <4>2. QED BY <3>1, <4>1 DEF HeartbeatRenews
    <3>2. CASE HeartbeatLosesLease(w)
      BY <3>2 DEF HeartbeatLosesLease
    <3>3. CASE HeartbeatRaises(w)
      BY <3>3 DEF HeartbeatRaises
    <3>4. QED BY <2>2, <3>1, <3>2, <3>3 DEF HeartbeatFires
  <2>3. ASSUME NEW r \in BOOLEAN, ResolverReturns(w, r) PROVE TypeOK'
    <3>1. (r /\ hb[w] = "running") \in BOOLEAN
      OBVIOUS
    <3> HIDE DEF Heartbeat
    <3>2. QED BY <2>3, <3>1 DEF ResolverReturns
  <2>4. CASE ResolverRaises(w)
    BY <2>4 DEF ResolverRaises
  <2>5. CASE Complete(w)
    BY <2>5 DEF Complete
  <2>6. CASE Fail(w)
    <3>1. CASE RowExists(job[w])
      <4>1. /\ status' = [status EXCEPT ![job[w]] = "PENDING"]
            /\ retry' = [retry EXCEPT ![job[w]] = NextRetry(w)]
            /\ ready' = [ready EXCEPT ![job[w]] = FALSE]
        BY <2>6, <3>1 DEF Fail
      <4>2. status' \in [Task -> Status] /\ ready' \in [Task -> BOOLEAN]
        BY <4>1
      <4>3. retry' \in [Task -> Nat]
        BY <4>1 DEF NextRetry
      <4>4. QED BY <2>6, <4>2, <4>3 DEF Fail
    <3>2. CASE ~RowExists(job[w])
      BY <2>6, <3>2 DEF Fail, NextRetry
    <3>3. QED BY <3>1, <3>2
  <2>7. CASE DeadLetter(w)
    BY <2>7 DEF DeadLetter
  <2>8. QED BY <1>3, <2>1, <2>2, <2>3, <2>4, <2>5, <2>6, <2>7
            DEF WorkerStep, ResolverEnds, Settle
<1>4. ASSUME NEW w \in Worker, FaultStep(w) PROVE TypeOK'
  <2>1. CASE Block(w)
    BY <2>1 DEF Block
  <2>2. CASE Unblock(w)
    BY <2>2 DEF Unblock
  <2>3. CASE Crash(w)
    BY <2>3 DEF Crash
  <2>4. CASE Restart(w)
    BY <2>4 DEF Restart
  <2>5. QED BY <1>4, <2>1, <2>2, <2>3, <2>4 DEF FaultStep
<1>5. CASE Tick
  BY <1>5 DEF Tick, Capped
<1>6. CASE UNCHANGED vars
  BY <1>6 DEF vars
<1>7. QED BY <1>1, <1>2, <1>3, <1>4, <1>5, <1>6 DEF Next

\* Every variable stays in its domain whatever crashes, stalls or raises; the
\* domains of age and beat are the bounds the clock is capped at.
THEOREM TypeCorrect == Spec => []TypeOK
BY TypeInit, TypeStep, PTL DEF Spec
-----------------------------------------------------------------------------
(* Leases under every fault                                                *)

\* The two facts about a claim that no crash, stall or storage error breaks.
LeaseInv ==
    \A w \in Worker : Holds(w) =>
        /\ hb[w] # "lost"
        /\ (pc[w] = "resolving" /\ hb[w] = "running" /\ beat[w] < HeartbeatInterval)
              => age[job[w]] <= beat[w]

LEMMA LeaseStep == TypeOK /\ LeaseInv /\ [Next]_vars => LeaseInv'
<1> SUFFICES ASSUME TypeOK, LeaseInv, [Next]_vars,
                    NEW v \in Worker, Holds(v)'
             PROVE  /\ hb'[v] # "lost"
                    /\ (pc'[v] = "resolving" /\ hb'[v] = "running"
                         /\ beat'[v] < HeartbeatInterval)
                          => age'[job'[v]] <= beat'[v]
  BY DEF LeaseInv
<1> DEFINE Goal ==
      /\ hb'[v] # "lost"
      /\ (pc'[v] = "resolving" /\ hb'[v] = "running" /\ beat'[v] < HeartbeatInterval)
            => age'[job'[v]] <= beat'[v]
<1> USE TimingAssumption DEF TypeOK, rowVars, workerVars, Holds, Working, LeaseInv
<1>1. ASSUME NEW t \in Task, Enqueue(t) PROVE Goal
  BY <1>1 DEF Enqueue
<1>2. ASSUME NEW t \in Task, BackoffElapsed(t) PROVE Goal
  BY <1>2 DEF BackoffElapsed
<1>3. ASSUME NEW w \in Worker, WorkerStep(w) PROVE Goal
  <2>1. ASSUME NEW t \in Task, Claim(w, t) PROVE Goal
    BY <2>1 DEF Claim
  <2>2. CASE HeartbeatRenews(w)
    BY <2>2 DEF HeartbeatRenews
  <2>3. CASE HeartbeatLosesLease(w)
    BY <2>3 DEF HeartbeatLosesLease, TouchAnswers, HeartbeatDue
  <2>4. CASE HeartbeatRaises(w)
    BY <2>4 DEF HeartbeatRaises
  <2>5. ASSUME NEW r \in BOOLEAN, ResolverReturns(w, r) PROVE Goal
    BY <2>5 DEF ResolverReturns
  <2>6. CASE ResolverRaises(w)
    BY <2>6 DEF ResolverRaises
  <2>7. CASE Complete(w)
    BY <2>7 DEF Complete
  <2>8. CASE Fail(w)
    BY <2>8 DEF Fail
  <2>9. CASE DeadLetter(w)
    BY <2>9 DEF DeadLetter
  <2>10. QED BY <1>3, <2>1, <2>2, <2>3, <2>4, <2>5, <2>6, <2>7, <2>8, <2>9
             DEF WorkerStep, HeartbeatFires, ResolverEnds, Settle
<1>4. ASSUME NEW w \in Worker, FaultStep(w) PROVE Goal
  BY <1>4 DEF FaultStep, Block, Unblock, Crash, Restart
<1>5. CASE Tick
  BY <1>5 DEF Tick, Capped
<1>6. CASE UNCHANGED vars
  BY <1>6 DEF vars
<1>7. QED BY <1>1, <1>2, <1>3, <1>4, <1>5, <1>6 DEF Next

\* Under every fault of the model, and for any heartbeat interval shorter than
\* the reclaim window: a heartbeat on schedule keeps the lease younger than its
\* own last beat, and an abandoned task is not the abandoner's claim any more.
THEOREM LeaseSound == Spec => [](LeaseFollowsHeartbeat /\ AbandonedIsNotHeld)
<1>1. Init => LeaseInv
  BY SomeoneAssumption DEF Init, LeaseInv, Holds, Working
<1>2. TypeOK /\ LeaseInv => LeaseFollowsHeartbeat /\ AbandonedIsNotHeld
  BY DEF LeaseInv, LeaseFollowsHeartbeat, AbandonedIsNotHeld
<1>3. QED BY <1>1, <1>2, LeaseStep, TypeCorrect, PTL DEF Spec

-----------------------------------------------------------------------------
(* Exclusive resolution, when heartbeats run on time                       *)

\* The loop is never stalled past a tick and a renewal never raises.
OnTime == ~LoopBlocks /\ ~TouchFails

\* A worker that is not idle holds its claim: nobody has claimed, reported or
\* requeued the row since, its snapshot of retry_count is current and the
\* lease is not older than the sleep of the heartbeat.
Current(w) ==
    /\ Holds(w)
    /\ hb[w] = "running"
    /\ seen[w] = retry[job[w]]
    /\ age[job[w]] <= beat[w]

\* What holds of the claims on the tasks of S, whatever becomes of the others:
\* S is every task where agents are alone, and the uncontended ones otherwise.
ClaimsOn(S) ==
    /\ blocked = {}
    /\ \A w \in Worker : Working(w) /\ job[w] \in S => Current(w)

ClaimInv == ClaimsOn(Task)

\* A row another worker is working on cannot be claimed: the reason two
\* workers never share a task, and the one use of the timing assumption.
LEMMA NotClaimable ==
    ASSUME NEW S, TypeOK, ClaimsOn(S), NEW w \in Worker, Working(w), job[w] \in S
    PROVE  ~Claimable(job[w])
BY TimingAssumption DEF TypeOK, ClaimsOn, Current, Holds, Claimable, Status

\* Two workers never work on one task.
LEMMA Exclusive == TypeOK /\ ClaimInv => ExclusiveResolution
BY DEF TypeOK, ClaimInv, ClaimsOn, Current, Holds, ExclusiveResolution

LEMMA ClaimStep ==
    ASSUME NEW S, OnTime, TypeOK, ClaimsOn(S), [Next]_vars
    PROVE  ClaimsOn(S)'
<1>0. blocked' = {}
  <2>1. \A w \in Worker : ~Block(w)
    BY DEF OnTime, Block
  <2>2. QED
    BY <2>1 DEF ClaimsOn, Next, vars, rowVars, workerVars, Enqueue,
       BackoffElapsed, WorkerStep, Claim, HeartbeatFires, HeartbeatRenews,
       HeartbeatLosesLease, HeartbeatRaises, ResolverEnds, ResolverReturns,
       ResolverRaises, Settle, Complete, Fail, DeadLetter, FaultStep, Unblock,
       Crash, Restart, Tick
<1> SUFFICES ASSUME NEW v \in Worker, Working(v)', job'[v] \in S
             PROVE  Current(v)'
  BY <1>0 DEF ClaimsOn
<1> USE DEF TypeOK, rowVars, workerVars, Holds, Working, Current, ClaimsOn
<1>1. ASSUME NEW t \in Task, Enqueue(t) PROVE Current(v)'
  BY <1>1 DEF Enqueue
<1>2. ASSUME NEW t \in Task, BackoffElapsed(t) PROVE Current(v)'
  BY <1>2 DEF BackoffElapsed
<1>3. ASSUME NEW w \in Worker, NEW t \in Task, Claim(w, t) PROVE Current(v)'
  <2>1. CASE v = w
    BY <1>3, <2>1 DEF Claim
  <2>2. CASE v # w
    <3>1. Working(v) /\ Current(v) /\ job'[v] = job[v]
      BY <1>3, <2>2 DEF Claim
    <3>2. job[v] # t
      BY <1>3, <3>1, NotClaimable DEF Claim
    <3>3. QED BY <1>3, <2>2, <3>1, <3>2 DEF Claim
  <2>3. QED BY <2>1, <2>2
<1>4. ASSUME NEW w \in Worker, HeartbeatFires(w) PROVE Current(v)'
  <2>1. Working(v) /\ job'[v] = job[v] /\ Current(v)
    BY <1>4 DEF HeartbeatFires, HeartbeatRenews, HeartbeatLosesLease, HeartbeatRaises
  <2>2. CASE v = w
    <3>1. ~HeartbeatLosesLease(w) /\ ~HeartbeatRaises(w)
      BY <2>1, <2>2 DEF HeartbeatLosesLease, HeartbeatRaises, TouchAnswers, OnTime
    <3>2. HeartbeatRenews(w)
      BY <1>4, <3>1 DEF HeartbeatFires
    <3>3. QED BY <2>1, <2>2, <3>2 DEF HeartbeatRenews
  <2>3. CASE v # w
    <3>1. CASE HeartbeatRenews(w)
      <4>1. beat'[v] = beat[v] /\ age'[job[v]] \in {0, age[job[v]]}
        BY <2>3, <3>1 DEF HeartbeatRenews
      <4>2. beat[v] \in Nat
        BY TimingAssumption
      <4>3. age'[job[v]] <= beat'[v]
        BY <2>1, <4>1, <4>2
      <4>4. QED BY <2>1, <2>3, <3>1, <4>3 DEF HeartbeatRenews
    <3>2. CASE HeartbeatLosesLease(w)
      BY <2>1, <2>3, <3>2 DEF HeartbeatLosesLease
    <3>3. CASE HeartbeatRaises(w)
      BY <2>1, <2>3, <3>3 DEF HeartbeatRaises
    <3>4. QED BY <1>4, <3>1, <3>2, <3>3 DEF HeartbeatFires
  <2>4. QED BY <2>2, <2>3
<1>5. ASSUME NEW w \in Worker, ResolverEnds(w) PROVE Current(v)'
  BY <1>5 DEF ResolverEnds, ResolverReturns, ResolverRaises
<1>6. ASSUME NEW w \in Worker, Settle(w) PROVE Current(v)'
  <2>1. Working(w) /\ pc' = [pc EXCEPT ![w] = "idle"]
    BY <1>6 DEF Settle, Complete, Fail, DeadLetter
  <2>2. v # w /\ Working(v) /\ Current(v) /\ job' = job
    BY <1>6, <2>1 DEF Settle, Complete, Fail, DeadLetter
  <2>3. job[v] # job[w]
    BY <2>1, <2>2
  <2>4. /\ status'[job[v]] = status[job[v]]
        /\ retry'[job[v]] = retry[job[v]]
    BY <1>6, <2>3 DEF Settle, Complete, Fail, DeadLetter
  <2>5. UNCHANGED <<age, claimant, job, seen, hb, beat>> /\ pc'[v] = pc[v]
    BY <1>6, <2>1, <2>2 DEF Settle, Complete, Fail, DeadLetter
  <2>6. QED BY <2>2, <2>4, <2>5
<1>7. ASSUME NEW w \in Worker, FaultStep(w) PROVE Current(v)'
  BY <1>7 DEF FaultStep, Block, Unblock, Crash, Restart, OnTime
<1>8. CASE Tick
  <2>1. Working(v) /\ Current(v) /\ ~Urgent(v)
    BY <1>8 DEF Tick
  <2>2. pc[v] = "resolving" /\ beat[v] < HeartbeatInterval
    <3>1. pc[v] = "resolving" /\ beat[v] # HeartbeatInterval
      BY <2>1 DEF Urgent, Runs, HeartbeatDue
    <3>2. beat[v] \in 0..HeartbeatInterval
      OBVIOUS
    <3>3. QED BY ONLY <3>1, <3>2, TimingAssumption
  <2>3. beat'[v] = beat[v] + 1 /\ age'[job[v]] <= age[job[v]] + 1
    BY <1>8, <2>1, <2>2, TimingAssumption DEF Tick, Capped
  <2>4. age'[job[v]] \in Nat /\ age[job[v]] \in Nat /\ beat[v] \in Nat
    BY <1>8, TimingAssumption DEF Tick, Capped
  <2>5. age'[job[v]] <= beat'[v]
    BY <2>1, <2>3, <2>4
  <2>6. QED BY <1>8, <2>1, <2>5 DEF Tick
<1>9. CASE UNCHANGED vars
  BY <1>9 DEF vars
<1>10. QED BY <1>1, <1>2, <1>3, <1>4, <1>5, <1>6, <1>7, <1>8, <1>9
           DEF Next, WorkerStep

LEMMA ClaimInit == ASSUME NEW S PROVE Init => ClaimsOn(S)
<1>1. Init => blocked = {} /\ \A w \in Worker : pc[w] = "idle"
  BY DEF Init
<1>2. QED BY <1>1 DEF ClaimsOn, Working

LEMMA ClaimInvariant == OnTime /\ Spec => [](TypeOK /\ ClaimInv)
<1>1. Init => ClaimInv
  BY ClaimInit DEF ClaimInv
<1>2. ASSUME OnTime PROVE Spec => [](TypeOK /\ ClaimInv)
  <2>1. TypeOK /\ ClaimInv /\ [Next]_vars => ClaimInv'
    BY <1>2, ClaimStep DEF ClaimInv
  <2>2. QED BY <1>1, <2>1, TypeCorrect, PTL DEF Spec
<1>3. QED BY <1>2

\* With heartbeats on time, any number of agents of any budgets on any tasks:
\* no task is resolved by two workers at once, however they crash and restart.
THEOREM ExclusiveAlways == OnTime /\ Spec => []ExclusiveResolution
BY ClaimInvariant, Exclusive, PTL

\* Under the same assumption every report lands on a row its sender holds.
THEOREM ReportsAreByHolder == OnTime /\ Spec => ReportByHolder
<1>1. TypeOK /\ ClaimInv /\ [Next]_vars => [\A w \in Worker : Settle(w) => Holds(w)]_vars
  BY DEF TypeOK, ClaimInv, ClaimsOn, Current, Settle, Complete, Fail, DeadLetter, Working
<1>2. QED BY <1>1, ClaimInvariant, PTL DEF Spec, ReportByHolder

-----------------------------------------------------------------------------
(* Retry budgets                                                           *)

\* A row given up has its attempts counted in retry_count: the overwrites of
\* fail_outbox_task, each from a snapshot, lose and repeat none.
THEOREM BudgetsRespected == OnTime /\ Spec => []DeadAfterBudget
<1>1. Init => DeadAfterBudget
  BY DEF Init, DeadAfterBudget
<1>2. TypeOK /\ ClaimInv /\ DeadAfterBudget /\ [Next]_vars => DeadAfterBudget'
  <2> SUFFICES ASSUME TypeOK, ClaimInv, DeadAfterBudget, [Next]_vars,
                      NEW t \in Task, status'[t] = "DEAD"
               PROVE  \E w \in Worker : retry'[t] + 1 >= MaxRetries[w]
    BY DEF DeadAfterBudget
  <2> USE DEF rowVars, workerVars
  <2>1. CASE status[t] = "DEAD" /\ retry'[t] = retry[t]
    BY <2>1 DEF DeadAfterBudget
  <2>2. ASSUME NEW w \in Worker, Settle(w)
        PROVE  \E v \in Worker : retry'[t] + 1 >= MaxRetries[v]
    <3>1. Current(w)
      BY <2>2 DEF Settle, Complete, Fail, DeadLetter, ClaimInv, ClaimsOn, Working, TypeOK
    <3>2. CASE t # job[w]
      <4>1. status[t] = "DEAD" /\ retry'[t] = retry[t]
        BY <2>2, <3>2 DEF Settle, Complete, Fail, DeadLetter, TypeOK
      <4>2. QED BY <2>1, <4>1
    <3>3. CASE t = job[w]
      <4>1. DeadLetter(w)
        BY <2>2, <3>3 DEF Settle, Complete, Fail, TypeOK, Current, Holds, RowExists
      <4>2. QED BY <3>1, <3>3, <4>1 DEF DeadLetter, NextRetry, Current
    <3>4. QED BY <3>2, <3>3
  <2>3. ASSUME NEW w \in Worker, WorkerStep(w), ~Settle(w)
        PROVE  status[t] = "DEAD" /\ retry'[t] = retry[t]
    BY <2>3 DEF WorkerStep, Claim, HeartbeatFires, HeartbeatRenews, TypeOK,
       HeartbeatLosesLease, HeartbeatRaises, ResolverEnds, ResolverReturns,
       ResolverRaises
  <2>4. ASSUME NEW w \in Worker, FaultStep(w)
        PROVE  status[t] = "DEAD" /\ retry'[t] = retry[t]
    BY <2>4 DEF FaultStep, Block, Unblock, Crash, Restart
  <2>5. ASSUME NEW u \in Task, Enqueue(u) \/ BackoffElapsed(u)
        PROVE  status[t] = "DEAD" /\ retry'[t] = retry[t]
    BY <2>5 DEF Enqueue, BackoffElapsed, TypeOK
  <2>6. CASE Tick \/ UNCHANGED vars
    BY <2>1, <2>6 DEF Tick, vars
  <2>7. QED BY <2>1, <2>2, <2>3, <2>4, <2>5, <2>6 DEF Next
<1>3. QED BY <1>1, <1>2, ClaimInvariant, PTL DEF Spec

-----------------------------------------------------------------------------
(* What one step does to the tasks                                         *)

\* The step leaves a task, its claimant and its count alone.
Kept(t) == claimant'[t] = claimant[t] /\ retry'[t] = retry[t]
Rest(t) == PhaseOf(t)' = PhaseOf(t) /\ Kept(t)

Goes(t, from, to) == PhaseOf(t) = from /\ PhaseOf(t)' = to

Taken(w, t) ==
    /\ PhaseOf(t) \in {"queued", "orphan"} /\ PhaseOf(t)' = "owned"
    /\ claimant'[t] = w /\ retry'[t] = retry[t]
    /\ \A u \in Task : claimant[u] = w => PhaseOf(u) # "owned"

Decided(w, t) ==
    /\ PhaseOf(t) = "owned"
    /\ claimant[t] = w /\ claimant'[t] = w
    /\ \/ PhaseOf(t)' = "done" /\ retry'[t] = retry[t]
       \/ /\ PhaseOf(t)' = "queued" /\ retry'[t] = retry[t] + 1
          /\ retry[t] + 1 < MaxRetries[w]
       \/ /\ PhaseOf(t)' = "dead" /\ retry'[t] = retry[t]
          /\ retry[t] + 1 >= MaxRetries[w]

\* What a step may do to a task whose claims hold.
Fate(t) ==
    \/ Rest(t)
    \/ Kept(t) /\ (Goes(t, "absent", "queued") \/ Goes(t, "owned", "orphan"))
    \/ \E w \in Worker : Taken(w, t) \/ Decided(w, t)

\* The phase of a task depends on its row and on what its claimant is doing.
LEMMA SamePhase ==
    ASSUME NEW t \in Task, status'[t] = status[t], Owned(t)' = Owned(t)
    PROVE  PhaseOf(t)' = PhaseOf(t)
BY DEF PhaseOf

LEMMA SameRow ==
    ASSUME NEW t \in Task, status'[t] = status[t], Owned(t)' = Owned(t), Kept(t)
    PROVE  Rest(t)
BY SamePhase DEF Rest

\* A step that leaves every task alone.
LEMMA AllRest ==
    ASSUME NEW S, \A u \in Task : Rest(u)
    PROVE  \E t \in Task : (\A u \in Task \ {t} : Rest(u)) /\ (t \in S => Fate(t))
<1>1. PICK t \in Task : TRUE
  BY SomeoneAssumption
<1>2. QED BY <1>1 DEF Fate

\* Every step of the agents concerns one task, and moves it as the lifecycle
\* says where the claims on it hold.
LEMMA StepEffect ==
    ASSUME NEW S, OnTime, TypeOK, ClaimsOn(S), [Next]_vars
    PROVE  \E t \in Task : (\A u \in Task \ {t} : Rest(u)) /\ (t \in S => Fate(t))
<1> DEFINE Effect(t) == (\A u \in Task \ {t} : Rest(u)) /\ (t \in S => Fate(t))
<1> USE DEF rowVars, workerVars
<1>0. \A w \in Worker : job[w] \in Task
  BY DEF TypeOK
<1>1. ASSUME NEW t \in Task, Enqueue(t) PROVE Effect(t)
  <2>1. Goes(t, "absent", "queued") /\ \A u \in Task : Kept(u)
    BY <1>1 DEF Enqueue, Goes, PhaseOf, TypeOK, Kept
  <2>2. \A u \in Task \ {t} : Rest(u)
    BY <1>1, <2>1, SameRow DEF Enqueue, TypeOK, Owned, Working
  <2>3. QED BY <2>1, <2>2 DEF Fate
<1>2. ASSUME NEW t \in Task, BackoffElapsed(t) PROVE \A u \in Task : Rest(u)
  BY <1>2, SameRow DEF BackoffElapsed, Owned, Working, Kept
<1>3. ASSUME NEW w \in Worker, NEW t \in Task, Claim(w, t) PROVE Effect(t)
  <2>1. ~Working(w)
    BY <1>3 DEF Claim, Working
  <2>2. \A u \in Task \ {t} : Rest(u)
    <3> SUFFICES ASSUME NEW u \in Task \ {t} PROVE Rest(u)
      OBVIOUS
    <3>1. Kept(u) /\ status'[u] = status[u]
      BY <1>3 DEF Claim, TypeOK, Kept
    <3>2. Owned(u)' = Owned(u)
      BY <1>3, <2>1, <3>1 DEF Claim, Owned, Working, TypeOK, Kept
    <3>3. QED BY <3>1, <3>2, SameRow
  <2>3. ASSUME t \in S PROVE Taken(w, t)
    <3>1. PhaseOf(t) \in {"queued", "orphan"}
      <4>1. CASE status[t] = "PENDING"
        BY <4>1 DEF PhaseOf
      <4>2. CASE status[t] = "IN_PROGRESS"
        <5>1. ~Owned(t)
          BY <1>3, <2>3, NotClaimable DEF Claim, Owned, TypeOK
        <5>2. QED BY <4>2, <5>1 DEF PhaseOf
      <4>3. QED BY <1>3, <4>1, <4>2 DEF Claim, Claimable
    <3>2. \A u \in Task : claimant[u] = w => PhaseOf(u) # "owned"
      BY <2>1 DEF PhaseOf, Owned
    <3>3. PhaseOf(t)' = "owned"
      BY <1>3 DEF Claim, PhaseOf, Owned, Working, TypeOK
    <3>4. QED BY <1>3, <3>1, <3>2, <3>3 DEF Taken, Claim, TypeOK
  <2>4. QED BY <2>2, <2>3 DEF Fate
<1>4. ASSUME NEW w \in Worker, HeartbeatFires(w) PROVE \A u \in Task : Rest(u)
  BY <1>4, SameRow DEF HeartbeatFires, HeartbeatRenews,
     HeartbeatLosesLease, HeartbeatRaises, Owned, Working, Kept
<1>5. ASSUME NEW w \in Worker, ResolverEnds(w) PROVE Effect(job[w])
  <2>1. /\ UNCHANGED <<rowVars, job>> /\ Working(w)
        /\ \A v \in Worker \ {w} : Working(v)' = Working(v)
    BY <1>5 DEF ResolverEnds, ResolverReturns, ResolverRaises, Working, TypeOK
  <2>2. \A u \in Task \ {job[w]} : Rest(u)
    BY <2>1, SameRow DEF Owned, TypeOK, Kept
  <2>3. ASSUME job[w] \in S PROVE Rest(job[w])
    <3>1. hb[w] = "running"
      BY <2>1, <2>3 DEF ClaimsOn, Current
    <3>2. Working(w)'
      BY <1>5, <3>1 DEF ResolverEnds, ResolverReturns, ResolverRaises, Working, TypeOK
    <3>3. Owned(job[w])' = Owned(job[w])
      BY <1>0, <2>1, <3>2 DEF Owned, TypeOK
    <3>4. QED BY <1>0, <2>1, <3>3, SameRow DEF Kept
  <2>4. QED BY <2>2, <2>3 DEF Fate
<1>6. ASSUME NEW w \in Worker, Settle(w) PROVE Effect(job[w])
  <2> DEFINE t == job[w]
  <2>1. /\ Working(w) /\ UNCHANGED <<claimant, job>>
        /\ pc' = [pc EXCEPT ![w] = "idle"]
    BY <1>6 DEF Settle, Complete, Fail, DeadLetter, Working
  <2>2. \A u \in Task \ {t} : Rest(u)
    <3> SUFFICES ASSUME NEW u \in Task \ {t} PROVE Rest(u)
      OBVIOUS
    <3>1. Owned(u)' = Owned(u)
      BY <2>1 DEF Owned, Working, TypeOK
    <3>2. status'[u] = status[u] /\ Kept(u)
      BY <1>0, <1>6, <2>1 DEF Settle, Complete, Fail, DeadLetter, TypeOK, Kept
    <3>3. QED BY <3>1, <3>2, SameRow
  <2>3. ASSUME t \in S PROVE Decided(w, t)
    <3>1. Current(w) /\ t \in Task
      BY <1>0, <2>1, <2>3 DEF ClaimsOn
    <3>2. PhaseOf(t) = "owned" /\ claimant[t] = w /\ claimant'[t] = w
      BY <2>1, <3>1 DEF Current, Holds, PhaseOf, Owned
    <3>3. RowExists(t) /\ NextRetry(w) = retry[t] + 1
      BY <3>1 DEF Current, Holds, RowExists, NextRetry
    <3>4. CASE Complete(w)
      BY <3>1, <3>2, <3>4 DEF Complete, PhaseOf, TypeOK, Decided
    <3>5. CASE Fail(w)
      BY <3>1, <3>2, <3>3, <3>5 DEF Fail, PhaseOf, TypeOK, Decided
    <3>6. CASE DeadLetter(w)
      BY <3>1, <3>2, <3>3, <3>6 DEF DeadLetter, PhaseOf, TypeOK, Decided
    <3>7. QED BY <1>6, <3>4, <3>5, <3>6 DEF Settle
  <2>4. QED BY <2>2, <2>3 DEF Fate
<1>7. ASSUME NEW w \in Worker, Crash(w) PROVE Effect(job[w])
  <2>1. UNCHANGED <<rowVars, job>> /\ ~Working(w)'
    BY <1>7 DEF Crash, Working, TypeOK
  <2>2. \A v \in Worker \ {w} : Working(v)' = Working(v)
    BY <1>7 DEF Crash, Working, TypeOK
  <2>3. \A u \in Task \ {job[w]} : Rest(u)
    BY <2>1, <2>2, SameRow DEF Owned, TypeOK, Kept
  <2>4. ASSUME job[w] \in S, Working(w)
        PROVE  Kept(job[w]) /\ Goes(job[w], "owned", "orphan")
    <3>1. Holds(w)
      BY <2>4 DEF ClaimsOn, Current
    <3>2. QED BY <1>0, <2>1, <3>1 DEF Holds, Kept, Goes, PhaseOf, Owned
  <2>5. ASSUME ~Working(w) PROVE Rest(job[w])
    BY <1>0, <2>1, <2>2, <2>5, SameRow DEF Owned, TypeOK, Kept
  <2>6. QED BY <2>3, <2>4, <2>5 DEF Fate
<1>8. ASSUME NEW w \in Worker, Block(w) \/ Unblock(w) PROVE \A u \in Task : Rest(u)
  BY <1>8, SameRow DEF Block, Unblock, Owned, Working, Kept
<1>9. ASSUME NEW w \in Worker, Restart(w) PROVE \A u \in Task : Rest(u)
  <2>1. UNCHANGED <<rowVars, job>> /\ \A v \in Worker : Working(v)' = Working(v)
    BY <1>9 DEF Restart, Working, TypeOK
  <2>2. QED BY <2>1, SameRow DEF Owned, TypeOK, Kept
<1>10. CASE Tick
  <2>1. \A u \in Task : Rest(u)
    BY <1>10, SameRow DEF Tick, Owned, Working, Kept
  <2>2. QED BY <2>1, AllRest
<1>11. CASE UNCHANGED vars
  <2>1. \A u \in Task : Rest(u)
    BY <1>11, SameRow DEF vars, Owned, Working, Kept
  <2>2. QED BY <2>1, AllRest
<1>12. CASE Next
  <2>1. CASE \E w \in Worker : ResolverEnds(w) \/ Settle(w) \/ Crash(w)
    BY <1>0, <1>5, <1>6, <1>7, <2>1
  <2>2. CASE \E w \in Worker : HeartbeatFires(w) \/ Block(w) \/ Unblock(w) \/ Restart(w)
    <3>1. \A u \in Task : Rest(u)
      BY <1>4, <1>8, <1>9, <2>2
    <3>2. QED BY <3>1, AllRest
  <2>3. CASE \E t \in Task : BackoffElapsed(t)
    <3>1. \A u \in Task : Rest(u)
      BY <1>2, <2>3
    <3>2. QED BY <3>1, AllRest
  <2>4. CASE \E t \in Task : Enqueue(t) \/ \E w \in Worker : Claim(w, t)
    BY <1>1, <1>3, <2>4
  <2>5. QED BY <1>10, <1>12, <2>1, <2>2, <2>3, <2>4 DEF Next, WorkerStep, FaultStep
<1>13. QED BY <1>11, <1>12

-----------------------------------------------------------------------------
(* The lifecycle is implemented                                            *)

LEMMA LifeStep ==
    OnTime /\ TypeOK /\ ClaimInv /\ [Next]_vars => [Life!LifeNext]_(Life!lvars)
<1> SUFFICES ASSUME OnTime, TypeOK, ClaimInv, [Next]_vars
             PROVE  Life!LifeNext \/ UNCHANGED Life!lvars
  OBVIOUS
<1>1. PICK t \in Task : (\A u \in Task \ {t} : Rest(u)) /\ Fate(t)
  BY StepEffect DEF ClaimInv
<1>2. /\ claimant \in [Task -> Worker] /\ claimant' \in [Task -> Worker]
      /\ retry \in [Task -> Nat] /\ retry' \in [Task -> Nat]
  BY TypeStep DEF TypeOK
<1>3. /\ claimant' = [claimant EXCEPT ![t] = claimant'[t]]
      /\ retry' = [retry EXCEPT ![t] = retry'[t]]
  BY <1>1, <1>2 DEF Rest, Kept
<1>4. Life!Moves(t, PhaseOf(t)')
  BY <1>1 DEF Rest, Life!Moves
<1>5. CASE Rest(t)
  <2>1. \A u \in Task : PhaseOf(u)' = PhaseOf(u)
    BY <1>1, <1>5 DEF Rest
  <2>2. QED BY <1>2, <1>3, <1>5, <2>1 DEF Life!lvars, Rest, Kept
<1>6. CASE Kept(t) /\ Goes(t, "absent", "queued")
  <2>1. Life!Submit(t)
    BY <1>2, <1>3, <1>4, <1>6 DEF Life!Submit, Kept, Goes
  <2>2. QED BY <2>1 DEF Life!LifeNext
<1>7. CASE Kept(t) /\ Goes(t, "owned", "orphan")
  <2>1. Life!Orphan(t)
    BY <1>2, <1>3, <1>4, <1>7 DEF Life!Orphan, Kept, Goes
  <2>2. QED BY <2>1 DEF Life!LifeNext
<1>8. ASSUME NEW w \in Worker, Taken(w, t) PROVE Life!LifeNext
  <2>1. \A u \in Task : ~Life!Owns(w, u)
    BY <1>8 DEF Taken, Life!Owns
  <2>2. Life!Take(w, t)
    BY <1>2, <1>3, <1>4, <1>8, <2>1 DEF Taken, Life!Take
  <2>3. QED BY <2>2 DEF Life!LifeNext
<1>9. ASSUME NEW w \in Worker, Decided(w, t) PROVE Life!LifeNext
  <2>1. Life!Owns(w, t) /\ UNCHANGED claimant
    BY <1>2, <1>3, <1>9 DEF Decided, Life!Owns
  <2>2. Life!Succeed(w, t) \/ Life!Retry(w, t) \/ Life!GiveUp(w, t)
    BY <1>2, <1>3, <1>4, <1>9, <2>1
       DEF Decided, Life!Succeed, Life!Retry, Life!GiveUp
  <2>3. QED BY <2>2 DEF Life!LifeNext
<1>10. QED BY <1>1, <1>5, <1>6, <1>7, <1>8, <1>9 DEF Fate

\* With heartbeats on time, the claim/renew/report protocol implements the
\* lifecycle: one owner at a time, only the owner decides, each failed attempt
\* counted once, and a task taken over only from a worker that died.
THEOREM LifecycleImplemented == OnTime /\ Spec => ImplementsLifecycle
<1>1. Init => Life!LifeInit
  BY SomeoneAssumption DEF Init, Life!LifeInit, PhaseOf
<1>2. ASSUME OnTime PROVE Spec => Life!LifeSpec
  <2>1. TypeOK /\ ClaimInv /\ [Next]_vars => [Life!LifeNext]_(Life!lvars)
    BY <1>2, LifeStep
  <2>2. Spec => [](TypeOK /\ ClaimInv)
    BY <1>2, ClaimInvariant
  <2>3. QED BY <1>1, <2>1, <2>2, PTL DEF Spec, Life!LifeSpec
<1>3. QED BY <1>2 DEF ImplementsLifecycle

-----------------------------------------------------------------------------
(* The operators beside the agents (DeadLetterReview)                      *)

Uncontended == Task \ contended

\* Two requests in flight on one task have contended for it.
OneEach ==
    \A g, h \in Handler :
        g # h /\ request[g] # "none" /\ request[h] # "none" /\ target[g] = target[h]
            => target[g] \in contended

ReviewInv ==
    TypeOK /\ ReviewTypeOK /\ ClaimsOn(Uncontended) /\ ReviewedStaysDead /\ OneEach

\* The agents never touch a dead-lettered row whose claims hold.
LEMMA DeadStays ==
    ASSUME NEW S, TypeOK, ClaimsOn(S), [Next]_vars, NEW t \in Task, t \in S, status[t] = "DEAD"
    PROVE  status'[t] = "DEAD"
<1> USE DEF TypeOK, rowVars, workerVars
<1>1. ASSUME NEW w \in Worker, Settle(w) PROVE status'[t] = "DEAD"
  <2>1. Working(w)
    BY <1>1 DEF Settle, Complete, Fail, DeadLetter, Working
  <2>2. t # job[w]
    BY <2>1 DEF ClaimsOn, Current, Holds
  <2>3. QED BY <1>1, <2>2 DEF Settle, Complete, Fail, DeadLetter
<1>2. ASSUME NEW w \in Worker, NEW u \in Task, Claim(w, u) PROVE status'[t] = "DEAD"
  BY <1>2 DEF Claim, Claimable
<1>3. ASSUME NEW u \in Task, Enqueue(u) \/ BackoffElapsed(u) PROVE status'[t] = "DEAD"
  BY <1>3 DEF Enqueue, BackoffElapsed
<1>4. ASSUME NEW w \in Worker, HeartbeatFires(w) \/ ResolverEnds(w) \/ FaultStep(w)
      PROVE  status'[t] = "DEAD"
  BY <1>4 DEF HeartbeatFires, HeartbeatRenews, HeartbeatLosesLease, HeartbeatRaises,
     ResolverEnds, ResolverReturns, ResolverRaises, FaultStep, Block, Unblock, Crash,
     Restart
<1>5. CASE Tick \/ UNCHANGED vars
  BY <1>5 DEF Tick, vars
<1>6. QED BY <1>1, <1>2, <1>3, <1>4, <1>5 DEF Next, WorkerStep

\* What a request does to the row of an uncontended task: nothing, or what an
\* operator may do to a dead letter.
Operates(t) ==
    \/ status'[t] = status[t] /\ retry'[t] = retry[t]
    \/ status[t] = "DEAD" /\ status'[t] = "DONE" /\ retry'[t] = retry[t]
    \/ status[t] = "DEAD" /\ status'[t] = "PENDING" /\ retry'[t] = 0

\* Every step of a request concerns the row of one task, which is contended or a
\* dead letter.
LEMMA HandlerRow ==
    ASSUME ReviewInv, NEW h \in Handler, HandlerStep(h)
    PROVE  /\ UNCHANGED <<age, claimant, workerVars, faults>>
           /\ TypeOK'
           /\ \E t \in Task :
                /\ \A u \in Task \ {t} : status'[u] = status[u] /\ retry'[u] = retry[u]
                /\ contended' \in {contended, contended \cup {t}}
                /\ t \notin contended' => Operates(t)
                /\ t \in contended' => t \in contended \/ status[t] = "DEAD"
<1> USE DEF ReviewInv, TypeOK, ReviewTypeOK, Serve, Answer, Status
<1> DEFINE Row(t) ==
      /\ \A u \in Task \ {t} : status'[u] = status[u] /\ retry'[u] = retry[u]
      /\ contended' \in {contended, contended \cup {t}}
      /\ t \notin contended' => Operates(t)
      /\ t \in contended' => t \in contended \/ status[t] = "DEAD"
<1> DEFINE Rests == UNCHANGED <<age, claimant, workerVars, faults>>
<1>1. CASE FinishApprove(h)
  <2>1. target[h] \in Task /\ (target[h] \notin contended => status[target[h]] = "DEAD")
    BY <1>1 DEF FinishApprove, ReviewedStaysDead
  <2>2. Row(target[h])
    BY <1>1, <2>1 DEF FinishApprove, Operates
  <2>3. Rests /\ TypeOK'
    BY <1>1 DEF FinishApprove, workerVars
  <2>4. QED BY <2>1, <2>2, <2>3
<1>2. CASE FinishReject(h)
  <2>1. target[h] \in Task /\ (target[h] \notin contended => status[target[h]] = "DEAD")
    BY <1>2 DEF FinishReject, ReviewedStaysDead
  <2>2. Row(target[h])
    BY <1>2, <2>1 DEF FinishReject, Operates, RowExists
  <2>3. Rests /\ TypeOK'
    BY <1>2 DEF FinishReject, workerVars
  <2>4. QED BY <2>1, <2>2, <2>3
<1>3. ASSUME NEW t \in Task, RetryDeadLetter(h, t) PROVE Row(t) /\ Rests /\ TypeOK'
  BY <1>3 DEF RetryDeadLetter, DeadRow, Reach, Operates, workerVars
<1>4. ASSUME NEW t \in Task, StartApprove(h, t) \/ StartReject(h, t)
      PROVE  Row(t) /\ Rests /\ TypeOK'
  BY <1>4 DEF StartApprove, StartReject, DeadRow, Reach, Operates, vars, rowVars, workerVars
<1>5. CASE RequestLost(h) \/ \E succeeded \in BOOLEAN : ResolutionEnds(h, succeeded)
  <2>1. UNCHANGED <<vars, contended>>
    BY <1>5 DEF RequestLost, ResolutionEnds
  <2>2. Row(target[h]) /\ Rests /\ TypeOK'
    BY <2>1 DEF Operates, vars, rowVars, workerVars
  <2>3. QED BY <2>2
<1>6. QED BY <1>1, <1>2, <1>3, <1>4, <1>5 DEF HandlerStep

\* A request never reaches into a claim on an uncontended task.
LEMMA HandlerKeepsClaims ==
    ASSUME ReviewInv, NEW h \in Handler, HandlerStep(h)
    PROVE  ClaimsOn(Uncontended)'
<1>1. PICK t \in Task :
        /\ \A u \in Task \ {t} : status'[u] = status[u] /\ retry'[u] = retry[u]
        /\ contended' \in {contended, contended \cup {t}}
        /\ t \notin contended' => Operates(t)
        /\ t \in contended' => t \in contended \/ status[t] = "DEAD"
  BY HandlerRow
<1>2. UNCHANGED <<age, claimant, workerVars, faults>>
  BY HandlerRow
<1>3. ASSUME NEW w \in Worker, Working(w)', job'[w] \in Uncontended' PROVE Current(w)'
  <2>1. Working(w) /\ job'[w] = job[w] /\ job[w] \in Uncontended /\ Current(w)
    BY <1>1, <1>2, <1>3 DEF Working, workerVars, Uncontended, ReviewInv, ClaimsOn
  <2>2. status'[job[w]] = status[job[w]] /\ retry'[job[w]] = retry[job[w]]
    BY <1>1, <1>3, <2>1 DEF Operates, Uncontended, Current, Holds
  <2>3. QED BY <1>2, <2>1, <2>2 DEF Current, Holds, Working, workerVars
<1>4. blocked' = {}
  BY <1>2 DEF workerVars, ReviewInv, ClaimsOn
<1>5. QED BY <1>3, <1>4 DEF ClaimsOn

LEMMA HandlerKeepsReview ==
    ASSUME ReviewInv, NEW h \in Handler, HandlerStep(h)
    PROVE  ReviewTypeOK' /\ ReviewedStaysDead' /\ OneEach'
<1> USE DEF ReviewInv, ReviewTypeOK, Request, Serve, Answer, Status
<1> DEFINE Goal == ReviewTypeOK' /\ ReviewedStaysDead' /\ OneEach'
<1>0. NoTarget \in Task
  BY SomeoneAssumption DEF NoTarget
<1>1. ASSUME NEW t \in Task, StartApprove(h, t) \/ StartReject(h, t) PROVE Goal
  <2>1. /\ request'[h] # "none" /\ target'[h] = t /\ status[t] = "DEAD" /\ status' = status
        /\ request' \in [Handler -> Request] /\ target' \in [Handler -> Task]
        /\ \A g \in Handler \ {h} : request'[g] = request[g] /\ target'[g] = target[g]
    BY <1>1 DEF StartApprove, StartReject, DeadRow, vars, rowVars
  <2>2. Reach(h, t)
    BY <1>1 DEF StartApprove, StartReject
  <2>3. /\ contended' \in {contended, contended \cup {t}}
        /\ \A g \in Handler \ {h} : request[g] # "none" /\ target[g] = t => t \in contended'
    BY <2>2 DEF Reach, HeldByAnother
  <2>4. ReviewTypeOK'
    BY <2>1, <2>3
  <2>5. ReviewedStaysDead'
    BY <2>1, <2>3 DEF ReviewedStaysDead
  <2>6. OneEach'
    BY <2>1, <2>3 DEF OneEach
  <2>7. QED BY <2>4, <2>5, <2>6
<1>2. ASSUME NEW t \in Task, RetryDeadLetter(h, t) PROVE Goal
  <2>1. Reach(h, t) /\ UNCHANGED <<request, target>> /\ request[h] = "none"
    BY <1>2 DEF RetryDeadLetter
  <2>2. /\ contended' \in {contended, contended \cup {t}}
        /\ \A g \in Handler : request[g] # "none" /\ target[g] = t => t \in contended'
    BY <2>1 DEF Reach, HeldByAnother
  <2>3. ReviewTypeOK'
    BY <2>1, <2>2
  <2>4. \A u \in Task \ {t} : status'[u] = status[u]
    BY <1>2 DEF RetryDeadLetter, TypeOK
  <2>5. ReviewedStaysDead'
    BY <2>1, <2>2, <2>4 DEF ReviewedStaysDead
  <2>6. OneEach'
    BY <2>1, <2>2 DEF OneEach
  <2>7. QED BY <2>3, <2>5, <2>6
<1>3. CASE FinishApprove(h) \/ FinishReject(h)
  <2>1. /\ request[h] # "none" /\ UNCHANGED contended
        /\ request' = [request EXCEPT ![h] = "none"] /\ target' = [target EXCEPT ![h] = NoTarget]
        /\ \A u \in Task \ {target[h]} : status'[u] = status[u]
    BY <1>3 DEF FinishApprove, FinishReject, TypeOK
  <2>2. ReviewTypeOK'
    BY <1>0, <2>1
  <2>3. ReviewedStaysDead'
    BY <2>1 DEF ReviewedStaysDead, OneEach
  <2>4. OneEach'
    BY <2>1 DEF OneEach
  <2>5. QED BY <2>2, <2>3, <2>4
<1>4. CASE RequestLost(h) \/ \E succeeded \in BOOLEAN : ResolutionEnds(h, succeeded)
  <2>1. /\ UNCHANGED <<status, contended>> /\ request[h] # "none"
        /\ \/ /\ request' = [request EXCEPT ![h] = "none"]
              /\ target' = [target EXCEPT ![h] = NoTarget]
           \/ /\ request' = [request EXCEPT ![h] = "completing"]
              /\ UNCHANGED target
    BY <1>4 DEF RequestLost, ResolutionEnds, vars, rowVars
  <2>2. ReviewTypeOK'
    BY <1>0, <2>1
  <2>3. ReviewedStaysDead'
    BY <2>1 DEF ReviewedStaysDead
  <2>4. OneEach'
    BY <2>1 DEF OneEach
  <2>5. QED BY <2>2, <2>3, <2>4
<1>5. QED BY <1>1, <1>2, <1>3, <1>4 DEF HandlerStep

LEMMA ReviewStep ==
    ASSUME OnTime, ReviewInv, [ReviewNext]_<<vars, reviewVars>>
    PROVE  ReviewInv'
<1>1. CASE [Next]_vars /\ UNCHANGED reviewVars
  <2>1. PICK S : S = Uncontended
    OBVIOUS
  <2>2. S = Uncontended' /\ UNCHANGED <<request, target, contended>>
    BY <1>1, <2>1 DEF reviewVars, Uncontended
  <2>3. ClaimsOn(S) /\ TypeOK
    BY <2>1 DEF ReviewInv
  <2>4. ClaimsOn(S)'
    BY <1>1, <2>3, ClaimStep
  <2>5. ClaimsOn(Uncontended)'
    BY <2>2, <2>4 DEF ClaimsOn
  <2>6. TypeOK'
    BY <1>1, <2>3, TypeStep
  <2>7. ReviewTypeOK' /\ OneEach'
    BY <2>2 DEF ReviewInv, ReviewTypeOK, OneEach
  <2>8. ReviewedStaysDead'
    <3> SUFFICES ASSUME NEW h \in Handler, request'[h] # "none", target'[h] \notin contended'
                 PROVE  status'[target'[h]] = "DEAD"
      BY DEF ReviewedStaysDead
    <3>1. target[h] \in Task /\ target[h] \in S /\ status[target[h]] = "DEAD"
      BY <2>1, <2>2 DEF ReviewInv, ReviewTypeOK, ReviewedStaysDead, Uncontended
    <3>2. QED BY <1>1, <2>2, <2>3, <3>1, DeadStays
  <2>9. QED BY <2>5, <2>6, <2>7, <2>8 DEF ReviewInv
<1>2. ASSUME NEW h \in Handler, HandlerStep(h) PROVE ReviewInv'
  BY <1>2, HandlerRow, HandlerKeepsClaims, HandlerKeepsReview DEF ReviewInv
<1>3. CASE UNCHANGED <<vars, reviewVars>>
  BY <1>1, <1>3
<1>4. QED BY <1>1, <1>2, <1>3 DEF ReviewNext

LEMMA ReviewStart == ReviewInit => ReviewInv
<1> SUFFICES ASSUME ReviewInit PROVE ReviewInv
  OBVIOUS
<1>1. blocked = {} /\ \A w \in Worker : pc[w] = "idle"
  BY DEF ReviewInit, Init
<1>2. ClaimsOn(Uncontended)
  BY <1>1 DEF ClaimsOn, Working
<1>3. QED
  BY <1>2, TypeInit, SomeoneAssumption
     DEF ReviewInit, ReviewInv, ReviewTypeOK, ReviewedStaysDead, OneEach, Request, NoTarget

\* With heartbeats on time and any number of requests of operators in flight: what
\* approve_resolution and reject_resolution read at their start still holds when
\* they write, and neither they nor retry_dead_letter take a task from the agent
\* working on it, for every task that two requests never held at once.
THEOREM ReviewIsSafe == OnTime /\ ReviewSpec => [](ReviewedStaysDead /\ ClaimsUndisturbed)
<1>1. ReviewInv => ReviewedStaysDead /\ ClaimsUndisturbed
  BY DEF ReviewInv, TypeOK, ClaimsOn, Current, ClaimsUndisturbed, Uncontended
<1>2. ASSUME OnTime PROVE ReviewSpec => [](ReviewedStaysDead /\ ClaimsUndisturbed)
  <2>1. ReviewInv /\ [ReviewNext]_<<vars, reviewVars>> => ReviewInv'
    BY <1>2, ReviewStep
  <2>2. QED BY <1>1, <2>1, ReviewStart, PTL DEF ReviewSpec
<1>3. QED BY <1>2

-----------------------------------------------------------------------------
(* The lifecycle with operators is implemented                             *)

Shown(t) == IF t \in contended THEN "contested" ELSE PhaseOf(t)

\* What a step may do to one task, operators included.
OperatedFate(t) ==
    \/ t \notin contended /\ t \notin contended' /\ Fate(t)
    \/ /\ t \notin contended /\ t \notin contended'
       /\ Kept(t) /\ Goes(t, "dead", "done")
    \/ /\ t \notin contended /\ t \notin contended'
       /\ claimant'[t] = claimant[t] /\ retry'[t] = 0 /\ Goes(t, "dead", "queued")
    \/ t \in contended' /\ (t \in contended \/ PhaseOf(t) = "dead")

LEMMA ReviewEffect ==
    ASSUME OnTime, ReviewInv, [ReviewNext]_<<vars, reviewVars>>
    PROVE  \E t \in Task :
              /\ \A u \in Task \ {t} : Rest(u)
              /\ contended' \in {contended, contended \cup {t}}
              /\ OperatedFate(t)
<1>1. CASE [Next]_vars /\ UNCHANGED reviewVars
  <2>1. PICK S : S = Uncontended
    OBVIOUS
  <2>2. TypeOK /\ ClaimsOn(S) /\ contended' = contended
    BY <1>1, <2>1 DEF ReviewInv, reviewVars
  <2>3. PICK t \in Task : (\A u \in Task \ {t} : Rest(u)) /\ (t \in S => Fate(t))
    BY <1>1, <2>2, StepEffect
  <2>4. QED BY <2>1, <2>2, <2>3 DEF OperatedFate, Uncontended
<1>2. ASSUME NEW h \in Handler, HandlerStep(h)
      PROVE  \E t \in Task :
                /\ \A u \in Task \ {t} : Rest(u)
                /\ contended' \in {contended, contended \cup {t}}
                /\ OperatedFate(t)
  <2>1. PICK t \in Task :
          /\ \A u \in Task \ {t} : status'[u] = status[u] /\ retry'[u] = retry[u]
          /\ contended' \in {contended, contended \cup {t}}
          /\ t \notin contended' => Operates(t)
          /\ t \in contended' => t \in contended \/ status[t] = "DEAD"
    BY <1>2, HandlerRow
  <2>2. \A u \in Task : claimant'[u] = claimant[u] /\ Owned(u)' = Owned(u)
    BY <1>2, HandlerRow DEF Owned, Working, workerVars, ReviewInv, TypeOK
  <2>3. \A u \in Task \ {t} : Rest(u)
    BY <2>1, <2>2, SameRow DEF Kept
  <2>4. OperatedFate(t)
    <3>1. CASE t \in contended'
      BY <2>1, <3>1 DEF OperatedFate, PhaseOf
    <3>2. CASE t \notin contended' /\ status'[t] = status[t] /\ retry'[t] = retry[t]
      <4>1. Rest(t)
        BY <2>2, <3>2, SameRow DEF Kept
      <4>2. QED BY <2>1, <3>2, <4>1 DEF OperatedFate, Fate
    <3>3. CASE t \notin contended' /\ status[t] = "DEAD" /\ status'[t] = "DONE" /\ retry'[t] = retry[t]
      BY <2>1, <2>2, <3>3 DEF OperatedFate, Kept, Goes, PhaseOf
    <3>4. CASE t \notin contended' /\ status[t] = "DEAD" /\ status'[t] = "PENDING" /\ retry'[t] = 0
      BY <2>1, <2>2, <3>4 DEF OperatedFate, Goes, PhaseOf
    <3>5. QED BY <2>1, <3>1, <3>2, <3>3, <3>4 DEF Operates
  <2>5. QED BY <2>1, <2>3, <2>4
<1>3. CASE UNCHANGED <<vars, reviewVars>>
  BY <1>1, <1>3
<1>4. QED BY <1>1, <1>2, <1>3 DEF ReviewNext

LEMMA ReviewLifeStep ==
    ASSUME OnTime, ReviewInv, [ReviewNext]_<<vars, reviewVars>>
    PROVE  [Operated!OperatedNext]_(Operated!lvars)
<1> SUFFICES Operated!OperatedNext \/ UNCHANGED Operated!lvars
  OBVIOUS
<1>1. PICK t \in Task :
        /\ \A u \in Task \ {t} : Rest(u)
        /\ contended' \in {contended, contended \cup {t}}
        /\ OperatedFate(t)
  BY ReviewEffect
<1>2. /\ claimant \in [Task -> Worker] /\ claimant' \in [Task -> Worker]
      /\ retry \in [Task -> Nat] /\ retry' \in [Task -> Nat]
  BY ReviewStep DEF ReviewInv, TypeOK
<1>3. /\ claimant' = [claimant EXCEPT ![t] = claimant'[t]]
      /\ retry' = [retry EXCEPT ![t] = retry'[t]]
  BY <1>1, <1>2 DEF Rest, Kept
<1>4. \A u \in Task \ {t} : Shown(u)' = Shown(u)
  BY <1>1 DEF Shown, Rest
<1>5. ASSUME NEW p, Shown(t)' = p PROVE Operated!Moves(t, p)
  BY <1>4, <1>5 DEF Shown, Operated!Moves
<1>6. CASE t \in contended' /\ (t \in contended \/ PhaseOf(t) = "dead")
  <2>1. Shown(t) \in {"dead", "contested"} /\ Shown(t)' = "contested"
    BY <1>6 DEF Shown
  <2>2. Operated!Contest(t)
    BY <1>3, <1>5, <2>1 DEF Operated!Contest, Shown
  <2>3. QED BY <2>2 DEF Operated!OperatedNext
<1>7. CASE t \notin contended /\ t \notin contended'
  <2>0. Shown(t) = PhaseOf(t) /\ Shown(t)' = PhaseOf(t)'
    BY <1>7 DEF Shown
  <2>1. CASE Rest(t)
    <3>1. \A u \in Task : Shown(u)' = Shown(u)
      BY <1>4, <2>0, <2>1 DEF Rest
    <3>2. UNCHANGED claimant /\ UNCHANGED retry
      BY <1>2, <1>3, <2>1 DEF Rest, Kept
    <3>3. QED BY <3>1, <3>2 DEF Operated!lvars, Shown
  <2>2. CASE Kept(t) /\ Goes(t, "absent", "queued")
    <3>1. Operated!Submit(t)
      BY <1>2, <1>3, <1>5, <2>0, <2>2 DEF Operated!Submit, Kept, Goes, Shown
    <3>2. QED BY <3>1 DEF Operated!LifeNext, Operated!OperatedNext
  <2>3. CASE Kept(t) /\ Goes(t, "owned", "orphan")
    <3>1. Operated!Orphan(t)
      BY <1>2, <1>3, <1>5, <2>0, <2>3 DEF Operated!Orphan, Kept, Goes, Shown
    <3>2. QED BY <3>1 DEF Operated!LifeNext, Operated!OperatedNext
  <2>4. ASSUME NEW w \in Worker, Taken(w, t) PROVE Operated!OperatedNext
    <3>1. \A u \in Task : ~Operated!Owns(w, u)
      BY <2>4 DEF Taken, Operated!Owns
    <3>2. Operated!Take(w, t)
      BY <1>2, <1>3, <1>5, <2>0, <2>4, <3>1 DEF Taken, Operated!Take, Shown
    <3>3. QED BY <3>2 DEF Operated!LifeNext, Operated!OperatedNext
  <2>5. ASSUME NEW w \in Worker, Decided(w, t) PROVE Operated!OperatedNext
    <3>1. Operated!Owns(w, t) /\ UNCHANGED claimant
      BY <1>2, <1>3, <1>7, <2>5 DEF Decided, Operated!Owns
    <3>2. Operated!Succeed(w, t) \/ Operated!Retry(w, t) \/ Operated!GiveUp(w, t)
      BY <1>2, <1>3, <1>5, <2>0, <2>5, <3>1
         DEF Decided, Operated!Succeed, Operated!Retry, Operated!GiveUp
    <3>3. QED BY <3>2 DEF Operated!LifeNext, Operated!OperatedNext
  <2>6. CASE Kept(t) /\ Goes(t, "dead", "done")
    <3>1. Operated!Discard(t)
      BY <1>2, <1>3, <1>5, <2>0, <2>6 DEF Operated!Discard, Kept, Goes, Shown
    <3>2. QED BY <3>1 DEF Operated!OperatedNext
  <2>7. CASE claimant'[t] = claimant[t] /\ retry'[t] = 0 /\ Goes(t, "dead", "queued")
    <3>1. UNCHANGED claimant
      BY <1>2, <1>3, <2>7
    <3>2. Operated!Reopen(t)
      BY <1>3, <1>5, <2>0, <2>7, <3>1 DEF Operated!Reopen, Goes, Shown
    <3>3. QED BY <3>2 DEF Operated!OperatedNext
  <2>8. QED BY <1>1, <1>7, <2>1, <2>2, <2>3, <2>4, <2>5, <2>6, <2>7 DEF OperatedFate, Fate
<1>8. QED BY <1>1, <1>6, <1>7 DEF OperatedFate

\* With heartbeats on time, agents and any number of operators together implement
\* the lifecycle in which operators decide about tasks given up and about no
\* other; where two of them reach for one such task, that task alone is lost.
THEOREM OperatedLifecycleImplemented == OnTime /\ ReviewSpec => ImplementsOperatedLifecycle
<1>1. ReviewInit => ReviewInv /\ Operated!LifeInit
  <2>1. ReviewInit => Operated!LifeInit
    BY SomeoneAssumption DEF ReviewInit, Init, Operated!LifeInit, PhaseOf
  <2>2. QED BY <2>1, ReviewStart
<1>2. ASSUME OnTime PROVE ReviewSpec => Operated!OperatedSpec
  <2>1. ReviewInv /\ [ReviewNext]_<<vars, reviewVars>> => ReviewInv'
    BY <1>2, ReviewStep
  <2>2. ReviewInv /\ [ReviewNext]_<<vars, reviewVars>>
            => [Operated!OperatedNext]_(Operated!lvars)
    BY <1>2, ReviewLifeStep
  <2>3. QED BY <1>1, <2>1, <2>2, PTL DEF ReviewSpec, Operated!OperatedSpec
<1>3. QED BY <1>2 DEF ImplementsOperatedLifecycle

-----------------------------------------------------------------------------
(* The resolver inside the protocol (InferenceResolver)                    *)

(* Type correctness                                                        *)

LEMMA InferenceTypeInit == InferenceInit => InferenceTypeOK
BY PayloadAssumption, BreakerAssumption DEF InferenceInit, InferenceTypeOK, Stage

\* The session's own part of the type invariant, which a commit keeps.
SessionTypeOK ==
    /\ open \in SUBSET Payload
    /\ copy \in [Worker -> SUBSET Payload]
    /\ excused \in SUBSET open

LEMMA SessionKept == SessionTypeOK /\ UNCHANGED sessionVars => SessionTypeOK'
BY DEF SessionTypeOK, sessionVars

LEMMA CommitType ==
    ASSUME NEW w \in Worker, NEW closed \in SUBSET Payload, NEW committed,
           SessionTypeOK, Commit(w, closed, committed)
    PROVE  SessionTypeOK'
BY DEF Commit, Persists, Refuses, SessionTypeOK

LEMMA InferenceTypeStep ==
    TypeOK /\ InferenceTypeOK /\ [InferenceNext]_allVars => InferenceTypeOK'
<1> SUFFICES ASSUME TypeOK, InferenceTypeOK, [InferenceNext]_allVars
             PROVE  InferenceTypeOK'
  OBVIOUS
<1> USE PayloadAssumption, BreakerAssumption DEF InferenceTypeOK, Stage
<1> DEFINE Quiet == UNCHANGED inferenceVars
<1>1. ASSUME Quiet PROVE InferenceTypeOK'
  BY <1>1 DEF inferenceVars, sessionVars, resolverVars, breakerVars
<1>2. ASSUME NEW w \in Worker, ClaimTask(w) PROVE InferenceTypeOK'
  BY <1>2 DEF ClaimTask, Fresh, GoTo, sessionVars, breakerVars
<1>3. ASSUME NEW w \in Worker, NEW unreadable \in SUBSET Conclusion[job[w]],
             Gather(w, unreadable)
      PROVE  InferenceTypeOK'
  <2>1. job[w] \in Task
    BY DEF TypeOK
  <2>2. CASE SkipsArbiter(w)
    BY <1>3, <2>2 DEF Gather, GoTo, sessionVars, breakerVars
  <2>3. CASE ~SkipsArbiter(w)
    BY <1>3, <2>1, <2>3 DEF Gather, GoTo, sessionVars, breakerVars
  <2>4. QED BY <2>2, <2>3
<1>4. ASSUME NEW w \in Worker, NEW decided \in SUBSET pending[w], NEW committed \in BOOLEAN,
             Arbitrate(w, decided, committed)
      PROVE  InferenceTypeOK'
  <2>1. decided \subseteq Payload
    OBVIOUS
  <2>2. SessionTypeOK'
    BY <1>4, <2>1, SessionKept, CommitType DEF Arbitrate, SessionTypeOK
  <2>3. ok' \in [Worker -> BOOLEAN]
    BY <1>4 DEF Arbitrate, BatchResolves
  <2>4. /\ failures' \in [Worker -> 0..Threshold]
        /\ tripped' \in [Worker -> BOOLEAN]
        /\ \A v \in Worker : tripped'[v] => failures'[v] = Threshold
    <3>1. CASE RecordFailure(w)
      BY <3>1 DEF RecordFailure, Capped
    <3>2. CASE RecordSuccess(w)
      BY <3>2 DEF RecordSuccess
    <3>3. CASE UNCHANGED <<failures, tripped>>
      BY <3>3
    <3>4. QED BY <1>4, <3>1, <3>2, <3>3 DEF Arbitrate
  <2>5. /\ stage' \in [Worker -> Stage]
        /\ pending' \in [Worker -> SUBSET Payload]
        /\ UNCHANGED overlooked
    BY <1>4 DEF Arbitrate, GoTo
  <2>6. QED BY <2>2, <2>3, <2>4, <2>5 DEF SessionTypeOK
<1>5. ASSUME NEW w \in Worker, NEW missing \in SUBSET Premise[job[w]], NEW committed \in BOOLEAN,
             RepairPremises(w, missing, committed)
      PROVE  InferenceTypeOK'
  <2>1. Premise[job[w]] \subseteq Payload
    BY DEF TypeOK
  <2>2. SessionTypeOK'
    BY <1>5, <2>1, SessionKept, CommitType DEF RepairPremises, SessionTypeOK
  <2>3. ok' \in [Worker -> BOOLEAN]
    BY <1>5 DEF RepairPremises
  <2>4. overlooked' \in [Worker -> SUBSET Payload]
    BY <1>5, <2>1 DEF RepairPremises
  <2>5. stage' \in [Worker -> Stage] /\ UNCHANGED <<pending, breakerVars>>
    BY <1>5 DEF RepairPremises, GoTo
  <2>6. QED BY <2>2, <2>3, <2>4, <2>5 DEF SessionTypeOK, breakerVars
<1>6. ASSUME NEW w \in Worker, EndResolver(w) PROVE InferenceTypeOK'
  BY <1>6 DEF EndResolver, Fresh, GoTo, breakerVars
<1>7. ASSUME NEW w \in Worker, RestartAgent(w) PROVE InferenceTypeOK'
  BY <1>7 DEF RestartAgent, sessionVars, resolverVars
<1>8. ASSUME NEW w \in Worker, CooldownElapses(w) PROVE InferenceTypeOK'
  BY <1>8 DEF CooldownElapses, sessionVars, resolverVars
<1>9. QED
  BY <1>1, <1>2, <1>3, <1>4, <1>5, <1>6, <1>7, <1>8
     DEF InferenceNext, OutboxStep, ResolverStep, allVars

\* What the resolver does is a step of the protocol or leaves its variables alone.
LEMMA ResolverKeepsProtocol ==
    InferenceTypeOK /\ [InferenceNext]_allVars => [Next]_vars
<1> SUFFICES ASSUME InferenceTypeOK, [InferenceNext]_allVars
             PROVE  [Next]_vars
  OBVIOUS
<1>1. CASE OutboxStep
  BY <1>1 DEF OutboxStep, Next, WorkerStep, FaultStep
<1>2. ASSUME NEW w \in Worker, ClaimTask(w) PROVE Next
  BY <1>2 DEF ClaimTask, Next, WorkerStep
<1>3. ASSUME NEW w \in Worker, ResolverStep(w) PROVE UNCHANGED vars
  BY <1>3 DEF ResolverStep, Gather, Arbitrate, RepairPremises
<1>4. ASSUME NEW w \in Worker, EndResolver(w) PROVE Next
  <2>1. ok[w] \in BOOLEAN
    BY DEF InferenceTypeOK
  <2>2. ResolverEnds(w)
    BY <1>4, <2>1 DEF EndResolver, ResolverEnds
  <2>3. QED BY <2>2 DEF Next, WorkerStep
<1>5. ASSUME NEW w \in Worker, RestartAgent(w) PROVE Next
  BY <1>5 DEF RestartAgent, Next, FaultStep
<1>6. ASSUME NEW w \in Worker, CooldownElapses(w) PROVE UNCHANGED vars
  BY <1>6 DEF CooldownElapses
<1>7. CASE UNCHANGED allVars
  BY <1>7 DEF allVars
<1>8. QED BY <1>1, <1>2, <1>3, <1>4, <1>5, <1>6, <1>7 DEF InferenceNext

\* Every variable of the resolver and of the protocol under it stays in its domain,
\* and an open breaker has the failures that opened it.
THEOREM InferenceTypeCorrect == InferenceSpec => [](TypeOK /\ InferenceTypeOK)
<1>1. InferenceInit => TypeOK /\ InferenceTypeOK
  BY TypeInit, InferenceTypeInit DEF InferenceInit
<1>2. TypeOK /\ InferenceTypeOK /\ [InferenceNext]_allVars => (TypeOK /\ InferenceTypeOK)'
  BY InferenceTypeStep, ResolverKeepsProtocol, TypeStep
<1>3. QED BY <1>1, <1>2, PTL DEF InferenceSpec

\* The Critic at work is the agent of the protocol: whatever its resolver reads, commits and
\* sends to the arbiter between a claim and a report, the outbox sees claims, heartbeats and
\* reports alone (resolve_inference_conflict under run_resolver_with_heartbeat).
THEOREM ResolverImplementsOutbox == InferenceSpec => Spec
<1>1. InferenceInit => Init
  BY DEF InferenceInit
<1>2. QED BY <1>1, InferenceTypeCorrect, ResolverKeepsProtocol, PTL DEF InferenceSpec, Spec

\* So, with heartbeats on time, its tasks too are resolved by one live agent at a time, and
\* live as the abstract life cycle says.
THEOREM InferenceImplementsLifecycle ==
    OnTime /\ InferenceSpec => ImplementsLifecycle /\ []ExclusiveResolution
BY ResolverImplementsOutbox, LifecycleImplemented, ExclusiveAlways

-----------------------------------------------------------------------------
(* What a completed task was about                                         *)

\* Whatever of the set S is open has been excused, or belongs to the set X.
Covered(S, X) == S \cap open \subseteq X \cup excused

Findings(t) == Conclusion[t] \cup Premise[t]

(* What a worker's attempt knows of its task, at each of its stages.  The session is    *)
(* shared with the other attempts, whose commits close findings or, over a stale copy,  *)
(* open closed ones again, which the history then excuses.                              *)
AttemptInv(w) ==
    /\ pc[w] = "resolving" =>
          /\ stage[w] = "arbiter" => Covered(Conclusion[job[w]], pending[w] \cup overlooked[w])
          /\ stage[w] = "premises" /\ ok[w] => Covered(Conclusion[job[w]], overlooked[w])
          /\ stage[w] = "end" /\ ok[w] => Covered(Findings(job[w]), overlooked[w])
    /\ pc[w] = "settling" /\ success[w] => Covered(Findings(job[w]), {})

HandledInv == DoneMeansHandled /\ \A w \in Worker : AttemptInv(w)

\* What is opened again is excused, and what is excused stays so while it is open.
Tracked == open' \ open \subseteq excused' /\ excused \cap open' \subseteq excused'

LEMMA CoveredKept ==
    ASSUME Tracked, NEW S, NEW X, Covered(S, X)
    PROVE  S \cap open' \subseteq X \cup excused'
BY DEF Tracked, Covered

LEMMA CommitTracked ==
    ASSUME NEW w, NEW closed, NEW committed,
           UNCHANGED sessionVars \/ Commit(w, closed, committed)
    PROVE  Tracked
BY DEF Commit, Persists, Refuses, Tracked, sessionVars

\* An attempt whose own variables rest keeps what it knows.
Rests(w) == UNCHANGED <<pc[w], job[w], success[w], stage[w], pending[w], ok[w], overlooked[w]>>

LEMMA RestKeeps ==
    ASSUME Tracked, NEW w \in Worker, Rests(w), AttemptInv(w)
    PROVE  AttemptInv(w)'
BY DEF Tracked, Covered, Rests, AttemptInv, Findings

LEMMA DoneKeeps ==
    ASSUME Tracked, DoneMeansHandled,
           \A t \in Task : status'[t] = "DONE" => status[t] = "DONE" \/ Covered(Findings(t), {})
    PROVE  DoneMeansHandled'
BY DEF Tracked, Covered, Findings, DoneMeansHandled

\* A step of the protocol alone, seen from the attempt of v and from the rows.
LEMMA ProtocolKeeps ==
    ASSUME TypeOK, HandledInv, UNCHANGED inferenceVars,
           \A v \in Worker : pc'[v] \in {"resolving", "settling"} =>
               pc'[v] = pc[v] /\ job'[v] = job[v] /\ success'[v] = success[v],
           \A t \in Task : status'[t] = "DONE" => status[t] = "DONE" \/ Covered(Findings(t), {})
    PROVE  HandledInv'
<1>1. Tracked
  BY DEF Tracked, inferenceVars, sessionVars
<1>2. DoneMeansHandled'
  BY <1>1, DoneKeeps DEF HandledInv
<1>3. ASSUME NEW v \in Worker PROVE AttemptInv(v)'
  <2>1. AttemptInv(v)
    BY DEF HandledInv
  <2>2. UNCHANGED <<stage, pending, ok, overlooked, open, excused>>
    BY DEF inferenceVars, sessionVars, resolverVars
  <2>3. QED BY <2>1, <2>2 DEF AttemptInv, Covered, Findings
<1>4. QED BY <1>2, <1>3 DEF HandledInv

LEMMA HandledInit == InferenceInit => HandledInv
BY DEF InferenceInit, Init, HandledInv, DoneMeansHandled, AttemptInv

LEMMA HandledStep ==
    TypeOK /\ InferenceTypeOK /\ HandledInv /\ [InferenceNext]_allVars => HandledInv'
<1> SUFFICES ASSUME TypeOK, InferenceTypeOK, HandledInv, [InferenceNext]_allVars
             PROVE  HandledInv'
  OBVIOUS
<1> USE DEF rowVars, workerVars
<1>1. CASE OutboxStep
  <2>1. UNCHANGED inferenceVars
    BY <1>1 DEF OutboxStep
  <2>2. ASSUME NEW t \in Task, Enqueue(t) \/ BackoffElapsed(t) PROVE HandledInv'
    BY <2>1, <2>2, ProtocolKeeps DEF Enqueue, BackoffElapsed, TypeOK
  <2>3. ASSUME NEW w \in Worker, HeartbeatFires(w) PROVE HandledInv'
    BY <2>1, <2>3, ProtocolKeeps
       DEF HeartbeatFires, HeartbeatRenews, HeartbeatLosesLease, HeartbeatRaises
  <2>4. ASSUME NEW w \in Worker, Complete(w) PROVE HandledInv'
    <3>1. Covered(Findings(job[w]), {})
      BY <2>4 DEF Complete, HandledInv, AttemptInv
    <3>2. \A t \in Task : status'[t] = "DONE" => status[t] = "DONE" \/ Covered(Findings(t), {})
      BY <2>4, <3>1 DEF Complete, TypeOK
    <3>3. \A v \in Worker : pc'[v] \in {"resolving", "settling"} =>
              pc'[v] = pc[v] /\ job'[v] = job[v] /\ success'[v] = success[v]
      BY <2>4 DEF Complete, TypeOK
    <3>4. QED BY <2>1, <3>2, <3>3, ProtocolKeeps
  <2>5. ASSUME NEW w \in Worker, Fail(w) \/ DeadLetter(w) PROVE HandledInv'
    <3>1. \A t \in Task : status'[t] = "DONE" => status[t] = "DONE" \/ Covered(Findings(t), {})
      BY <2>5 DEF Fail, DeadLetter, RowExists, TypeOK
    <3>2. \A v \in Worker : pc'[v] \in {"resolving", "settling"} =>
              pc'[v] = pc[v] /\ job'[v] = job[v] /\ success'[v] = success[v]
      BY <2>5 DEF Fail, DeadLetter, TypeOK
    <3>3. QED BY <2>1, <3>1, <3>2, ProtocolKeeps
  <2>6. ASSUME NEW w \in Worker, Block(w) \/ Unblock(w) \/ Crash(w) PROVE HandledInv'
    BY <2>1, <2>6, ProtocolKeeps DEF Block, Unblock, Crash, TypeOK
  <2>7. CASE Tick
    BY <2>1, <2>7, ProtocolKeeps DEF Tick
  <2>8. QED BY <1>1, <2>2, <2>3, <2>4, <2>5, <2>6, <2>7 DEF OutboxStep, Settle
<1>2. ASSUME NEW w \in Worker, ClaimTask(w) PROVE HandledInv'
  <2>1. PICK t \in Task : Claim(w, t)
    BY <1>2 DEF ClaimTask
  <2>2. Tracked
    BY <1>2 DEF ClaimTask, Tracked, sessionVars
  <2>3. DoneMeansHandled'
    BY <2>1, <2>2, DoneKeeps DEF Claim, HandledInv, TypeOK
  <2>4. ASSUME NEW v \in Worker, v # w PROVE AttemptInv(v)'
    <3>1. UNCHANGED <<pc[v], job[v], success[v]>>
      BY <2>1, <2>4 DEF Claim, TypeOK
    <3>2. UNCHANGED <<stage[v], pending[v], ok[v], overlooked[v]>>
      BY <1>2, <2>4 DEF ClaimTask, Fresh, GoTo, InferenceTypeOK
    <3>3. QED BY <2>2, <3>1, <3>2, RestKeeps DEF Rests, HandledInv
  <2>5. AttemptInv(w)'
    BY <1>2, <2>1 DEF Claim, ClaimTask, Fresh, GoTo, AttemptInv, TypeOK, InferenceTypeOK
  <2>6. QED BY <2>3, <2>4, <2>5 DEF HandledInv
<1>3. ASSUME NEW w \in Worker, ResolverStep(w) PROVE HandledInv'
  <2>1. UNCHANGED vars /\ At(w, stage[w])
    BY <1>3 DEF ResolverStep, Gather, Arbitrate, RepairPremises, At
  <2>2. pc[w] = "resolving" /\ UNCHANGED <<status, pc, job, success>>
    BY <2>1 DEF vars, At
  <2>3. job[w] \in Task /\ AttemptInv(w)
    BY DEF TypeOK, HandledInv
  <2>4. Tracked
    BY <1>3, CommitTracked DEF ResolverStep, Gather, Arbitrate, RepairPremises
  <2>5. DoneMeansHandled'
    BY <2>2, <2>4, DoneKeeps DEF HandledInv
  <2>6. ASSUME NEW v \in Worker, v # w PROVE AttemptInv(v)'
    <3>1. UNCHANGED <<stage[v], pending[v], ok[v], overlooked[v]>>
      BY <1>3, <2>6 DEF ResolverStep, Gather, Arbitrate, RepairPremises, GoTo, InferenceTypeOK
    <3>2. QED BY <2>2, <2>4, <3>1, RestKeeps DEF Rests, HandledInv
  <2>7. AttemptInv(w)'
    <3>1. ASSUME NEW unreadable \in SUBSET Conclusion[job[w]], Gather(w, unreadable)
          PROVE  AttemptInv(w)'
      <4>1. CASE SkipsArbiter(w)
        BY <2>2, <2>3, <3>1, <4>1
           DEF Gather, GoTo, AttemptInv, Covered, InferenceTypeOK, sessionVars
      <4>2. CASE ~SkipsArbiter(w)
        BY <2>2, <2>3, <3>1, <4>2
           DEF Gather, GoTo, AttemptInv, Covered, InferenceTypeOK, sessionVars
      <4>3. QED BY <4>1, <4>2
    <3>2. ASSUME NEW decided \in SUBSET pending[w], NEW committed \in BOOLEAN,
                 Arbitrate(w, decided, committed)
          PROVE  AttemptInv(w)'
      <4>1. stage[w] = "arbiter" /\ stage'[w] = "premises" /\ overlooked'[w] = overlooked[w]
        BY <3>2 DEF Arbitrate, At, GoTo, InferenceTypeOK
      <4>2. ok'[w] = BatchResolves(w, decided, committed)
        BY <3>2 DEF Arbitrate, InferenceTypeOK
      <4>3. ok'[w] => decided # {} /\ decided = pending[w] /\ committed
        BY <4>2 DEF BatchResolves
      <4>4. ok'[w] => Commit(w, decided, committed)
        BY <3>2, <4>3 DEF Arbitrate
      <4>5. ok'[w] => decided \cap open' = {}
        BY <4>3, <4>4 DEF Commit, Persists
      <4>6. Covered(Conclusion[job[w]], pending[w] \cup overlooked[w])
        BY <2>2, <2>3, <4>1 DEF AttemptInv
      <4>7. ok'[w] => Conclusion[job[w]] \cap open' \subseteq overlooked[w] \cup excused'
        BY <2>4, <4>3, <4>5, <4>6 DEF Tracked, Covered
      <4>8. QED BY <2>2, <4>1, <4>7 DEF AttemptInv, Covered
    <3>3. ASSUME NEW missing \in SUBSET Premise[job[w]], NEW committed \in BOOLEAN,
                 RepairPremises(w, missing, committed)
          PROVE  AttemptInv(w)'
      <4> DEFINE shown == Premise[job[w]] \cap copy[w]
      <4>1. stage[w] = "premises" /\ stage'[w] = "end"
        BY <3>3 DEF RepairPremises, At, GoTo, InferenceTypeOK
      <4>2. ok'[w] => ok[w] /\ missing = {} /\ (committed \/ shown = {})
        BY <3>3 DEF RepairPremises, InferenceTypeOK
      <4>3. overlooked'[w] = overlooked[w] \cup ((Premise[job[w]] \cap open) \ shown)
        BY <3>3 DEF RepairPremises, InferenceTypeOK
      <4>4. ok'[w] => shown \cap open' = {}
        <5>1. CASE shown = {}
          BY <5>1
        <5>2. CASE shown # {} /\ missing = {} /\ committed
          <6>1. Commit(w, shown \ missing, committed)
            BY <3>3, <5>2 DEF RepairPremises
          <6>2. QED BY <5>2, <6>1 DEF Commit, Persists
        <5>3. QED BY <4>2, <5>1, <5>2
      <4>5. ok'[w] => Covered(Conclusion[job[w]], overlooked[w])
        BY <2>2, <2>3, <4>1, <4>2 DEF AttemptInv
      <4>6. ok'[w] => Conclusion[job[w]] \cap open' \subseteq overlooked'[w] \cup excused'
        BY <2>4, <4>3, <4>5 DEF Tracked, Covered
      <4>7. ok'[w] => Premise[job[w]] \cap open' \subseteq overlooked'[w] \cup excused'
        BY <2>4, <4>3, <4>4 DEF Tracked
      <4>8. QED BY <2>2, <4>1, <4>6, <4>7 DEF AttemptInv, Covered, Findings
    <3>4. QED BY <1>3, <3>1, <3>2, <3>3 DEF ResolverStep
  <2>8. QED BY <2>5, <2>6, <2>7 DEF HandledInv
<1>4. ASSUME NEW w \in Worker, EndResolver(w) PROVE HandledInv'
  <2>1. UNCHANGED <<status, job, open>> /\ excused \subseteq excused'
    BY <1>4 DEF EndResolver, ResolverReturns, ResolverRaises
  <2>2. Tracked
    BY <2>1 DEF Tracked
  <2>3. DoneMeansHandled'
    BY <2>1, <2>2, DoneKeeps DEF HandledInv
  <2>4. ASSUME NEW v \in Worker, v # w PROVE AttemptInv(v)'
    <3>1. UNCHANGED <<pc[v], success[v], stage[v], pending[v], ok[v], overlooked[v]>>
      BY <1>4, <2>4
         DEF EndResolver, Fresh, GoTo, ResolverReturns, ResolverRaises, TypeOK, InferenceTypeOK
    <3>2. QED BY <2>1, <2>2, <3>1, RestKeeps DEF Rests, HandledInv
  <2>5. AttemptInv(w)'
    <3>1. pc[w] = "resolving" /\ pc'[w] \in {"idle", "settling"}
      BY <1>4 DEF EndResolver, ResolverReturns, ResolverRaises, TypeOK
    <3>2. pc'[w] = "settling" /\ success'[w] => stage[w] = "end" /\ ok[w]
      BY <1>4 DEF EndResolver, ResolverReturns, ResolverRaises, TypeOK, InferenceTypeOK
    <3>3. success'[w] => excused' = excused \cup (overlooked[w] \cap open)
      BY <1>4 DEF EndResolver
    <3>4. pc'[w] = "settling" /\ success'[w] => Covered(Findings(job[w]), overlooked[w])
      BY <3>1, <3>2 DEF HandledInv, AttemptInv
    <3>5. pc'[w] = "settling" /\ success'[w] => Findings(job[w]) \cap open \subseteq excused'
      BY <3>3, <3>4 DEF Covered
    <3>6. QED BY <2>1, <3>1, <3>5 DEF AttemptInv, Covered, Findings
  <2>6. QED BY <2>3, <2>4, <2>5 DEF HandledInv
<1>5. ASSUME NEW w \in Worker, RestartAgent(w) PROVE HandledInv'
  <2>1. /\ Tracked
        /\ UNCHANGED <<status, job, success, stage, pending, ok, overlooked>>
        /\ pc' = [pc EXCEPT ![w] = "idle"]
    BY <1>5 DEF RestartAgent, Restart, Tracked, resolverVars
  <2>2. DoneMeansHandled'
    BY <2>1, DoneKeeps DEF HandledInv
  <2>3. ASSUME NEW v \in Worker, v # w PROVE AttemptInv(v)'
    BY <2>1, <2>3, RestKeeps DEF Rests, HandledInv, TypeOK
  <2>4. AttemptInv(w)'
    BY <2>1 DEF AttemptInv, TypeOK
  <2>5. QED BY <2>2, <2>3, <2>4 DEF HandledInv
<1>6. CASE UNCHANGED allVars \/ \E w \in Worker : CooldownElapses(w)
  <2>1. /\ Tracked
        /\ UNCHANGED <<status, pc, job, success, stage, pending, ok, overlooked>>
    BY <1>6 DEF CooldownElapses, Tracked, allVars, vars, inferenceVars, sessionVars, resolverVars
  <2>2. DoneMeansHandled'
    BY <2>1, DoneKeeps DEF HandledInv
  <2>3. ASSUME NEW v \in Worker PROVE AttemptInv(v)'
    BY <2>1, RestKeeps DEF Rests, HandledInv
  <2>4. QED BY <2>2, <2>3 DEF HandledInv
<1>7. QED BY <1>1, <1>2, <1>3, <1>4, <1>5, <1>6 DEF InferenceNext

(* A task is completed only with no finding of its payload left open that its resolvers *)
(* were shown: whatever earlier or concurrent attempts committed of it, for any stalls, *)
(* crashes, lost leases, stale copies and breaker states (CriticAgent's                 *)
(* resolve_inference_conflict).                                                         *)
THEOREM DoneIsHandled == InferenceSpec => []DoneMeansHandled
<1>1. InferenceInit => TypeOK /\ InferenceTypeOK /\ HandledInv
  BY TypeInit, InferenceTypeInit, HandledInit DEF InferenceInit
<1>2. TypeOK /\ InferenceTypeOK /\ HandledInv /\ [InferenceNext]_allVars
         => (TypeOK /\ InferenceTypeOK /\ HandledInv)'
  BY InferenceTypeStep, ResolverKeepsProtocol, TypeStep, HandledStep
<1>3. HandledInv => DoneMeansHandled
  BY DEF HandledInv
<1>4. QED BY <1>1, <1>2, <1>3, PTL DEF InferenceSpec

=============================================================================
