-------------------------- MODULE PipelineRunProofs --------------------------
(***************************************************************************)
(* Theorems of PipelineRun, for any tasks, queues, follow-ups, number of   *)
(* steps, budget, attempts and faults.                                     *)
(***************************************************************************)
EXTENDS PipelineRun, FiniteSetTheorems, NaturalsInduction, WellFoundedInduction, TLAPS

State == {"none", "pending", "claimed", "waiting", "done", "dead"}
Working == {"budget", "run", "hand on", "report"}
Loop == [pc : {"idle", "claim", "ended"} \cup Working, task : Task \cup {NoTask}, ok : BOOLEAN,
         failed : BOOLEAN, refused : BOOLEAN, error : BOOLEAN]

LoopOK(d) == d \in Loop /\ (d.pc \in Working => d.task \in Task)

RunTypeOK ==
    /\ task \in [Task -> [state : State, retry : Nat]]
    /\ run \in [on : BOOLEAN, mode : {"sequential", "concurrent"}, sandbox : BOOLEAN, at : Nat,
                spent : Nat, exhausted : BOOLEAN, merged : BOOLEAN]
    /\ drain \in [Step -> Loop] /\ \A s \in Step : LoopOK(drain[s])
    /\ parent \subseteq Task /\ spoiled \subseteq Task
    /\ calls \in [Step -> Nat] /\ faults \in Nat

-----------------------------------------------------------------------------
(* Type correctness                                                        *)

\* A drain loop that moves on keeps the drains' type, if its own record has it.
LEMMA SetType ==
    ASSUME RunTypeOK, NEW s \in Step, NEW d, LoopOK(d), Set(s, d)
    PROVE  drain' \in [Step -> Loop] /\ \A u \in Step : LoopOK(drain'[u])
<1>1. drain' = [drain EXCEPT ![s] = d] /\ drain \in [Step -> Loop] /\ d \in Loop
  BY DEF Set, RunTypeOK, LoopOK
<1>2. \A u \in Step : drain'[u] = IF u = s THEN d ELSE drain[u]
  BY <1>1
<1>3. QED BY <1>1, <1>2 DEF RunTypeOK

LEMMA Fresh == LoopOK(NoDrain) /\ LoopOK([NoDrain EXCEPT !.pc = "claim"])
BY DEF NoDrain, LoopOK, Loop, Working

\* What a step of a drain loop makes of its record.
LEMMA LoopMoves ==
    ASSUME NEW d, LoopOK(d)
    PROVE  /\ \A t \in Task : LoopOK([d EXCEPT !.pc = "budget", !.task = t])
           /\ LoopOK([d EXCEPT !.pc = "ended"])
           /\ LoopOK([d EXCEPT !.pc = "claim", !.task = NoTask])
           /\ LoopOK([d EXCEPT !.pc = "claim", !.task = NoTask, !.failed = @ \/ ~d.ok])
           /\ LoopOK([d EXCEPT !.pc = "ended", !.task = NoTask, !.error = TRUE])
           /\ d.pc \in Working =>
                /\ d.task \in Task
                /\ LoopOK([d EXCEPT !.pc = "run"])
                /\ LoopOK([d EXCEPT !.pc = "report", !.ok = FALSE, !.refused = TRUE])
                /\ \A b \in BOOLEAN : LoopOK([d EXCEPT !.pc = "hand on", !.ok = b])
                /\ LoopOK([d EXCEPT !.pc = "report", !.ok = TRUE])
                /\ LoopOK([d EXCEPT !.pc = "report", !.ok = FALSE])
BY DEF LoopOK, Loop, Working

LEMMA TypeStep == RunTypeOK /\ [Next]_vars => RunTypeOK'
<1> SUFFICES ASSUME RunTypeOK, [Next]_vars
             PROVE  RunTypeOK'
  OBVIOUS
<1>a. \A s \in Step : LoopOK(drain[s])
  BY DEF RunTypeOK
<1>b. \A t \in Task : Follow[t] \in Task \cup {NoTask}
  BY RunTasks
<1>c. {"budget", "run", "hand on", "report"} \subseteq Working
  BY DEF Working
<1> DEFINE DrainType == drain' \in [Step -> Loop] /\ \A u \in Step : LoopOK(drain'[u])
<1>1. ASSUME NEW mode \in {"sequential", "concurrent"}, NEW sandbox \in BOOLEAN, StartRun(mode, sandbox)
      PROVE  RunTypeOK'
  <2>1. DrainType
    BY <1>1, Fresh DEF StartRun, LoopOK
  <2>2. run' \in [on : BOOLEAN, mode : {"sequential", "concurrent"}, sandbox : BOOLEAN, at : Nat,
                  spent : Nat, exhausted : BOOLEAN, merged : BOOLEAN]
    BY <1>1 DEF StartRun, NoRun
  <2>3. QED BY <1>1, <2>1, <2>2 DEF StartRun, RunTypeOK
<1>2. ASSUME NEW s \in Step, NEW t \in Task, Claim(s, t) PROVE RunTypeOK'
  <2>1. DrainType
    BY <1>a, <1>c, <1>2, SetType, LoopMoves DEF Claim
  <2>2. task' \in [Task -> [state : State, retry : Nat]]
    BY <1>2 DEF Claim, RunTypeOK, State
  <2>9. QED BY <1>2, <2>1, <2>2 DEF Claim, RunTypeOK
<1>3. ASSUME NEW s \in Step, QueueEmpty(s) PROVE RunTypeOK'
  <2>1. DrainType
    BY <1>a, <1>c, <1>3, SetType, LoopMoves DEF QueueEmpty
  <2>9. QED BY <1>3, <2>1 DEF QueueEmpty, RunTypeOK
<1>4. ASSUME NEW s \in Step, CallStep(s) PROVE RunTypeOK'
  <2>1. DrainType
    BY <1>a, <1>c, <1>4, SetType, LoopMoves DEF CallStep
  <2>2. run' = [run EXCEPT !.spent = run.spent + 1] /\ calls' \in [Step -> Nat]
    BY <1>4 DEF CallStep, RunTypeOK
  <2>3. run' \in [on : BOOLEAN, mode : {"sequential", "concurrent"}, sandbox : BOOLEAN, at : Nat,
                  spent : Nat, exhausted : BOOLEAN, merged : BOOLEAN]
    BY <2>2 DEF RunTypeOK
  <2>9. QED BY <1>4, <2>1, <2>2, <2>3 DEF CallStep, RunTypeOK
<1>5. ASSUME NEW s \in Step, RefuseStep(s) PROVE RunTypeOK'
  <2>1. DrainType
    BY <1>a, <1>c, <1>5, SetType, LoopMoves DEF RefuseStep
  <2>9. QED BY <1>5, <2>1 DEF RefuseStep, RunTypeOK
<1>6. ASSUME NEW s \in Step, StepCommits(s) PROVE RunTypeOK'
  <2>1. DrainType
    <3> DEFINE d == [drain[s] EXCEPT !.pc = "hand on", !.ok = drain[s].task \notin parent]
    <3>1. LoopOK(d)
      BY <1>a, <1>c, <1>6, LoopMoves DEF StepCommits
    <3>2. Set(s, d)
      BY <1>6 DEF StepCommits
    <3> HIDE DEF d
    <3>3. QED BY <3>1, <3>2, SetType
  <2>2. drain[s].task \in Task
    BY <1>a, <1>c, <1>6, LoopMoves DEF StepCommits
  <2>9. QED BY <1>6, <2>1, <2>2 DEF StepCommits, RunTypeOK
<1>7. ASSUME NEW s \in Step, StepHandsOn(s) PROVE RunTypeOK'
  <2>1. DrainType
    BY <1>a, <1>c, <1>7, SetType, LoopMoves DEF StepHandsOn
  <2>2. drain[s].task \in Task
    BY <1>a, <1>c, <1>7, LoopMoves DEF StepHandsOn
  <2>3. task' \in [Task -> [state : State, retry : Nat]]
    BY <1>7, <2>2, <1>b DEF StepHandsOn, RunTypeOK, State
  <2>9. QED BY <1>7, <2>1, <2>2, <2>3 DEF StepHandsOn, RunTypeOK
<1>8. ASSUME NEW s \in Step, StepFails(s) PROVE RunTypeOK'
  <2>1. DrainType
    <3> DEFINE d == [drain[s] EXCEPT !.pc = "report", !.ok = FALSE]
    <3>1. drain[s].pc \in Working /\ Set(s, d)
      BY <1>8 DEF StepFails, Working
    <3>2. LoopOK(d)
      BY <1>a, <3>1, LoopMoves
    <3> HIDE DEF d
    <3>3. QED BY <3>1, <3>2, SetType
  <2>9. QED BY <1>8, <2>1 DEF StepFails, RunTypeOK
<1>9. ASSUME NEW s \in Step, LeaseLost(s) PROVE RunTypeOK'
  <2>1. DrainType
    BY <1>a, <1>c, <1>9, SetType, LoopMoves DEF LeaseLost
  <2>2. drain[s].task \in Task
    BY <1>a, <1>c, <1>9, LoopMoves DEF LeaseLost
  <2>3. task' \in [Task -> [state : State, retry : Nat]]
    BY <1>9, <2>2 DEF LeaseLost, RunTypeOK, State
  <2>9. QED BY <1>9, <2>1, <2>2, <2>3 DEF LeaseLost, RunTypeOK
<1>10. ASSUME NEW s \in Step, Report(s) PROVE RunTypeOK'
  <2>1. DrainType
    BY <1>a, <1>c, <1>10, SetType, LoopMoves DEF Report
  <2>2. drain[s].task \in Task
    BY <1>a, <1>c, <1>10, LoopMoves DEF Report
  <2>3. task' \in [Task -> [state : State, retry : Nat]]
    BY <1>10, <2>2 DEF Report, RunTypeOK, State, NextRetry
  <2>9. QED BY <1>10, <2>1, <2>2, <2>3 DEF Report, RunTypeOK
<1>11. ASSUME NEW s \in Step, DrainAborts(s) PROVE RunTypeOK'
  <2>1. DrainType
    BY <1>a, <1>c, <1>11, SetType, LoopMoves DEF DrainAborts
  <2>2. drain[s].task \in Task \cup {NoTask}
    BY <1>a DEF LoopOK, Loop
  <2>9. QED BY <1>11, <2>1, <2>2 DEF DrainAborts, RunTypeOK
<1>12. ASSUME NEW t \in Task, BackoffElapses(t) \/ LeaseExpires(t) PROVE RunTypeOK'
  BY <1>12 DEF BackoffElapses, LeaseExpires, RunTypeOK, State
<1>13. CASE NextStep
  <2>1. run.at \in Nat /\ run.at + 1 \in Step
    BY <1>13, RunBounds DEF NextStep, RunTypeOK, Step
  <2>2. DrainType
    BY <1>13, <2>1, SetType, Fresh DEF NextStep
  <2>3. QED BY <1>13, <2>1, <2>2 DEF NextStep, RunTypeOK
<1>14. ASSUME NEW merges \in BOOLEAN, ExitRun(merges) PROVE RunTypeOK'
  <2>1. DrainType
    BY <1>14, Fresh DEF ExitRun, LoopOK
  <2>2. QED BY <1>14, <2>1 DEF ExitRun, RunTypeOK
<1>15. CASE Crash
  <2>1. DrainType
    BY <1>15, Fresh DEF Crash, LoopOK
  <2>2. QED BY <1>15, <2>1 DEF Crash, RunTypeOK, NoRun
<1>16. CASE UNCHANGED vars
  BY <1>16 DEF vars, RunTypeOK
<1>17. QED
  BY <1>1, <1>2, <1>3, <1>4, <1>5, <1>6, <1>7, <1>8, <1>9, <1>10, <1>11, <1>12, <1>13, <1>14,
     <1>15, <1>16 DEF Next, Orchestrate, DrainStep

LEMMA TypeInit == Init => RunTypeOK
<1> SUFFICES ASSUME Init PROVE RunTypeOK
  OBVIOUS
<1>1. drain \in [Step -> Loop] /\ \A s \in Step : LoopOK(drain[s])
  BY Fresh DEF Init, LoopOK
<1>2. task \in [Task -> [state : State, retry : Nat]]
  BY DEF Init, State
<1>3. QED BY <1>1, <1>2 DEF Init, RunTypeOK, NoRun

(* Every variable of a run stays in its domain, and a drain loop that works on something *)
(* works on a task (_drain_step).                                                        *)
THEOREM RunTypeCorrect == Spec => []RunTypeOK
BY TypeInit, TypeStep, PTL DEF Spec

-----------------------------------------------------------------------------
(* What a run knows of its drains                                          *)

Flagged(d) == d.failed \/ d.refused \/ d.error

(* Between runs nothing drains.  In a run, a task that is spoiled left a mark on a drain *)
(* loop, and nothing was merged.  In a sequential run the steps before the present one   *)
(* have ended without failure, those after it have not begun.                            *)
RunInv ==
    /\ ~run.on => \A s \in Step : drain[s] = NoDrain
    /\ run.on => ~run.merged
    /\ run.on /\ spoiled # {} => \E s \in Step : Flagged(drain[s])
    /\ run.on /\ run.mode = "sequential" =>
           \A s \in Step : /\ s > run.at => drain[s] = NoDrain
                           /\ s < run.at => drain[s].pc = "ended" /\ ~Degrades(s)
    /\ run.merged => spoiled = {}

\* A drain loop that is going on, and what it may do to its run.
LEMMA LoopStep ==
    ASSUME RunTypeOK, RunInv, NEW s \in Step, NEW d, Set(s, d),
           drain[s].pc \in {"claim"} \cup Working,
           Flagged(drain[s]) => Flagged(d),
           spoiled' = spoiled \/ Flagged(d),
           run'.on = run.on, run'.mode = run.mode, run'.at = run.at, run'.merged = run.merged
    PROVE  RunInv'
<1>1. \A u \in Step : drain'[u] = IF u = s THEN d ELSE drain[u]
  BY DEF Set, RunTypeOK
<1>a. drain[s] # NoDrain /\ drain[s].pc # "ended"
  <2>1. drain[s].pc # "idle" /\ drain[s].pc # "ended"
    BY DEF Working
  <2>2. NoDrain.pc = "idle"
    BY DEF NoDrain
  <2>3. QED BY <2>1, <2>2
<1>2. run.on /\ ~run'.merged
  BY <1>a DEF RunInv
<1>3. spoiled' # {} => \E u \in Step : Flagged(drain'[u])
  BY <1>1, <1>2 DEF RunInv
<1>4. ASSUME run.mode = "sequential", NEW u \in Step
      PROVE  /\ u > run.at => drain'[u] = NoDrain
             /\ u < run.at => drain'[u].pc = "ended" /\ ~(drain'[u].failed \/ drain'[u].refused)
  <2>1. ~(s > run.at) /\ ~(s < run.at)
    BY <1>a, <1>2, <1>4 DEF RunInv
  <2>2. QED BY <1>1, <1>2, <1>4, <2>1 DEF RunInv, Degrades
<1>5. QED BY <1>2, <1>3, <1>4 DEF RunInv, Degrades

LEMMA RunStep == RunTypeOK /\ RunInv /\ [Next]_vars => RunInv'
<1> SUFFICES ASSUME RunTypeOK, RunInv, [Next]_vars
             PROVE  RunInv'
  OBVIOUS
<1>a. \A s \in Step : drain[s] \in Loop
  BY DEF RunTypeOK
<1>b. {"budget", "run", "hand on", "report"} \subseteq Working
  BY DEF Working
<1>1. ASSUME NEW mode \in {"sequential", "concurrent"}, NEW sandbox \in BOOLEAN, StartRun(mode, sandbox)
      PROVE  RunInv'
  <2>1. /\ run'.on /\ run'.mode = mode /\ run'.at = 1 /\ ~run'.merged /\ spoiled' = {}
        /\ \A s \in Step : s > 1 /\ mode = "sequential" => drain'[s] = NoDrain
    BY <1>1 DEF StartRun, NoRun, Begins
  <2>2. \A s \in Step : ~(s < 1)
    BY DEF Step
  <2>3. QED BY <2>1, <2>2 DEF RunInv
<1>2. ASSUME NEW s \in Step, NEW t \in Task, Claim(s, t) PROVE RunInv'
  <2> DEFINE d == [drain[s] EXCEPT !.pc = "budget", !.task = t]
  <2>1. Set(s, d) /\ drain[s].pc \in {"claim"} \cup Working /\ (Flagged(drain[s]) => Flagged(d))
    BY <1>a, <1>b, <1>2 DEF Claim, Flagged, Loop
  <2>2. /\ spoiled' = spoiled \/ Flagged(d)
        /\ run'.on = run.on /\ run'.mode = run.mode /\ run'.at = run.at /\ run'.merged = run.merged
    BY <1>a, <1>2 DEF Claim, Flagged, Loop, RunTypeOK
  <2> HIDE DEF d
  <2>3. QED BY <2>1, <2>2, LoopStep
<1>3. ASSUME NEW s \in Step, QueueEmpty(s) PROVE RunInv'
  <2> DEFINE d == [drain[s] EXCEPT !.pc = "ended"]
  <2>1. Set(s, d) /\ drain[s].pc \in {"claim"} \cup Working /\ (Flagged(drain[s]) => Flagged(d))
    BY <1>a, <1>b, <1>3 DEF QueueEmpty, Flagged, Loop
  <2>2. /\ spoiled' = spoiled \/ Flagged(d)
        /\ run'.on = run.on /\ run'.mode = run.mode /\ run'.at = run.at /\ run'.merged = run.merged
    BY <1>a, <1>3 DEF QueueEmpty, Flagged, Loop, RunTypeOK
  <2> HIDE DEF d
  <2>3. QED BY <2>1, <2>2, LoopStep
<1>4. ASSUME NEW s \in Step, CallStep(s) PROVE RunInv'
  <2> DEFINE d == [drain[s] EXCEPT !.pc = "run"]
  <2>1. Set(s, d) /\ drain[s].pc \in {"claim"} \cup Working /\ (Flagged(drain[s]) => Flagged(d))
    BY <1>a, <1>b, <1>4 DEF CallStep, Flagged, Loop
  <2>2. /\ spoiled' = spoiled \/ Flagged(d)
        /\ run'.on = run.on /\ run'.mode = run.mode /\ run'.at = run.at /\ run'.merged = run.merged
    BY <1>a, <1>4 DEF CallStep, Flagged, Loop, RunTypeOK
  <2> HIDE DEF d
  <2>3. QED BY <2>1, <2>2, LoopStep
<1>5. ASSUME NEW s \in Step, RefuseStep(s) PROVE RunInv'
  <2> DEFINE d == [drain[s] EXCEPT !.pc = "report", !.ok = FALSE, !.refused = TRUE]
  <2>1. Set(s, d) /\ drain[s].pc \in {"claim"} \cup Working /\ (Flagged(drain[s]) => Flagged(d))
    BY <1>a, <1>b, <1>5 DEF RefuseStep, Flagged, Loop
  <2>2. /\ spoiled' = spoiled \/ Flagged(d)
        /\ run'.on = run.on /\ run'.mode = run.mode /\ run'.at = run.at /\ run'.merged = run.merged
    BY <1>a, <1>5 DEF RefuseStep, Flagged, Loop, RunTypeOK
  <2> HIDE DEF d
  <2>3. QED BY <2>1, <2>2, LoopStep
<1>6. ASSUME NEW s \in Step, StepCommits(s) PROVE RunInv'
  <2> DEFINE d == [drain[s] EXCEPT !.pc = "hand on", !.ok = drain[s].task \notin parent]
  <2>1. Set(s, d) /\ drain[s].pc \in {"claim"} \cup Working /\ (Flagged(drain[s]) => Flagged(d))
    BY <1>a, <1>b, <1>6 DEF StepCommits, Flagged, Loop
  <2>2. /\ spoiled' = spoiled \/ Flagged(d)
        /\ run'.on = run.on /\ run'.mode = run.mode /\ run'.at = run.at /\ run'.merged = run.merged
    BY <1>a, <1>6 DEF StepCommits, Flagged, Loop, RunTypeOK
  <2> HIDE DEF d
  <2>3. QED BY <2>1, <2>2, LoopStep
<1>7. ASSUME NEW s \in Step, StepHandsOn(s) PROVE RunInv'
  <2> DEFINE d == [drain[s] EXCEPT !.pc = "report", !.ok = TRUE]
  <2>1. Set(s, d) /\ drain[s].pc \in {"claim"} \cup Working /\ (Flagged(drain[s]) => Flagged(d))
    BY <1>a, <1>b, <1>7 DEF StepHandsOn, Flagged, Loop
  <2>2. /\ spoiled' = spoiled \/ Flagged(d)
        /\ run'.on = run.on /\ run'.mode = run.mode /\ run'.at = run.at /\ run'.merged = run.merged
    BY <1>a, <1>7 DEF StepHandsOn, Flagged, Loop, RunTypeOK
  <2> HIDE DEF d
  <2>3. QED BY <2>1, <2>2, LoopStep
<1>8. ASSUME NEW s \in Step, StepFails(s) PROVE RunInv'
  <2> DEFINE d == [drain[s] EXCEPT !.pc = "report", !.ok = FALSE]
  <2>1. Set(s, d) /\ drain[s].pc \in {"claim"} \cup Working /\ (Flagged(drain[s]) => Flagged(d))
    BY <1>a, <1>b, <1>8 DEF StepFails, Flagged, Loop
  <2>2. /\ spoiled' = spoiled \/ Flagged(d)
        /\ run'.on = run.on /\ run'.mode = run.mode /\ run'.at = run.at /\ run'.merged = run.merged
    BY <1>a, <1>8 DEF StepFails, Flagged, Loop, RunTypeOK
  <2> HIDE DEF d
  <2>3. QED BY <2>1, <2>2, LoopStep
<1>9. ASSUME NEW s \in Step, LeaseLost(s) PROVE RunInv'
  <2> DEFINE d == [drain[s] EXCEPT !.pc = "claim", !.task = NoTask]
  <2>1. Set(s, d) /\ drain[s].pc \in {"claim"} \cup Working /\ (Flagged(drain[s]) => Flagged(d))
    BY <1>a, <1>b, <1>9 DEF LeaseLost, Flagged, Loop
  <2>2. /\ spoiled' = spoiled \/ Flagged(d)
        /\ run'.on = run.on /\ run'.mode = run.mode /\ run'.at = run.at /\ run'.merged = run.merged
    BY <1>a, <1>9 DEF LeaseLost, Flagged, Loop, RunTypeOK
  <2> HIDE DEF d
  <2>3. QED BY <2>1, <2>2, LoopStep
<1>10. ASSUME NEW s \in Step, Report(s) PROVE RunInv'
  <2> DEFINE d == [drain[s] EXCEPT !.pc = "claim", !.task = NoTask, !.failed = @ \/ ~drain[s].ok]
  <2>1. Set(s, d) /\ drain[s].pc \in {"claim"} \cup Working /\ (Flagged(drain[s]) => Flagged(d))
    BY <1>a, <1>b, <1>10 DEF Report, Flagged, Loop
  <2>2. /\ spoiled' = spoiled \/ Flagged(d)
        /\ run'.on = run.on /\ run'.mode = run.mode /\ run'.at = run.at /\ run'.merged = run.merged
    BY <1>a, <1>10 DEF Report, Flagged, Loop, RunTypeOK
  <2> HIDE DEF d
  <2>3. QED BY <2>1, <2>2, LoopStep
<1>11. ASSUME NEW s \in Step, DrainAborts(s) PROVE RunInv'
  <2> DEFINE d == [drain[s] EXCEPT !.pc = "ended", !.task = NoTask, !.error = TRUE]
  <2>1. Set(s, d) /\ drain[s].pc \in {"claim"} \cup Working /\ (Flagged(drain[s]) => Flagged(d))
    BY <1>a, <1>b, <1>11 DEF DrainAborts, Flagged, Loop
  <2>2. /\ spoiled' = spoiled \/ Flagged(d)
        /\ run'.on = run.on /\ run'.mode = run.mode /\ run'.at = run.at /\ run'.merged = run.merged
    BY <1>a, <1>11 DEF DrainAborts, Flagged, Loop, RunTypeOK
  <2> HIDE DEF d
  <2>3. QED BY <2>1, <2>2, LoopStep
<1>12. ASSUME NEW t \in Task, BackoffElapses(t) \/ LeaseExpires(t) PROVE RunInv'
  BY <1>12 DEF BackoffElapses, LeaseExpires, RunInv, Degrades
<1>13. CASE NextStep
  <2> DEFINE s == run.at
  <2>1. s \in Nat /\ s + 1 \in Step
    BY <1>13, RunBounds DEF NextStep, RunTypeOK, Step
  <2>2. \A u \in Step : drain'[u] = IF u = s + 1 THEN [NoDrain EXCEPT !.pc = "claim"] ELSE drain[u]
    BY <1>13, <2>1 DEF NextStep, Set, RunTypeOK
  <2>3. /\ run.on /\ run.mode = "sequential" /\ ~Degrades(s) /\ drain[s].pc = "ended"
        /\ run'.on /\ run'.mode = "sequential" /\ run'.at = s + 1 /\ run'.merged = run.merged
        /\ spoiled' = spoiled
    BY <1>13 DEF NextStep, Stops, RunTypeOK
  <2>4. drain[s + 1] = NoDrain /\ ~Flagged(NoDrain)
    <3>1. s + 1 > s
      BY <2>1
    <3>2. drain[s + 1] = NoDrain
      BY <2>1, <2>3, <3>1 DEF RunInv
    <3>3. QED BY <3>2 DEF Flagged, NoDrain
  <2>5. spoiled' # {} => \E u \in Step : Flagged(drain'[u])
    BY <2>2, <2>3, <2>4 DEF RunInv
  <2>6. ASSUME NEW u \in Step
        PROVE  /\ u > s + 1 => drain'[u] = NoDrain
               /\ u < s + 1 => drain'[u].pc = "ended" /\ ~(drain'[u].failed \/ drain'[u].refused)
    <3>1. u \in Nat
      BY DEF Step
    <3>2. /\ u < s + 1 => u = s \/ u < s
          /\ u > s + 1 => u > s
          /\ u > s + 1 \/ u < s + 1 => u # s + 1
      BY <2>1, <3>1
    <3>3. u > s => drain[u] = NoDrain
      BY <2>3 DEF RunInv
    <3>4. u < s => drain[u].pc = "ended" /\ ~(drain[u].failed \/ drain[u].refused)
      BY <2>3 DEF RunInv, Degrades
    <3>5. drain[s].pc = "ended" /\ ~(drain[s].failed \/ drain[s].refused)
      BY <2>3 DEF Degrades
    <3> HIDE DEF s
    <3>6. QED BY <2>2, <3>2, <3>3, <3>4, <3>5
  <2>7. QED BY <2>3, <2>5, <2>6 DEF RunInv, Degrades
<1>14. ASSUME NEW merges \in BOOLEAN, ExitRun(merges) PROVE RunInv'
  <2>1. /\ ~run'.on /\ run'.merged = merges /\ spoiled' = spoiled
        /\ \A s \in Step : drain'[s] = NoDrain
    BY <1>14 DEF ExitRun, RunTypeOK
  <2>2. merges => spoiled = {}
    BY <1>14 DEF ExitRun, AllDrained, Clean, RunInv, Flagged, Degrades
  <2>3. QED BY <2>1, <2>2 DEF RunInv
<1>15. CASE Crash
  BY <1>15 DEF Crash, NoRun, RunInv
<1>16. CASE UNCHANGED vars
  BY <1>16 DEF vars, RunInv, Degrades
<1>17. QED
  BY <1>1, <1>2, <1>3, <1>4, <1>5, <1>6, <1>7, <1>8, <1>9, <1>10, <1>11, <1>12, <1>13, <1>14,
     <1>15, <1>16 DEF Next, Orchestrate, DrainStep

LEMMA RunInit == Init => RunInv
BY DEF Init, RunInv, NoRun

(* A merge follows a run of which no task failed, was refused, or was left behind by an *)
(* error of a drain loop, in either mode (run_sequential, run_concurrent,               *)
(* _exit_sandbox).                                                                      *)
THEOREM MergesAreClean == Spec => []MergedIsClean
<1>1. RunInv => MergedIsClean
  BY DEF RunInv, MergedIsClean
<1>2. QED BY <1>1, TypeInit, TypeStep, RunInit, RunStep, PTL DEF Spec

(* Once a task of a step has failed or was refused, a sequential run claims no task of a *)
(* later step: the steps before the present one have ended well (run_sequential).        *)
THEOREM FailureStopsSequence == Spec => NothingAfterFailure
<1>1. RunTypeOK /\ RunInv /\ [Next]_vars =>
          [\A s \in Step, t \in spoiled :
              run.mode = "sequential" /\ run.on /\ StepOf[t] < s /\ Degrades(StepOf[t])
              => ~(drain[s].pc = "claim" /\ drain'[s].pc = "budget")]_vars
  <2> SUFFICES ASSUME RunTypeOK, RunInv, NEW s \in Step, NEW t \in spoiled,
                      run.mode = "sequential", run.on, StepOf[t] < s, Degrades(StepOf[t])
               PROVE  drain[s].pc # "claim"
    OBVIOUS
  <2>1. t \in Task /\ StepOf[t] \in Step
    BY RunTasks DEF RunTypeOK
  <2>2. ~(StepOf[t] < run.at)
    BY <2>1 DEF RunInv
  <2>3. StepOf[t] \in Nat /\ run.at \in Nat /\ s \in Nat
    BY <2>1 DEF Step, RunTypeOK
  <2>4. s > run.at
    BY <2>2, <2>3
  <2>5. QED BY <2>4 DEF RunInv, NoDrain
<1>2. QED BY <1>1, TypeInit, TypeStep, RunInit, RunStep, PTL DEF Spec, NothingAfterFailure

-----------------------------------------------------------------------------
(* Follow-ups                                                              *)

(* A drain loop that is about to complete a task has enqueued its follow-up, in this   *)
(* attempt or because an earlier one had.                                              *)
Reporting(s) == drain[s].pc = "report" /\ drain[s].ok /\ Follow[drain[s].task] # NoTask
HandInv ==
    /\ DoneIsHandedOn
    /\ \A s \in Step : Reporting(s) => Enqueued(Follow[drain[s].task])

LEMMA HandInit == Init => HandInv
BY DEF Init, HandInv, DoneIsHandedOn, Reporting, NoDrain

\* What was enqueued stays so, in whatever state.
LEMMA StaysEnqueued ==
    ASSUME RunTypeOK, [Next]_vars, NEW t \in Task, Enqueued(t)
    PROVE  Enqueued(t)'
<1>a. ASSUME NEW u, NEW st \in State \ {"none"}, task' = [task EXCEPT ![u].state = st]
      PROVE  Enqueued(t)'
  <2>1. task'[t] = IF t = u THEN [task[t] EXCEPT !.state = st] ELSE task[t]
    BY <1>a DEF RunTypeOK
  <2>2. task[t] \in [state : State, retry : Nat]
    BY DEF RunTypeOK
  <2>3. QED BY <1>a, <2>1, <2>2 DEF Enqueued
<1>b. {"pending", "claimed"} \subseteq State \ {"none"}
  BY DEF State
<1>1. CASE \E s \in Step : LeaseLost(s) \/ StepHandsOn(s) \/ \E u \in Task : Claim(s, u)
  BY <1>1, <1>a, <1>b DEF LeaseLost, StepHandsOn, Claim, Enqueued
<1>2. ASSUME NEW s \in Step, Report(s) PROVE Enqueued(t)'
  <2> DEFINE r == IF drain[s].ok THEN [state |-> "done", retry |-> 0]
                  ELSE IF GivesUp(drain[s].task) THEN [state |-> "dead", retry |-> 0]
                  ELSE [state |-> "waiting", retry |-> NextRetry(drain[s].task)]
  <2>1. task' = [task EXCEPT ![drain[s].task] = r] /\ r.state # "none"
    BY <1>2 DEF Report
  <2> HIDE DEF r
  <2>2. QED BY <2>1 DEF Enqueued, RunTypeOK
<1>3. CASE \E u \in Task : BackoffElapses(u) \/ LeaseExpires(u)
  BY <1>3 DEF BackoffElapses, LeaseExpires, Enqueued, RunTypeOK
<1>4. CASE task' = task
  BY <1>4 DEF Enqueued
<1>5. QED
  BY <1>1, <1>2, <1>3, <1>4 DEF Next, Orchestrate, Crash, DrainStep, DrainAborts, StartRun, NextStep,
     ExitRun, QueueEmpty, CallStep, RefuseStep, StepCommits, StepFails, vars

\* A step that completes nothing and comes to no report.
LEMMA NothingNew ==
    ASSUME RunTypeOK, HandInv, [Next]_vars,
           \A t \in Task : task'[t].state = "done" => task[t].state = "done",
           \A s \in Step : Reporting(s)' => Reporting(s) /\ drain'[s].task = drain[s].task
    PROVE  HandInv'
<1>a. \A t \in Task : Follow[t] \in Task \cup {NoTask}
  BY RunTasks
<1>1. DoneIsHandedOn'
  BY <1>a, StaysEnqueued DEF HandInv, DoneIsHandedOn
<1>2. ASSUME NEW s \in Step, Reporting(s)' PROVE Enqueued(Follow[drain[s].task])'
  <2>1. Follow[drain[s].task] \in Task
    BY <1>2, <1>a DEF Reporting, RunTypeOK, LoopOK, Working
  <2>2. QED BY <1>2, <2>1, StaysEnqueued DEF HandInv
<1>3. QED BY <1>1, <1>2 DEF HandInv

LEMMA HandStep == RunTypeOK /\ HandInv /\ [Next]_vars => HandInv'
<1> SUFFICES ASSUME RunTypeOK, HandInv, [Next]_vars
             PROVE  HandInv'
  OBVIOUS
<1>a. \A t \in Task : Follow[t] \in Task \cup {NoTask}
  BY RunTasks
<1>b. \A s \in Step : drain[s] \in Loop /\ (drain[s].pc \in Working => drain[s].task \in Task)
  BY DEF RunTypeOK, LoopOK
<1>c. \A s \in Step, d \in Loop : Set(s, d) => \A u \in Step : drain'[u] = IF u = s THEN d ELSE drain[u]
  BY DEF Set, RunTypeOK
<1>d. \A t \in Task : task[t] \in [state : State, retry : Nat]
  BY DEF RunTypeOK
<1>f. \A s \in Step : LoopOK(drain[s])
  BY DEF RunTypeOK
<1>g. {"budget", "run", "hand on", "report"} \subseteq Working
  BY DEF Working
\* Steps after which the loop of s is not at a report of success.
<1>e. ASSUME NEW s \in Step, NEW d, LoopOK(d), Set(s, d), ~(d.pc = "report" /\ d.ok)
      PROVE  \A u \in Step : Reporting(u)' => Reporting(u) /\ drain'[u].task = drain[u].task
  BY <1>c, <1>e DEF Reporting, LoopOK
<1>1. ASSUME NEW mode \in {"sequential", "concurrent"}, NEW sandbox \in BOOLEAN, StartRun(mode, sandbox)
      PROVE  HandInv'
  <2>1. \A u \in Step : drain'[u].pc # "report"
    BY <1>1, Fresh DEF StartRun, NoDrain
  <2>2. QED BY <1>1, <2>1, NothingNew DEF StartRun, Reporting
<1>2. ASSUME NEW s \in Step, NEW v \in Task, Claim(s, v) PROVE HandInv'
  <2> DEFINE d == [drain[s] EXCEPT !.pc = "budget", !.task = v]
  <2>1. LoopOK(d) /\ Set(s, d) /\ ~(d.pc = "report" /\ d.ok)
    <3>1. LoopOK(d)
      BY <1>f, <1>g, <1>2, LoopMoves DEF Claim
    <3>2. Set(s, d)
      BY <1>2 DEF Claim
    <3>3. ~(d.pc = "report" /\ d.ok)
      BY <1>b DEF Loop
    <3>4. QED BY <3>1, <3>2, <3>3
  <2>2. \A t \in Task : task'[t].state = "done" => task[t].state = "done"
    BY <1>d, <1>2 DEF Claim, RunTypeOK
  <2> HIDE DEF d
  <2>3. QED BY <1>e, <2>1, <2>2, NothingNew
<1>3. ASSUME NEW s \in Step, QueueEmpty(s) PROVE HandInv'
  <2> DEFINE d == [drain[s] EXCEPT !.pc = "ended"]
  <2>1. LoopOK(d) /\ Set(s, d) /\ ~(d.pc = "report" /\ d.ok)
    <3>1. LoopOK(d)
      BY <1>f, <1>g, <1>3, LoopMoves DEF QueueEmpty
    <3>2. Set(s, d)
      BY <1>3 DEF QueueEmpty
    <3>3. ~(d.pc = "report" /\ d.ok)
      BY <1>b DEF Loop
    <3>4. QED BY <3>1, <3>2, <3>3
  <2>2. \A t \in Task : task'[t].state = "done" => task[t].state = "done"
    BY <1>3 DEF QueueEmpty
  <2> HIDE DEF d
  <2>3. QED BY <1>e, <2>1, <2>2, NothingNew
<1>4. ASSUME NEW s \in Step, CallStep(s) PROVE HandInv'
  <2> DEFINE d == [drain[s] EXCEPT !.pc = "run"]
  <2>1. LoopOK(d) /\ Set(s, d) /\ ~(d.pc = "report" /\ d.ok)
    <3>1. LoopOK(d)
      BY <1>f, <1>g, <1>4, LoopMoves DEF CallStep
    <3>2. Set(s, d)
      BY <1>4 DEF CallStep
    <3>3. ~(d.pc = "report" /\ d.ok)
      BY <1>b DEF Loop
    <3>4. QED BY <3>1, <3>2, <3>3
  <2>2. \A t \in Task : task'[t].state = "done" => task[t].state = "done"
    BY <1>4 DEF CallStep
  <2> HIDE DEF d
  <2>3. QED BY <1>e, <2>1, <2>2, NothingNew
<1>5. ASSUME NEW s \in Step, RefuseStep(s) PROVE HandInv'
  <2> DEFINE d == [drain[s] EXCEPT !.pc = "report", !.ok = FALSE, !.refused = TRUE]
  <2>1. LoopOK(d) /\ Set(s, d) /\ ~(d.pc = "report" /\ d.ok)
    <3>1. LoopOK(d)
      BY <1>f, <1>g, <1>5, LoopMoves DEF RefuseStep
    <3>2. Set(s, d)
      BY <1>5 DEF RefuseStep
    <3>3. ~(d.pc = "report" /\ d.ok)
      BY <1>b DEF Loop
    <3>4. QED BY <3>1, <3>2, <3>3
  <2>2. \A t \in Task : task'[t].state = "done" => task[t].state = "done"
    BY <1>5 DEF RefuseStep
  <2> HIDE DEF d
  <2>3. QED BY <1>e, <2>1, <2>2, NothingNew
<1>6. ASSUME NEW s \in Step, StepCommits(s) PROVE HandInv'
  <2> DEFINE d == [drain[s] EXCEPT !.pc = "hand on", !.ok = drain[s].task \notin parent]
  <2>1. LoopOK(d) /\ Set(s, d) /\ ~(d.pc = "report" /\ d.ok)
    <3>1. LoopOK(d)
      <4>1. drain[s].pc \in Working /\ (drain[s].task \notin parent) \in BOOLEAN
        BY <1>6 DEF StepCommits, Working
      <4>2. QED BY <1>f, <4>1, LoopMoves
    <3>2. Set(s, d)
      BY <1>6 DEF StepCommits
    <3>3. ~(d.pc = "report" /\ d.ok)
      BY <1>b DEF Loop
    <3>4. QED BY <3>1, <3>2, <3>3
  <2>2. \A t \in Task : task'[t].state = "done" => task[t].state = "done"
    BY <1>6 DEF StepCommits
  <2> HIDE DEF d
  <2>3. QED BY <1>e, <2>1, <2>2, NothingNew
<1>7. ASSUME NEW s \in Step, StepHandsOn(s) PROVE HandInv'
  <2> DEFINE d == [drain[s] EXCEPT !.pc = "report", !.ok = TRUE]
             next == Follow[drain[s].task]
  <2>1. drain[s].task \in Task /\ drain[s] \in Loop
    BY <1>b, <1>7 DEF StepHandsOn, Working
  <2>2. d \in Loop /\ d.task = drain[s].task /\ Set(s, d)
    BY <1>7, <2>1 DEF StepHandsOn, Loop, Working
  <2>3. \A u \in Step : drain'[u] = IF u = s THEN d ELSE drain[u]
    BY <1>c, <2>2
  <2>4. /\ next # NoTask => task'[next].state # "none"
        /\ \A t \in Task : task'[t].state = "done" => task[t].state = "done"
    <3>1. CASE next # NoTask /\ ~Enqueued(next)
      <4>1. next \in Task /\ task' = [task EXCEPT ![next].state = "pending"]
        BY <1>a, <1>7, <2>1, <3>1 DEF StepHandsOn, HandsOn
      <4>2. \A t \in Task : task'[t] = IF t = next THEN [task[t] EXCEPT !.state = "pending"] ELSE task[t]
        BY <4>1 DEF RunTypeOK
      <4>3. task'[next].state = "pending"
        BY <1>d, <4>1, <4>2
      <4> HIDE DEF next
      <4>4. QED BY <4>2, <4>3, <3>1
    <3>2. CASE ~(next # NoTask /\ ~Enqueued(next))
      <4>1. task' = task
        BY <1>7, <3>2 DEF StepHandsOn, HandsOn
      <4> HIDE DEF next
      <4>2. QED BY <3>2, <4>1 DEF Enqueued
    <3>3. QED BY <3>1, <3>2
  <2>5. DoneIsHandedOn'
    BY <1>a, <2>4, StaysEnqueued DEF HandInv, DoneIsHandedOn
  <2>6. ASSUME NEW u \in Step, Reporting(u)' PROVE Enqueued(Follow[drain[u].task])'
    <3>1. CASE u = s
      BY <2>2, <2>3, <2>4, <2>6, <3>1 DEF Reporting, Enqueued
    <3>2. CASE u # s
      <4>1. Reporting(u) /\ drain'[u] = drain[u]
        BY <2>3, <2>6, <3>2 DEF Reporting
      <4>2. Follow[drain[u].task] \in Task
        BY <1>a, <1>b, <4>1 DEF Reporting, Working
      <4>3. QED BY <4>1, <4>2, StaysEnqueued DEF HandInv
    <3>3. QED BY <3>1, <3>2
  <2>7. QED BY <2>5, <2>6 DEF HandInv
<1>8. ASSUME NEW s \in Step, StepFails(s) PROVE HandInv'
  <2> DEFINE d == [drain[s] EXCEPT !.pc = "report", !.ok = FALSE]
  <2>1. LoopOK(d) /\ Set(s, d) /\ ~(d.pc = "report" /\ d.ok)
    <3>1. LoopOK(d)
      <4>1. drain[s].pc \in Working
        BY <1>8 DEF StepFails, Working
      <4>2. QED BY <1>f, <4>1, LoopMoves
    <3>2. Set(s, d)
      BY <1>8 DEF StepFails
    <3>3. ~(d.pc = "report" /\ d.ok)
      BY <1>b DEF Loop
    <3>4. QED BY <3>1, <3>2, <3>3
  <2>2. \A t \in Task : task'[t].state = "done" => task[t].state = "done"
    BY <1>8 DEF StepFails
  <2> HIDE DEF d
  <2>3. QED BY <1>e, <2>1, <2>2, NothingNew
<1>9. ASSUME NEW s \in Step, LeaseLost(s) PROVE HandInv'
  <2> DEFINE d == [drain[s] EXCEPT !.pc = "claim", !.task = NoTask]
  <2>1. LoopOK(d) /\ Set(s, d) /\ ~(d.pc = "report" /\ d.ok)
    <3>1. LoopOK(d)
      BY <1>f, <1>g, <1>9, LoopMoves DEF LeaseLost
    <3>2. Set(s, d)
      BY <1>9 DEF LeaseLost
    <3>3. ~(d.pc = "report" /\ d.ok)
      BY <1>b DEF Loop
    <3>4. QED BY <3>1, <3>2, <3>3
  <2>2. \A t \in Task : task'[t].state = "done" => task[t].state = "done"
    BY <1>d, <1>9 DEF LeaseLost, RunTypeOK
  <2> HIDE DEF d
  <2>3. QED BY <1>e, <2>1, <2>2, NothingNew
<1>10. ASSUME NEW s \in Step, Report(s) PROVE HandInv'
  <2> DEFINE d == [drain[s] EXCEPT !.pc = "claim", !.task = NoTask, !.failed = @ \/ ~drain[s].ok]
             v == drain[s].task
  <2>1. LoopOK(d) /\ Set(s, d) /\ d.pc = "claim"
    <3>1. LoopOK(d)
      BY <1>f, <1>g, <1>10, LoopMoves DEF Report
    <3>2. Set(s, d)
      BY <1>10 DEF Report
    <3>3. d.pc = "claim"
      BY <1>b DEF Loop
    <3>4. QED BY <3>1, <3>2, <3>3
  <2>2. \A u \in Step : Reporting(u)' => Reporting(u) /\ drain'[u].task = drain[u].task
    BY <1>e, <2>1
  <2>3. v \in Task /\ (drain[s].ok /\ Follow[v] # NoTask => Enqueued(Follow[v]))
    BY <1>b, <1>10 DEF Report, Reporting, HandInv, Working
  <2>4. \A t \in Task : task'[t].state = "done" => task[t].state = "done" \/ (t = v /\ drain[s].ok)
    BY <1>10, <2>3 DEF Report, RunTypeOK
  <2>5. DoneIsHandedOn'
    BY <1>a, <2>3, <2>4, StaysEnqueued DEF HandInv, DoneIsHandedOn
  <2>6. ASSUME NEW u \in Step, Reporting(u)' PROVE Enqueued(Follow[drain[u].task])'
    <3>1. Follow[drain[u].task] \in Task
      BY <1>a, <1>b, <2>2, <2>6 DEF Reporting, Working
    <3>2. QED BY <2>2, <2>6, <3>1, StaysEnqueued DEF HandInv
  <2>7. QED BY <2>5, <2>6 DEF HandInv
<1>11. ASSUME NEW s \in Step, DrainAborts(s) PROVE HandInv'
  <2> DEFINE d == [drain[s] EXCEPT !.pc = "ended", !.task = NoTask, !.error = TRUE]
  <2>1. LoopOK(d) /\ Set(s, d) /\ ~(d.pc = "report" /\ d.ok)
    <3>1. LoopOK(d)
      BY <1>f, <1>g, <1>11, LoopMoves DEF DrainAborts
    <3>2. Set(s, d)
      BY <1>11 DEF DrainAborts
    <3>3. ~(d.pc = "report" /\ d.ok)
      BY <1>b DEF Loop
    <3>4. QED BY <3>1, <3>2, <3>3
  <2>2. \A t \in Task : task'[t].state = "done" => task[t].state = "done"
    BY <1>11 DEF DrainAborts
  <2> HIDE DEF d
  <2>3. QED BY <1>e, <2>1, <2>2, NothingNew
<1>12. ASSUME NEW t \in Task, BackoffElapses(t) \/ LeaseExpires(t) PROVE HandInv'
  <2>1. drain' = drain /\ \A u \in Task : task'[u].state = "done" => task[u].state = "done"
    BY <1>d, <1>12 DEF BackoffElapses, LeaseExpires, RunTypeOK
  <2>2. QED BY <2>1, NothingNew DEF Reporting
<1>13. CASE NextStep
  <2>1. run.at + 1 \in Step
    BY <1>13, RunBounds DEF NextStep, RunTypeOK, Step
  <2>2. \A u \in Step : Reporting(u)' => Reporting(u) /\ drain'[u].task = drain[u].task
    BY <1>e, <1>13, <2>1, Fresh DEF NextStep, NoDrain
  <2>3. QED BY <1>13, <2>2, NothingNew DEF NextStep
<1>14. CASE Crash \/ \E merges \in BOOLEAN : ExitRun(merges)
  <2>1. task' = task /\ \A u \in Step : drain'[u].pc # "report"
    <3>1. NoDrain.pc # "report"
      BY DEF NoDrain
    <3>2. QED BY <1>14, <3>1 DEF Crash, ExitRun
  <2>2. QED BY <2>1, NothingNew DEF Reporting
<1>15. CASE UNCHANGED vars
  BY <1>15, NothingNew DEF vars, Reporting
<1>16. QED
  BY <1>1, <1>2, <1>3, <1>4, <1>5, <1>6, <1>7, <1>8, <1>9, <1>10, <1>11, <1>12, <1>13, <1>14,
     <1>15 DEF Next, Orchestrate, DrainStep

(* A completed task has handed its object on to the next stage, whatever attempts of it *)
(* failed, lost their lease or died between its commit and the enqueue (_drain_step,    *)
(* the steps' enqueue of the next stage).                                               *)
THEOREM CompletedIsHandedOn == Spec => []DoneIsHandedOn
<1>1. HandInv => DoneIsHandedOn
  BY DEF HandInv
<1>2. QED BY <1>1, TypeInit, TypeStep, HandInit, HandStep, PTL DEF Spec
-----------------------------------------------------------------------------
(* Sums over a finite set                                                  *)

LEMMA LeastNumber ==
    ASSUME NEW T \in SUBSET Nat, T # {}
    PROVE  \E m \in T : \A k \in T : m <= k
<1> DEFINE Less == {ss \in Nat \X Nat : ss[1] < ss[2]}
<1>1. PICK m \in T : \A k \in T : <<k, m>> \notin Less
  <2>1. IsWellFoundedOn(Less, Nat)
    BY NatLessThanWellFounded DEF OpToRel
  <2> HIDE DEF Less
  <2>2. QED BY <2>1, WFMin
<1>2. ASSUME NEW k \in T PROVE m <= k
  <2>1. <<k, m>> \in Nat \X Nat /\ ~(k < m)
    BY <1>1
  <2>2. QED BY <2>1
<1>3. QED BY <1>2

\* Induction over a finite set, as the existence of a least exception.
LEMMA LeastException ==
    ASSUME NEW S, IsFiniteSet(S), NEW F \in SUBSET SUBSET S, F # {}
    PROVE  \E M \in F : \A x \in M : M \ {x} \notin F
<1>1. IsWellFoundedOn(StrictSubsetOrdering(S), SUBSET S)
  BY FS_StrictSubsetOrderingWellFounded, FS_FiniteSubsetsOfFinite
<1>2. PICK M \in F : \A T \in F : <<T, M>> \notin StrictSubsetOrdering(S)
  BY <1>1, WFMin
<1>3. ASSUME NEW x \in M, M \ {x} \in F PROVE FALSE
  BY <1>2, <1>3 DEF StrictSubsetOrdering
<1>4. QED BY <1>3

Any(T) == CHOOSE x \in T : TRUE

\* it has the sums of f over the subsets of S: what MapThenSumSet computes.
Sums(f, S, it) ==
    it = [T \in SUBSET S |-> IF T = {} THEN 0 ELSE f[Any(T)] + it[T \ {Any(T)}]]
SumsUpTo(f, S, it, n) ==
    it = [T \in {U \in SUBSET S : Cardinality(U) <= n} |->
             IF T = {} THEN 0 ELSE f[Any(T)] + it[T \ {Any(T)}]]

LEMMA SumsExist ==
    ASSUME NEW f, NEW S, IsFiniteSet(S)
    PROVE  \E it : Sums(f, S, it)
<1> DEFINE Of(n) == {U \in SUBSET S : Cardinality(U) <= n}
           T == {n \in Nat : ~\E it : SumsUpTo(f, S, it, n)}
<1>a. \A U \in SUBSET S : IsFiniteSet(U) /\ Cardinality(U) \in Nat /\ Cardinality(U) <= Cardinality(S)
  BY FS_Subset, FS_CardinalityType
<1>b. ASSUME NEW U \in SUBSET S, U # {}
      PROVE  /\ Any(U) \in U /\ U \ {Any(U)} \in SUBSET S
             /\ Cardinality(U \ {Any(U)}) = Cardinality(U) - 1
  <2>1. Any(U) \in U
    BY <1>b DEF Any
  <2>2. QED BY <1>a, <2>1, FS_RemoveElement
<1>1. T = {}
  <2> SUFFICES ASSUME T # {} PROVE FALSE
    OBVIOUS
  <2>1. PICK n \in T : \A k \in T : n <= k
    <3>1. T \in SUBSET Nat
      OBVIOUS
    <3> HIDE DEF T
    <3>2. QED BY <3>1, LeastNumber
  <2>2. n # 0
    <3> DEFINE it == [U \in Of(0) |-> 0]
    <3>1. \A U \in Of(0) : U = {}
      <4>1. ASSUME NEW U \in Of(0) PROVE U = {}
        <5>1. Cardinality(U) = 0 /\ IsFiniteSet(U)
          BY <1>a
        <5>2. QED BY <5>1, FS_EmptySet
      <4>2. QED BY <4>1
    <3>2. SumsUpTo(f, S, it, 0)
      BY <3>1 DEF SumsUpTo
    <3>3. QED BY <3>2
  <2>3. PICK h : SumsUpTo(f, S, h, n - 1)
    <3>1. n - 1 \in Nat /\ ~(n <= n - 1)
      BY <2>1, <2>2
    <3>2. QED BY <2>1, <3>1
  <2> DEFINE it == [U \in Of(n) |-> IF U = {} THEN 0 ELSE f[Any(U)] + h[U \ {Any(U)}]]
  <2>4. \A U \in Of(n - 1) : it[U] = h[U]
    <3>1. \A U \in Of(n - 1) : U \in Of(n)
      BY <1>a, <2>1
    <3>2. QED BY <2>3, <3>1 DEF SumsUpTo
  <2>5. \A U \in Of(n) : U # {} => U \ {Any(U)} \in Of(n - 1)
    BY <1>a, <1>b, <2>1
  <2>6. SumsUpTo(f, S, it, n)
    <3>1. \A U \in Of(n) : it[U] = IF U = {} THEN 0 ELSE f[Any(U)] + it[U \ {Any(U)}]
      BY <2>4, <2>5
    <3>2. QED BY <3>1 DEF SumsUpTo
  <2>7. QED BY <2>1, <2>6
<1>2. Cardinality(S) \in Nat
  BY FS_CardinalityType
<1>3. PICK it : SumsUpTo(f, S, it, Cardinality(S))
  BY <1>1, <1>2
<1>4. {U \in SUBSET S : Cardinality(U) <= Cardinality(S)} = SUBSET S
  BY <1>a
<1>5. Sums(f, S, it)
  BY <1>3, <1>4 DEF Sums, SumsUpTo
<1>6. QED BY <1>5

Total(f, S) == MapThenSumSet(LAMBDA x : f[x], S)

LEMMA TotalIs ==
    ASSUME NEW f, NEW S, IsFiniteSet(S)
    PROVE  \E it : Sums(f, S, it) /\ Total(f, S) = it[S]
<1>1. Total(f, S) = (CHOOSE it : Sums(f, S, it))[S]
  BY DEF Total, MapThenSumSet, MapThenFoldSet, Sums, Any
<1>2. QED BY <1>1, SumsExist

\* Counting nothing gives zero, and counting one more at q gives one more.
LEMMA TotalOfNone ==
    ASSUME NEW S, IsFiniteSet(S)
    PROVE  Total([x \in S |-> 0], S) = 0
<1> DEFINE f == [x \in S |-> 0]
<1>1. PICK it : Sums(f, S, it) /\ Total(f, S) = it[S]
  BY TotalIs
<1> DEFINE F == {T \in SUBSET S : it[T] # 0}
<1>2. F = {}
  <2> SUFFICES ASSUME F # {} PROVE FALSE
    OBVIOUS
  <2>1. PICK M \in F : \A x \in M : M \ {x} \notin F
    <3>1. F \in SUBSET SUBSET S
      OBVIOUS
    <3> HIDE DEF F
    <3>2. QED BY <3>1, LeastException
  <2>2. it[M] = IF M = {} THEN 0 ELSE f[Any(M)] + it[M \ {Any(M)}]
    BY <1>1 DEF Sums
  <2>3. M # {} /\ Any(M) \in M
    BY <2>2 DEF Any
  <2>4. it[M \ {Any(M)}] = 0 /\ f[Any(M)] = 0
    BY <2>1, <2>3
  <2>5. it[M] = 0
    BY <2>2, <2>3, <2>4
  <2>6. QED BY <2>1, <2>5
<1>3. QED BY <1>1, <1>2

LEMMA TotalOfOneMore ==
    ASSUME NEW S, IsFiniteSet(S), NEW f \in [S -> Nat], NEW q \in S
    PROVE  /\ Total(f, S) \in Nat
           /\ Total([f EXCEPT ![q] = @ + 1], S) = Total(f, S) + 1
<1> DEFINE g == [f EXCEPT ![q] = @ + 1]
<1>1. PICK it : Sums(f, S, it) /\ Total(f, S) = it[S]
  BY TotalIs
<1>2. PICK jt : Sums(g, S, jt) /\ Total(g, S) = jt[S]
  BY TotalIs
<1> DEFINE Good(T) == it[T] \in Nat /\ jt[T] = it[T] + (IF q \in T THEN 1 ELSE 0)
           F == {T \in SUBSET S : ~Good(T)}
<1>3. F = {}
  <2> SUFFICES ASSUME F # {} PROVE FALSE
    OBVIOUS
  <2>1. PICK M \in F : \A x \in M : M \ {x} \notin F
    <3>1. F \in SUBSET SUBSET S
      OBVIOUS
    <3> HIDE DEF F
    <3>2. QED BY <3>1, LeastException
  <2> DEFINE x == Any(M)
             R == M \ {x}
  <2>2. /\ it[M] = IF M = {} THEN 0 ELSE f[x] + it[R]
        /\ jt[M] = IF M = {} THEN 0 ELSE g[x] + jt[R]
    BY <1>1, <1>2 DEF Sums
  <2>3. M # {}
    BY <2>1, <2>2
  <2>4. x \in M /\ R \in SUBSET S
    BY <2>3 DEF Any
  <2>5. Good(R)
    BY <2>1, <2>4
  <2>6. f[x] \in Nat /\ g[x] = f[x] + (IF x = q THEN 1 ELSE 0)
    BY <2>4
  <2>7. q \in M <=> (x = q \/ q \in R)
    BY <2>4
  <2>8. q \in R => x # q
    OBVIOUS
  <2> HIDE DEF x, R, g
  <2>9. Good(M)
    BY <2>2, <2>3, <2>5, <2>6, <2>7, <2>8
  <2>10. QED BY <2>1, <2>9
<1>4. Good(S)
  BY <1>3
<1>5. QED BY <1>1, <1>2, <1>4

-----------------------------------------------------------------------------
(* The budget                                                              *)

(* The budget a run has spent is what its drains have called for, and a run that is over *)
(* has left the calls as they were.                                                     *)
BudgetInv ==
    /\ Total(calls, Step) <= MaxCalls
    /\ run.on => Total(calls, Step) = run.spent

LEMMA StepsAreFinite == IsFiniteSet(Step)
BY RunBounds, FS_Interval DEF Step

LEMMA BudgetInit == Init => BudgetInv
<1>1. Init => calls = [s \in Step |-> 0] /\ run.on = FALSE
  BY DEF Init, NoRun
<1>2. Total([s \in Step |-> 0], Step) = 0
  BY StepsAreFinite, TotalOfNone
<1>3. QED BY <1>1, <1>2, RunBounds DEF BudgetInv

LEMMA BudgetStep == RunTypeOK /\ RunInv /\ BudgetInv /\ [Next]_vars => BudgetInv'
<1> SUFFICES ASSUME RunTypeOK, RunInv, BudgetInv, [Next]_vars
             PROVE  BudgetInv'
  OBVIOUS
<1>1. ASSUME NEW mode \in {"sequential", "concurrent"}, NEW sandbox \in BOOLEAN, StartRun(mode, sandbox)
      PROVE  BudgetInv'
  <2>1. calls' = [s \in Step |-> 0] /\ run'.spent = 0
    BY <1>1 DEF StartRun, NoRun
  <2>2. Total(calls', Step) = 0
    BY <2>1, StepsAreFinite, TotalOfNone
  <2>3. QED BY <2>1, <2>2, RunBounds DEF BudgetInv
<1>2. ASSUME NEW s \in Step, CallStep(s) PROVE BudgetInv'
  <2>1. drain[s].pc = "budget" /\ HasRoom(s) /\ calls' = [calls EXCEPT ![s] = @ + 1]
    BY <1>2 DEF CallStep
  <2>2. run.on
    BY <2>1 DEF RunInv, NoDrain
  <2>3. run.spent \in Nat /\ run.spent < MaxCalls /\ run'.spent = run.spent + 1
    BY <1>2, <2>1 DEF CallStep, HasRoom, RunTypeOK
  <2>4. Total(calls', Step) = Total(calls, Step) + 1
    BY <2>1, StepsAreFinite, TotalOfOneMore DEF RunTypeOK
  <2>5. Total(calls', Step) = run'.spent
    BY <2>2, <2>3, <2>4 DEF BudgetInv
  <2>6. QED BY <2>3, <2>5, RunBounds DEF BudgetInv
<1>3. ASSUME UNCHANGED calls, run'.on => run.on /\ run'.spent = run.spent
      PROVE  BudgetInv'
  BY <1>3 DEF BudgetInv
<1>4. CASE UNCHANGED <<run, calls>>
  BY <1>3, <1>4
<1>5. ASSUME NEW s \in Step,
             \/ \E t \in Task : Claim(s, t)
             \/ QueueEmpty(s) \/ StepCommits(s) \/ StepHandsOn(s) \/ StepFails(s)
             \/ Report(s) \/ LeaseLost(s) \/ DrainAborts(s)
      PROVE  BudgetInv'
  BY <1>4, <1>5 DEF Claim, QueueEmpty, StepCommits, StepHandsOn, StepFails, Report, LeaseLost, DrainAborts
<1>6. ASSUME NEW t \in Task, BackoffElapses(t) \/ LeaseExpires(t) PROVE BudgetInv'
  BY <1>4, <1>6 DEF BackoffElapses, LeaseExpires
<1>7. ASSUME NEW s \in Step, RefuseStep(s) PROVE BudgetInv'
  <2>1. UNCHANGED calls /\ run'.on = run.on /\ run'.spent = run.spent
    BY <1>7 DEF RefuseStep, RunTypeOK
  <2>2. QED BY <1>3, <2>1
<1>8. CASE NextStep
  <2>1. UNCHANGED calls /\ run'.on = run.on /\ run'.spent = run.spent
    BY <1>8 DEF NextStep, RunTypeOK
  <2>2. QED BY <1>3, <2>1
<1>9. ASSUME NEW merges \in BOOLEAN, ExitRun(merges) PROVE BudgetInv'
  <2>1. UNCHANGED calls /\ ~run'.on
    BY <1>9 DEF ExitRun, RunTypeOK
  <2>2. QED BY <1>3, <2>1
<1>10. CASE Crash
  <2>1. UNCHANGED calls /\ ~run'.on
    BY <1>10 DEF Crash, NoRun
  <2>2. QED BY <1>3, <2>1
<1>11. CASE UNCHANGED vars
  BY <1>4, <1>11 DEF vars
<1>12. QED
  BY <1>1, <1>2, <1>5, <1>6, <1>7, <1>8, <1>9, <1>10, <1>11 DEF Next, Orchestrate, DrainStep

(* The drains of a run together call no more often than its budget has room for, however *)
(* many steps it has and in whichever mode (TokenBudget.consume, _drain_step).           *)
THEOREM CallsAreCapped == Spec => []BudgetCapsCalls
<1>1. BudgetInv => BudgetCapsCalls
  BY DEF BudgetInv, BudgetCapsCalls, Total
<1>2. QED BY <1>1, TypeInit, TypeStep, RunInit, RunStep, BudgetInit, BudgetStep, PTL DEF Spec

=============================================================================
