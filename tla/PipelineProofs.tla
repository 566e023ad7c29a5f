--------------------------- MODULE PipelineProofs ---------------------------
(***************************************************************************)
(* Theorems of Pipeline, for any objects, orchestrators, contents, verdicts *)
(* the Reviewer may give, retries and numbers of starts, edits and losses.  *)
(***************************************************************************)
EXTENDS Pipeline, FiniteSetTheorems, SequenceTheorems, WellFoundedInduction, TLAPS

-----------------------------------------------------------------------------
(* The log's lookups                                                       *)

\* A set of indices has a last one.
LEMMA LastIndex ==
    ASSUME NEW n \in Nat, NEW T \in SUBSET (1..n), T # {}
    PROVE  \E i \in T : \A j \in T : j <= i
<1> DEFINE F == FiniteSubsetsOf(1..n)
           R == StrictSubsetOrdering(1..n)
           D == {i..n : i \in T}
<1>1. D \subseteq F
  <2>1. ASSUME NEW i \in T PROVE IsFiniteSet(i..n) /\ i..n \subseteq 1..n
    BY FS_Interval
  <2>2. QED BY <2>1 DEF FiniteSubsetsOf
<1>2. IsWellFoundedOn(R, F)
  BY FS_StrictSubsetOrderingWellFounded, FS_Interval
<1>3. \E x \in D : \A y \in D : <<y, x>> \notin R
  <2>1. D # {}
    OBVIOUS
  <2> HIDE DEF F, R, D
  <2>2. QED BY <1>1, <1>2, <2>1, WFMin
<1>4. PICK i \in T : \A j \in T : <<j..n, i..n>> \notin R
  BY <1>3
<1>5. ASSUME NEW j \in T PROVE j <= i
  <2>1. j..n \in SUBSET (1..n) /\ i..n \in SUBSET (1..n)
    OBVIOUS
  <2>2. SUFFICES ASSUME j > i PROVE FALSE
    OBVIOUS
  <2>3. j..n \subseteq i..n /\ i \in i..n /\ i \notin j..n
    BY <2>2
  <2>4. <<j..n, i..n>> \in R
    BY <2>1, <2>3 DEF StrictSubsetOrdering
  <2>5. QED BY <1>4, <2>4
<1>6. QED BY <1>5

\* What find_transition finds is an entry of the log, of that agent and content.
LEMMA Found ==
    ASSUME NEW l \in Seq(Entry), NEW agent, NEW hash, Transitioned(l, agent, hash)
    PROVE  \E i \in DOMAIN l : /\ FindTransition(l, agent, hash) = l[i]
                               /\ l[i].agent = agent
                               /\ l[i].hash = hash
<1> DEFINE T == Entries(l, agent, hash)
<1>1. Len(l) \in Nat /\ DOMAIN l = 1..Len(l)
  OBVIOUS
<1>2. T \in SUBSET (1..Len(l)) /\ T # {}
  BY <1>1 DEF Entries, Transitioned
<1>3. \E i \in T : \A j \in T : j <= i
  BY <1>1, <1>2, LastIndex
<1> DEFINE k == CHOOSE i \in T : \A j \in T : j <= i
<1>4. k \in T
  BY <1>3
<1>5. FindTransition(l, agent, hash) = l[k]
  BY DEF FindTransition
<1>6. QED BY <1>4, <1>5 DEF Entries

-----------------------------------------------------------------------------
(* Type correctness                                                        *)

USE DEF Step, Content, Outcome

LEMMA TaskTypes ==
    /\ AnyTask \in Task
    /\ \A step \in Step, o \in Object : NewTask(step, o) \in Task
    /\ \A t \in Task : t.retry + 1 < MaxRetries => [t EXCEPT !.retry = t.retry + 1] \in Task
<1>1. \A step \in Step, o \in Object : NewTask(step, o) \in Task
  BY PipelineBounds DEF Task, NewTask
<1>2. AnyTask \in Task
  BY <1>1, ObjectAssumption DEF AnyTask
<1>3. ASSUME NEW t \in Task, t.retry + 1 < MaxRetries
      PROVE  [t EXCEPT !.retry = t.retry + 1] \in Task
  BY <1>3, PipelineBounds DEF Task
<1>4. QED BY <1>1, <1>2, <1>3

LEMMA PutType ==
    ASSUME waiting \in [Task -> Nat], NEW t \in Task, Put(t)
    PROVE  waiting' \in [Task -> Nat]
BY DEF Put

\* What a run skips to is an outcome of its own step.
LEMMA SkipOutcome ==
    ASSUME TypeOK, NEW w \in Worker, AlreadyDone(w)
    PROVE  /\ AfterSkip(w) \in Outcomes(job[w].step)
           /\ \E i \in DOMAIN log[job[w].obj] :
                  /\ log[job[w].obj][i].agent = job[w].step
                  /\ log[job[w].obj][i].to = AfterSkip(w)
<1> DEFINE o == job[w].obj
<1>1. o \in Object /\ log[o] \in Seq(Entry)
  BY DEF TypeOK, Task
<1>2. PICK i \in DOMAIN log[o] :
          /\ FindTransition(log[o], job[w].step, content[o]) = log[o][i]
          /\ log[o][i].agent = job[w].step
  BY <1>1, Found DEF AlreadyDone
<1>3. log[o][i].to \in Outcomes(log[o][i].agent)
  BY <1>1, <1>2 DEF Entry
<1>4. AfterSkip(w) = log[o][i].to
  BY <1>2 DEF AfterSkip
<1>5. QED BY <1>2, <1>3, <1>4

\* Copies are sessions.
LEMMA CopyTypes ==
    ASSUME TypeOK
    PROVE  /\ NoCopy \in Graph /\ Persisted \in Graph
           /\ \A w \in Worker : /\ copy[w].content \in [Object -> Content]
                                /\ copy[w].log \in [Object -> Seq(Entry)]
                                /\ copy[w].nodes \subseteq Node
<1>1. NoCopy \in Graph
  <2>1. <<>> \in Seq(Entry) /\ 0 \in Content
    BY PipelineBounds
  <2>2. QED BY <2>1 DEF NoCopy, Graph
<1>2. QED BY <1>1 DEF TypeOK, Graph, Persisted

LEMMA TypeStep == TypeOK /\ [Next]_vars => TypeOK'
<1> SUFFICES ASSUME TypeOK, [Next]_vars
             PROVE  TypeOK'
  OBVIOUS
<1>a. \A t \in Task : t.step \in Step /\ t.obj \in Object /\ t.retry \in Nat
  BY DEF Task
<1>b. /\ 0 \in Content /\ MaxStarts \in Nat
      /\ \A step : Outcomes(step) \subseteq Outcome
  BY PipelineBounds, VerdictAssumption DEF Outcomes
<1> USE <1>b DEF TypeOK, graphVars, queueVars, runVars, historyVars, counters, GoTo, EndRun, DropRead
<1>1. ASSUME NEW o \in Object, StartPipeline(o) PROVE TypeOK'
  <2>1. waiting' \in [Task -> Nat]
    BY <1>1, TaskTypes, PutType DEF StartPipeline
  <2>2. QED BY <1>1, <2>1 DEF StartPipeline
<1>2. ASSUME NEW o \in Object, NEW c \in Content, EditObject(o, c) PROVE TypeOK'
  BY <1>2 DEF EditObject
<1>3. ASSUME NEW w \in Worker, NEW t \in Task, ClaimTask(w, t) PROVE TypeOK'
  <2>1. waiting' \in [Task -> Nat]
    BY <1>3 DEF ClaimTask
  <2>2. QED BY <1>3, <2>1 DEF ClaimTask
<1>4. ASSUME NEW w \in Worker, Read(w) PROVE TypeOK'
  <2>1. CASE AlreadyDone(w)
    <3>1. AfterSkip(w) \in Outcomes(job[w].step)
      BY <2>1, SkipOutcome
    <3>2. /\ route' = [route EXCEPT ![w] = AfterSkip(w)]
          /\ pc' = [pc EXCEPT ![w] = "routing"]
          /\ UNCHANGED <<readHash, readLog, copy>>
      BY <1>4, <2>1 DEF Read
    <3>3. UNCHANGED <<graphVars, queueVars, job, holds, lostRace, historyVars, counters>>
      BY <1>4 DEF Read
    <3>4. QED BY <3>1, <3>2, <3>3
  <2>2. CASE ~AlreadyDone(w)
    <3>1. content[job[w].obj] \in Content /\ log[job[w].obj] \in Seq(Entry)
      BY <1>a
    <3>2. /\ readHash' = [readHash EXCEPT ![w] = content[job[w].obj]]
          /\ readLog' = [readLog EXCEPT ![w] = log[job[w].obj]]
          /\ copy' = [copy EXCEPT ![w] = Persisted]
          /\ pc' = [pc EXCEPT ![w] = "writing"]
          /\ UNCHANGED route
      BY <1>4, <2>2 DEF Read
    <3>3. UNCHANGED <<graphVars, queueVars, job, holds, lostRace, historyVars, counters>>
      BY <1>4 DEF Read
    <3>4. QED BY <3>1, <3>2, <3>3, CopyTypes
  <2>3. QED BY <2>1, <2>2
<1>5. ASSUME NEW w \in Worker, AttemptFails(w) PROVE TypeOK'
  BY <1>5, CopyTypes DEF AttemptFails
<1>6. ASSUME NEW w \in Worker, NEW to \in Outcome, Commit(w, to) PROVE TypeOK'
  <2> DEFINE o == job[w].obj
             e == [agent |-> job[w].step, hash |-> readHash[w], to |-> to]
  <2>1. e \in Entry /\ o \in Object /\ to \in Outcomes(job[w].step)
    BY <1>6, <1>a DEF Commit, Entry
  <2>2. /\ log' = [copy[w].log EXCEPT ![o] = Append(readLog[w], e)]
        /\ nodes' = copy[w].nodes \cup {[agent |-> e.agent, obj |-> o, hash |-> e.hash, to |-> to]}
        /\ content' = copy[w].content
    BY <1>6 DEF Commit
  <2>3. content' \in [Object -> Content] /\ log' \in [Object -> Seq(Entry)] /\ nodes' \subseteq Node
    <3>1. Append(readLog[w], e) \in Seq(Entry)
      BY <2>1
    <3>2. [agent |-> e.agent, obj |-> o, hash |-> e.hash, to |-> to] \in Node
      BY <2>1 DEF Node, Entry
    <3> HIDE DEF e
    <3>3. QED BY <2>1, <2>2, <3>1, <3>2, CopyTypes
  <2>4. given' \in [Object -> SUBSET Verdict] /\ overwritten' \in BOOLEAN
    BY <1>6, <2>1 DEF Commit, Outcomes
  <2>5. copy' \in [Worker -> Graph]
    BY <1>6, CopyTypes DEF Commit
  <2>6. /\ route' = [route EXCEPT ![w] = to] /\ pc' = [pc EXCEPT ![w] = "routing"]
        /\ DropRead(w) /\ UNCHANGED <<queueVars, job, holds, lostRace, counters>>
    BY <1>6 DEF Commit
  <2>7. QED BY <2>1, <2>3, <2>4, <2>5, <2>6
<1>7. ASSUME NEW w \in Worker, LoseRace(w) PROVE TypeOK'
  <2>1. CASE WinnerSeen(w)
    <3>1. AfterSkip(w) \in Outcomes(job[w].step)
      BY <2>1, SkipOutcome DEF WinnerSeen
    <3>2. /\ route' = [route EXCEPT ![w] = AfterSkip(w)]
          /\ pc' = [pc EXCEPT ![w] = "routing"]
          /\ UNCHANGED lostRace
      BY <1>7, <2>1 DEF LoseRace
    <3>3. DropRead(w) /\ UNCHANGED <<graphVars, queueVars, job, holds, historyVars, counters>>
      BY <1>7 DEF LoseRace
    <3>4. QED BY <3>1, <3>2, <3>3, CopyTypes
  <2>2. CASE ~WinnerSeen(w)
    <3>1. /\ lostRace' = [lostRace EXCEPT ![w] = TRUE]
          /\ pc' = [pc EXCEPT ![w] = "failing"]
          /\ UNCHANGED route
      BY <1>7, <2>2 DEF LoseRace
    <3>2. DropRead(w) /\ UNCHANGED <<graphVars, queueVars, job, holds, historyVars, counters>>
      BY <1>7 DEF LoseRace
    <3>3. QED BY <3>1, <3>2, CopyTypes
  <2>3. QED BY <2>1, <2>2
<1>8. ASSUME NEW w \in Worker, EnqueueNext(w) PROVE TypeOK'
  <2>1. waiting' \in [Task -> Nat]
    BY <1>8, <1>a, TaskTypes, PutType DEF EnqueueNext
  <2>2. QED BY <1>8, <2>1 DEF EnqueueNext
<1>9. ASSUME NEW w \in Worker, CompleteTask(w) PROVE TypeOK'
  BY <1>9, TaskTypes, CopyTypes DEF CompleteTask
<1>10. ASSUME NEW w \in Worker, FailTask(w) PROVE TypeOK'
  <2>1. waiting' \in [Task -> Nat] /\ dead' \subseteq Task
    <3>1. CASE holds[w] /\ AttemptsAfter(w) < MaxRetries
      BY <1>10, <3>1, TaskTypes, PutType, PipelineBounds DEF FailTask, AttemptsAfter
    <3>2. CASE ~(holds[w] /\ AttemptsAfter(w) < MaxRetries)
      BY <1>10, <1>a, <3>2, PipelineBounds DEF FailTask, AttemptsAfter
    <3>3. QED BY <3>1, <3>2
  <2>2. QED BY <1>10, <2>1, TaskTypes, CopyTypes DEF FailTask
<1>11. ASSUME NEW w \in Worker, LoseLease(w) PROVE TypeOK'
  <2>1. waiting' \in [Task -> Nat]
    BY <1>11, PutType DEF LoseLease
  <2>2. QED BY <1>11, <2>1 DEF LoseLease
<1>12. ASSUME NEW w \in Worker, Crash(w) PROVE TypeOK'
  <2>1. waiting' \in [Task -> Nat]
    BY <1>12, PutType DEF Crash
  <2>2. EndRun(w) /\ UNCHANGED <<graphVars, dead, historyVars, starts>>
    BY <1>12 DEF Crash
  <2>3. QED BY <2>1, <2>2, TaskTypes, CopyTypes
<1>13. CASE UNCHANGED vars
  BY <1>13 DEF vars
<1>14. ASSUME NEW w \in Worker, Refresh(w) PROVE TypeOK'
  BY <1>14, CopyTypes DEF Refresh
<1> HIDE DEF TypeOK
<1>15. QED BY <1>1, <1>2, <1>3, <1>4, <1>5, <1>6, <1>7, <1>8, <1>9, <1>10, <1>11,
              <1>12, <1>13, <1>14 DEF Next, StepOf

\* Every variable keeps its type.
THEOREM PipelineTypeCorrect == Spec => []TypeOK
<1>1. Init => TypeOK
  <2>1. 0 \in Content
    BY PipelineBounds
  <2>2. Init => NoCopy \in Graph
    BY <2>1 DEF NoCopy, Graph
  <2> HIDE DEF Content, Outcome, Step
  <2>3. ASSUME Init PROVE copy \in [Worker -> Graph] /\ route \in [Worker -> Outcome]
    BY <2>2, <2>3 DEF Init, Outcome
  <2>4. ASSUME Init PROVE given \in [Object -> SUBSET Verdict] /\ overwritten \in BOOLEAN
    BY <2>4 DEF Init
  <2>5. ASSUME Init
        PROVE  /\ content \in [Object -> Content] /\ log \in [Object -> Seq(Entry)]
               /\ nodes \subseteq Node /\ waiting \in [Task -> Nat] /\ dead \subseteq Task
               /\ starts \in [Object -> 0..MaxStarts]
    BY <2>1, <2>5, PipelineBounds DEF Init
  <2>6. ASSUME Init
        PROVE  /\ pc \in [Worker -> {"idle", "reading", "writing", "routing", "completing",
                                     "failing"}]
               /\ \A w \in Worker : pc[w] # "routing"
               /\ job \in [Worker -> Task] /\ holds \in [Worker -> BOOLEAN]
               /\ readHash \in [Worker -> Content] /\ readLog \in [Worker -> Seq(Entry)]
               /\ lostRace \in [Worker -> BOOLEAN]
    BY <2>1, <2>6, TaskTypes DEF Init
  <2>7. QED BY <2>3, <2>4, <2>5, <2>6 DEF TypeOK
<1>2. QED BY <1>1, TypeStep, PTL DEF Spec

LEMMA JobType ==
    ASSUME TypeOK, NEW w \in Worker
    PROVE  job[w] \in Task /\ job[w].step \in Step /\ job[w].obj \in Object
BY DEF TypeOK, Task

-----------------------------------------------------------------------------
(* The verdict on a content is given once                                  *)

\* The entry says what one of the nodes N says.
HasNode(N, e, o) ==
    \E n \in N : n.agent = e.agent /\ n.obj = o /\ n.hash = e.hash /\ n.to = e.to

\* As long as every commit is built on what is persisted, logs are rewritten whole from
\* stale reads, but nodes are only added.  So it is the nodes that make a verdict final:
\* each entry of a log, and of what a run has read of it, has its node, two nodes of one
\* agent and content agree, and a copy shows no node that is not there.
LogsRecorded == \A o \in Object : \A i \in DOMAIN log[o] : HasNode(nodes, log[o][i], o)

ReadsRecorded ==
    \A w \in Worker : pc[w] = "writing" =>
        /\ \A i \in DOMAIN readLog[w] : HasNode(nodes, readLog[w][i], job[w].obj)
        /\ copy[w].nodes \subseteq nodes

OneOutcome ==
    \A n, m \in nodes : n.agent = m.agent /\ n.obj = m.obj /\ n.hash = m.hash => n.to = m.to

RecordInv == LogsRecorded /\ ReadsRecorded /\ OneOutcome

\* Once a commit has replaced what it was not built on, that is never forgotten.
LEMMA StaysOverwritten == [Next]_vars => (overwritten => overwritten')
BY DEF Next, vars, StepOf, StartPipeline, EditObject, ClaimTask, Read, AttemptFails, Refresh,
       Commit, LoseRace, EnqueueNext, CompleteTask, FailTask, LoseLease, Crash, historyVars

\* A commit that replaces nothing unseen adds one node and rewrites one log.
LEMMA CommitOnCurrent ==
    ASSUME NEW w \in Worker, NEW to \in Outcome, Commit(w, to), ~overwritten'
    PROVE  /\ ~overwritten /\ content' = content
           /\ log' = [log EXCEPT ![job[w].obj] =
                         Append(readLog[w], [agent |-> job[w].step, hash |-> readHash[w],
                                             to |-> to])]
           /\ nodes' = nodes \cup {[agent |-> job[w].step, obj |-> job[w].obj,
                                   hash |-> readHash[w], to |-> to]}
           /\ ~ \E n \in nodes : IsNodeOf(n, w)
<1>1. ~overwritten /\ copy[w] = Persisted
  BY DEF Commit
<1>2. copy[w].content = content /\ copy[w].log = log /\ copy[w].nodes = nodes
  BY <1>1 DEF Persisted
<1>3. QED BY <1>1, <1>2 DEF Commit, NodeExists

LEMMA CommitRecords ==
    ASSUME TypeOK, RecordInv, NEW w \in Worker, NEW to \in Outcome, Commit(w, to),
           ~overwritten'
    PROVE  RecordInv'
<1> DEFINE o == job[w].obj
           e == [agent |-> job[w].step, hash |-> readHash[w], to |-> to]
           n == [agent |-> e.agent, obj |-> o, hash |-> e.hash, to |-> to]
<1>1. o \in Object /\ pc[w] = "writing"
  BY JobType DEF Commit
<1>2. /\ log' = [log EXCEPT ![o] = Append(readLog[w], e)]
      /\ nodes' = nodes \cup {n}
      /\ ~ \E m \in nodes : IsNodeOf(m, w)
      /\ pc' = [pc EXCEPT ![w] = "routing"]
      /\ readLog' = [readLog EXCEPT ![w] = <<>>]
      /\ \A v \in Worker : v # w => copy'[v] = copy[v]
      /\ UNCHANGED job
  BY CommitOnCurrent DEF Commit, GoTo, DropRead, TypeOK
<1>3. \A d, x : HasNode(nodes, d, x) => HasNode(nodes', d, x)
  BY <1>2 DEF HasNode
<1>4. LogsRecorded'
  <2>1. HasNode(nodes', e, o)
    <3>1. n \in nodes' /\ n.agent = e.agent /\ n.obj = o /\ n.hash = e.hash /\ n.to = e.to
      BY <1>2
    <3> HIDE DEF n
    <3>2. QED BY <3>1 DEF HasNode
  <2>2. ASSUME NEW i \in DOMAIN Append(readLog[w], e)
        PROVE  HasNode(nodes', Append(readLog[w], e)[i], o)
    <3>1. readLog[w] \in Seq(Entry)
      BY DEF TypeOK
    <3>2. CASE i \in DOMAIN readLog[w]
      <4>1. Append(readLog[w], e)[i] = readLog[w][i]
        BY <3>1, <3>2
      <4>2. HasNode(nodes, readLog[w][i], o)
        BY <1>1, <3>2 DEF RecordInv, ReadsRecorded
      <4>3. QED BY <1>3, <4>1, <4>2
    <3>3. CASE i \notin DOMAIN readLog[w]
      <4>1. Append(readLog[w], e)[i] = e
        BY <3>1, <3>3
      <4>2. QED BY <2>1, <4>1
    <3>4. QED BY <3>2, <3>3
  <2>3. ASSUME NEW x \in Object, x # o, NEW i \in DOMAIN log'[x]
        PROVE  HasNode(nodes', log'[x][i], x)
    <3>1. log'[x] = log[x]
      BY <1>1, <1>2, <2>3 DEF TypeOK
    <3>2. QED BY <1>3, <2>3, <3>1 DEF RecordInv, LogsRecorded
  <2>4. log'[o] = Append(readLog[w], e)
    BY <1>1, <1>2 DEF TypeOK
  <2>5. QED BY <2>2, <2>3, <2>4 DEF LogsRecorded
<1>5. ReadsRecorded'
  <2>1. ASSUME NEW v \in Worker, pc'[v] = "writing"
        PROVE  v # w /\ pc[v] = "writing" /\ readLog'[v] = readLog[v]
    BY <1>1, <1>2, <2>1 DEF TypeOK
  <2>2. QED BY <1>2, <1>3, <2>1 DEF RecordInv, ReadsRecorded
<1>6. OneOutcome'
  <2>1. \A m \in nodes : ~ (m.agent = n.agent /\ m.obj = n.obj /\ m.hash = n.hash)
    BY <1>2 DEF IsNodeOf
  <2>2. QED BY <1>2, <2>1 DEF RecordInv, OneOutcome
<1>7. QED BY <1>4, <1>5, <1>6 DEF RecordInv

LEMMA RecordStep == TypeOK /\ RecordInv /\ [Next]_vars /\ ~overwritten' => RecordInv'
<1> SUFFICES ASSUME TypeOK, RecordInv, [Next]_vars, ~overwritten'
             PROVE  RecordInv'
  OBVIOUS
\* A step that leaves the graph alone and opens no new read.
<1>a. ASSUME UNCHANGED <<log, nodes>>,
             \A v \in Worker : pc'[v] = "writing" =>
                 /\ pc[v] = "writing" /\ readLog'[v] = readLog[v] /\ job'[v] = job[v]
                 /\ copy'[v] \in {copy[v], Persisted}
      PROVE  RecordInv'
  BY <1>a DEF RecordInv, Persisted, LogsRecorded, ReadsRecorded, OneOutcome, HasNode
<1> USE DEF graphVars, queueVars, runVars, historyVars, counters, GoTo, EndRun, DropRead
<1>1. ASSUME NEW o \in Object, StartPipeline(o) PROVE RecordInv'
  BY <1>a, <1>1 DEF StartPipeline
<1>2. ASSUME NEW o \in Object, NEW c \in Content, EditObject(o, c) PROVE RecordInv'
  BY <1>a, <1>2 DEF EditObject
<1>3. ASSUME NEW w \in Worker, NEW t \in Task, ClaimTask(w, t) PROVE RecordInv'
  BY <1>a, <1>3 DEF ClaimTask, TypeOK
<1>4. ASSUME NEW w \in Worker, Read(w) PROVE RecordInv'
  <2>1. CASE AlreadyDone(w)
    BY <1>a, <1>4, <2>1 DEF Read, TypeOK
  <2>2. CASE ~AlreadyDone(w)
    <3>1. job[w].obj \in Object
      BY JobType
    <3>2. /\ readLog' = [readLog EXCEPT ![w] = log[job[w].obj]]
          /\ copy' = [copy EXCEPT ![w] = Persisted]
          /\ pc' = [pc EXCEPT ![w] = "writing"]
          /\ UNCHANGED <<log, nodes, job>>
      BY <1>4, <2>2 DEF Read
    <3>3. ASSUME NEW v \in Worker, pc'[v] = "writing", NEW i \in DOMAIN readLog'[v]
          PROVE  HasNode(nodes', readLog'[v][i], job'[v].obj)
      <4>1. CASE v = w
        <5>1. readLog'[v] = log[job[w].obj]
          BY <3>2, <4>1 DEF TypeOK
        <5>2. QED BY <3>1, <3>2, <3>3, <4>1, <5>1 DEF RecordInv, LogsRecorded
      <4>2. CASE v # w
        <5>1. readLog'[v] = readLog[v] /\ pc'[v] = pc[v]
          BY <3>2, <4>2 DEF TypeOK
        <5>2. QED BY <3>2, <3>3, <5>1 DEF RecordInv, ReadsRecorded
      <4>3. QED BY <4>1, <4>2
    <3>4. LogsRecorded' /\ OneOutcome'
      BY <3>2 DEF RecordInv, LogsRecorded, OneOutcome
    <3>5. ASSUME NEW v \in Worker, pc'[v] = "writing" PROVE copy'[v].nodes \subseteq nodes'
      BY <3>2, <3>5 DEF RecordInv, ReadsRecorded, Persisted, TypeOK
    <3>6. QED BY <3>3, <3>4, <3>5 DEF RecordInv, ReadsRecorded
  <2>3. QED BY <2>1, <2>2
<1>5. ASSUME NEW w \in Worker, AttemptFails(w) PROVE RecordInv'
  BY <1>a, <1>5 DEF AttemptFails, TypeOK
<1>6. ASSUME NEW w \in Worker, NEW to \in Outcome, Commit(w, to) PROVE RecordInv'
  BY <1>6, CommitRecords
<1>7. ASSUME NEW w \in Worker, LoseRace(w) PROVE RecordInv'
  <2>1. pc'[w] \in {"routing", "failing"} /\ \A v \in Worker \ {w} : pc'[v] = pc[v]
    BY <1>7 DEF LoseRace, TypeOK
  <2>2. QED BY <1>a, <1>7, <2>1 DEF LoseRace, TypeOK
<1>8. ASSUME NEW w \in Worker, EnqueueNext(w) PROVE RecordInv'
  BY <1>a, <1>8 DEF EnqueueNext, TypeOK
<1>9. ASSUME NEW w \in Worker, CompleteTask(w) PROVE RecordInv'
  BY <1>a, <1>9 DEF CompleteTask, TypeOK
<1>10. ASSUME NEW w \in Worker, FailTask(w) PROVE RecordInv'
  BY <1>a, <1>10 DEF FailTask, TypeOK
<1>11. ASSUME NEW w \in Worker, LoseLease(w) PROVE RecordInv'
  BY <1>a, <1>11 DEF LoseLease
<1>12. ASSUME NEW w \in Worker, Crash(w) PROVE RecordInv'
  BY <1>a, <1>12 DEF Crash, TypeOK
<1>13. CASE UNCHANGED vars
  BY <1>a, <1>13 DEF vars
<1>14. ASSUME NEW w \in Worker, Refresh(w) PROVE RecordInv'
  BY <1>a, <1>14 DEF Refresh, TypeOK
<1>15. QED BY <1>1, <1>2, <1>3, <1>4, <1>5, <1>6, <1>7, <1>8, <1>9, <1>10, <1>11,
              <1>12, <1>13, <1>14 DEF Next, StepOf

LEMMA NodesGrow == [Next]_vars /\ ~overwritten' => nodes \subseteq nodes'
<1> SUFFICES ASSUME [Next]_vars, ~overwritten' PROVE nodes \subseteq nodes'
  OBVIOUS
<1>1. CASE UNCHANGED nodes
  BY <1>1
<1>2. CASE \E w \in Worker, to \in Outcome : Commit(w, to)
  BY <1>2, CommitOnCurrent
<1>3. QED BY <1>1, <1>2
          DEF Next, vars, StepOf, StartPipeline, EditObject, ClaimTask, Read, AttemptFails,
              Refresh, LoseRace, EnqueueNext, CompleteTask, FailTask, LoseLease, Crash, graphVars

LEMMA RecordInit == Init => RecordInv
BY DEF Init, RecordInv, LogsRecorded, ReadsRecorded, OneOutcome

\* Until a process commits over what it has not seen, no commit replaces a verdict by a
\* different one for the same content, however stale the log it writes back is.
THEOREM VerdictsAreFinal == Spec => VerdictIsFinal
<1>1. ASSUME TypeOK, ~overwritten => RecordInv, [Next]_vars
      PROVE  [~overwritten' =>
                \A o \in Object : \A i \in DOMAIN log[o], j \in DOMAIN log'[o] :
                    /\ log'[o][j].agent = log[o][i].agent
                    /\ log'[o][j].hash = log[o][i].hash
                    => log'[o][j].to = log[o][i].to]_log
  <2> SUFFICES ASSUME ~overwritten'
               PROVE  \A o \in Object : \A i \in DOMAIN log[o], j \in DOMAIN log'[o] :
                          /\ log'[o][j].agent = log[o][i].agent
                          /\ log'[o][j].hash = log[o][i].hash
                          => log'[o][j].to = log[o][i].to
    OBVIOUS
  <2>1. nodes \subseteq nodes' /\ RecordInv /\ RecordInv'
    BY <1>1, NodesGrow, StaysOverwritten, RecordStep
  <2>2. QED BY <2>1 DEF RecordInv, LogsRecorded, OneOutcome, HasNode
<1>2. Spec => [](~overwritten => RecordInv)
  BY RecordInit, RecordStep, StaysOverwritten, PipelineTypeCorrect, PTL DEF Spec
<1>3. QED BY <1>1, <1>2, PipelineTypeCorrect, PTL DEF Spec, VerdictIsFinal

\* Every step but a commit leaves the logs alone, and what a run has newly read is what is there.
LEMMA LogsRest ==
    ASSUME TypeOK, [Next]_vars, ~ \E w \in Worker, to \in Outcome : Commit(w, to)
    PROVE  /\ log' = log
           /\ \A o \in Object : edits'[o] = 0 => edits[o] = 0 \/ edits[o] \notin Nat
           /\ \A v \in Worker : pc'[v] = "writing" =>
                  /\ job'[v] = job[v]
                  /\ \/ readLog'[v] = readLog[v] /\ pc[v] = "writing"
                     \/ readLog'[v] = log[job[v].obj]
                  /\ \/ copy'[v] = copy[v] /\ pc[v] = "writing"
                     \/ copy'[v] = Persisted
<1> USE DEF graphVars, queueVars, runVars, historyVars, counters, GoTo, EndRun, DropRead, TypeOK
<1> DEFINE Goal ==
       /\ log' = log
       /\ \A o \in Object : edits'[o] = 0 => edits[o] = 0 \/ edits[o] \notin Nat
       /\ \A v \in Worker : pc'[v] = "writing" =>
              /\ job'[v] = job[v]
              /\ \/ readLog'[v] = readLog[v] /\ pc[v] = "writing"
                 \/ readLog'[v] = log[job[v].obj]
              /\ \/ copy'[v] = copy[v] /\ pc[v] = "writing"
                 \/ copy'[v] = Persisted
<1>1. ASSUME NEW o \in Object, StartPipeline(o) PROVE Goal
  BY <1>1 DEF StartPipeline
<1>2. ASSUME NEW o \in Object, NEW c \in Content, EditObject(o, c) PROVE Goal
  BY <1>2 DEF EditObject
<1>3. ASSUME NEW w \in Worker, NEW t \in Task, ClaimTask(w, t) PROVE Goal
  BY <1>3 DEF ClaimTask
<1>4. ASSUME NEW w \in Worker, Read(w) PROVE Goal
  BY <1>4 DEF Read
<1>5. ASSUME NEW w \in Worker, AttemptFails(w) PROVE Goal
  BY <1>5 DEF AttemptFails
<1>6. ASSUME NEW w \in Worker, LoseRace(w) PROVE Goal
  BY <1>6 DEF LoseRace
<1>7. ASSUME NEW w \in Worker, EnqueueNext(w) PROVE Goal
  BY <1>7 DEF EnqueueNext
<1>8. ASSUME NEW w \in Worker, CompleteTask(w) \/ FailTask(w) \/ Crash(w) PROVE Goal
  BY <1>8 DEF CompleteTask, FailTask, Crash
<1>9. ASSUME NEW w \in Worker, LoseLease(w) PROVE Goal
  BY <1>9 DEF LoseLease
<1>10. ASSUME NEW w \in Worker, Refresh(w) PROVE Goal
  BY <1>10 DEF Refresh
<1>11. CASE UNCHANGED vars
  BY <1>11 DEF vars
<1>12. QED BY <1>1, <1>2, <1>3, <1>4, <1>5, <1>6, <1>7, <1>8, <1>9, <1>10, <1>11 DEF Next, StepOf

-----------------------------------------------------------------------------
(* A started object is never stranded                                      *)

\* Every verdict in the log l of o is one the Reviewer has given: overwritten or not, a
\* log is only ever made of entries of earlier logs and a new one.
Accounted(l, o) ==
    \A i \in DOMAIN l : l[i].agent = "ReviewerAgent" => l[i].to \in given[o]

RunAccounted(w) ==
    pc[w] = "writing" => /\ Accounted(readLog[w], job[w].obj)
                         /\ \A o \in Object : Accounted(copy[w].log[o], o)

AccountedInv ==
    /\ \A o \in Object : Accounted(log[o], o)
    /\ \A w \in Worker : RunAccounted(w)

LEMMA GivenGrows == TypeOK /\ [Next]_vars => \A o \in Object : given[o] \subseteq given'[o]
<1> SUFFICES ASSUME TypeOK, [Next]_vars PROVE \A o \in Object : given[o] \subseteq given'[o]
  OBVIOUS
<1>1. CASE UNCHANGED given
  BY <1>1
<1>2. CASE \E w \in Worker, to \in Outcome : Commit(w, to)
  <2>1. PICK w \in Worker, to \in Outcome : Commit(w, to)
    BY <1>2
  <2>2. given' = [given EXCEPT ![job[w].obj] = IF job[w].step = "ReviewerAgent"
                                               THEN @ \cup {to} ELSE @]
    BY <2>1 DEF Commit
  <2>3. QED BY <2>2 DEF TypeOK
<1>3. QED BY <1>1, <1>2
          DEF Next, vars, StepOf, StartPipeline, EditObject, ClaimTask, Read, AttemptFails,
              Refresh, LoseRace, EnqueueNext, CompleteTask, FailTask, LoseLease, Crash,
              historyVars

LEMMA CommitAccounts ==
    ASSUME TypeOK, AccountedInv, NEW w \in Worker, NEW to \in Outcome, Commit(w, to),
           \A o \in Object : given[o] \subseteq given'[o]
    PROVE  AccountedInv'
<1> DEFINE o == job[w].obj
           e == [agent |-> job[w].step, hash |-> readHash[w], to |-> to]
<1>1. /\ o \in Object /\ pc[w] = "writing" /\ readLog[w] \in Seq(Entry)
      /\ copy[w].log \in [Object -> Seq(Entry)]
  BY JobType, CopyTypes DEF Commit, TypeOK
<1>2. /\ log' = [copy[w].log EXCEPT ![o] = Append(readLog[w], e)]
      /\ pc' = [pc EXCEPT ![w] = "routing"]
      /\ \A v \in Worker : v # w => readLog'[v] = readLog[v] /\ copy'[v] = copy[v]
      /\ UNCHANGED job
      /\ e.agent = "ReviewerAgent" => to \in given'[o]
  BY <1>1 DEF Commit, GoTo, DropRead, TypeOK
<1>3. \A l, x : x \in Object /\ Accounted(l, x) => Accounted(l, x)'
  BY DEF Accounted
<1>4. RunAccounted(w)
  BY DEF AccountedInv
<1>5. ASSUME NEW x \in Object PROVE Accounted(log[x], x)'
  <2>1. CASE x # o
    <3>1. log'[x] = copy[w].log[x]
      BY <1>1, <1>2, <2>1
    <3>2. Accounted(copy[w].log[x], x)
      BY <1>1, <1>4 DEF RunAccounted
    <3>3. QED BY <3>1, <3>2 DEF Accounted
  <2>2. CASE x = o
    <3>1. log'[x] = Append(readLog[w], e)
      BY <1>1, <1>2, <2>2
    <3>2. Accounted(readLog[w], o)
      BY <1>1, <1>4 DEF RunAccounted
    <3>3. ASSUME NEW i \in DOMAIN Append(readLog[w], e),
                 Append(readLog[w], e)[i].agent = "ReviewerAgent"
          PROVE  Append(readLog[w], e)[i].to \in given'[o]
      <4>1. CASE i \in DOMAIN readLog[w]
        <5>1. Append(readLog[w], e)[i] = readLog[w][i]
          BY <1>1, <4>1
        <5>2. QED BY <1>1, <3>2, <3>3, <4>1, <5>1 DEF Accounted
      <4>2. CASE i \notin DOMAIN readLog[w]
        <5>1. Append(readLog[w], e)[i] = e
          BY <1>1, <4>2
        <5>2. e.to = to
          OBVIOUS
        <5> HIDE DEF e
        <5>3. QED BY <1>2, <3>3, <5>1, <5>2
      <4>3. QED BY <4>1, <4>2
    <3>4. QED BY <2>2, <3>1, <3>3 DEF Accounted
  <2>3. QED BY <2>1, <2>2
<1>6. ASSUME NEW v \in Worker PROVE RunAccounted(v)'
  <2>1. SUFFICES ASSUME pc'[v] = "writing"
                 PROVE  /\ Accounted(readLog[v], job[v].obj)'
                        /\ \A x \in Object : Accounted(copy[v].log[x], x)'
    BY DEF RunAccounted
  <2>2. v # w /\ pc[v] = "writing" /\ job[v].obj \in Object
    BY <1>1, <1>2, <2>1, JobType DEF TypeOK
  <2>3. RunAccounted(v) /\ readLog'[v] = readLog[v] /\ copy'[v] = copy[v] /\ job'[v] = job[v]
    BY <1>2, <2>2 DEF AccountedInv
  <2>4. QED BY <2>2, <2>3 DEF RunAccounted, Accounted
<1>7. QED BY <1>5, <1>6 DEF AccountedInv

LEMMA AccountedStep == TypeOK /\ AccountedInv /\ [Next]_vars => AccountedInv'
<1> SUFFICES ASSUME TypeOK, AccountedInv, [Next]_vars
             PROVE  AccountedInv'
  OBVIOUS
<1>a. \A o \in Object : given[o] \subseteq given'[o]
  BY GivenGrows
<1>b. \A w \in Worker : job[w].obj \in Object
  BY JobType
<1>1. ASSUME NEW w \in Worker, NEW to \in Outcome, Commit(w, to) PROVE AccountedInv'
  BY <1>1, <1>a, CommitAccounts
\* Any other step reads logs, if it reads at all, as they are persisted.
<1>2. ASSUME log' = log,
             \A v \in Worker : pc'[v] = "writing" =>
                 /\ job'[v] = job[v]
                 /\ \/ readLog'[v] = readLog[v] /\ pc[v] = "writing"
                    \/ readLog'[v] = log[job[v].obj]
                 /\ \/ copy'[v] = copy[v] /\ pc[v] = "writing"
                    \/ copy'[v] = Persisted
      PROVE  AccountedInv'
  <2>1. \A o \in Object : Accounted(log[o], o)'
    BY <1>2, <1>a DEF AccountedInv, Accounted
  <2>2. ASSUME NEW v \in Worker, pc'[v] = "writing" PROVE RunAccounted(v)'
    <3>1. Accounted(readLog[v], job[v].obj)'
      <4>1. CASE readLog'[v] = readLog[v] /\ pc[v] = "writing"
        <5>1. Accounted(readLog[v], job[v].obj)
          BY <4>1 DEF AccountedInv, RunAccounted
        <5>2. QED BY <1>2, <1>a, <1>b, <2>2, <4>1, <5>1 DEF Accounted
      <4>2. CASE readLog'[v] = log[job[v].obj]
        BY <1>2, <1>a, <1>b, <2>2, <4>2 DEF AccountedInv, Accounted
      <4>3. QED BY <1>2, <2>2, <4>1, <4>2
    <3>2. ASSUME NEW o \in Object PROVE Accounted(copy[v].log[o], o)'
      <4>1. CASE copy'[v] = copy[v] /\ pc[v] = "writing"
        <5>1. Accounted(copy[v].log[o], o)
          BY <4>1 DEF AccountedInv, RunAccounted
        <5>2. QED BY <1>a, <4>1, <5>1 DEF Accounted
      <4>2. CASE copy'[v] = Persisted
        <5>1. copy'[v].log = log
          BY <4>2 DEF Persisted
        <5>2. Accounted(log[o], o)
          BY DEF AccountedInv
        <5>3. QED BY <1>a, <5>1, <5>2 DEF Accounted
      <4>3. QED BY <1>2, <2>2, <4>1, <4>2
    <3>3. QED BY <3>1, <3>2 DEF RunAccounted
  <2>3. QED BY <2>1, <2>2 DEF AccountedInv, RunAccounted
<1>3. CASE ~ \E w \in Worker, to \in Outcome : Commit(w, to)
  BY <1>2, <1>3, LogsRest
<1>4. QED BY <1>1, <1>3

\* A worker that will hand the object on, or give its row back: it has the lease and
\* is not yet past enqueueing the next stage.
Carries(w, o) ==
    /\ holds[w] /\ job[w].obj = o
    /\ \/ pc[w] \in {"reading", "writing", "failing"}
       \/ pc[w] = "routing" /\ route[w] # "resolved"

Queued(o) == \E t \in Task : t.obj = o /\ waiting[t] > 0

Carried(o) ==
    \/ Approved(o)
    \/ Queued(o)
    \/ \E t \in dead : t.obj = o
    \/ \E w \in Worker : Carries(w, o)

\* NotStranded is not inductive: the row it finds may be the one a worker is about to
\* complete.
CarriedInv == \A o \in Object : starts[o] > 0 => Carried(o)

LEMMA PutQueues ==
    ASSUME waiting \in [Task -> Nat], NEW t \in Task, Put(t)
    PROVE  \A o : t.obj = o \/ Queued(o) => Queued(o)'
<1>1. waiting'[t] > 0 /\ \A u \in Task : waiting[u] > 0 => waiting'[u] > 0
  BY DEF Put
<1>2. QED BY <1>1 DEF Queued

\* A step of one worker that takes nothing from the queues keeps the invariant if what
\* that worker carried is carried on.
LEMMA CarriedOn ==
    ASSUME TypeOK, CarriedInv, [Next]_vars, UNCHANGED starts, dead \subseteq dead', NEW w \in Worker,
           \A o : Queued(o) => Queued(o)',
           \A v \in Worker : v # w => /\ pc'[v] = pc[v] /\ holds'[v] = holds[v]
                                      /\ job'[v] = job[v] /\ route'[v] = route[v],
           \A o \in Object : Carries(w, o) => Carried(o)'
    PROVE  CarriedInv'
<1> SUFFICES ASSUME NEW o \in Object, starts'[o] > 0 PROVE Carried(o)'
  BY DEF CarriedInv
<1>1. Carried(o)
  BY DEF CarriedInv
<1>2. ASSUME Approved(o) PROVE Approved(o)'
  BY <1>2, GivenGrows DEF Approved
<1>3. ASSUME NEW v \in Worker, v # w, Carries(v, o) PROVE Carries(v, o)'
  BY <1>3 DEF Carries
<1>4. QED BY <1>1, <1>2, <1>3 DEF Carried

\* What a run that skips hands on "resolved" has been approved.
LEMMA SkipApproved ==
    ASSUME TypeOK, AccountedInv, NEW w \in Worker, AlreadyDone(w), AfterSkip(w) = "resolved"
    PROVE  Approved(job[w].obj)
<1> DEFINE o == job[w].obj
<1>1. o \in Object /\ job[w].step \in Step
  BY JobType
<1>2. PICK i \in DOMAIN log[o] : log[o][i].agent = job[w].step /\ log[o][i].to = "resolved"
  BY SkipOutcome
<1>3. job[w].step = "ReviewerAgent"
  BY <1>1, SkipOutcome DEF Outcomes
<1>4. QED BY <1>1, <1>2, <1>3 DEF AccountedInv, Accounted, Approved

LEMMA CarriedStep == TypeOK /\ AccountedInv /\ CarriedInv /\ [Next]_vars => CarriedInv'
<1> SUFFICES ASSUME TypeOK, AccountedInv, CarriedInv, [Next]_vars
             PROVE  CarriedInv'
  OBVIOUS
<1>a. /\ \A w \in Worker : pc[w] = "routing" => route[w] \in Outcome
      /\ waiting \in [Task -> Nat]
  BY DEF TypeOK
<1>b. UNCHANGED waiting => \A o : Queued(o) => Queued(o)'
  BY DEF Queued
<1> USE DEF graphVars, queueVars, runVars, historyVars, counters, GoTo, EndRun, DropRead
<1>1. ASSUME NEW o \in Object, StartPipeline(o) PROVE CarriedInv'
  <2>1. Put(NewTask("ResearcherAgent", o)) /\ NewTask("ResearcherAgent", o).obj = o
    BY <1>1 DEF StartPipeline, NewTask
  <2>2. Queued(o)' /\ \A x : Queued(x) => Queued(x)'
    BY <1>a, <2>1, TaskTypes, PutQueues
  <2>3. ASSUME NEW x \in Object, x # o, starts'[x] > 0 PROVE Carried(x)'
    <3>1. starts[x] > 0
      BY <1>1, <2>3 DEF StartPipeline, TypeOK
    <3>2. Carried(x)
      BY <3>1 DEF CarriedInv
    <3>3. QED BY <1>1, <2>2, <3>2 DEF StartPipeline, Carried, Approved, Carries
  <2>4. QED BY <2>2, <2>3 DEF CarriedInv, Carried
<1>2. ASSUME NEW o \in Object, NEW c \in Content, EditObject(o, c) PROVE CarriedInv'
  BY <1>2, <1>b DEF EditObject, CarriedInv, Carried, Approved, Carries
<1>3. ASSUME NEW w \in Worker, NEW t \in Task, ClaimTask(w, t) PROVE CarriedInv'
  <2>1. Carries(w, t.obj)' /\ \A o : ~ Carries(w, o)
    BY <1>3 DEF ClaimTask, Carries, TypeOK
  <2>2. \A v \in Worker : v # w => \A o : Carries(v, o) => Carries(v, o)'
    BY <1>3 DEF ClaimTask, Carries, TypeOK
  <2>3. ASSUME NEW o, Queued(o) PROVE Queued(o)' \/ o = t.obj
    BY <1>3, <2>3, <1>a DEF ClaimTask, Queued
  <2>4. QED BY <1>3, <2>1, <2>2, <2>3 DEF ClaimTask, CarriedInv, Carried, Approved
<1>4. ASSUME NEW w \in Worker, Read(w) PROVE CarriedInv'
  <2>1. ASSUME NEW o \in Object, Carries(w, o) PROVE Carried(o)'
    <3>1. CASE AlreadyDone(w) /\ AfterSkip(w) = "resolved"
      BY <1>4, <2>1, <3>1, SkipApproved DEF Read, Carries, Carried, Approved
    <3>2. CASE AlreadyDone(w) /\ AfterSkip(w) # "resolved"
      <4>1. Carries(w, o)'
        BY <1>4, <2>1, <3>2 DEF Read, Carries, TypeOK
      <4>2. QED BY <4>1 DEF Carried
    <3>3. CASE ~AlreadyDone(w)
      <4>1. Carries(w, o)'
        BY <1>4, <2>1, <3>3 DEF Read, Carries, TypeOK
      <4>2. QED BY <4>1 DEF Carried
    <3>4. QED BY <3>1, <3>2, <3>3
  <2>2. /\ UNCHANGED <<starts, dead, waiting, holds, job>>
        /\ \A v \in Worker : v # w => pc'[v] = pc[v] /\ route'[v] = route[v]
    BY <1>4 DEF Read, TypeOK
  <2>3. QED BY <1>b, <2>1, <2>2, CarriedOn
<1>5. ASSUME NEW w \in Worker, AttemptFails(w) PROVE CarriedInv'
  <2>1. ASSUME NEW o \in Object, Carries(w, o) PROVE Carried(o)'
    <3>1. Carries(w, o)'
      BY <1>5, <2>1 DEF AttemptFails, Carries, TypeOK
    <3>2. QED BY <3>1 DEF Carried
  <2>2. /\ UNCHANGED <<starts, dead, waiting, holds, job, route>>
        /\ \A v \in Worker : v # w => pc'[v] = pc[v]
    BY <1>5 DEF AttemptFails, TypeOK
  <2>3. QED BY <1>b, <2>1, <2>2, CarriedOn
<1>6. ASSUME NEW w \in Worker, NEW to \in Outcome, Commit(w, to) PROVE CarriedInv'
  <2>1. ASSUME NEW o \in Object, Carries(w, o) PROVE Carried(o)'
    <3>1. CASE to = "resolved"
      <4>1. job[w].step = "ReviewerAgent"
        BY <1>6, <3>1, JobType DEF Commit, Outcomes
      <4>2. given' = [given EXCEPT ![job[w].obj] = @ \cup {to}]
        BY <1>6, <4>1 DEF Commit
      <4>3. Approved(o)'
        BY <2>1, <3>1, <4>2 DEF Carries, Approved, TypeOK
      <4>4. QED BY <4>3 DEF Carried
    <3>2. CASE to # "resolved"
      <4>1. Carries(w, o)'
        BY <1>6, <2>1, <3>2 DEF Commit, Carries, TypeOK
      <4>2. QED BY <4>1 DEF Carried
    <3>3. QED BY <3>1, <3>2
  <2>2. /\ UNCHANGED <<starts, dead, waiting, holds, job>>
        /\ \A v \in Worker : v # w => pc'[v] = pc[v] /\ route'[v] = route[v]
    BY <1>6 DEF Commit, TypeOK
  <2>3. QED BY <1>b, <2>1, <2>2, CarriedOn
<1>7. ASSUME NEW w \in Worker, LoseRace(w) PROVE CarriedInv'
  <2>1. ASSUME NEW o \in Object, Carries(w, o) PROVE Carried(o)'
    <3>1. CASE WinnerSeen(w) /\ AfterSkip(w) = "resolved"
      BY <1>7, <2>1, <3>1, SkipApproved DEF LoseRace, WinnerSeen, Carries, Carried, Approved
    <3>2. CASE WinnerSeen(w) /\ AfterSkip(w) # "resolved"
      <4>1. Carries(w, o)'
        BY <1>7, <2>1, <3>2 DEF LoseRace, Carries, TypeOK
      <4>2. QED BY <4>1 DEF Carried
    <3>3. CASE ~WinnerSeen(w)
      <4>1. Carries(w, o)'
        BY <1>7, <2>1, <3>3 DEF LoseRace, Carries, TypeOK
      <4>2. QED BY <4>1 DEF Carried
    <3>4. QED BY <3>1, <3>2, <3>3
  <2>2. /\ UNCHANGED <<starts, dead, waiting, holds, job>>
        /\ \A v \in Worker : v # w => pc'[v] = pc[v] /\ route'[v] = route[v]
    BY <1>7 DEF LoseRace, TypeOK
  <2>3. QED BY <1>b, <2>1, <2>2, CarriedOn
<1>8. ASSUME NEW w \in Worker, EnqueueNext(w) PROVE CarriedInv'
  <2>1. /\ route[w] = "awaiting_review" => Put(NewTask("ReviewerAgent", job[w].obj))
        /\ route[w] = "needs_research" => Put(NewTask("ResearcherAgent", job[w].obj))
        /\ route[w] = "resolved" => UNCHANGED waiting
        /\ pc[w] = "routing"
    BY <1>8 DEF EnqueueNext
  <2>2. \A step \in Step : /\ NewTask(step, job[w].obj) \in Task
                          /\ NewTask(step, job[w].obj).obj = job[w].obj
    BY TaskTypes, JobType DEF NewTask
  <2>3. \A o : Queued(o) \/ (route[w] # "resolved" /\ o = job[w].obj) => Queued(o)'
    BY <1>a, <1>b, <2>1, <2>2, PutQueues
  <2>a. ASSUME NEW o \in Object, Carries(w, o) PROVE Carried(o)'
    <3>1. o = job[w].obj /\ route[w] # "resolved"
      BY <2>1, <2>a DEF Carries
    <3>2. QED BY <2>3, <3>1 DEF Carried
  <2>4. /\ UNCHANGED <<starts, dead, holds, job>>
        /\ \A v \in Worker : v # w => pc'[v] = pc[v] /\ route'[v] = route[v]
    BY <1>8 DEF EnqueueNext, TypeOK
  <2>5. QED BY <2>3, <2>4, <2>a, CarriedOn
<1>9. ASSUME NEW w \in Worker, CompleteTask(w) PROVE CarriedInv'
  <2>1. \A o : ~ Carries(w, o)
    BY <1>9 DEF CompleteTask, Carries
  <2>2. /\ UNCHANGED <<starts, dead, waiting>>
        /\ \A v \in Worker : v # w => /\ pc'[v] = pc[v] /\ route'[v] = route[v]
                                      /\ holds'[v] = holds[v] /\ job'[v] = job[v]
    BY <1>9 DEF CompleteTask, TypeOK
  <2>3. QED BY <1>b, <2>1, <2>2, CarriedOn
<1>10. ASSUME NEW w \in Worker, FailTask(w) PROVE CarriedInv'
  <2>1. /\ UNCHANGED starts
        /\ \A v \in Worker : v # w => /\ pc'[v] = pc[v] /\ route'[v] = route[v]
                                      /\ holds'[v] = holds[v] /\ job'[v] = job[v]
    BY <1>10 DEF FailTask, TypeOK
  <2>2. CASE ~holds[w]
    <3>1. UNCHANGED <<waiting, dead>> /\ \A o : ~ Carries(w, o)
      BY <1>10, <2>2 DEF FailTask, Carries
    <3>2. QED BY <1>b, <2>1, <3>1, CarriedOn
  <2>3. CASE holds[w] /\ AttemptsAfter(w) >= MaxRetries
    <3>1. dead' = dead \cup {job[w]} /\ UNCHANGED waiting
      BY <1>10, <2>3 DEF FailTask
    <3>2. \A o \in Object : Carries(w, o) => Carried(o)'
      BY <3>1 DEF Carries, Carried
    <3>3. QED BY <1>b, <2>1, <3>1, <3>2, CarriedOn
  <2>4. CASE holds[w] /\ ~ (AttemptsAfter(w) >= MaxRetries)
    <3> DEFINE t == [job[w] EXCEPT !.retry = job[w].retry + 1]
    <3>1. Put(t) /\ UNCHANGED dead /\ job[w].retry + 1 < MaxRetries
      <4>1. job[w].retry \in Nat
        BY JobType DEF Task
      <4>2. QED BY <1>10, <2>4, <4>1, PipelineBounds DEF FailTask, AttemptsAfter
    <3>2. t \in Task /\ t.obj = job[w].obj
      <4>1. t \in Task
        BY <3>1, JobType, TaskTypes
      <4>2. t.obj = job[w].obj
        BY JobType DEF Task
      <4>3. QED BY <4>1, <4>2
    <3> HIDE DEF t
    <3>3. \A o : job[w].obj = o \/ Queued(o) => Queued(o)'
      BY <1>a, <3>1, <3>2, PutQueues
    <3>4. \A o \in Object : Carries(w, o) => Carried(o)'
      BY <3>3 DEF Carries, Carried
    <3>5. QED BY <2>1, <3>1, <3>3, <3>4, CarriedOn
  <2>5. QED BY <2>2, <2>3, <2>4
<1>11. ASSUME NEW w \in Worker, LoseLease(w) PROVE CarriedInv'
  <2>1. /\ UNCHANGED <<starts, dead, pc, job, route>>
        /\ \A v \in Worker : v # w => holds'[v] = holds[v]
    BY <1>11 DEF LoseLease, TypeOK
  <2>2. \A o : job[w].obj = o \/ Queued(o) => Queued(o)'
    BY <1>11, <1>a, JobType, PutQueues DEF LoseLease
  <2>3. \A o \in Object : Carries(w, o) => Carried(o)'
    BY <2>2 DEF Carries, Carried
  <2>4. QED BY <2>1, <2>2, <2>3, CarriedOn
<1>12. ASSUME NEW w \in Worker, Crash(w) PROVE CarriedInv'
  <2>1. /\ UNCHANGED <<starts, dead>>
        /\ \A v \in Worker : v # w => /\ pc'[v] = pc[v] /\ route'[v] = route[v]
                                      /\ holds'[v] = holds[v] /\ job'[v] = job[v]
    BY <1>12 DEF Crash, TypeOK
  <2>2. \A o : Queued(o) \/ (holds[w] /\ job[w].obj = o) => Queued(o)'
    <3>1. CASE holds[w]
      BY <1>12, <1>a, <3>1, JobType, PutQueues DEF Crash
    <3>2. CASE ~holds[w]
      BY <1>12, <1>b, <3>2 DEF Crash
    <3>3. QED BY <3>1, <3>2
  <2>3. \A o \in Object : Carries(w, o) => Carried(o)'
    BY <2>2 DEF Carries, Carried
  <2>4. QED BY <2>1, <2>2, <2>3, CarriedOn
<1>13. CASE UNCHANGED vars
  BY <1>13, <1>b DEF vars, CarriedInv, Carried, Approved, Carries
<1>14. ASSUME NEW w \in Worker, Refresh(w) PROVE CarriedInv'
  BY <1>14, <1>b DEF Refresh, CarriedInv, Carried, Approved, Carries
<1>15. QED BY <1>1, <1>2, <1>3, <1>4, <1>5, <1>6, <1>7, <1>8, <1>9, <1>10, <1>11,
              <1>12, <1>13, <1>14 DEF Next, StepOf

\* An object a pipeline was started for has a task, or has had the Reviewer's approval,
\* whatever commits have been overwritten.
THEOREM NeverStranded == Spec => []NotStranded
<1>1. Init => CarriedInv /\ AccountedInv
  BY DEF Init, CarriedInv, AccountedInv, Accounted, RunAccounted
<1>2. CarriedInv => NotStranded
  BY DEF CarriedInv, Carried, Carries, Queued, NotStranded, HasTask
<1>3. QED BY <1>1, <1>2, CarriedStep, AccountedStep, PipelineTypeCorrect, PTL DEF Spec

-----------------------------------------------------------------------------
(* Losing a race                                                           *)

Researched(o) == \E n \in nodes : n.obj = o /\ n.agent = "ResearcherAgent"

\* A review of o is asked for, under way, or about to be asked for.
ReviewWaits(o) == \E t \in Task : t.step = "ReviewerAgent" /\ t.obj = o /\ waiting[t] > 0
ReviewPending(o) ==
    \/ ReviewWaits(o)
    \/ \E w \in Worker : /\ pc[w] # "idle" /\ job[w].obj = o
                         /\ \/ job[w].step = "ReviewerAgent"
                            \/ pc[w] = "routing" /\ route[w] = "awaiting_review"

Logged(l, agent) == Transitioned(l, agent, 0)

\* As long as nobody edits o there is one content, every node of it is in the log, however
\* stale the log a run writes back was, since a review only starts with its research logged.
ReadIsFresh(w) ==
    /\ readHash[w] = 0
    /\ job[w].step = "ReviewerAgent" => Logged(readLog[w], "ResearcherAgent")
Unedited(o) ==
    /\ content[o] = 0
    /\ \A n \in nodes : n.obj = o => /\ n.hash = 0 /\ Logged(log[o], n.agent) /\ Researched(o)
                                     /\ n.agent \in Step
    /\ ReviewPending(o) => Researched(o)
    /\ \A w \in Worker : pc[w] = "writing" /\ job[w].obj = o => ReadIsFresh(w)
UneditedInv == edits \in [Object -> Nat] /\ \A o \in Object : edits[o] = 0 => Unedited(o)

\* A lease ends with its run, and only a run on an edited object ends in a lost race.
RunInv ==
    \A w \in Worker : /\ holds[w] => pc[w] # "idle"
                      /\ lostRace[w] => pc[w] = "failing" /\ edits[job[w].obj] # 0

RaceInv == UneditedInv /\ RunInv

\* What a run that skips hands on for review has been researched.
LEMMA SkipResearched ==
    ASSUME TypeOK, RecordInv, NEW w \in Worker, AlreadyDone(w), AfterSkip(w) = "awaiting_review"
    PROVE  Researched(job[w].obj)
<1> DEFINE o == job[w].obj
<1>1. o \in Object /\ job[w].step \in Step
  BY JobType
<1>2. PICK i \in DOMAIN log[o] : log[o][i].agent = job[w].step /\ log[o][i].to = "awaiting_review"
  BY SkipOutcome
<1>3. job[w].step = "ResearcherAgent"
  BY <1>1, SkipOutcome, VerdictAssumption DEF Outcomes
<1>4. HasNode(nodes, log[o][i], o)
  BY <1>1, <1>2 DEF RecordInv, LogsRecorded
<1>5. QED BY <1>2, <1>3, <1>4 DEF HasNode, Researched

LEMMA PutReview ==
    ASSUME waiting \in [Task -> Nat], NEW t \in Task, Put(t), NEW o, ReviewWaits(o)'
    PROVE  ReviewWaits(o) \/ (t.step = "ReviewerAgent" /\ t.obj = o)
<1>1. PICK u \in Task : u.step = "ReviewerAgent" /\ u.obj = o /\ waiting'[u] > 0
  BY DEF ReviewWaits
<1>2. CASE u = t
  BY <1>1, <1>2
<1>3. CASE u # t
  <2>1. waiting[u] > 0
    BY <1>1, <1>3 DEF Put
  <2>2. QED BY <1>1, <2>1 DEF ReviewWaits
<1>4. QED BY <1>2, <1>3

\* A step that leaves the graph alone keeps UneditedInv if the reviews it leads to are of
\* researched objects, and what a run has newly read is what is there.
LEMMA GraphRests ==
    ASSUME TypeOK, UneditedInv, UNCHANGED <<graphVars, edits>>,
           \A v \in Worker : pc'[v] = "writing" =>
               \/ UNCHANGED <<pc[v], job[v], readHash[v], readLog[v]>>
               \/ /\ pc[v] = "reading" /\ job'[v] = job[v]
                  /\ readHash'[v] = content[job[v].obj] /\ readLog'[v] = log[job[v].obj],
           \A o \in Object : ReviewPending(o)' => ReviewPending(o) \/ Researched(o)
    PROVE  UneditedInv'
<1>1. SUFFICES ASSUME NEW o \in Object, edits[o] = 0 PROVE Unedited(o)'
  BY DEF UneditedInv
<1>2. Unedited(o) /\ UNCHANGED <<content, log, nodes, edits>>
  BY <1>1 DEF UneditedInv, graphVars
<1>3. ASSUME NEW v \in Worker, pc'[v] = "writing", job'[v].obj = o PROVE ReadIsFresh(v)'
  <2>1. CASE UNCHANGED <<pc[v], job[v], readHash[v], readLog[v]>>
    BY <1>2, <1>3, <2>1 DEF Unedited, ReadIsFresh
  <2>2. CASE /\ pc[v] = "reading" /\ job'[v] = job[v]
             /\ readHash'[v] = content[job[v].obj] /\ readLog'[v] = log[job[v].obj]
    <3>1. job[v].step = "ReviewerAgent" => Researched(o)
      BY <1>2, <1>3, <2>2 DEF Unedited, ReviewPending
    <3>2. Researched(o) => Logged(log[o], "ResearcherAgent")
      BY <1>2 DEF Unedited, Researched
    <3>3. QED BY <1>2, <1>3, <2>2, <3>1, <3>2 DEF Unedited, ReadIsFresh
  <2>3. QED BY <1>3, <2>1, <2>2
<1>4. Researched(o)' <=> Researched(o)
  BY <1>2 DEF Researched
<1>5. QED BY <1>2, <1>3, <1>4 DEF Unedited

LEMMA CommitUnedited ==
    ASSUME TypeOK, RecordInv, RaceInv, NEW w \in Worker, NEW to \in Outcome, Commit(w, to),
           ~overwritten'
    PROVE  UneditedInv'
<1> DEFINE o == job[w].obj
           e == [agent |-> job[w].step, hash |-> readHash[w], to |-> to]
           n == [agent |-> e.agent, obj |-> o, hash |-> e.hash, to |-> to]
<1>1. o \in Object /\ job[w].step \in Step /\ pc[w] = "writing" /\ readLog[w] \in Seq(Entry)
  BY JobType DEF Commit, TypeOK
<1>2. /\ log' = [log EXCEPT ![o] = Append(readLog[w], e)]
      /\ nodes' = nodes \cup {n}
      /\ ~ \E m \in nodes : IsNodeOf(m, w)
      /\ to \in Outcomes(job[w].step)
      /\ pc' = [pc EXCEPT ![w] = "routing"]
      /\ route' = [route EXCEPT ![w] = to]
      /\ UNCHANGED <<content, waiting, job, edits>>
      /\ \A v \in Worker : v # w => readLog'[v] = readLog[v] /\ readHash'[v] = readHash[v]
  BY CommitOnCurrent DEF Commit, GoTo, DropRead, counters, queueVars, TypeOK
<1>3. SUFFICES ASSUME NEW x \in Object, edits[x] = 0 PROVE Unedited(x)'
  BY <1>2 DEF UneditedInv, RaceInv
<1>4. Unedited(x)
  BY <1>3 DEF RaceInv, UneditedInv
<1>5. Researched(x) => Researched(x)'
  BY <1>2 DEF Researched
<1>6. ASSUME NEW v \in Worker, pc'[v] = "writing", job'[v].obj = x PROVE ReadIsFresh(v)'
  <2>1. v # w /\ pc[v] = "writing"
    BY <1>2, <1>6 DEF TypeOK
  <2>2. ReadIsFresh(v)
    BY <1>2, <1>4, <1>6, <2>1 DEF Unedited
  <2>3. QED BY <1>2, <2>1, <2>2 DEF ReadIsFresh
<1>7. n \in nodes' /\ n.obj = o /\ n.agent = job[w].step /\ n.hash = readHash[w]
  BY <1>2
<1>8. CASE x # o
  <2>1. log'[x] = log[x]
    BY <1>2, <1>8 DEF TypeOK
  <2>2. \A m \in nodes' : m.obj = x => m \in nodes
    BY <1>2, <1>7, <1>8
  <2>3. ReviewPending(x)' => ReviewPending(x)
    BY <1>2, <1>8 DEF ReviewPending, ReviewWaits, TypeOK
  <2>4. QED BY <1>2, <1>4, <1>5, <1>6, <2>1, <2>2, <2>3 DEF Unedited
<1>9. CASE x = o
  <2>1. ReadIsFresh(w)
    BY <1>1, <1>4, <1>9 DEF Unedited
  <2>2. log'[o] = Append(readLog[w], e)
    BY <1>1, <1>2 DEF TypeOK
  <2>3. Logged(log'[o], job[w].step)
    <3>1. Len(readLog[w]) + 1 \in DOMAIN Append(readLog[w], e)
      BY <1>1
    <3>2. Append(readLog[w], e)[Len(readLog[w]) + 1] = e
      BY <1>1
    <3>3. e.agent = job[w].step /\ e.hash = 0
      BY <2>1 DEF ReadIsFresh
    <3> HIDE DEF e
    <3>4. QED BY <2>2, <3>1, <3>2, <3>3 DEF Logged, Transitioned, Entries
  <2>4. ASSUME NEW agent, Logged(readLog[w], agent) PROVE Logged(log'[o], agent)
    <3>1. PICK i \in DOMAIN readLog[w] : readLog[w][i].agent = agent /\ readLog[w][i].hash = 0
      BY <2>4 DEF Logged, Transitioned, Entries
    <3>2. i \in DOMAIN Append(readLog[w], e) /\ Append(readLog[w], e)[i] = readLog[w][i]
      BY <1>1, <3>1
    <3>3. QED BY <2>2, <3>1, <3>2 DEF Logged, Transitioned, Entries
  <2>5. Researched(o)'
    <3>1. CASE job[w].step = "ResearcherAgent"
      <4>1. job'[w].obj = o
        BY <1>2
      <4> HIDE DEF n
      <4>2. QED BY <1>7, <3>1, <4>1 DEF Researched
    <3>2. CASE job[w].step = "ReviewerAgent"
      BY <1>1, <1>2, <1>4, <1>5, <1>9, <3>2 DEF Unedited, ReviewPending
    <3>3. QED BY <1>1, <3>1, <3>2 DEF Step
  <2>6. ASSUME NEW m \in nodes', m.obj = o
        PROVE  m.hash = 0 /\ Logged(log'[o], m.agent) /\ m.agent \in Step
    <3>1. CASE m = n
      BY <1>1, <1>7, <2>1, <2>3, <3>1 DEF ReadIsFresh
    <3>2. CASE m # n
      <4>1. m \in nodes /\ m.hash = 0 /\ m.agent \in Step
        BY <1>2, <1>4, <1>9, <2>6, <3>2 DEF Unedited
      <4>2. m.agent # job[w].step
        BY <1>2, <2>1, <2>6, <4>1 DEF IsNodeOf, ReadIsFresh
      <4>3. CASE job[w].step = "ReviewerAgent"
        BY <2>1, <2>4, <4>1, <4>2, <4>3 DEF ReadIsFresh, Step
      <4>4. CASE job[w].step = "ResearcherAgent"
        <5>1. Researched(o)
          BY <1>4, <1>9, <2>6, <4>1 DEF Unedited
        <5>2. PICK k \in nodes : k.obj = o /\ k.agent = "ResearcherAgent"
          BY <5>1 DEF Researched
        <5>3. k.hash = 0
          BY <1>4, <1>9, <5>2 DEF Unedited
        <5>4. QED BY <1>2, <2>1, <4>4, <5>2, <5>3 DEF IsNodeOf, ReadIsFresh
      <4>5. QED BY <1>1, <4>1, <4>3, <4>4 DEF Step
    <3>3. QED BY <3>1, <3>2
  <2>7. QED BY <1>2, <1>4, <1>6, <1>9, <2>5, <2>6 DEF Unedited
<1>10. QED BY <1>8, <1>9

\* The loser of a race finds the winner's entry unless the object was edited.
LEMMA LoserIsTold ==
    ASSUME TypeOK, RecordInv, RaceInv, NEW w \in Worker, pc[w] = "writing", NodeExists(w),
           ~WinnerSeen(w)
    PROVE  edits[job[w].obj] # 0
<1> DEFINE o == job[w].obj
<1>1. SUFFICES ASSUME edits[o] = 0 PROVE FALSE
  OBVIOUS
<1>2. o \in Object
  BY JobType
<1>3. Unedited(o)
  BY <1>1, <1>2 DEF RaceInv, UneditedInv
<1>4. PICK n \in nodes : IsNodeOf(n, w)
  BY DEF NodeExists, RecordInv, ReadsRecorded
<1>5. Logged(log[o], job[w].step) /\ content[o] = 0
  BY <1>3, <1>4 DEF Unedited, IsNodeOf
<1>6. QED BY <1>5 DEF WinnerSeen, AlreadyDone, Logged

LEMMA RaceInit == Init => RaceInv
<1> SUFFICES ASSUME Init PROVE RaceInv
  OBVIOUS
<1>1. RunInv /\ edits \in [Object -> Nat]
  BY DEF Init, RunInv
<1>2. ASSUME NEW o \in Object PROVE Unedited(o)
  BY DEF Init, Unedited, ReviewPending, ReviewWaits
<1>3. QED BY <1>1, <1>2 DEF RaceInv, UneditedInv

LEMMA RaceStep == TypeOK /\ RecordInv /\ RaceInv /\ [Next]_vars /\ ~overwritten' => RaceInv'
<1> SUFFICES ASSUME TypeOK, RecordInv, RaceInv, [Next]_vars, ~overwritten' PROVE RaceInv'
  OBVIOUS
<1>a. waiting \in [Task -> Nat] /\ UneditedInv /\ RunInv
  BY DEF TypeOK, RaceInv
<1>b. \A w \in Worker : job[w] \in Task
  BY JobType
<1> USE DEF graphVars, queueVars, runVars, historyVars, counters, GoTo, EndRun, DropRead
<1>1. ASSUME NEW o \in Object, StartPipeline(o) PROVE RaceInv'
  <2>1. Put(NewTask("ResearcherAgent", o)) /\ NewTask("ResearcherAgent", o).step # "ReviewerAgent"
    BY <1>1 DEF StartPipeline, NewTask
  <2>2. \A x \in Object : ReviewWaits(x)' => ReviewWaits(x)
    BY <1>a, <2>1, TaskTypes, PutReview
  <2>3. UneditedInv'
    BY <1>1, <1>a, <2>2, GraphRests DEF StartPipeline, ReviewPending
  <2>4. QED BY <1>1, <1>a, <2>3 DEF StartPipeline, RaceInv, RunInv
<1>2. ASSUME NEW o \in Object, NEW c \in Content, EditObject(o, c) PROVE RaceInv'
  <2>1. /\ edits' = [edits EXCEPT ![o] = @ + 1] /\ content' = [content EXCEPT ![o] = c]
        /\ UNCHANGED <<log, nodes, waiting, pc, job, holds, runVars>>
    BY <1>2 DEF EditObject
  <2>2. edits' \in [Object -> Nat] /\ \A x \in Object : edits'[x] = 0 => x # o /\ edits[x] = 0
    BY <1>a, <2>1 DEF UneditedInv
  <2>3. ASSUME NEW x \in Object, x # o, Unedited(x) PROVE Unedited(x)'
    BY <2>1, <2>3 DEF Unedited, ReviewPending, ReviewWaits, ReadIsFresh, Researched, TypeOK
  <2>4. UneditedInv'
    BY <1>a, <2>2, <2>3 DEF UneditedInv
  <2>5. RunInv'
    BY <1>a, <1>b, <2>1, <2>2 DEF RunInv, Task
  <2>6. QED BY <2>4, <2>5 DEF RaceInv
<1>3. ASSUME NEW w \in Worker, NEW t \in Task, ClaimTask(w, t) PROVE RaceInv'
  <2>1. /\ waiting[t] > 0 /\ waiting' = [waiting EXCEPT ![t] = @ - 1]
        /\ pc[w] = "idle" /\ pc' = [pc EXCEPT ![w] = "reading"]
        /\ job' = [job EXCEPT ![w] = t] /\ holds' = [holds EXCEPT ![w] = TRUE]
        /\ UNCHANGED <<graphVars, runVars, edits>>
    BY <1>3 DEF ClaimTask
  <2>2. \A x \in Object : ReviewWaits(x)' => ReviewWaits(x)
    BY <1>a, <2>1 DEF ReviewWaits
  <2>3. \A x \in Object : ReviewPending(x)' => ReviewPending(x)
    BY <2>1, <2>2 DEF ReviewPending, ReviewWaits, TypeOK
  <2>4. \A v \in Worker : pc'[v] = "writing" => UNCHANGED <<pc[v], job[v], readHash[v], readLog[v]>>
    BY <2>1 DEF TypeOK
  <2>5. UneditedInv'
    BY <1>a, <2>1, <2>3, <2>4, GraphRests
  <2>6. QED BY <1>a, <2>1, <2>5 DEF RaceInv, RunInv, TypeOK
<1>4. ASSUME NEW w \in Worker, Read(w) PROVE RaceInv'
  <2>1. /\ pc[w] = "reading" /\ UNCHANGED <<graphVars, waiting, job, holds, lostRace, edits>>
        /\ \A v \in Worker : v # w => UNCHANGED <<pc[v], readHash[v], readLog[v], route[v]>>
    BY <1>4 DEF Read, TypeOK
  <2>2. CASE AlreadyDone(w)
    <3>1. pc'[w] = "routing" /\ route'[w] = AfterSkip(w)
      BY <1>4, <2>2 DEF Read, TypeOK
    <3>2. \A x \in Object : ReviewPending(x)' => ReviewPending(x) \/ Researched(x)
      BY <2>1, <2>2, <3>1, SkipResearched DEF ReviewPending, ReviewWaits
    <3>3. UneditedInv'
      BY <1>a, <2>1, <3>1, <3>2, GraphRests
    <3>4. QED BY <1>a, <2>1, <3>1, <3>3 DEF RaceInv, RunInv
  <2>3. CASE ~AlreadyDone(w)
    <3>1. /\ pc'[w] = "writing"
          /\ readHash'[w] = content[job[w].obj] /\ readLog'[w] = log[job[w].obj]
      BY <1>4, <2>3 DEF Read, TypeOK
    <3>2. \A x \in Object : ReviewPending(x)' => ReviewPending(x)
      BY <2>1, <3>1 DEF ReviewPending, ReviewWaits
    <3>3. UneditedInv'
      BY <1>a, <2>1, <3>1, <3>2, GraphRests
    <3>4. QED BY <1>a, <2>1, <3>1, <3>3 DEF RaceInv, RunInv
  <2>4. QED BY <2>2, <2>3
<1>5. ASSUME NEW w \in Worker, AttemptFails(w) PROVE RaceInv'
  <2>1. /\ pc[w] = "writing" /\ pc'[w] = "failing"
        /\ UNCHANGED <<graphVars, waiting, job, holds, route, lostRace, edits>>
        /\ \A v \in Worker : v # w => UNCHANGED <<pc[v], readHash[v], readLog[v]>>
    BY <1>5 DEF AttemptFails, TypeOK
  <2>2. \A x \in Object : ReviewPending(x)' => ReviewPending(x)
    BY <2>1 DEF ReviewPending, ReviewWaits
  <2>3. UneditedInv'
    BY <1>a, <2>1, <2>2, GraphRests
  <2>4. QED BY <1>a, <2>1, <2>3 DEF RaceInv, RunInv
<1>6. ASSUME NEW w \in Worker, NEW to \in Outcome, Commit(w, to) PROVE RaceInv'
  <2>1. UneditedInv'
    BY <1>6, CommitUnedited
  <2>2. /\ pc[w] = "writing" /\ pc' = [pc EXCEPT ![w] = "routing"]
        /\ UNCHANGED <<job, holds, lostRace, edits>>
    BY <1>6 DEF Commit
  <2>3. QED BY <1>a, <2>1, <2>2 DEF RaceInv, RunInv, TypeOK
<1>7. ASSUME NEW w \in Worker, LoseRace(w) PROVE RaceInv'
  <2>1. /\ pc[w] = "writing" /\ NodeExists(w)
        /\ UNCHANGED <<graphVars, waiting, job, holds, edits>>
        /\ \A v \in Worker : v # w =>
               UNCHANGED <<pc[v], readHash[v], readLog[v], route[v], lostRace[v]>>
    BY <1>7 DEF LoseRace, TypeOK
  <2>2. CASE WinnerSeen(w)
    <3>1. pc'[w] = "routing" /\ route'[w] = AfterSkip(w) /\ lostRace'[w] = lostRace[w]
      BY <1>7, <2>2 DEF LoseRace, TypeOK
    <3>2. \A x \in Object : ReviewPending(x)' => ReviewPending(x) \/ Researched(x)
      BY <2>1, <2>2, <3>1, SkipResearched DEF ReviewPending, ReviewWaits, WinnerSeen
    <3>3. UneditedInv'
      BY <1>a, <2>1, <3>1, <3>2, GraphRests
    <3>4. QED BY <1>a, <2>1, <3>1, <3>3 DEF RaceInv, RunInv
  <2>3. CASE ~WinnerSeen(w)
    <3>1. pc'[w] = "failing"
      BY <1>7, <2>3 DEF LoseRace, TypeOK
    <3>2. \A x \in Object : ReviewPending(x)' => ReviewPending(x)
      BY <2>1, <3>1 DEF ReviewPending, ReviewWaits
    <3>3. UneditedInv'
      BY <1>a, <2>1, <3>1, <3>2, GraphRests
    <3>4. edits[job[w].obj] # 0
      BY <2>1, <2>3, LoserIsTold
    <3>5. QED BY <1>a, <2>1, <3>1, <3>3, <3>4 DEF RaceInv, RunInv
  <2>4. QED BY <2>2, <2>3
<1>8. ASSUME NEW w \in Worker, EnqueueNext(w) PROVE RaceInv'
  <2> DEFINE o == job[w].obj
  <2>1. /\ pc[w] = "routing" /\ pc'[w] = "completing" /\ o \in Object
        /\ UNCHANGED <<graphVars, job, holds, readHash, readLog, lostRace, edits>>
        /\ \A v \in Worker : v # w => UNCHANGED <<pc[v], route[v]>>
    BY <1>8, JobType DEF EnqueueNext, TypeOK
  <2>2. \A x \in Object : ReviewWaits(x)' => ReviewPending(x)
    <3>1. CASE route[w] = "awaiting_review"
      <4>1. Put(NewTask("ReviewerAgent", o)) /\ NewTask("ReviewerAgent", o).obj = o
        BY <1>8, <3>1 DEF EnqueueNext, NewTask
      <4>2. NewTask("ReviewerAgent", o) \in Task
        BY <2>1, TaskTypes
      <4>3. \A x : ReviewWaits(x)' => ReviewWaits(x) \/ x = o
        BY <1>a, <4>1, <4>2, PutReview
      <4>4. QED BY <2>1, <3>1, <4>3 DEF ReviewPending
    <3>2. CASE route[w] = "needs_research"
      <4>1. /\ Put(NewTask("ResearcherAgent", o))
            /\ NewTask("ResearcherAgent", o).step # "ReviewerAgent"
        BY <1>8, <3>2 DEF EnqueueNext, NewTask
      <4>2. NewTask("ResearcherAgent", o) \in Task
        BY <2>1, TaskTypes
      <4>3. \A x : ReviewWaits(x)' => ReviewWaits(x)
        BY <1>a, <4>1, <4>2, PutReview
      <4>4. QED BY <4>3 DEF ReviewPending
    <3>3. CASE route[w] \notin {"awaiting_review", "needs_research"}
      BY <1>8, <3>3 DEF EnqueueNext, ReviewPending, ReviewWaits
    <3>4. QED BY <3>1, <3>2, <3>3
  <2>3. \A x \in Object : ReviewPending(x)' => ReviewPending(x)
    BY <2>1, <2>2 DEF ReviewPending
  <2>4. UneditedInv'
    BY <1>a, <2>1, <2>3, GraphRests
  <2>5. QED BY <1>a, <2>1, <2>4 DEF RaceInv, RunInv
<1>9. ASSUME NEW w \in Worker, CompleteTask(w) \/ FailTask(w) \/ Crash(w) PROVE RaceInv'
  <2>1. /\ pc[w] # "idle" /\ pc'[w] = "idle" /\ ~lostRace'[w] /\ ~holds'[w]
        /\ UNCHANGED <<graphVars, edits>>
        /\ \A v \in Worker : v # w => UNCHANGED <<pc[v], job[v], holds[v], lostRace[v], route[v],
                                                   readHash[v], readLog[v]>>
    BY <1>9 DEF CompleteTask, FailTask, Crash, TypeOK
  <2>2. \A x \in Object : ReviewWaits(x)' => ReviewPending(x)
    <3>1. CASE UNCHANGED waiting
      BY <3>1 DEF ReviewWaits, ReviewPending
    <3>2. ASSUME NEW t \in Task, Put(t), t.step = job[w].step, t.obj = job[w].obj
          PROVE  \A x \in Object : ReviewWaits(x)' => ReviewPending(x)
      BY <1>a, <2>1, <3>2, PutReview DEF ReviewPending
    <3>3. CASE CompleteTask(w)
      BY <1>9, <3>1, <3>3 DEF CompleteTask
    <3>4. CASE Crash(w)
      BY <1>b, <3>1, <3>2, <3>4 DEF Crash
    <3>5. CASE FailTask(w)
      <4>1. CASE ~holds[w] \/ AttemptsAfter(w) >= MaxRetries
        BY <3>1, <3>5, <4>1 DEF FailTask, TypeOK
      <4>2. CASE holds[w] /\ ~(AttemptsAfter(w) >= MaxRetries)
        <5> DEFINE t == [job[w] EXCEPT !.retry = AttemptsAfter(w)]
        <5>1. Put(t)
          BY <3>5, <4>2 DEF FailTask
        <5>2. job[w] \in Task /\ job[w].retry + 1 < MaxRetries
          BY <1>b, <4>2, PipelineBounds DEF AttemptsAfter, Task
        <5>3. t \in Task /\ t.step = job[w].step /\ t.obj = job[w].obj
          BY <5>2, TaskTypes DEF AttemptsAfter, Task
        <5>4. QED BY <3>2, <5>1, <5>3
      <4>3. QED BY <4>1, <4>2 DEF TypeOK
    <3>6. QED BY <1>9, <3>3, <3>4, <3>5
  <2>3. \A x \in Object : ReviewPending(x)' => ReviewPending(x)
    BY <2>1, <2>2 DEF ReviewPending
  <2>4. UneditedInv'
    BY <1>a, <2>1, <2>3, GraphRests
  <2>5. QED BY <1>a, <2>1, <2>4 DEF RaceInv, RunInv
<1>10. ASSUME NEW w \in Worker, LoseLease(w) PROVE RaceInv'
  <2>1. /\ Put(job[w]) /\ holds[w] /\ holds' = [holds EXCEPT ![w] = FALSE]
        /\ UNCHANGED <<graphVars, pc, job, runVars, edits>>
    BY <1>10 DEF LoseLease
  <2>2. pc[w] # "idle"
    BY <1>a, <2>1 DEF RunInv
  <2>3. \A x \in Object : ReviewWaits(x)' => ReviewPending(x)
    BY <1>a, <1>b, <2>1, <2>2, PutReview DEF ReviewPending
  <2>4. \A x \in Object : ReviewPending(x)' => ReviewPending(x)
    BY <2>1, <2>3 DEF ReviewPending
  <2>5. UneditedInv'
    BY <1>a, <2>1, <2>4, GraphRests
  <2>6. QED BY <1>a, <2>1, <2>5 DEF RaceInv, RunInv, TypeOK
<1>11. CASE UNCHANGED vars
  <2>1. \A x \in Object : ReviewPending(x)' => ReviewPending(x)
    BY <1>11 DEF vars, ReviewPending, ReviewWaits
  <2>2. UneditedInv'
    BY <1>a, <1>11, <2>1, GraphRests DEF vars
  <2>3. QED BY <1>a, <1>11, <2>2 DEF vars, RaceInv, RunInv
<1>12. ASSUME NEW w \in Worker, Refresh(w) PROVE RaceInv'
  <2>1. UNCHANGED <<graphVars, waiting, pc, job, holds, readHash, readLog, route, lostRace, edits>>
    BY <1>12 DEF Refresh
  <2>2. \A x \in Object : ReviewPending(x)' => ReviewPending(x)
    BY <2>1 DEF ReviewPending, ReviewWaits
  <2>3. UneditedInv'
    BY <1>a, <2>1, <2>2, GraphRests
  <2>4. QED BY <1>a, <2>1, <2>3 DEF RaceInv, RunInv
<1>13. QED BY <1>1, <1>2, <1>3, <1>4, <1>5, <1>6, <1>7, <1>8, <1>9, <1>10, <1>11, <1>12
           DEF Next, StepOf

LEMMA RaceUntilOverwritten == Spec => [](~overwritten => RecordInv /\ RaceInv)
BY RaceInit, RaceStep, RecordInit, RecordStep, StaysOverwritten, PipelineTypeCorrect, PTL DEF Spec

(* As long as nobody edits the object and no commit overwrites another, a run that loses *)
(* the race for its node finds the winner's transition and succeeds, whatever stale logs *)
(* other runs have written back (_resolve_lost_race, common.py).                         *)
THEOREM LosersSucceed == Spec => []LostRaceIsSuccess
<1>1. (~overwritten => RaceInv) => LostRaceIsSuccess
  BY DEF RaceInv, RunInv, LostRaceIsSuccess
<1>2. QED BY <1>1, RaceUntilOverwritten, PTL

-----------------------------------------------------------------------------
(* The log of an object that nobody edits                                  *)

\* Each agent has one entry at most in the log of an unedited object, and in what a run
\* that is about to write has read of it.
Once(l) == \A i, j \in DOMAIN l : l[i].agent = l[j].agent => i = j
OnceOf(o) ==
    /\ Once(log[o])
    /\ \A w \in Worker : pc[w] = "writing" /\ job[w].obj = o => Once(readLog[w])
OnceInv == \A o \in Object : edits[o] = 0 => OnceOf(o)

LEMMA NothingInIt ==
    ASSUME NEW l \in Seq(Entry), DOMAIN l = {}
    PROVE  l = <<>>
<1>1. DOMAIN l = 1..Len(l) /\ Len(l) \in Nat
  OBVIOUS
<1>2. Len(l) = 0
  BY <1>1
<1>3. QED BY <1>2, EmptySeq

LEMMA AppendExtends ==
    ASSUME NEW l \in Seq(Entry), NEW e
    PROVE  IsPrefix(l, Append(l, e))
<1> DEFINE S == Entry \cup {e}
           m == Append(l, e)
           n == Len(l)
<1>1. l \in Seq(S) /\ n \in Nat /\ m \in Seq(S) /\ Len(m) = n + 1
      /\ \A i \in 1..n : m[i] = l[i] /\ l[i] \in S
  OBVIOUS
<1> HIDE DEF S, m
<1>2. /\ SubSeq(l, 1, n) \in Seq(S) /\ Len(SubSeq(l, 1, n)) = n
      /\ \A i \in 1..n : SubSeq(l, 1, n)[i] = l[i]
  BY <1>1, SubSeqProperties
<1>3. /\ SubSeq(m, 1, n) \in Seq(S) /\ Len(SubSeq(m, 1, n)) = n
      /\ \A i \in 1..n : SubSeq(m, 1, n)[i] = m[i]
  BY <1>1, SubSeqProperties
<1>4. SubSeq(l, 1, n) = SubSeq(m, 1, n)
  BY <1>1, <1>2, <1>3, SeqEqual
<1>5. QED BY <1>1, <1>4 DEF IsPrefix, m

LEMMA OnceAppended ==
    ASSUME NEW l \in Seq(Entry), Once(l), NEW e, \A i \in DOMAIN l : l[i].agent # e.agent
    PROVE  Once(Append(l, e))
<1> DEFINE m == Append(l, e)
<1>1. DOMAIN l = 1..Len(l) /\ Len(l) \in Nat /\ DOMAIN m = 1..(Len(l) + 1)
  OBVIOUS
<1>2. m[Len(l) + 1] = e /\ \A i \in 1..Len(l) : m[i] = l[i]
  OBVIOUS
<1> HIDE DEF m
<1>3. QED BY <1>1, <1>2 DEF Once

\* A log that has one entry per agent, all of the Researcher's, on the one content.
LEMMA OneResearch ==
    ASSUME NEW l \in Seq(Entry), Once(l), Logged(l, "ResearcherAgent"),
           \A i \in DOMAIN l : l[i].agent = "ResearcherAgent" /\ l[i].hash = 0
    PROVE  l = <<[agent |-> "ResearcherAgent", hash |-> 0, to |-> "awaiting_review"]>>
<1> DEFINE r == [agent |-> "ResearcherAgent", hash |-> 0, to |-> "awaiting_review"]
<1>1. DOMAIN l = 1..Len(l) /\ Len(l) \in Nat /\ \A i \in 1..Len(l) : l[i] \in Entry
  OBVIOUS
<1>2. PICK k \in 1..Len(l) : TRUE
  BY <1>1 DEF Logged, Transitioned, Entries
<1>3. Len(l) = 1
  <2>1. 1 \in DOMAIN l /\ Len(l) \in DOMAIN l
    BY <1>1, <1>2
  <2>2. QED BY <1>1, <2>1 DEF Once
<1>4. l[1] = r
  BY <1>1, <1>3 DEF Entry, Outcomes
<1>5. <<r>> \in Seq(Entry) /\ Len(<<r>>) = 1 /\ <<r>>[1] = r
  BY <1>1, <1>3, <1>4
<1> HIDE DEF r
<1>6. \A i \in 1..Len(l) : l[i] = <<r>>[i]
  BY <1>3, <1>4, <1>5
<1>7. l = <<r>>
  BY <1>3, <1>5, <1>6, SeqEqual
<1>8. QED BY <1>7 DEF r

\* What a run commits to an unedited object is the log as it is, and one entry: the
\* Researcher finds it empty, the Reviewer finds the one research it reviews.
LEMMA ReadIsCurrent ==
    ASSUME TypeOK, RecordInv, RaceInv, OnceInv, NEW w \in Worker, NEW to \in Outcome,
           Commit(w, to), edits[job[w].obj] = 0, ~overwritten'
    PROVE  /\ readLog[w] = log[job[w].obj] /\ readHash[w] = 0
           /\ \A i \in DOMAIN readLog[w] : readLog[w][i].agent # job[w].step
<1> DEFINE o == job[w].obj
<1>1. /\ o \in Object /\ job[w].step \in Step /\ pc[w] = "writing"
      /\ ~ \E n \in nodes : IsNodeOf(n, w)
      /\ readLog[w] \in Seq(Entry) /\ log[o] \in Seq(Entry)
  BY JobType, CommitOnCurrent DEF Commit, TypeOK
<1>2. Unedited(o) /\ OnceOf(o) /\ ReadIsFresh(w) /\ Once(readLog[w])
  BY <1>1 DEF RaceInv, UneditedInv, Unedited, OnceInv, OnceOf
<1>3. \A n \in nodes : n.obj = o => /\ n.hash = 0 /\ n.agent # job[w].step
                                    /\ n.agent \in Step /\ Researched(o)
  BY <1>1, <1>2 DEF Unedited, ReadIsFresh, IsNodeOf
<1>4. \A i \in DOMAIN readLog[w] : HasNode(nodes, readLog[w][i], o)
  BY <1>1 DEF RecordInv, ReadsRecorded
<1>5. \A i \in DOMAIN log[o] : HasNode(nodes, log[o][i], o)
  BY <1>1 DEF RecordInv, LogsRecorded
<1>6. \A i \in DOMAIN readLog[w] :
          /\ readLog[w][i].agent # job[w].step /\ readLog[w][i].hash = 0
          /\ readLog[w][i].agent \in Step /\ Researched(o)
  BY <1>3, <1>4 DEF HasNode
<1>7. \A i \in DOMAIN log[o] :
          /\ log[o][i].agent # job[w].step /\ log[o][i].hash = 0
          /\ log[o][i].agent \in Step /\ Researched(o)
  BY <1>3, <1>5 DEF HasNode
<1>8. CASE job[w].step = "ResearcherAgent"
  <2>1. ~Researched(o)
    BY <1>3, <1>8 DEF Researched
  <2>2. readLog[w] = <<>>
    BY <1>1, <1>6, <2>1, NothingInIt
  <2>3. log[o] = <<>>
    BY <1>1, <1>7, <2>1, NothingInIt
  <2>4. QED BY <1>2, <1>6, <2>2, <2>3 DEF ReadIsFresh
<1>9. CASE job[w].step = "ReviewerAgent"
  <2>1. Logged(readLog[w], "ResearcherAgent") /\ Logged(log[o], "ResearcherAgent")
    <3>1. Researched(o)
      BY <1>1, <1>2, <1>9 DEF Unedited, ReviewPending
    <3>2. QED BY <1>2, <1>9, <3>1 DEF Unedited, Researched, ReadIsFresh
  <2>2. readLog[w] = <<[agent |-> "ResearcherAgent", hash |-> 0, to |-> "awaiting_review"]>>
    <3>1. \A i \in DOMAIN readLog[w] :
              readLog[w][i].agent = "ResearcherAgent" /\ readLog[w][i].hash = 0
      BY <1>6, <1>9
    <3>2. QED BY <1>1, <1>2, <2>1, <3>1, OneResearch
  <2>3. log[o] = <<[agent |-> "ResearcherAgent", hash |-> 0, to |-> "awaiting_review"]>>
    <3>1. \A i \in DOMAIN log[o] :
              log[o][i].agent = "ResearcherAgent" /\ log[o][i].hash = 0
      BY <1>7, <1>9
    <3>2. QED BY <1>1, <1>2, <2>1, <3>1, OneResearch DEF OnceOf
  <2>4. QED BY <1>2, <1>6, <2>2, <2>3 DEF ReadIsFresh
<1>10. QED BY <1>1, <1>8, <1>9

LEMMA OnceStep ==
    TypeOK /\ RecordInv /\ RaceInv /\ OnceInv /\ [Next]_vars /\ ~overwritten' => OnceInv'
<1> SUFFICES ASSUME TypeOK, RecordInv, RaceInv, OnceInv, [Next]_vars, ~overwritten',
                    NEW x \in Object, edits'[x] = 0
             PROVE  OnceOf(x)'
  BY DEF OnceInv
<1>1. ASSUME NEW w \in Worker, NEW to \in Outcome, Commit(w, to) PROVE OnceOf(x)'
  <2> DEFINE o == job[w].obj
             e == [agent |-> job[w].step, hash |-> readHash[w], to |-> to]
  <2>1. /\ log' = [log EXCEPT ![o] = Append(readLog[w], e)]
        /\ pc' = [pc EXCEPT ![w] = "routing"] /\ UNCHANGED <<job, edits>>
        /\ \A v \in Worker : v # w => readLog'[v] = readLog[v]
    BY <1>1, CommitOnCurrent DEF Commit, GoTo, DropRead, counters, TypeOK
  <2>2. edits[x] = 0 /\ OnceOf(x)
    BY <2>1 DEF OnceInv
  <2>3. \A v \in Worker : pc'[v] = "writing" /\ job'[v].obj = x => Once(readLog'[v])
    BY <2>1, <2>2 DEF OnceOf, TypeOK
  <2>4. Once(log'[x])
    <3>1. CASE x # o
      BY <2>1, <2>2, <3>1 DEF OnceOf, TypeOK
    <3>2. CASE x = o
      <4>1. /\ readLog[w] = log[o]
            /\ \A i \in DOMAIN readLog[w] : readLog[w][i].agent # e.agent
        BY <1>1, <2>2, <3>2, ReadIsCurrent
      <4>2. readLog[w] \in Seq(Entry) /\ Once(readLog[w])
        BY <2>2, <3>2, <4>1 DEF OnceOf, TypeOK
      <4>3. Once(Append(readLog[w], e))
        <5> HIDE DEF e
        <5>1. QED BY <4>1, <4>2, OnceAppended
      <4>4. log'[o] = Append(readLog[w], e)
        BY <2>1, <3>2 DEF TypeOK
      <4>5. QED BY <3>2, <4>3, <4>4
    <3>3. QED BY <3>1, <3>2
  <2>5. QED BY <2>3, <2>4 DEF OnceOf
<1>2. CASE ~ \E w \in Worker, to \in Outcome : Commit(w, to)
  <2>1. edits[x] = 0
    BY <1>2, LogsRest DEF RaceInv, UneditedInv
  <2>2. OnceOf(x)
    BY <2>1 DEF OnceInv
  <2>3. QED BY <1>2, <2>2, LogsRest DEF OnceOf
<1>3. QED BY <1>1, <1>2

\* As long as nobody edits an object and no commit overwrites another, "nothing overwrites
\* or removes an entry; each step only ever appends" (schema.py:15-18) is what happens to
\* its log, although every step writes the log whole from what it read: each commit finds
\* the log as it read it.
UneditedLogGrows ==
    [][~overwritten' => \A o \in Object : edits[o] = 0 => IsPrefix(log[o], log'[o])]_log

\* The log of an object that nobody edits only grows, under every crash, lost lease,
\* duplicated start and race, until a process commits over what it has not seen.
THEOREM UneditedLogsGrow == Spec => UneditedLogGrows
<1>1. Init => OnceInv
  BY DEF Init, OnceInv, OnceOf, Once
<1>2. TypeOK /\ (~overwritten => RecordInv /\ RaceInv /\ OnceInv) /\ [Next]_vars
        => [~overwritten' => \A o \in Object : edits[o] = 0 => IsPrefix(log[o], log'[o])]_log
  <2> SUFFICES ASSUME TypeOK, ~overwritten => RecordInv /\ RaceInv /\ OnceInv, [Next]_vars,
                      log' # log, ~overwritten', NEW x \in Object, edits[x] = 0
               PROVE  IsPrefix(log[x], log'[x])
    OBVIOUS
  <2>a. RecordInv /\ RaceInv /\ OnceInv
    BY StaysOverwritten
  <2>1. PICK w \in Worker, to \in Outcome : Commit(w, to)
    BY LogsRest
  <2> DEFINE o == job[w].obj
             e == [agent |-> job[w].step, hash |-> readHash[w], to |-> to]
  <2>2. log' = [log EXCEPT ![o] = Append(readLog[w], e)] /\ log[x] \in Seq(Entry)
    BY <2>1, CommitOnCurrent DEF TypeOK
  <2>3. CASE x # o
    <3>1. log'[x] = log[x]
      BY <2>2, <2>3 DEF TypeOK
    <3>2. Len(log[x]) <= Len(log[x])
      BY <2>2
    <3>3. QED BY <3>1, <3>2 DEF IsPrefix
  <2>4. CASE x = o
    <3>1. log'[x] = Append(log[x], e)
      BY <2>a, <2>1, <2>2, <2>4, ReadIsCurrent DEF TypeOK
    <3>2. IsPrefix(log[x], Append(log[x], e))
      BY <2>2, AppendExtends
    <3>3. QED BY <3>1, <3>2
  <2>5. QED BY <2>3, <2>4
<1>3. Spec => [](~overwritten => RecordInv /\ RaceInv /\ OnceInv)
  BY <1>1, OnceStep, RaceInit, RaceStep, RecordInit, RecordStep, StaysOverwritten,
     PipelineTypeCorrect, PTL DEF Spec
<1>4. QED BY <1>2, <1>3, PipelineTypeCorrect, PTL DEF Spec, UneditedLogGrows
=============================================================================
