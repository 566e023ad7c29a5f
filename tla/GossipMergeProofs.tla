-------------------------- MODULE GossipMergeProofs --------------------------
(***************************************************************************)
(* Theorems of GossipMerge, for any sessions, branches, actors, processes  *)
(* and faults.                                                             *)
(***************************************************************************)
EXTENDS GossipMerge, FiniteSetTheorems, SequenceTheorems, WellFoundedInduction, TLAPS

-----------------------------------------------------------------------------
(* The inductive invariants                                                *)

\* Whoever has merged a branch finds it merged.
MergedRuns == \A a \in Actor : run[a].pc = "merged" => run[a].at \in merged
QueueInv == UnmergedIsKept /\ MergedRuns

\* A copy of the last version is what is persisted, and a Critic chooses nothing.
LatestIsHead == \A p \in Process, s \in Session : <<p, s>> \in latest => copy[p][s] = head[s]
CriticsChooseNothing == \A a \in Critic : run[a].choice = Idle.choice
CopyInv == LatestIsHead /\ CriticsChooseNothing

\* A branch is recorded once while the server runs ...
RecordedOnce ==
    /\ \A i \in DOMAIN log : event[log[i]] \in {"recorded", "enqueued", "unqueued"}
    /\ \A i, j \in DOMAIN log : log[i] = log[j] => i = j
\* ... and what stands before k others in the inbox has been followed by k others.
InboxInOrder ==
    \A j \in DOMAIN inbox : \E i \in DOMAIN log :
        log[i] = inbox[j] /\ Len(log) - i >= Len(inbox) - j
InboxInv == RecordedOnce /\ InboxInOrder /\ InboxKeepsNewest

-----------------------------------------------------------------------------
(* The drain of an inbox                                                   *)

LEMMA LeastNatural ==
    ASSUME NEW T \in SUBSET Nat, T # {}
    PROVE  \E m \in T : \A k \in T : m <= k
<1> DEFINE Less == {ss \in Nat \X Nat : ss[1] < ss[2]}
<1>1. PICK m \in T : \A k \in T : <<k, m>> \notin Less
  <2>1. IsWellFoundedOn(Less, Nat)
    BY NatLessThanWellFounded DEF OpToRel
  <2> HIDE DEF Less
  <2>2. QED BY <2>1, WFMin
<1>2. ASSUME NEW k \in T PROVE m <= k
  <2>1. <<k, m>> \in Nat \X Nat /\ ~(k < m)
    BY <1>1
  <2>2. QED BY <2>1
<1>3. QED BY <1>2

\* The step of the recursion in Without, as a property of its values.
Left(records, drained, f, n) ==
    f = [i \in 0..n |->
            IF i = 0 THEN <<>>
            ELSE IF records[i] \in drained THEN f[i - 1] ELSE Append(f[i - 1], records[i])]

\* The recursion is defined for every prefix: the shortest for which it were not has one less.
LEMMA LeftExists ==
    ASSUME NEW records, NEW drained, NEW n \in Nat
    PROVE  \E f : Left(records, drained, f, n)
<1> DEFINE T == {k \in Nat : ~\E f : Left(records, drained, f, k)}
<1>1. SUFFICES ASSUME T # {} PROVE FALSE
  OBVIOUS
<1>2. PICK k \in T : \A i \in T : k <= i
  BY <1>1, LeastNatural
<1>3. k # 0
  <2>1. Left(records, drained, [i \in 0..0 |-> <<>>], 0)
    BY DEF Left
  <2>2. QED BY <2>1
<1>4. PICK f : Left(records, drained, f, k - 1)
  BY <1>2, <1>3
<1> DEFINE g == [i \in 0..k |->
                    IF i = k
                    THEN IF records[k] \in drained THEN f[k - 1] ELSE Append(f[k - 1], records[k])
                    ELSE f[i]]
<1>5. Left(records, drained, g, k)
  <2>1. \A i \in 0..k - 1 : g[i] = f[i]
    BY <1>3
  <2>2. ASSUME NEW i \in 0..k
        PROVE  g[i] = IF i = 0 THEN <<>>
                      ELSE IF records[i] \in drained THEN g[i - 1] ELSE Append(g[i - 1], records[i])
    <3>1. CASE i = k
      BY <1>3, <2>1, <3>1
    <3>2. CASE i # k
      <4>1. i \in 0..k - 1 /\ (i # 0 => i - 1 \in 0..k - 1)
        BY <3>2
      <4>2. f[i] = IF i = 0 THEN <<>>
                   ELSE IF records[i] \in drained THEN f[i - 1] ELSE Append(f[i - 1], records[i])
        BY <1>4, <4>1 DEF Left
      <4>3. QED BY <2>1, <4>1, <4>2
    <3>3. QED BY <3>1, <3>2
  <2>3. QED BY <2>2 DEF Left
<1>6. QED BY <1>5

\* What a drain leaves behind: exactly what it does not take, no further from the end than it was.
LEMMA WithoutLeaves ==
    ASSUME NEW records \in Seq(Branch), NEW drained
    PROVE  LET left == Without(records, drained) IN
           /\ left \in Seq(Branch)
           /\ \A j \in 1..Len(left) : \E i \in 1..Len(records) :
                 left[j] = records[i] /\ Len(records) - i >= Len(left) - j
           /\ \A i \in 1..Len(records) : records[i] \notin drained =>
                 \E j \in 1..Len(left) : left[j] = records[i]
<1> DEFINE n == Len(records)
           f == CHOOSE f : Left(records, drained, f, n)
           Good(i) ==
              /\ f[i] \in Seq(Branch)
              /\ \A j \in 1..Len(f[i]) : \E k \in 1..i : f[i][j] = records[k] /\ i - k >= Len(f[i]) - j
              /\ \A k \in 1..i : records[k] \notin drained => \E j \in 1..Len(f[i]) : f[i][j] = records[k]
           T == {i \in 0..n : ~Good(i)}
<1>1. n \in Nat /\ \A i \in 1..n : records[i] \in Branch
  OBVIOUS
<1>2. Left(records, drained, f, n)
  BY <1>1, LeftExists
<1>3. Without(records, drained) = f[n]
  BY DEF Without, Left
<1> HIDE DEF f, n
<1>4. f[0] = <<>> /\ \A i \in 1..n :
          f[i] = IF records[i] \in drained THEN f[i - 1] ELSE Append(f[i - 1], records[i])
  <2>1. \A i \in 0..n :
          f[i] = IF i = 0 THEN <<>>
                 ELSE IF records[i] \in drained THEN f[i - 1] ELSE Append(f[i - 1], records[i])
    BY <1>2 DEF Left
  <2>2. QED BY <1>1, <2>1
<1>5. Good(0)
  BY <1>4
<1>6. ASSUME NEW i \in 1..n, Good(i - 1) PROVE Good(i)
  <2>1. CASE records[i] \in drained
    <3>1. f[i] = f[i - 1]
      BY <1>4, <2>1
    <3>2. ASSUME NEW j \in 1..Len(f[i])
          PROVE  \E k \in 1..i : f[i][j] = records[k] /\ i - k >= Len(f[i]) - j
      <4>1. PICK k \in 1..i - 1 : f[i][j] = records[k] /\ i - 1 - k >= Len(f[i]) - j
        BY <1>6, <3>1
      <4>2. Len(f[i]) \in Nat
        BY <1>6, <3>1
      <4>3. QED BY <1>1, <4>1, <4>2
    <3>3. ASSUME NEW k \in 1..i, records[k] \notin drained
          PROVE  \E j \in 1..Len(f[i]) : f[i][j] = records[k]
      <4>1. k \in 1..i - 1
        BY <1>1, <2>1, <3>3
      <4>2. QED BY <1>6, <3>1, <3>3, <4>1
    <3>4. QED BY <1>6, <3>1, <3>2, <3>3
  <2>2. CASE records[i] \notin drained
    <3> DEFINE g == f[i - 1]
               m == Len(g)
    <3>1. f[i] = Append(g, records[i])
      BY <1>4, <2>2
    <3>2. g \in Seq(Branch) /\ records[i] \in Branch /\ m \in Nat
      BY <1>1, <1>6
    <3>3. /\ f[i] \in Seq(Branch) /\ Len(f[i]) = m + 1
          /\ \A j \in 1..m : f[i][j] = g[j]
          /\ f[i][m + 1] = records[i]
      BY <3>1, <3>2, AppendProperties
    <3>4. ASSUME NEW j \in 1..Len(f[i])
          PROVE  \E k \in 1..i : f[i][j] = records[k] /\ i - k >= Len(f[i]) - j
      <4>1. CASE j = m + 1
        BY <1>1, <3>2, <3>3, <4>1
      <4>2. CASE j \in 1..m
        <5>1. PICK k \in 1..i - 1 : g[j] = records[k] /\ i - 1 - k >= m - j
          BY <1>6, <4>2
        <5>2. i - k >= m + 1 - j
          BY <1>1, <3>2, <5>1
        <5>3. QED BY <1>1, <3>3, <4>2, <5>1, <5>2
      <4>3. QED BY <3>2, <3>3, <4>1, <4>2
    <3>5. ASSUME NEW k \in 1..i, records[k] \notin drained
          PROVE  \E j \in 1..Len(f[i]) : f[i][j] = records[k]
      <4>1. CASE k = i
        <5>1. m + 1 \in 1..Len(f[i]) /\ f[i][m + 1] = records[k]
          BY <3>2, <3>3, <4>1
        <5>2. QED BY <5>1
      <4>2. CASE k \in 1..i - 1
        <5>1. PICK j \in 1..m : g[j] = records[k]
          BY <1>6, <3>5, <4>2
        <5>2. j \in 1..Len(f[i]) /\ f[i][j] = records[k]
          BY <3>2, <3>3, <5>1
        <5>3. QED BY <5>2
      <4>3. QED BY <1>1, <4>1, <4>2
    <3> HIDE DEF g, m
    <3>6. QED BY <3>3, <3>4, <3>5
  <2>3. QED BY <2>1, <2>2
<1>7. Good(n)
  <2>1. SUFFICES ASSUME T # {} PROVE FALSE
    BY <1>1
  <2>2. PICK i \in T : \A k \in T : i <= k
    <3>1. T \in SUBSET Nat
      BY <1>1
    <3> HIDE DEF T
    <3>2. QED BY <2>1, <3>1, LeastNatural
  <2> HIDE DEF Good
  <2>3. i \in 1..n /\ i - 1 \in 0..n /\ i - 1 \notin T
    BY <1>1, <1>5, <2>2
  <2>4. Good(i - 1)
    BY <2>3
  <2>5. QED BY <1>6, <2>2, <2>3, <2>4
<1>8. QED BY <1>3, <1>7 DEF n

-----------------------------------------------------------------------------
(* Type correctness                                                        *)

\* The sessions and the runs, which the actors change; the rest is one assignment a step.
StoreType ==
    /\ head \in [Session -> Structure] /\ copy \in [Process -> [Session -> Structure]]
    /\ latest \in SUBSET (Process \X Session) /\ stuck \in SUBSET (Process \X Session)
    /\ merged \in SUBSET Branch
RunType == run \in [Actor -> Run] /\ \A a \in Actor : run[a].pc # "idle" => run[a].at \in Branch
EventState == {"none", "published", "recorded", "enqueued", "unqueued", "lost"}
RestType ==
    /\ loaded \in [Process -> SUBSET Branch] /\ todo \in [Client -> SUBSET Branch]
    /\ closed \in SUBSET Branch /\ taken \in SUBSET Branch
    /\ inbox \in Seq(Branch) /\ log \in Seq(Branch)
    /\ event \in [Branch -> EventState]
    /\ task \in [Branch -> Task] /\ edits \in Nat /\ calls \in Nat /\ faults \in Nat

LEMMA TypeParts == TypeOK <=> StoreType /\ RunType /\ RestType
BY DEF TypeOK, StoreType, RunType, RestType, EventState

LEMMA IdleType == Idle \in Run /\ Idle.pc = "idle" /\ Idle.choice \in [{} -> Choice]
<1>1. Idle.choice \in [{} -> Choice]
  BY DEF Idle
<1>2. Idle.choice \in Choices
  BY <1>1 DEF Choices
<1>3. QED BY <1>1, <1>2 DEF Idle, Run

LEMMA GoneType == Gone \in Content
BY DEF Gone, Content, Value

LEMMA WholeType ==
    ASSUME NEW s \in Structure
    PROVE  Whole(s) \in Structure
BY GoneType DEF Whole, Structure

LEMMA MergeType ==
    ASSUME NEW s \in Structure, NEW b \in Branch, NEW choice
    PROVE  Merge(s, b, choice) \in Structure
<1> DEFINE M == [o \in Object |->
                    IF o \in Conflicts(s, b) \cap DOMAIN choice
                    THEN Chosen(s[o], Theirs[b][o], choice[o])
                    ELSE Combined(s[o], Theirs[b][o])]
<1>1. ASSUME NEW o \in Object PROVE M[o] \in Content
  <2>1. s[o] \in Content /\ Theirs[b][o] \in Content
    BY ContentAssumption DEF Structure
  <2>2. Combined(s[o], Theirs[b][o]) \in Content
    BY <2>1 DEF Combined, Content
  <2>3. Chosen(s[o], Theirs[b][o], choice[o]) \in Content
    BY <2>1, GoneType DEF Chosen, Content, Value
  <2>4. QED BY <2>2, <2>3
<1>2. M \in Structure
  BY <1>1 DEF Structure
<1> HIDE DEF M
<1>3. Whole(M) \in Structure
  BY <1>2, WholeType
<1>4. QED BY <1>3 DEF Merge, M

\* What evolve_knowledge makes of a structure is one.
LEMMA EvolvedType ==
    ASSUME NEW s \in Structure, NEW content \in Evolved(s)
    PROVE  content \in Structure
<1>1. ASSUME NEW o \in Object, NEW f \in Field, NEW v \in {"base", "edited"}
      PROVE  [s EXCEPT ![o][f] = v] \in Structure
  BY DEF Structure, Content, Value
<1>2. ASSUME NEW o \in Object PROVE Whole([s EXCEPT ![o] = Gone]) \in Structure
  <2>1. [s EXCEPT ![o] = Gone] \in Structure
    BY GoneType DEF Structure
  <2>2. QED BY <2>1, WholeType
<1>3. CASE content \in {[s EXCEPT ![o][f] = v] : o \in {p \in Object : s[p] # Gone}, f \in Field,
                                                v \in {"base", "edited"}}
  <2>1. PICK o \in {p \in Object : s[p] # Gone}, f \in Field, v \in {"base", "edited"} :
                content = [s EXCEPT ![o][f] = v]
    BY <1>3
  <2>2. QED BY <1>1, <2>1
<1>4. CASE content \in {Whole([s EXCEPT ![o] = Gone]) : o \in Object}
  BY <1>2, <1>4
<1>5. QED BY <1>3, <1>4 DEF Evolved

LEMMA WhereType ==
    ASSUME TypeOK, NEW a \in Actor, run[a].pc # "idle"
    PROVE  At(a) \in Process /\ Of(a) \in Session /\ run[a].at \in Branch /\ Mem(a) \in Structure
BY GossipAssumption DEF TypeOK, At, Of, Mem, Actor

LEMMA RunMoves ==
    ASSUME RunType, NEW a \in Actor, NEW p \in {"probe", "shown", "clean", "merged", "failed"},
           run[a].pc # "idle", Goto(a, p)
    PROVE  RunType'
BY DEF RunType, Run, Goto

LEMMA RunReplaced ==
    ASSUME RunType, NEW a \in Actor, NEW r \in Run, r.pc # "idle" => r.at \in Branch,
           run' = [run EXCEPT ![a] = r]
    PROVE  RunType'
BY DEF RunType

LEMMA CommittedType ==
    ASSUME StoreType, NEW p \in Process, NEW s \in Session, NEW content \in Structure,
           Committed(p, s, content)
    PROVE  /\ head' \in [Session -> Structure] /\ copy' \in [Process -> [Session -> Structure]]
           /\ latest' \in SUBSET (Process \X Session)
BY DEF StoreType, Committed

LEMMA GossipTypeInit == Init => TypeOK
<1> SUFFICES ASSUME Init PROVE TypeOK
  OBVIOUS
<1>1. StoreType
  BY ContentAssumption DEF Init, StoreType
<1>2. RunType
  BY IdleType DEF Init, RunType
<1>3. RestType
  BY DEF Init, RestType, EventState, Task
<1>4. QED BY <1>1, <1>2, <1>3, TypeParts

LEMMA CallType ==
    ASSUME TypeOK, NEW c \in Client, Call(c)
    PROVE  /\ RunType' /\ calls' \in Nat /\ copy' \in [Process -> [Session -> Structure]]
           /\ latest' \in SUBSET (Process \X Session)
           /\ UNCHANGED <<head, stuck, merged, loaded, closed, inboxVars, task, todo, edits, faults>>
           /\ \E s \in Session : Reload(Server, s)
           /\ \E b \in Branch, choice \in Choices :
                  run' = [run EXCEPT ![c] = [pc |-> "probe", at |-> b, retry |-> 0, choice |-> choice]]
<1> USE DEF RunType
<1>1. c \in Actor
  BY DEF Actor
<1>2. PICK b \in todo[c], choice \in Choices : StartCall(c, b, choice)
  <2>1. CASE run[c].pc = "idle"
    BY <2>1, IdleType DEF Call, Run
  <2>2. ASSUME NEW S \in SUBSET (Changed(run[c].at) \ DOMAIN run[c].choice), NEW new \in [S -> Choice],
               run[c].pc = "shown",
               StartCall(c, run[c].at, [o \in S \cup DOMAIN run[c].choice |->
                                          IF o \in S THEN new[o] ELSE run[c].choice[o]])
        PROVE  \E b \in todo[c], choice \in Choices : StartCall(c, b, choice)
    <3> DEFINE old == run[c].choice
               choice == [o \in S \cup DOMAIN old |-> IF o \in S THEN new[o] ELSE old[o]]
    <3>1. PICK R \in SUBSET Object : old \in [R -> Choice]
      <4>1. old \in Choices
        BY <1>1 DEF TypeOK, Run
      <4>2. QED BY <4>1 DEF Choices
    <3>2. S \in SUBSET Object
      BY <2>2 DEF Changed
    <3>3. choice \in Choices
      <4> HIDE DEF old
      <4>1. choice \in [S \cup R -> Choice]
        BY <2>2, <3>1
      <4>2. QED BY <3>1, <3>2, <4>1 DEF Choices
    <3>4. StartCall(c, run[c].at, choice)
      BY <2>2
    <3>5. run[c].at \in todo[c]
      BY <2>2 DEF StartCall
    <3> HIDE DEF choice
    <3>6. QED BY <3>3, <3>4, <3>5
  <2>3. QED BY <2>1, <2>2 DEF Call
<1>3. b \in Branch
  BY <1>2 DEF TypeOK
<1>4. RunType'
  <2> DEFINE r == [pc |-> "probe", at |-> b, retry |-> 0, choice |-> choice]
  <2>1. r \in Run /\ r.at \in Branch
    BY <1>3 DEF Run
  <2>2. run' = [run EXCEPT ![c] = r]
    BY <1>2 DEF StartCall
  <2> HIDE DEF r
  <2>3. QED BY <1>1, <2>1, <2>2, RunReplaced DEF TypeOK
<1>5. Reload(Server, Target[b]) /\ Target[b] \in Session /\ Server \in Process
  BY <1>2, <1>3, GossipAssumption DEF StartCall
<1>6. copy' \in [Process -> [Session -> Structure]] /\ latest' \in SUBSET (Process \X Session)
  BY <1>5 DEF Reload, TypeOK
<1>7. run' = [run EXCEPT ![c] = [pc |-> "probe", at |-> b, retry |-> 0, choice |-> choice]]
  BY <1>2 DEF StartCall
<1>8. UNCHANGED <<head, stuck, merged, loaded, closed, inboxVars, task, todo, edits, faults>> /\ calls' \in Nat
  BY <1>2 DEF StartCall, TypeOK
<1>9. QED BY <1>3, <1>4, <1>5, <1>6, <1>7, <1>8

LEMMA CommitStepType ==
    ASSUME TypeOK, NEW a \in Actor, Commit(a)
    PROVE  StoreType' /\ RunType'
<1> DEFINE p == At(a)
           s == Of(a)
           b == run[a].at
<1>1. run[a].pc = "clean" /\ p \in Process /\ s \in Session /\ b \in Branch /\ copy[p][s] \in Structure
  BY WhereType DEF Commit, Mem
<1>2. Merge(copy[p][s], b, run[a].choice) \in Structure
  BY <1>1, MergeType
<1>3. \/ UNCHANGED storeVars /\ Goto(a, "failed")
      \/ stuck' = stuck \cup {<<p, s>>} /\ UNCHANGED <<head, copy, latest, merged>> /\ Goto(a, "failed")
      \/ /\ Committed(p, s, Merge(copy[p][s], b, run[a].choice))
         /\ merged' = merged \cup {b} /\ UNCHANGED stuck /\ Goto(a, "merged")
      \/ /\ copy' = [copy EXCEPT ![p][s] = Merge(@, b, run[a].choice)]
         /\ stuck' = stuck \cup {<<p, s>>} /\ UNCHANGED <<head, latest, merged>> /\ Goto(a, "failed")
  BY DEF Commit
<1>4. RunType'
  BY <1>1, <1>3, RunMoves, TypeParts
<1>5. StoreType /\ p \in Process /\ s \in Session /\ b \in Branch
  BY <1>1, TypeParts
<1> HIDE DEF p, s, b
<1>6. StoreType'
  <2>1. CASE UNCHANGED storeVars
    BY <1>5, <2>1 DEF StoreType, storeVars
  <2>2. CASE stuck' = stuck \cup {<<p, s>>} /\ UNCHANGED <<head, copy, latest, merged>>
    BY <1>5, <2>2 DEF StoreType
  <2>3. CASE /\ Committed(p, s, Merge(copy[p][s], b, run[a].choice))
             /\ merged' = merged \cup {b} /\ UNCHANGED stuck
    BY <1>2, <1>5, <2>3, CommittedType DEF StoreType
  <2>4. CASE /\ copy' = [copy EXCEPT ![p][s] = Merge(@, b, run[a].choice)]
             /\ stuck' = stuck \cup {<<p, s>>} /\ UNCHANGED <<head, latest, merged>>
    BY <1>2, <1>5, <2>4 DEF StoreType
  <2>5. QED BY <1>3, <2>1, <2>2, <2>3, <2>4
<1>7. QED BY <1>4, <1>6

LEMMA GossipTypeStep == TypeOK /\ [Next]_vars => TypeOK'
<1> SUFFICES ASSUME TypeOK, [Next]_vars PROVE StoreType' /\ RunType' /\ RestType'
  BY DEF TypeOK, StoreType, RunType, RestType, EventState
<1> DEFINE Typed == StoreType' /\ RunType' /\ RestType'
<1>0. StoreType /\ RunType /\ RestType
  BY TypeParts
<1> USE <1>0
<1>1. UNCHANGED storeVars => StoreType'
  BY DEF storeVars, StoreType
<1>2. UNCHANGED run => RunType'
  BY DEF RunType
<1>3. UNCHANGED <<loaded, closed, inboxVars, task, todo, edits, calls, faults>> => RestType'
  BY DEF inboxVars, RestType
<1>4. ASSUME NEW b \in Branch, Detect(b) \/ Record(b) PROVE Typed
  <2>1. CASE Detect(b)
    <3>1. event' \in [Branch -> EventState]
      BY <2>1 DEF Detect, RestType, EventState
    <3>2. loaded' \in [Process -> SUBSET Branch]
      BY <2>1 DEF Detect, RestType
    <3>3. RestType'
      BY <2>1, <3>1, <3>2 DEF Detect, RestType
    <3>4. QED BY <1>1, <1>2, <2>1, <3>3 DEF Detect
  <2>2. CASE Record(b)
    <3>1. event' \in [Branch -> EventState]
      BY <2>2 DEF Record, RestType, EventState
    <3>2. Append(inbox, b) \in Seq(Branch) /\ Len(Append(inbox, b)) \in Nat
      BY AppendProperties DEF RestType
    <3>3. Newest(Append(inbox, b)) \in Seq(Branch)
      BY <3>2, GossipAssumption DEF Newest
    <3>4. log' \in Seq(Branch)
      BY <2>2, AppendProperties DEF Record, RestType
    <3>5. RestType'
      BY <2>2, <3>1, <3>3, <3>4 DEF Record, RestType
    <3>6. QED BY <1>1, <1>2, <2>2, <3>5 DEF Record
  <2>3. QED BY <1>4, <2>1, <2>2
<1>5. ASSUME NEW b \in Branch, Enqueue(b) \/ EnqueueFails(b) PROVE Typed
  <2>1. RestType'
    <3>1. event' \in [Branch -> EventState]
      BY <1>5 DEF Enqueue, EnqueueFails, RestType, EventState
    <3>2. task' \in [Branch -> Task]
      BY <1>5 DEF Enqueue, EnqueueFails, RestType, Task
    <3>3. faults' \in Nat
      BY <1>5 DEF Enqueue, EnqueueFails, RestType
    <3>4. QED BY <1>5, <3>1, <3>2, <3>3 DEF Enqueue, EnqueueFails, RestType
  <2>2. QED BY <1>1, <1>2, <1>5, <2>1 DEF Enqueue, EnqueueFails
<1>6. ASSUME NEW c \in Client, NEW S, NEW drain \in BOOLEAN, List(c, S, drain) PROVE Typed
  <2>1. PICK matched \in SUBSET Branch :
            /\ todo' = [todo EXCEPT ![c] = @ \cup matched]
            /\ inbox' = IF drain THEN Without(inbox, matched) ELSE inbox
            /\ taken' = IF drain THEN taken \cup matched ELSE taken
    BY <1>6 DEF List
  <2>2. inbox' \in Seq(Branch)
    BY <2>1, WithoutLeaves DEF RestType
  <2>3. RestType'
    BY <1>6, <2>1, <2>2 DEF List, RestType
  <2>4. QED BY <1>1, <1>2, <1>6, <2>3 DEF List
<1>7. ASSUME NEW c \in Client, Call(c) PROVE Typed
  <2>1. StoreType'
    BY <1>7, CallType DEF StoreType
  <2>2. RestType'
    BY <1>7, CallType DEF RestType, inboxVars
  <2>3. QED BY <1>7, <2>1, <2>2, CallType
<1>8. ASSUME NEW a \in Actor, Probe(a) \/ Blocked(a) PROVE Typed
  <2>1. \E p \in {"shown", "clean", "failed"} : Goto(a, p)
    BY <1>8 DEF Probe, Blocked
  <2>2. RunType'
    BY <1>8, <2>1, RunMoves DEF Probe, Blocked
  <2>3. QED BY <1>1, <1>3, <1>8, <2>2 DEF Probe, Blocked
<1>9. ASSUME NEW a \in Actor, Commit(a) PROVE Typed
  BY <1>3, <1>9, CommitStepType DEF Commit
<1>10. ASSUME NEW c \in Actor, AutoResolve(c) PROVE Typed
  <2>0. PICK S \in SUBSET Changed(run[c].at) : \E choice \in [S -> Choice] :
            run' = [run EXCEPT ![c].pc = "probe", ![c].choice = choice]
    BY <1>10 DEF AutoResolve
  <2>1. PICK choice \in [S -> Choice] :
            run' = [run EXCEPT ![c].pc = "probe", ![c].choice = choice]
    BY <2>0
  <2>2. run[c] \in Run /\ run[c].at \in Branch
    BY <1>10 DEF AutoResolve, RunType
  <2>3. choice \in Choices
    BY <2>1, <2>2 DEF Choices, Changed
  <2> DEFINE old == run[c]
             new == [old EXCEPT !.pc = "probe", !.choice = choice]
  <2>4. run' = [run EXCEPT ![c] = new]
    BY <2>1 DEF RunType
  <2>5. new \in Run /\ new.at \in Branch
    <3> HIDE DEF old
    <3>1. QED BY <2>2, <2>3 DEF Run, old
  <2>6. RunType'
    <3> HIDE DEF new
    <3>1. QED BY <2>4, <2>5, RunReplaced
  <2>7. QED BY <1>1, <1>3, <1>10, <2>6 DEF AutoResolve
<1>11. ASSUME NEW c \in Actor, GiveUp(c) \/ \E close \in BOOLEAN : Finish(c, close) PROVE Typed
  <2>1. run' = [run EXCEPT ![c] = Idle] /\ run[c].pc # "idle"
    BY <1>11 DEF GiveUp, Finish
  <2>2. RunType'
    BY <2>1, IdleType, RunReplaced
  <2>3. RestType'
    BY <1>11, <2>1 DEF GiveUp, Finish, RestType, RunType, inboxVars
  <2>4. QED BY <1>1, <1>11, <2>2, <2>3 DEF GiveUp, Finish
<1>12. ASSUME NEW a \in Actor, Report(a) PROVE Typed
  <2>1. RunType'
    BY <1>12, IdleType, RunReplaced DEF Report
  <2>2. PICK row \in Task : task' = [task EXCEPT ![run[a].at] = row]
    <3>1. NextRetry(a) \in Nat
      BY DEF NextRetry, RunType, Run
    <3>2. PICK row : /\ task' = [task EXCEPT ![run[a].at] = row]
                     /\ \/ row = [state |-> "done", retry |-> 0]
                        \/ row = [state |-> "dead", retry |-> 0]
                        \/ row = [state |-> "pending", retry |-> NextRetry(a)]
      BY <1>12 DEF Report
    <3>3. row \in Task
      BY <3>1, <3>2 DEF Task
    <3>4. QED BY <3>2, <3>3
  <2>3. RestType'
    <3>1. task' \in [Branch -> Task]
      BY <2>2 DEF RestType
    <3>2. QED BY <1>12, <3>1 DEF Report, RestType, inboxVars
  <2>4. QED BY <1>1, <1>12, <2>1, <2>3 DEF Report
<1>13. ASSUME NEW a \in Critic, NEW b \in Branch, Claim(a, b) PROVE Typed
  <2> DEFINE r == [Idle EXCEPT !.pc = "probe", !.at = b, !.retry = task[b].retry]
  <2>1. r \in Run /\ r.at \in Branch
    <3>1. task[b].retry \in Nat /\ Idle \in Run
      BY IdleType DEF RestType, Task
    <3>2. QED BY <3>1 DEF Run
  <2>2. RunType'
    <3>1. run' = [run EXCEPT ![a] = r] /\ a \in Actor
      BY <1>13 DEF Claim, Actor
    <3> HIDE DEF r
    <3>2. QED BY <2>1, <3>1, RunReplaced
  <2>3. RestType'
    BY <1>13 DEF Claim, RestType, Task, inboxVars
  <2>4. QED BY <1>1, <1>13, <2>2, <2>3 DEF Claim
<1>14. ASSUME NEW s \in Session, NEW content \in Evolved(head[s]),
              EditElsewhere(s, content) \/ \E p \in Process : Edit(p, s, content)
       PROVE  Typed
  <2>1. content \in Structure
    BY EvolvedType DEF StoreType
  <2>2. CASE EditElsewhere(s, content)
    <3>1. head' = [head EXCEPT ![s] = content]
      BY <2>2 DEF EditElsewhere
    <3>2. StoreType'
      BY <2>1, <2>2, <3>1 DEF EditElsewhere, StoreType
    <3>3. RestType'
      BY <2>2 DEF EditElsewhere, RestType, inboxVars
    <3>4. QED BY <1>2, <2>2, <3>2, <3>3 DEF EditElsewhere
  <2>3. ASSUME NEW p \in Process, Edit(p, s, content) PROVE Typed
    <3>1. StoreType'
      BY <2>1, <2>3, CommittedType DEF Edit, StoreType
    <3>2. RestType'
      BY <2>3 DEF Edit, RestType, inboxVars
    <3>3. QED BY <1>2, <2>3, <3>1, <3>2 DEF Edit
  <2>4. QED BY <1>14, <2>2, <2>3
<1>15. ASSUME NEW p \in Process, Restart(p) PROVE Typed
  <2>1. StoreType'
    BY <1>15 DEF Restart, StoreType
  <2>2. RunType'
    <3>1. \A a \in Actor : run'[a] = Idle \/ run'[a] = run[a]
      BY <1>15 DEF Restart
    <3>2. DOMAIN run' = Actor /\ run' = [a \in Actor |-> run'[a]]
      BY <1>15 DEF Restart
    <3>3. QED BY <3>1, <3>2, IdleType DEF RunType
  <2>3. task' \in [Branch -> Task]
    <3>1. \A b \in Branch : task'[b] = [task[b] EXCEPT !.state = "pending"] \/ task'[b] = task[b]
      BY <1>15 DEF Restart
    <3>2. task' = [b \in Branch |-> task'[b]]
      BY <1>15 DEF Restart
    <3>3. \A b \in Branch : task'[b] \in Task
      BY <3>1 DEF RestType, Task
    <3>4. QED BY <3>2, <3>3
  <2>4. event' \in [Branch -> EventState]
    BY <1>15 DEF Restart, RestType, EventState, inboxVars
  <2>5. RestType'
    <3>1. loaded' \in [Process -> SUBSET Branch]
      BY <1>15 DEF Restart, RestType
    <3>2. /\ inbox' \in Seq(Branch) /\ log' \in Seq(Branch)
          /\ taken' \in SUBSET Branch /\ todo' \in [Client -> SUBSET Branch]
      <4>1. CASE p = Server
        BY <1>15, <4>1 DEF Restart, RestType
      <4>2. CASE p # Server
        BY <1>15, <4>2 DEF Restart, RestType, inboxVars
      <4>3. QED BY <4>1, <4>2
    <3>3. closed' = closed /\ faults' \in Nat /\ UNCHANGED <<edits, calls>>
      BY <1>15 DEF Restart, RestType
    <3>4. QED BY <2>3, <2>4, <3>1, <3>2, <3>3 DEF RestType
  <2>6. QED BY <2>1, <2>2, <2>5
<1>16. ASSUME UNCHANGED vars PROVE Typed
  BY <1>1, <1>2, <1>3, <1>16 DEF vars
<1>17. QED
  BY <1>4, <1>5, <1>6, <1>7, <1>8, <1>9, <1>10, <1>11, <1>12, <1>13, <1>14, <1>15, <1>16
     DEF Next, ActorStep

-----------------------------------------------------------------------------
(* What a step does to the runs and the merges                             *)

\* Only a commit makes a run "merged", and a Critic never chooses.
Moved(a) ==
    /\ run'[a] = run[a] \/ run'[a].pc # "merged" \/ Commit(a)
    /\ a \in Critic => run'[a].choice \in {run[a].choice, Idle.choice}

LEMMA RunsMove ==
    ASSUME TypeOK, [Next]_vars
    PROVE  \A a \in Actor : Moved(a)
<1> DEFINE AllMoved == \A a \in Actor : Moved(a)
<1>1. run \in [Actor -> Run]
  BY DEF TypeOK
<1>2. ASSUME run' = run PROVE AllMoved
  BY <1>2 DEF Moved
<1>3. ASSUME NEW c \in Actor, NEW r, run' = [run EXCEPT ![c] = r], r.pc # "merged",
             c \in Critic => r.choice \in {run[c].choice, Idle.choice}
      PROVE  AllMoved
  BY <1>1, <1>3 DEF Moved
<1>4. ASSUME NEW b \in Branch, Detect(b) \/ Record(b) \/ Enqueue(b) \/ EnqueueFails(b) PROVE AllMoved
  BY <1>2, <1>4 DEF Detect, Record, Enqueue, EnqueueFails
<1>5. ASSUME NEW c \in Client, NEW S, NEW drain \in BOOLEAN, List(c, S, drain) PROVE AllMoved
  BY <1>2, <1>5 DEF List
<1>6. ASSUME NEW c \in Client, Call(c) PROVE AllMoved
  <2>1. PICK b \in Branch, choice \in Choices :
            run' = [run EXCEPT ![c] = [pc |-> "probe", at |-> b, retry |-> 0, choice |-> choice]]
    BY <1>6, CallType
  <2>2. c \in Actor /\ c \notin Critic
    BY ActorAssumption DEF Actor
  <2> DEFINE r == [pc |-> "probe", at |-> b, retry |-> 0, choice |-> choice]
  <2>3. run' = [run EXCEPT ![c] = r] /\ r.pc # "merged"
    BY <2>1
  <2> HIDE DEF r
  <2>4. QED BY <1>3, <2>2, <2>3
<1>7. ASSUME NEW a \in Actor, Probe(a) \/ Blocked(a) PROVE AllMoved
  <2>1. PICK p \in {"shown", "clean", "failed"} : Goto(a, p)
    BY <1>7 DEF Probe, Blocked
  <2>2. \A x \in Actor : run'[x].choice = run[x].choice /\ (run'[x] = run[x] \/ run'[x].pc # "merged")
    BY <1>1, <2>1 DEF Goto, Run
  <2>3. QED BY <2>2 DEF Moved
<1>8. ASSUME NEW a \in Actor, Commit(a) PROVE AllMoved
  <2>1. PICK p \in {"merged", "failed"} : Goto(a, p)
    BY <1>8 DEF Commit
  <2>2. \A x \in Actor : run'[x].choice = run[x].choice /\ (x # a => run'[x] = run[x])
    BY <1>1, <2>1 DEF Goto, Run
  <2>3. QED BY <1>8, <2>2 DEF Moved
<1>9. ASSUME NEW c \in Actor, AutoResolve(c) PROVE AllMoved
  <2>1. PICK choice : run' = [run EXCEPT ![c].pc = "probe", ![c].choice = choice]
    BY <1>9 DEF AutoResolve
  <2> DEFINE old == run[c]
             r == [old EXCEPT !.pc = "probe", !.choice = choice]
  <2>2. run' = [run EXCEPT ![c] = r] /\ old \in Run
    BY <1>1, <2>1
  <2>3. r.pc # "merged"
    <3> HIDE DEF old
    <3>1. QED BY <2>2 DEF Run
  <2>4. c \notin Critic
    BY <1>9, ActorAssumption DEF AutoResolve
  <2> HIDE DEF r
  <2>5. QED BY <1>3, <2>2, <2>3, <2>4
<1>10. ASSUME NEW c \in Actor, GiveUp(c) \/ (\E close \in BOOLEAN : Finish(c, close)) \/ Report(c)
       PROVE  AllMoved
  BY <1>3, <1>10, IdleType DEF GiveUp, Finish, Report
<1>11. ASSUME NEW a \in Critic, NEW b \in Branch, Claim(a, b) PROVE AllMoved
  <2> DEFINE r == [Idle EXCEPT !.pc = "probe", !.at = b, !.retry = task[b].retry]
  <2>1. run' = [run EXCEPT ![a] = r] /\ a \in Actor
    BY <1>11 DEF Claim, Actor
  <2>2. r.pc # "merged" /\ r.choice = Idle.choice
    BY IdleType DEF Run
  <2> HIDE DEF r
  <2>3. QED BY <1>3, <2>1, <2>2
<1>12. ASSUME NEW s \in Session, NEW content \in Evolved(head[s]),
              EditElsewhere(s, content) \/ \E p \in Process : Edit(p, s, content)
       PROVE  AllMoved
  BY <1>2, <1>12 DEF EditElsewhere, Edit
<1>13. ASSUME NEW p \in Process, Restart(p) PROVE AllMoved
  <2>1. \A a \in Actor : run'[a] \in {run[a], Idle}
    BY <1>13 DEF Restart
  <2>2. QED BY <2>1, IdleType DEF Moved
<1>14. CASE UNCHANGED vars
  BY <1>2, <1>14 DEF vars
<1>15. QED
  BY <1>4, <1>5, <1>6, <1>7, <1>8, <1>9, <1>10, <1>11, <1>12, <1>13, <1>14 DEF Next, ActorStep

\* What a commit that merges does: it saved, and from what it read there was nothing to choose.
LEMMA CommitMerges ==
    ASSUME TypeOK, NEW a \in Actor, Commit(a), run'[a].pc = "merged"
    PROVE  /\ <<At(a), Of(a)>> \in latest
           /\ Unresolved(Mem(a), run[a].at, run[a].choice) = {}
           /\ head' = [head EXCEPT ![Of(a)] = Merge(Mem(a), run[a].at, run[a].choice)]
           /\ merged' = merged \cup {run[a].at} /\ run'[a].at = run[a].at
<1>1. run \in [Actor -> Run]
  BY DEF TypeOK
<1>2. ~Goto(a, "failed")
  BY <1>1 DEF Goto, Run
<1>3. Goto(a, "merged") => run'[a].at = run[a].at
  BY <1>1 DEF Goto, Run
<1>4. QED BY <1>2, <1>3 DEF Commit, Committed, Saves, Mem

-----------------------------------------------------------------------------
(* The outbox keeps what is not merged                                     *)

LEMMA QueueInit == Init => QueueInv
BY IdleType DEF Init, QueueInv, UnmergedIsKept, MergedRuns

LEMMA QueueStep == TypeOK /\ QueueInv /\ [Next]_vars => QueueInv'
<1> SUFFICES ASSUME TypeOK, QueueInv, [Next]_vars PROVE MergedRuns' /\ UnmergedIsKept'
  BY DEF QueueInv
<1> USE DEF QueueInv
<1>1. merged \subseteq merged'
  <2>1. \A c \in Client : Call(c) => merged' = merged
    BY CallType
  <2>2. \A a \in Actor : Commit(a) => merged \subseteq merged'
    BY DEF Commit, storeVars
  <2>3. QED BY <2>1, <2>2 DEF Next, ActorStep, vars, storeVars, Detect, Record, Enqueue, EnqueueFails, List,
                   Probe, Blocked, AutoResolve, GiveUp, Finish, Report, Claim, EditElsewhere, Edit, Restart
<1>2. MergedRuns'
  <2>1. SUFFICES ASSUME NEW a \in Actor, run'[a].pc = "merged" PROVE run'[a].at \in merged'
    BY DEF MergedRuns
  <2>2. CASE run'[a] = run[a]
    BY <1>1, <2>1, <2>2 DEF MergedRuns
  <2>3. CASE Commit(a)
    BY <2>1, <2>3, CommitMerges
  <2>4. QED BY <2>1, <2>2, <2>3, RunsMove DEF Moved
\* Most steps leave the rows alone, and only the server's own steps make an event "enqueued".
<1>3. ASSUME task' = task, \A b \in Branch : event'[b] = "enqueued" => event[b] = "enqueued"
      PROVE  UnmergedIsKept'
  BY <1>1, <1>3 DEF UnmergedIsKept
<1>4. ASSUME NEW b \in Branch, Detect(b) \/ Record(b) \/ EnqueueFails(b) PROVE UnmergedIsKept'
  <2>1. \A x \in Branch : event'[x] = "enqueued" => event[x] = "enqueued"
    BY <1>4 DEF Detect, Record, EnqueueFails, TypeOK
  <2>2. QED BY <1>3, <1>4, <2>1 DEF Detect, Record, EnqueueFails
<1>5. ASSUME NEW b \in Branch, Enqueue(b) PROVE UnmergedIsKept'
  <2>1. task'[b].state = "pending" /\ \A x \in Branch \ {b} : task'[x] = task[x] /\ event'[x] = event[x]
    BY <1>5 DEF Enqueue, TypeOK, Task
  <2>2. QED BY <1>1, <2>1 DEF UnmergedIsKept
<1>6. ASSUME NEW c \in Client, Call(c) \/ \E S, drain : List(c, S, drain) PROVE UnmergedIsKept'
  <2>1. UNCHANGED <<task, event>>
    BY <1>6, CallType DEF List, inboxVars
  <2>2. QED BY <1>3, <2>1
<1>7. ASSUME NEW a \in Actor, Probe(a) \/ Blocked(a) \/ Commit(a) \/ AutoResolve(a) \/ GiveUp(a)
                              \/ \E close \in BOOLEAN : Finish(a, close)
      PROVE  UnmergedIsKept'
  <2>1. UNCHANGED <<task, event>>
    BY <1>7 DEF Probe, Blocked, Commit, AutoResolve, GiveUp, Finish, inboxVars
  <2>2. QED BY <1>3, <2>1
\* A completed row is of a merged branch.
<1>8. ASSUME NEW a \in Actor, Report(a) PROVE UnmergedIsKept'
  <2>1. event' = event
    BY <1>8 DEF Report, inboxVars
  <2>2. \A b \in Branch : task'[b] = task[b] \/ task'[b].state \in {"pending", "dead"}
                                         \/ (b = run[a].at /\ run[a].pc = "merged")
    BY <1>8 DEF Report, Resolved, TypeOK
  <2>3. QED BY <1>1, <2>1, <2>2 DEF UnmergedIsKept, MergedRuns
<1>9. ASSUME NEW a \in Critic, NEW b \in Branch, Claim(a, b) PROVE UnmergedIsKept'
  <2>1. event' = event
    BY <1>9 DEF Claim, inboxVars
  <2>2. \A x \in Branch : task'[x] = task[x] \/ task'[x].state = "claimed"
    BY <1>9 DEF Claim, TypeOK, Task
  <2>3. QED BY <1>1, <2>1, <2>2 DEF UnmergedIsKept
<1>10. ASSUME NEW s \in Session, NEW content \in Evolved(head[s]),
              EditElsewhere(s, content) \/ \E p \in Process : Edit(p, s, content)
       PROVE  UnmergedIsKept'
  BY <1>3, <1>10 DEF EditElsewhere, Edit, inboxVars
<1>11. ASSUME NEW p \in Process, Restart(p) PROVE UnmergedIsKept'
  <2>1. \A b \in Branch : event'[b] = "enqueued" => event[b] = "enqueued"
    BY <1>11 DEF Restart, inboxVars
  <2>2. \A b \in Branch : task'[b] = task[b] \/ task'[b].state = "pending"
    BY <1>11 DEF Restart, TypeOK, Task
  <2>3. QED BY <1>1, <2>1, <2>2 DEF UnmergedIsKept
<1>12. ASSUME UNCHANGED vars PROVE UnmergedIsKept'
  <2>1. UNCHANGED <<task, event>>
    BY <1>12 DEF vars, inboxVars
  <2>2. QED BY <1>3, <2>1
<1>13. QED
  BY <1>2, <1>4, <1>5, <1>6, <1>7, <1>8, <1>9, <1>10, <1>11, <1>12 DEF Next, ActorStep

-----------------------------------------------------------------------------
(* A merge is of what is persisted                                         *)

LEMMA CopyInit == Init => CopyInv
<1> SUFFICES ASSUME Init PROVE CopyInv
  OBVIOUS
<1>1. LatestIsHead
  <2>1. \A p \in Process : copy[p] = head
    BY DEF Init
  <2>2. QED BY <2>1 DEF LatestIsHead
<1>2. CriticsChooseNothing
  <2>1. \A a \in Critic : run[a] = Idle
    BY DEF Init, Actor
  <2>2. QED BY <2>1 DEF CriticsChooseNothing
<1>3. QED BY <1>1, <1>2 DEF CopyInv

LEMMA CommittedKeeps ==
    ASSUME StoreType, LatestIsHead, NEW p \in Process, NEW s \in Session, NEW content,
           Committed(p, s, content)
    PROVE  LatestIsHead'
<1>1. SUFFICES ASSUME NEW q \in Process, NEW t \in Session, <<q, t>> \in latest'
               PROVE  copy'[q][t] = head'[t]
  BY DEF LatestIsHead
<1>2. CASE q = p /\ t = s
  BY <1>2 DEF Committed, StoreType
<1>3. CASE ~(q = p /\ t = s)
  <2>1. <<q, t>> \in latest /\ t # s
    BY <1>1, <1>3 DEF Committed
  <2>2. head'[t] = head[t] /\ copy'[q][t] = copy[q][t]
    BY <2>1 DEF Committed, StoreType
  <2>3. QED BY <2>1, <2>2 DEF LatestIsHead
<1>4. QED BY <1>2, <1>3

LEMMA CopyStep == TypeOK /\ CopyInv /\ [Next]_vars => CopyInv'
<1> SUFFICES ASSUME TypeOK, CopyInv, [Next]_vars PROVE CriticsChooseNothing' /\ LatestIsHead'
  BY DEF CopyInv
<1> USE DEF CopyInv
<1>0. StoreType
  BY TypeParts
<1>1. CriticsChooseNothing'
  BY RunsMove DEF Moved, CriticsChooseNothing, Actor
<1>2. ASSUME UNCHANGED <<head, copy, latest>> PROVE LatestIsHead'
  BY <1>2 DEF LatestIsHead
<1>3. ASSUME NEW c \in Client, Call(c) PROVE LatestIsHead'
  <2>1. PICK s \in Session : Reload(Server, s) /\ head' = head
    BY <1>3, CallType
  <2>2. SUFFICES ASSUME NEW q \in Process, NEW t \in Session, <<q, t>> \in latest'
                 PROVE  copy'[q][t] = head[t]
    BY <2>1 DEF LatestIsHead
  <2>3. CASE q = Server /\ t = s
    BY <1>0, <2>1, <2>3 DEF Reload, StoreType
  <2>4. CASE ~(q = Server /\ t = s)
    <3>1. <<q, t>> \in latest /\ copy'[q][t] = copy[q][t]
      BY <1>0, <2>1, <2>2, <2>4 DEF Reload, StoreType
    <3>2. QED BY <3>1 DEF LatestIsHead
  <2>5. QED BY <2>3, <2>4
<1>4. ASSUME NEW a \in Actor, Commit(a) PROVE LatestIsHead'
  <2> DEFINE p == At(a)
             s == Of(a)
             content == Merge(copy[p][s], run[a].at, run[a].choice)
  <2>1. p \in Process /\ s \in Session
    BY <1>4, WhereType DEF Commit
  <2>2. \/ UNCHANGED <<head, copy, latest>>
        \/ Committed(p, s, content)
        \/ <<p, s>> \notin latest /\ copy' = [copy EXCEPT ![p][s] = content] /\ UNCHANGED <<head, latest>>
    BY <1>0, <1>4, <2>1 DEF Commit, Saves, storeVars, StoreType
  <2> HIDE DEF p, s, content
  <2>3. CASE Committed(p, s, content)
    BY <1>0, <2>1, <2>3, CommittedKeeps
  <2>4. CASE <<p, s>> \notin latest /\ copy' = [copy EXCEPT ![p][s] = content] /\ UNCHANGED <<head, latest>>
    BY <1>0, <2>1, <2>4 DEF LatestIsHead, StoreType
  <2>5. QED BY <1>2, <2>2, <2>3, <2>4
<1>5. ASSUME NEW s \in Session, NEW content \in Evolved(head[s]), EditElsewhere(s, content)
      PROVE  LatestIsHead'
  BY <1>0, <1>5 DEF EditElsewhere, LatestIsHead, StoreType
<1>6. ASSUME NEW s \in Session, NEW content \in Evolved(head[s]), NEW p \in Process,
             Edit(p, s, content)
      PROVE  LatestIsHead'
  BY <1>0, <1>6, CommittedKeeps DEF Edit
<1>7. ASSUME NEW p \in Process, Restart(p) PROVE LatestIsHead'
  BY <1>0, <1>7 DEF Restart, LatestIsHead, StoreType
<1>8. ASSUME NEW a \in Actor, ActorStep(a), ~Commit(a) PROVE LatestIsHead'
  <2>1. UNCHANGED <<head, copy, latest>>
    BY <1>8 DEF ActorStep, Probe, Blocked, AutoResolve, GiveUp, Finish, Report, storeVars
  <2>2. QED BY <1>2, <2>1
<1>9. ASSUME \/ \E b \in Branch : Detect(b) \/ Record(b) \/ Enqueue(b) \/ EnqueueFails(b)
             \/ \E c \in Client, S \in {Session} \cup {{s} : s \in Session}, drain \in BOOLEAN :
                    List(c, S, drain)
             \/ \E a \in Critic, b \in Branch : Claim(a, b)
             \/ UNCHANGED vars
      PROVE  LatestIsHead'
  <2>1. UNCHANGED <<head, copy, latest>>
    BY <1>9 DEF Detect, Record, Enqueue, EnqueueFails, List, Claim, vars, storeVars
  <2>2. QED BY <1>2, <2>1
<1>10. QED
  BY <1>1, <1>3, <1>4, <1>5, <1>6, <1>7, <1>8, <1>9 DEF Next

-----------------------------------------------------------------------------
(* The inbox keeps the newest                                              *)

\* What the cap leaves of the records: the newest, as far from the end as they were.
LEMMA NewestLeaves ==
    ASSUME NEW records \in Seq(Branch)
    PROVE  LET left == Newest(records) IN
           /\ left \in Seq(Branch)
           /\ \A j \in 1..Len(left) : \E i \in 1..Len(records) :
                 left[j] = records[i] /\ Len(records) - i = Len(left) - j
           /\ \A i \in 1..Len(records) : Len(records) - i < MaxRecords =>
                 \E j \in 1..Len(left) : left[j] = records[i]
<1> DEFINE n == Len(records)
           cut == n - MaxRecords
           left == Newest(records)
<1>1. n \in Nat /\ MaxRecords \in Nat /\ MaxRecords > 0
  BY GossipAssumption
<1>2. CASE n <= MaxRecords
  <2>1. left = records
    BY <1>1, <1>2 DEF Newest
  <2>2. \A i \in 1..n : n - i = n - i
    OBVIOUS
  <2> HIDE DEF left, cut
  <2>3. QED BY <2>1, <2>2 DEF left
<1>3. CASE n > MaxRecords
  <2>1. left = SubSeq(records, cut + 1, n) /\ cut \in Nat /\ cut + 1 <= n
    BY <1>1, <1>3 DEF Newest
  <2>2. /\ left \in Seq(Branch) /\ Len(left) = MaxRecords
        /\ \A j \in 1..MaxRecords : left[j] = records[cut + j]
    BY <1>1, <2>1
  <2>3. ASSUME NEW j \in 1..Len(left)
        PROVE  \E i \in 1..n : left[j] = records[i] /\ n - i = Len(left) - j
    <3>1. j \in 1..MaxRecords /\ left[j] = records[cut + j]
      BY <2>2, <2>3
    <3>2. cut + j \in 1..n /\ n - (cut + j) = MaxRecords - j
      <4>1. n = cut + MaxRecords
        BY <1>1
      <4> HIDE DEF n, cut, left
      <4>2. QED BY <1>1, <2>1, <3>1, <4>1
    <3>3. QED BY <2>2, <3>1, <3>2
  <2>4. ASSUME NEW i \in 1..n, n - i < MaxRecords
        PROVE  \E j \in 1..Len(left) : left[j] = records[i]
    <3>1. n = cut + MaxRecords
      BY <1>1
    <3>2. i - cut \in 1..MaxRecords /\ cut + (i - cut) = i
      <4> HIDE DEF n, cut, left
      <4>1. QED BY <1>1, <2>1, <2>4, <3>1
    <3>3. left[i - cut] = records[i]
      <4> HIDE DEF n, cut, left
      <4>1. left[i - cut] = records[cut + (i - cut)]
        BY <2>2, <3>2
      <4>2. QED BY <3>2, <4>1
    <3>4. i - cut \in 1..Len(left)
      BY <2>2, <3>2
    <3> HIDE DEF n, cut, left
    <3>5. QED BY <3>3, <3>4
  <2> HIDE DEF left, cut
  <2>5. QED BY <2>2, <2>3, <2>4 DEF left
<1>4. QED BY <1>1, <1>2, <1>3

LEMMA InboxInit == Init => InboxInv
BY DEF Init, InboxInv, RecordedOnce, InboxInOrder, InboxKeepsNewest

\* The invariant, with the sequences' domains spelled out.
InboxParts(n, m) ==
    /\ \A i \in 1..n : event[log[i]] \in {"recorded", "enqueued", "unqueued"}
    /\ \A i, j \in 1..n : log[i] = log[j] => i = j
    /\ \A j \in 1..m : \E i \in 1..n : log[i] = inbox[j] /\ n - i >= m - j
    /\ \A i \in 1..n :
          \/ log[i] \in taken
          \/ \E j \in 1..m : inbox[j] = log[i]
          \/ n - i >= MaxRecords

LEMMA InboxSpelled ==
    ASSUME log \in Seq(Branch), inbox \in Seq(Branch)
    PROVE  InboxInv <=> InboxParts(Len(log), Len(inbox))
<1>1. DOMAIN log = 1..Len(log) /\ DOMAIN inbox = 1..Len(inbox)
  OBVIOUS
<1>2. QED BY <1>1 DEF InboxParts, InboxInv, RecordedOnce, InboxInOrder, InboxKeepsNewest

LEMMA InboxSpelledNext ==
    ASSUME log' \in Seq(Branch), inbox' \in Seq(Branch)
    PROVE  InboxInv' <=> InboxParts(Len(log), Len(inbox))'
<1>1. DOMAIN log' = 1..Len(log') /\ DOMAIN inbox' = 1..Len(inbox')
  OBVIOUS
<1>2. QED BY <1>1 DEF InboxParts, InboxInv, RecordedOnce, InboxInOrder, InboxKeepsNewest

LEMMA RecordKeeps ==
    ASSUME TypeOK, InboxInv, NEW b \in Branch, Record(b)
    PROVE  InboxInv'
<1> DEFINE n == Len(log)
           m == Len(inbox)
           w == Len(inbox')
           all == Append(inbox, b)
<1>1. /\ log \in Seq(Branch) /\ inbox \in Seq(Branch) /\ n \in Nat /\ m \in Nat
      /\ event \in [Branch -> EventState]
      /\ \A i \in 1..n : log[i] \in Branch
  BY DEF TypeOK, EventState
<1>2. /\ Len(log') = n + 1 /\ log'[n + 1] = b /\ \A i \in 1..n : log'[i] = log[i]
      /\ log' \in Seq(Branch)
  BY <1>1, AppendProperties DEF Record
<1>3. /\ all \in Seq(Branch) /\ Len(all) = m + 1 /\ all[m + 1] = b
      /\ \A j \in 1..m : all[j] = inbox[j]
  BY <1>1, AppendProperties
<1>4. InboxParts(n, m)
  BY <1>1, InboxSpelled
<1>5. inbox' = Newest(all) /\ taken' = taken /\ event[b] = "published"
  BY DEF Record
<1> HIDE DEF all
<1>6. /\ inbox' \in Seq(Branch)
      /\ \A j \in 1..Len(inbox') : \E i \in 1..Len(all) :
             inbox'[j] = all[i] /\ Len(all) - i = Len(inbox') - j
      /\ \A i \in 1..Len(all) : Len(all) - i < MaxRecords => \E j \in 1..Len(inbox') : inbox'[j] = all[i]
  BY <1>3, <1>5, NewestLeaves
<1>7. /\ inbox' \in Seq(Branch) /\ w \in Nat
      /\ \A j \in 1..w : \E i \in 1..m + 1 : inbox'[j] = all[i] /\ m + 1 - i = w - j
      /\ \A i \in 1..m + 1 : m + 1 - i < MaxRecords => \E j \in 1..w : inbox'[j] = all[i]
  BY <1>3, <1>6
<1>8. \A i \in 1..n : log[i] # b
  BY <1>4, <1>5 DEF InboxParts
<1>9. MaxRecords \in Nat /\ MaxRecords > 0
  BY GossipAssumption
<1>10. ASSUME
        \A i \in 1..n + 1 : event'[log'[i]] \in {"recorded", "enqueued", "unqueued"},
        \A i, j \in 1..n + 1 : log'[i] = log'[j] => i = j,
        \A j \in 1..w : \E i \in 1..n + 1 : log'[i] = inbox'[j] /\ n + 1 - i >= w - j,
        \A i \in 1..n + 1 : \/ log'[i] \in taken
                            \/ \E j \in 1..w : inbox'[j] = log'[i]
                            \/ n + 1 - i >= MaxRecords
       PROVE InboxInv'
  <2>1. SUFFICES InboxParts(Len(log), Len(inbox))'
    BY <1>2, <1>7, InboxSpelledNext
  <2>2. Len(log') = n + 1 /\ Len(inbox') = w /\ taken' = taken /\ n \in Nat /\ w \in Nat
    BY <1>1, <1>2, <1>5, <1>7
  <2> HIDE DEF n, m, w
  <2>3. \A i \in 1..Len(log') : event'[log'[i]] \in {"recorded", "enqueued", "unqueued"}
    BY <1>10, <2>2
  <2>4. \A i, j \in 1..Len(log') : log'[i] = log'[j] => i = j
    BY <1>10, <2>2
  <2>5. ASSUME NEW j \in 1..Len(inbox')
        PROVE  \E i \in 1..Len(log') : log'[i] = inbox'[j] /\ Len(log') - i >= Len(inbox') - j
    <3>1. PICK i \in 1..n + 1 : log'[i] = inbox'[j] /\ n + 1 - i >= w - j
      BY <1>10, <2>2
    <3>2. i \in 1..Len(log') /\ Len(log') - i >= Len(inbox') - j
      BY <2>2, <3>1
    <3>3. QED BY <3>1, <3>2
  <2>6. ASSUME NEW i \in 1..Len(log')
        PROVE  \/ log'[i] \in taken'
               \/ \E j \in 1..Len(inbox') : inbox'[j] = log'[i]
               \/ Len(log') - i >= MaxRecords
    <3>1. \/ log'[i] \in taken
          \/ \E j \in 1..w : inbox'[j] = log'[i]
          \/ n + 1 - i >= MaxRecords
      BY <1>10, <2>2
    <3>2. QED BY <2>2, <3>1
  <2>7. QED BY <2>3, <2>4, <2>5, <2>6 DEF InboxParts
<1>11. event'[b] = "recorded" /\ \A x \in Branch \ {b} : event'[x] = event[x]
  BY <1>1 DEF Record
<1> HIDE DEF n, m, w
<1>12. ASSUME NEW i \in 1..n + 1
       PROVE  event'[log'[i]] \in {"recorded", "enqueued", "unqueued"}
  <2>1. CASE i = n + 1
    BY <1>2, <1>11, <2>1
  <2>2. CASE i \in 1..n
    BY <1>1, <1>2, <1>4, <1>8, <1>11, <2>2 DEF InboxParts
  <2>3. QED BY <1>1, <2>1, <2>2
<1>13. ASSUME NEW i \in 1..n + 1, NEW j \in 1..n + 1, log'[i] = log'[j] PROVE i = j
  <2>1. CASE i \in 1..n /\ j \in 1..n
    BY <1>2, <1>4, <1>13, <2>1 DEF InboxParts
  <2>2. CASE i = n + 1 /\ j \in 1..n
    BY <1>2, <1>8, <1>13, <2>2
  <2>3. CASE j = n + 1 /\ i \in 1..n
    BY <1>2, <1>8, <1>13, <2>3
  <2>4. QED BY <1>1, <2>1, <2>2, <2>3
<1>14. ASSUME NEW j \in 1..w
       PROVE  \E i \in 1..n + 1 : log'[i] = inbox'[j] /\ n + 1 - i >= w - j
  <2>1. PICK k \in 1..m + 1 : inbox'[j] = all[k] /\ m + 1 - k = w - j
    BY <1>7
  <2>2. CASE k = m + 1
    <3>1. log'[n + 1] = inbox'[j] /\ n + 1 - (n + 1) >= w - j /\ n + 1 \in 1..n + 1
      BY <1>1, <1>2, <1>3, <1>7, <2>1, <2>2
    <3>2. QED BY <3>1
  <2>3. CASE k \in 1..m
    <3>1. PICK i \in 1..n : log[i] = inbox[k] /\ n - i >= m - k
      BY <1>4, <2>3 DEF InboxParts
    <3>2. log'[i] = inbox'[j]
      BY <1>2, <1>3, <2>1, <2>3, <3>1
    <3>3. n + 1 - i >= w - j /\ i \in 1..n + 1
      <4>1. n \in Nat /\ m \in Nat /\ w \in Nat /\ k \in Nat /\ i \in 1..n /\ j \in Nat
        BY <1>1, <1>7, <2>3, <3>1
      <4>2. n - i >= m - k /\ m + 1 - k = w - j
        BY <2>1, <3>1
      <4>3. QED BY <4>1, <4>2
    <3>4. QED BY <3>2, <3>3
  <2>4. QED BY <1>1, <2>2, <2>3
<1>15. ASSUME NEW i \in 1..n + 1
       PROVE  \/ log'[i] \in taken
              \/ \E j \in 1..w : inbox'[j] = log'[i]
              \/ n + 1 - i >= MaxRecords
  <2>1. CASE i = n + 1
    <3>1. m + 1 \in 1..m + 1 /\ m + 1 - (m + 1) < MaxRecords /\ all[m + 1] = log'[i]
      BY <1>1, <1>2, <1>3, <1>9, <2>1
    <3>2. QED BY <1>7, <3>1
  <2>2. CASE i \in 1..n
    <3>1. log'[i] = log[i]
      BY <1>2, <2>2
    <3>2. ASSUME NEW j \in 1..m, inbox[j] = log[i]
          PROVE  n + 1 - i >= MaxRecords \/ \E k \in 1..w : inbox'[k] = log'[i]
      <4>1. n - i >= m - j
        <5>1. PICK k \in 1..n : log[k] = inbox[j] /\ n - k >= m - j
          BY <1>4 DEF InboxParts
        <5>2. k = i
          BY <1>4, <2>2, <3>2, <5>1 DEF InboxParts
        <5>3. QED BY <5>1, <5>2
      <4>2. CASE m + 1 - j < MaxRecords
        <5>1. j \in 1..m + 1 /\ all[j] = log'[i]
          BY <1>1, <1>3, <3>1, <3>2
        <5>2. QED BY <1>7, <4>2, <5>1
      <4>3. CASE m + 1 - j >= MaxRecords
        BY <1>1, <1>9, <2>2, <4>1, <4>3
      <4>4. m + 1 - j \in Int
        BY <1>1
      <4>5. QED BY <1>9, <4>2, <4>3, <4>4
    <3>3. CASE n - i >= MaxRecords
      BY <1>1, <1>9, <2>2, <3>3
    <3>4. QED BY <1>4, <2>2, <3>1, <3>2, <3>3 DEF InboxParts
  <2>3. QED BY <1>1, <2>1, <2>2
<1>16. QED BY <1>10, <1>12, <1>13, <1>14, <1>15

LEMMA DrainKeeps ==
    ASSUME TypeOK, InboxInv, NEW matched \in SUBSET Branch,
           inbox' = Without(inbox, matched), taken' = taken \cup matched, UNCHANGED <<log, event>>
    PROVE  InboxInv'
<1> DEFINE n == Len(log)
           m == Len(inbox)
           w == Len(inbox')
<1>1. log \in Seq(Branch) /\ inbox \in Seq(Branch) /\ n \in Nat /\ m \in Nat /\ log' = log
  BY DEF TypeOK
<1>2. InboxParts(n, m)
  BY <1>1, InboxSpelled
<1>3. /\ inbox' \in Seq(Branch)
      /\ \A j \in 1..Len(inbox') : \E i \in 1..Len(inbox) :
             inbox'[j] = inbox[i] /\ Len(inbox) - i >= Len(inbox') - j
      /\ \A i \in 1..Len(inbox) : inbox[i] \notin matched => \E j \in 1..Len(inbox') : inbox'[j] = inbox[i]
  <2> DEFINE left == Without(inbox, matched)
  <2>1. /\ left \in Seq(Branch)
        /\ \A j \in 1..Len(left) : \E i \in 1..Len(inbox) :
               left[j] = inbox[i] /\ Len(inbox) - i >= Len(left) - j
        /\ \A i \in 1..Len(inbox) : inbox[i] \notin matched => \E j \in 1..Len(left) : left[j] = inbox[i]
    <3> HIDE DEF n, m, w
    <3>1. QED BY <1>1, WithoutLeaves
  <2>2. inbox' = left
    OBVIOUS
  <2> HIDE DEF left
  <2>3. QED BY <2>1, <2>2
<1>4. /\ inbox' \in Seq(Branch) /\ w \in Nat
      /\ \A j \in 1..w : \E i \in 1..m : inbox'[j] = inbox[i] /\ m - i >= w - j
      /\ \A i \in 1..m : inbox[i] \notin matched => \E j \in 1..w : inbox'[j] = inbox[i]
  <2>1. w \in Nat
    BY <1>3
  <2>2. m = Len(inbox) /\ w = Len(inbox')
    OBVIOUS
  <2> HIDE DEF n, m, w
  <2>3. QED BY <1>3, <2>1, <2>2
<1>5. SUFFICES
        /\ \A i \in 1..n : event[log[i]] \in {"recorded", "enqueued", "unqueued"}
        /\ \A i, j \in 1..n : log[i] = log[j] => i = j
        /\ \A j \in 1..w : \E i \in 1..n : log[i] = inbox'[j] /\ n - i >= w - j
        /\ \A i \in 1..n : \/ log[i] \in taken'
                           \/ \E j \in 1..w : inbox'[j] = log[i]
                           \/ n - i >= MaxRecords
  BY <1>1, <1>4, InboxSpelledNext DEF InboxParts
<1> HIDE DEF n, m, w
<1>6. ASSUME NEW j \in 1..w
      PROVE  \E i \in 1..n : log[i] = inbox'[j] /\ n - i >= w - j
  <2>1. PICK k \in 1..m : inbox'[j] = inbox[k] /\ m - k >= w - j
    BY <1>4
  <2>2. PICK i \in 1..n : log[i] = inbox[k] /\ n - i >= m - k
    BY <1>2 DEF InboxParts
  <2>3. n - i >= w - j
    BY <1>1, <1>4, <2>1, <2>2
  <2>4. QED BY <2>1, <2>2, <2>3
<1>7. ASSUME NEW i \in 1..n
      PROVE  \/ log[i] \in taken'
             \/ \E j \in 1..w : inbox'[j] = log[i]
             \/ n - i >= MaxRecords
  <2>1. CASE \E j \in 1..m : inbox[j] = log[i]
    <3>1. PICK k \in 1..m : inbox[k] = log[i]
      BY <2>1
    <3>2. CASE inbox[k] \in matched
      BY <3>1, <3>2
    <3>3. CASE inbox[k] \notin matched
      BY <1>4, <3>1, <3>3
    <3>4. QED BY <3>2, <3>3
  <2>2. CASE log[i] \in taken \/ n - i >= MaxRecords
    BY <2>2
  <2>3. QED BY <1>2, <2>1, <2>2 DEF InboxParts
<1>8. QED BY <1>2, <1>6, <1>7 DEF InboxParts

LEMMA InboxStep == TypeOK /\ InboxInv /\ [Next]_vars => InboxInv'
<1> SUFFICES ASSUME TypeOK, InboxInv, [Next]_vars PROVE InboxInv'
  OBVIOUS
<1>1. ASSUME UNCHANGED <<inbox, log, taken>>,
             \A b \in Branch : event[b] \in {"recorded", "enqueued", "unqueued"}
                               => event'[b] \in {"recorded", "enqueued", "unqueued"}
      PROVE  InboxInv'
  <2>1. \A i \in DOMAIN log : log[i] \in Branch
    BY DEF TypeOK
  <2>2. RecordedOnce'
    BY <1>1, <2>1 DEF InboxInv, RecordedOnce
  <2>3. InboxInOrder' /\ InboxKeepsNewest'
    BY <1>1 DEF InboxInv, InboxInOrder, InboxKeepsNewest
  <2>4. QED BY <2>2, <2>3 DEF InboxInv
<1>2. ASSUME NEW b \in Branch, Detect(b) \/ Enqueue(b) \/ EnqueueFails(b) PROVE InboxInv'
  <2>1. \A x \in Branch : event[x] \in {"recorded", "enqueued", "unqueued"}
                          => event'[x] \in {"recorded", "enqueued", "unqueued"}
    BY <1>2 DEF Detect, Enqueue, EnqueueFails, TypeOK
  <2>2. UNCHANGED <<inbox, log, taken>>
    BY <1>2 DEF Detect, Enqueue, EnqueueFails
  <2>3. QED BY <1>1, <2>1, <2>2
<1>3. ASSUME NEW c \in Client, NEW S, NEW drain \in BOOLEAN, List(c, S, drain) PROVE InboxInv'
  <2>1. CASE drain
    <3>1. PICK matched \in SUBSET Branch :
              inbox' = Without(inbox, matched) /\ taken' = taken \cup matched
      BY <1>3, <2>1 DEF List
    <3>2. UNCHANGED <<log, event>>
      BY <1>3 DEF List
    <3>3. QED BY <3>1, <3>2, DrainKeeps
  <2>2. CASE ~drain
    <3>1. UNCHANGED <<inbox, log, taken, event>>
      BY <1>3, <2>2 DEF List
    <3>2. QED BY <1>1, <3>1
  <2>3. QED BY <2>1, <2>2
<1>4. ASSUME NEW p \in Process, Restart(p) PROVE InboxInv'
  <2>1. CASE p = Server
    BY <1>4, <2>1 DEF Restart, InboxInv, RecordedOnce, InboxInOrder, InboxKeepsNewest
  <2>2. CASE p # Server
    <3>1. UNCHANGED <<inbox, log, taken, event>>
      BY <1>4, <2>2 DEF Restart, inboxVars
    <3>2. QED BY <1>1, <3>1
  <2>3. QED BY <2>1, <2>2
<1>5. ASSUME NEW c \in Client, Call(c) PROVE InboxInv'
  <2>1. UNCHANGED <<inbox, log, taken, event>>
    BY <1>5, CallType DEF inboxVars
  <2>2. QED BY <1>1, <2>1
<1>6. ASSUME \/ \E a \in Actor : ActorStep(a)
             \/ \E a \in Critic, b \in Branch : Claim(a, b)
             \/ \E s \in Session : \E content \in Evolved(head[s]) :
                    EditElsewhere(s, content) \/ \E p \in Process : Edit(p, s, content)
             \/ UNCHANGED vars
      PROVE  InboxInv'
  <2>1. UNCHANGED inboxVars
    BY <1>6 DEF ActorStep, Probe, Blocked, Commit, AutoResolve, GiveUp, Finish, Report, Claim,
                EditElsewhere, Edit, vars
  <2>2. QED BY <1>1, <2>1 DEF inboxVars
<1>7. QED
  BY <1>2, <1>3, <1>4, <1>5, <1>6, RecordKeeps DEF Next

-----------------------------------------------------------------------------
(* What a merge leaves                                                     *)

\* An object that nobody chose for goes with what it relates, or keeps what it was edited to.
LEMMA MergeLeaves ==
    ASSUME NEW s \in Structure, NEW b \in Branch, NEW choice, NEW o \in Object,
           ~(o \in DOMAIN choice /\ o \in Conflicts(s, b)), Merge(s, b, choice)[o] # s[o]
    PROVE  LET new == Merge(s, b, choice) IN
           \/ new[o] = Gone /\ \E p \in Participants[o] : new[p] = Gone
           \/ /\ o \in Changed(b)
              /\ \A f \in Field : s[o][f] # "base" => new[o][f] = s[o][f]
<1> DEFINE M == [x \in Object |->
                    IF x \in Conflicts(s, b) \cap DOMAIN choice
                    THEN Chosen(s[x], Theirs[b][x], choice[x])
                    ELSE Combined(s[x], Theirs[b][x])]
           new == Merge(s, b, choice)
<1>1. new = Whole(M)
  BY DEF Merge
<1>2. M[o] = Combined(s[o], Theirs[b][o])
  OBVIOUS
<1>3. s[o] \in [Field -> Value] /\ Participants[o] \subseteq Object
  BY ContentAssumption DEF Structure, Content
<1> HIDE DEF M, new
<1>4. \A x \in Object : new[x] = IF \E p \in Participants[x] : M[p] = Gone THEN Gone ELSE M[x]
  BY <1>1 DEF Whole
<1>5. CASE \E p \in Participants[o] : M[p] = Gone
  <2>1. PICK p \in Participants[o] : M[p] = Gone
    BY <1>5
  <2>2. new[p] = Gone
    BY <1>3, <1>4, <2>1
  <2>3. QED BY <1>4, <1>5, <2>2 DEF new
<1>6. CASE ~\E p \in Participants[o] : M[p] = Gone
  <2>1. new[o] = Combined(s[o], Theirs[b][o])
    BY <1>2, <1>4, <1>6
  <2>2. \A f \in Field : s[o][f] # "base" => new[o][f] = s[o][f]
    BY <2>1 DEF Combined
  <2>3. o \in Changed(b)
    <3>1. SUFFICES ASSUME Theirs[b][o] = Fork PROVE new[o] = s[o]
      BY DEF Changed, new
    <3>2. new[o] = [f \in Field |-> s[o][f]]
      BY <2>1, <3>1 DEF Combined, Fork
    <3>3. QED BY <1>3, <3>2
  <2>4. QED BY <2>2, <2>3 DEF new
<1>7. QED BY <1>5, <1>6

-----------------------------------------------------------------------------
(* Theorems                                                                *)

(* Every variable keeps its type, and a run that has begun has a branch.               *)
THEOREM GossipTypeCorrect == Spec => []TypeOK
BY GossipTypeInit, GossipTypeStep, PTL DEF Spec

(* A conflict that was written to the outbox stays there, pending, claimed or dead-    *)
(* lettered, until its branch has been merged: no drain, eviction, restart, attempt    *)
(* that fails or other actor's merge completes its row before that.                    *)
THEOREM UnmergedKept == Spec => []UnmergedIsKept
<1>1. QueueInv => UnmergedIsKept
  BY DEF QueueInv
<1>2. QED
  BY <1>1, GossipTypeCorrect, QueueInit, QueueStep, PTL DEF Spec

(* The inbox loses a conflict only to a drain or to as many newer ones as it holds, in *)
(* any interleaving of records, drains, peeks and restarts.                            *)
THEOREM InboxKeeps == Spec => []InboxKeepsNewest
<1>1. InboxInv => InboxKeepsNewest
  BY DEF InboxInv
<1>2. QED
  BY <1>1, GossipTypeCorrect, InboxInit, InboxStep, PTL DEF Spec

(* A merge that is saved is of the persisted content, whatever was edited or merged  *)
(* since the probe.  An object that its branch did not change stays, and of one that   *)
(* it did change, the target's own fields do, unless a client chose for the object; a  *)
(* relation goes with an object it relates.                                            *)
THEOREM MergesKeepEdits == Spec => MergeKeepsEdits
<1> DEFINE Keeps(a) ==
              LET s == head[Of(a)]
                  new == head'[Of(a)]
              IN  \A o \in Object : new[o] # s[o] =>
                      \/ new[o] = Gone /\ \E p \in Participants[o] : new[p] = Gone
                      \/ /\ o \in Changed(run[a].at)
                         /\ \/ a \in Client /\ o \in DOMAIN run[a].choice
                            \/ \A f \in Field : s[o][f] # "base" => new[o][f] = s[o][f]
           Merges == \A a \in Actor : run[a].pc = "clean" /\ run'[a].pc = "merged" => Keeps(a)
<1>1. TypeOK /\ CopyInv /\ [Next]_vars => [Merges]_vars
  <2>1. SUFFICES ASSUME TypeOK, CopyInv, [Next]_vars, NEW a \in Actor,
                        run[a].pc = "clean", run'[a].pc = "merged"
                 PROVE  Keeps(a)
    OBVIOUS
  <2>2. Commit(a)
    BY <2>1, RunsMove DEF Moved
  <2>3. At(a) \in Process /\ Of(a) \in Session /\ run[a].at \in Branch
    BY <2>1, WhereType
  <2> DEFINE s == head[Of(a)]
             b == run[a].at
             choice == run[a].choice
             new == head'[Of(a)]
  <2>4. Mem(a) = s
    BY <2>1, <2>2, <2>3, CommitMerges DEF CopyInv, LatestIsHead, Mem
  <2>5. new = Merge(s, b, choice)
    BY <2>1, <2>2, <2>3, <2>4, CommitMerges DEF TypeOK
  <2>6. a \notin Client => choice = Idle.choice
    BY <2>1 DEF CopyInv, CriticsChooseNothing, Actor
  <2>7. s \in Structure /\ b \in Branch
    BY <2>1, <2>3 DEF TypeOK
  <2>8. SUFFICES ASSUME NEW o \in Object, new[o] # s[o]
                 PROVE  \/ new[o] = Gone /\ \E p \in Participants[o] : new[p] = Gone
                        \/ /\ o \in Changed(b)
                           /\ \/ a \in Client /\ o \in DOMAIN choice
                              \/ \A f \in Field : s[o][f] # "base" => new[o][f] = s[o][f]
    OBVIOUS
  <2> HIDE DEF s, b, choice, new
  <2>9. CASE o \in DOMAIN choice /\ o \in Conflicts(s, b)
    BY <2>6, <2>9, IdleType DEF Conflicts
  <2>10. CASE ~(o \in DOMAIN choice /\ o \in Conflicts(s, b))
    BY <2>5, <2>7, <2>8, <2>10, MergeLeaves
  <2>11. QED BY <2>9, <2>10
<1>2. QED
  BY <1>1, GossipTypeCorrect, CopyInit, CopyStep, PTL DEF Spec, MergeKeepsEdits

=============================================================================
