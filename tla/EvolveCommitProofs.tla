------------------------- MODULE EvolveCommitProofs -------------------------
(***************************************************************************)
(* Theorems of EvolveCommit, for any calls, tools, processes, operations,  *)
(* notion of validity and number of retries.                               *)
(***************************************************************************)
EXTENDS EvolveCommit, TLAPS

USE DEF Step, Outcome

-----------------------------------------------------------------------------
(* Type correctness                                                        *)

\* Applying a call's operations to a structure gives a structure.
LEMMA ApplyType ==
    ASSUME NEW c \in Call, NEW s \in Structure
    PROVE  Apply(c, s) \in Structure
BY DEF Apply, Structure, Content

\* TypeOK bounds the attempts, which is not inductive by itself: a call backs
\* off only when it has retries left.
RetriesLeft == \A c \in Call : pc[c] = "conflicted" => attempt[c] < MaxCommitRetries

TypeInv == TypeOK /\ RetriesLeft

LEMMA TypeInit == Init => TypeInv
<1>1. Initial \in Structure
  BY StructureAssumption
<1>2. QED BY <1>1, CommitRetriesAssumption DEF Init, TypeInv, TypeOK, RetriesLeft

LEMMA TypeStep == TypeInv /\ [Next]_vars => TypeInv'
<1> SUFFICES ASSUME TypeInv, [Next]_vars
             PROVE  TypeInv'
  OBVIOUS
<1> USE CallAssumption, CommitRetriesAssumption
    DEF TypeInv, TypeOK, RetriesLeft, storageVars, sessionVars, callVars, GoTo
<1>1. ASSUME NEW c \in Call, Arrive(c) PROVE TypeInv'
  <2>1. CASE Reload(ProcessOf[c])
    BY <1>1, <2>1 DEF Arrive, Reload
  <2>2. CASE UNCHANGED sessionVars
    BY <1>1, <2>2 DEF Arrive
  <2>3. QED BY <1>1, <2>1, <2>2 DEF Arrive
<1>2. ASSUME NEW c \in Call, Check(c) PROVE TypeInv'
  BY <1>2 DEF Check, Answer
<1>3. ASSUME NEW c \in Call, OpenFirst(c) PROVE TypeInv'
  <2>1. Apply(c, snap[c]) \in Structure
    BY ApplyType
  <2>2. CASE attached[ProcessOf[c]] = NoCall
    BY <1>3, <2>1, <2>2 DEF OpenFirst, Open
  <2>3. CASE attached[ProcessOf[c]] # NoCall
    BY <1>3, <2>3 DEF OpenFirst, Open, Answer
  <2>4. QED BY <2>2, <2>3
<1>4. ASSUME NEW c \in Call, OpenAgain(c) PROVE TypeInv'
  <2>1. Apply(c, snap[c]) \in Structure
    BY ApplyType
  <2>2. CASE attached[ProcessOf[c]] = NoCall
    BY <1>4, <2>1, <2>2 DEF OpenAgain, Open
  <2>3. CASE attached[ProcessOf[c]] # NoCall
    BY <1>4, <2>3 DEF OpenAgain, Open, Answer
  <2>4. QED BY <2>2, <2>3
<1>5. ASSUME NEW c \in Call, Persist(c) PROVE TypeInv'
  <2>1. Apply(c, snap[c]) \in Structure
    BY ApplyType
  <2>2. QED BY <1>5, <2>1 DEF Persist, Answer
<1>6. ASSUME NEW c \in Call, Conflict(c) PROVE TypeInv'
  BY <1>6 DEF Conflict, Detach, GivesUp, Answer
<1>11. ASSUME NEW c \in Call, CommitRaises(c) PROVE TypeInv'
  BY <1>11 DEF CommitRaises, Answer
<1>7. ASSUME NEW c \in Call, Retry(c) PROVE TypeInv'
  <2>1. CASE AlreadyApplied(c, head)
    BY <1>7, <2>1 DEF Retry, Reload, Answer
  <2>2. CASE ~AlreadyApplied(c, head) /\ ~Cleared(c, head)
    BY <1>7, <2>2 DEF Retry, Reload, Answer
  <2>3. CASE ~AlreadyApplied(c, head) /\ Cleared(c, head)
    BY <1>7, <2>3 DEF Retry, Reload, Answer
  <2>4. QED BY <2>1, <2>2, <2>3
<1>8. ASSUME NEW p \in Process, ReadTool(p) PROVE TypeInv'
  BY <1>8 DEF ReadTool, Reload
<1>9. CASE UNCHANGED vars
  BY <1>9 DEF vars
<1>10. QED BY <1>1, <1>2, <1>3, <1>4, <1>5, <1>6, <1>7, <1>8, <1>9, <1>11
           DEF Next, CallStep

LEMMA TypeInvariant == Spec => []TypeInv
BY TypeInit, TypeStep, PTL DEF Spec

\* Type correctness of the commit protocol: no process ever knows a version the
\* storage has not had, no call makes more attempts than it may.
THEOREM EvolveTypeCorrect == Spec => []TypeOK
<1>1. TypeInv => TypeOK
  BY DEF TypeInv
<1>2. QED BY <1>1, TypeInvariant, PTL

-----------------------------------------------------------------------------
(* What is persisted has been validated                                    *)

\* A call that is about to commit holds a structure its operations were
\* cleared for, and applies them to that structure, not to the one in memory.
ClearedSnap == \A c \in Call : pc[c] \in {"checked", "ready", "saving"} => Cleared(c, snap[c])

LEMMA ValidStep == TypeInv /\ ClearedSnap /\ ValidHead /\ [Next]_vars
                       => ClearedSnap' /\ ValidHead'
<1> SUFFICES ASSUME TypeInv, ClearedSnap, ValidHead, [Next]_vars
             PROVE  ClearedSnap' /\ ValidHead'
  OBVIOUS
<1> DEFINE Holding(d) == pc'[d] \in {"checked", "ready", "saving"} => Cleared(d, snap'[d])
<1> DEFINE Goal == ValidHead' /\ \A d \in Call : Holding(d)
<1> USE CallAssumption
    DEF TypeInv, TypeOK, ClearedSnap, ValidHead, storageVars, sessionVars, callVars,
        GoTo, Answer
<1>1. ASSUME NEW c \in Call, Arrive(c) PROVE Goal
  BY <1>1 DEF Arrive
<1>2. ASSUME NEW c \in Call, Check(c) PROVE Goal
  <2>1. CASE Cleared(c, mem[ProcessOf[c]])
    BY <1>2, <2>1 DEF Check
  <2>2. CASE ~Cleared(c, mem[ProcessOf[c]])
    BY <1>2, <2>2 DEF Check
  <2>3. QED BY <2>1, <2>2
<1>3. ASSUME NEW c \in Call, OpenFirst(c) PROVE Goal
  BY <1>3 DEF OpenFirst, Open
<1>4. ASSUME NEW c \in Call, OpenAgain(c) PROVE Goal
  BY <1>4 DEF OpenAgain, Open
<1>5. ASSUME NEW c \in Call, Persist(c) PROVE Goal
  <2>1. Apply(c, snap[c]) \in Valid
    BY <1>5 DEF Persist, Cleared
  <2>2. QED BY <1>5, <2>1 DEF Persist
<1>6. ASSUME NEW c \in Call, Conflict(c) PROVE Goal
  BY <1>6 DEF Conflict
<1>12. ASSUME NEW c \in Call, CommitRaises(c) PROVE Goal
  BY <1>12 DEF CommitRaises
<1>7. ASSUME NEW c \in Call, Retry(c) PROVE Goal
  <2>1. CASE AlreadyApplied(c, head)
    BY <1>7, <2>1 DEF Retry
  <2>2. CASE ~AlreadyApplied(c, head) /\ ~Cleared(c, head)
    BY <1>7, <2>2 DEF Retry
  <2>3. CASE ~AlreadyApplied(c, head) /\ Cleared(c, head)
    BY <1>7, <2>3 DEF Retry
  <2>4. QED BY <2>1, <2>2, <2>3
<1>8. ASSUME NEW p \in Process, ReadTool(p) PROVE Goal
  BY <1>8 DEF ReadTool
<1>9. CASE UNCHANGED vars
  BY <1>9 DEF vars
<1>10. Goal
  BY <1>1, <1>2, <1>3, <1>4, <1>5, <1>6, <1>7, <1>8, <1>9, <1>12 DEF Next, CallStep
<1>11. QED BY <1>10 DEF Cleared, Applicable, Apply

\* Only validated structures are ever persisted.
THEOREM HeadIsValid == Spec => []ValidHead
<1>1. Init => ClearedSnap /\ ValidHead
  BY StructureAssumption DEF Init, ClearedSnap, ValidHead
<1>2. QED BY <1>1, ValidStep, TypeInvariant, PTL DEF Spec

-----------------------------------------------------------------------------
(* Transactions of evolve_knowledge                                        *)

\* An attached transaction of evolve_knowledge belongs to a call of that very process, which
\* is saving it or has raised, and what is being saved is the attached transaction.
AttachedInv ==
    /\ \A p \in Process : \A c \in Call \ Tool :
          attached[p] = c => p = ProcessOf[c] /\ (pc[c] = "saving" \/ outcome[c] = "raised")
    /\ \A c \in Call : pc[c] = "saving" => attached[ProcessOf[c]] = c
    /\ \A c \in Call : outcome[c] = "raised" => pc[c] = "done"

LEMMA AttachedStep == TypeInv /\ AttachedInv /\ [Next]_vars => AttachedInv'
<1> SUFFICES ASSUME TypeInv, AttachedInv, [Next]_vars
             PROVE  AttachedInv'
  OBVIOUS
<1> USE CallAssumption
    DEF TypeInv, TypeOK, AttachedInv, storageVars, sessionVars, callVars, GoTo, Answer
<1>1. ASSUME NEW c \in Call, Arrive(c) PROVE AttachedInv'
  BY <1>1 DEF Arrive
<1>2. ASSUME NEW c \in Call, Check(c) PROVE AttachedInv'
  BY <1>2 DEF Check
<1>3. ASSUME NEW c \in Call, OpenFirst(c) PROVE AttachedInv'
  BY <1>3 DEF OpenFirst, Open
<1>4. ASSUME NEW c \in Call, OpenAgain(c) PROVE AttachedInv'
  BY <1>4 DEF OpenAgain, Open
<1>5. ASSUME NEW c \in Call, Persist(c) PROVE AttachedInv'
  BY <1>5 DEF Persist
<1>6. ASSUME NEW c \in Call, Conflict(c) PROVE AttachedInv'
  BY <1>6 DEF Conflict, Detach
<1>7. ASSUME NEW c \in Call, CommitRaises(c) PROVE AttachedInv'
  BY <1>7 DEF CommitRaises
<1>8. ASSUME NEW c \in Call, Retry(c) PROVE AttachedInv'
  BY <1>8 DEF Retry
<1>9. ASSUME NEW p \in Process, ReadTool(p) PROVE AttachedInv'
  BY <1>9 DEF ReadTool
<1>10. CASE UNCHANGED vars
  BY <1>10 DEF vars
<1>11. QED BY <1>1, <1>2, <1>3, <1>4, <1>5, <1>6, <1>7, <1>8, <1>9, <1>10
           DEF Next, CallStep

\* evolve_knowledge leaves its transaction attached on one path only, a commit that raises
\* anything but a conflict, and no call of that process ever commits again.
THEOREM NoTransactionLeft == Spec => []EvolveLeavesNoTransaction
<1>1. Init => AttachedInv
  BY CallAssumption DEF Init, AttachedInv
<1>2. AttachedInv => EvolveLeavesNoTransaction
  BY DEF AttachedInv, EvolveLeavesNoTransaction
<1>3. QED BY <1>1, <1>2, AttachedStep, TypeInvariant, PTL DEF Spec

-----------------------------------------------------------------------------
(* Giving up                                                               *)

\* Every attempt a call has lost was lost to a version committed since it
\* began: the reload before an attempt makes the versions lost before it known.
Lost(c) ==
    /\ pc[c] \in {"idle", "waiting", "checked"} => attempt[c] = 0
    /\ c \notin Tool /\ pc[c] = "ready" => known[ProcessOf[c]] >= began[c] + attempt[c]
    /\ c \notin Tool /\ pc[c] = "saving" => expected[c] >= began[c] + attempt[c]
    /\ pc[c] = "conflicted" => c \notin Tool /\ version > began[c] + attempt[c]
    /\ outcome[c] = "concurrent_modification" => version > began[c] + MaxCommitRetries
    /\ outcome[c] # "none" => pc[c] = "done"

Contention == \A c \in Call : Lost(c)

LEMMA ContentionStep == TypeInv /\ Contention /\ [Next]_vars => Contention'
<1> SUFFICES ASSUME TypeInv, Contention, [Next]_vars, NEW d \in Call
             PROVE  Lost(d)'
  BY DEF Contention
<1> USE CallAssumption, CommitRetriesAssumption
    DEF TypeInv, TypeOK, RetriesLeft, Contention, Lost, storageVars, sessionVars,
        callVars, GoTo, Answer
<1>1. ASSUME NEW c \in Call, Arrive(c) PROVE Lost(d)'
  BY <1>1 DEF Arrive, Reload
<1>2. ASSUME NEW c \in Call, Check(c) PROVE Lost(d)'
  BY <1>2 DEF Check
<1>3. ASSUME NEW c \in Call, OpenFirst(c) PROVE Lost(d)'
  BY <1>3 DEF OpenFirst, Open
<1>4. ASSUME NEW c \in Call, OpenAgain(c) PROVE Lost(d)'
  BY <1>4 DEF OpenAgain, Open
<1>5. ASSUME NEW c \in Call, Persist(c) PROVE Lost(d)'
  BY <1>5 DEF Persist
<1>6. ASSUME NEW c \in Call, Conflict(c) PROVE Lost(d)'
  <2>1. CASE c = d /\ c \notin Tool
    <3>1. version > began[c] + attempt[c]
      <4>1. pc[c] = "saving" /\ expected[c] # version
        BY <1>6 DEF Conflict
      <4>2. expected[c] >= began[c] + attempt[c]
        BY <2>1, <4>1
      <4>3. /\ version \in Nat /\ expected[c] \in 0..version
            /\ began[c] \in 0..version /\ attempt[c] \in 0..MaxCommitRetries
        OBVIOUS
      <4> HIDE DEF TypeInv, TypeOK, RetriesLeft, Contention, Lost
      <4>4. QED BY <4>1, <4>2, <4>3
    <3>2. CASE GivesUp(c)
      BY <1>6, <2>1, <3>1, <3>2 DEF Conflict, GivesUp
    <3>3. CASE ~GivesUp(c)
      BY <1>6, <2>1, <3>1, <3>3 DEF Conflict
    <3>4. QED BY <3>2, <3>3
  <2>2. CASE ~(c = d /\ c \notin Tool)
    BY <1>6, <2>2 DEF Conflict
  <2>3. QED BY <2>1, <2>2
<1>11. ASSUME NEW c \in Call, CommitRaises(c) PROVE Lost(d)'
  BY <1>11 DEF CommitRaises
<1>7. ASSUME NEW c \in Call, Retry(c) PROVE Lost(d)'
  BY <1>7 DEF Retry, Reload
<1>8. ASSUME NEW p \in Process, ReadTool(p) PROVE Lost(d)'
  BY <1>8 DEF ReadTool, Reload
<1>9. CASE UNCHANGED vars
  BY <1>9 DEF vars
<1>10. QED BY <1>1, <1>2, <1>3, <1>4, <1>5, <1>6, <1>7, <1>8, <1>9, <1>11
           DEF Next, CallStep

\* A call gives up only after others committed more versions than it has retries.
THEOREM GivingUpIsContention == Spec => []GiveUpIsContention
<1>1. Init => Contention
  BY DEF Init, Contention, Lost
<1>2. TypeInv /\ Contention => GiveUpIsContention
  BY CommitRetriesAssumption DEF TypeInv, TypeOK, Contention, Lost, GiveUpIsContention
<1>3. QED BY <1>1, <1>2, ContentionStep, TypeInvariant, PTL DEF Spec
-----------------------------------------------------------------------------
(* Where commits never meet                                                *)

\* A deployment of one process, in which no tool commits directly.
Alone == Tool = {} /\ \A p, q \in Process : p = q

\* A commit that raised has left its transaction in the session.
Dangling(p) == \E c \in Call : attached[p] = c /\ outcome[c] = "raised"

\* The lock keeps the other calls from the session from the dry run to the
\* commit; what is in memory is what is persisted, except while it is saved and
\* once a commit has raised, after which there is no other.
Serial(c) ==
    /\ pc[c] \in {"checked", "saving"} => lock[ProcessOf[c]] = c
    /\ pc[c] = "checked" => snap[c] = head \/ Dangling(ProcessOf[c])
    /\ pc[c] = "saving" => snap[c] = head /\ expected[c] = version
    /\ pc[c] \notin {"ready", "conflicted"}
    /\ outcome[c] # "concurrent_modification"

Settled(p) == mem[p] = head \/ Dangling(p) \/ \E c \in Call : pc[c] = "saving"

SerialInv == (\A c \in Call : Serial(c)) /\ (\A p \in Process : Settled(p))

LEMMA SerialStep == Alone /\ TypeInv /\ AttachedInv /\ SerialInv /\ [Next]_vars => SerialInv'
<1> SUFFICES ASSUME Alone, TypeInv, AttachedInv, SerialInv, [Next]_vars
             PROVE  SerialInv'
  OBVIOUS
<1> USE CallAssumption
    DEF Alone, TypeInv, TypeOK, SerialInv, Serial, Settled, Dangling, storageVars, sessionVars,
        callVars, GoTo, Answer
<1>1. ASSUME NEW c \in Call, Arrive(c) PROVE SerialInv'
  BY <1>1 DEF Arrive, Reload
<1>2. ASSUME NEW c \in Call, Check(c) PROVE SerialInv'
  <2>1. lock[ProcessOf[c]] = NoCall /\ \A d \in Call : pc[d] \notin {"checked", "saving"}
    BY <1>2 DEF Check
  <2>2. mem[ProcessOf[c]] = head \/ Dangling(ProcessOf[c])
    BY <2>1
  <2>3. CASE Cleared(c, mem[ProcessOf[c]])
    BY <1>2, <2>1, <2>2, <2>3 DEF Check
  <2>4. CASE ~Cleared(c, mem[ProcessOf[c]])
    <3>1. UNCHANGED <<mem, head, attached>> /\ pc' = [pc EXCEPT ![c] = "done"]
      BY <1>2, <2>4 DEF Check
    <3>2. outcome[c] # "raised"
      BY <1>2 DEF Check, AttachedInv
    <3>3. \A p \in Process : Dangling(p) => Dangling(p)'
      BY <1>2, <2>4, <3>2 DEF Check
    <3>4. ASSUME NEW p \in Process PROVE Settled(p)'
      <4>1. mem[p] = head \/ Dangling(p)
        BY <2>1, <2>2
      <4>2. QED BY <3>1, <3>3, <4>1
    <3>5. ASSUME NEW d \in Call PROVE Serial(d)'
      BY <1>2, <2>1, <2>4, <3>1 DEF Check
    <3>6. QED BY <3>4, <3>5
  <2>5. QED BY <2>3, <2>4
<1>3. ASSUME NEW c \in Call, OpenFirst(c) PROVE SerialInv'
  <2>1. \A d \in Call : d # c => pc[d] \notin {"checked", "saving"}
    BY <1>3 DEF OpenFirst
  <2>2. CASE attached[ProcessOf[c]] = NoCall
    <3>1. snap[c] = head
      BY <1>3, <2>2 DEF OpenFirst
    <3>2. QED BY <1>3, <2>1, <2>2, <3>1 DEF OpenFirst, Open
  <2>3. CASE attached[ProcessOf[c]] # NoCall
    BY <1>3, <2>1, <2>3 DEF OpenFirst, Open
  <2>4. QED BY <2>2, <2>3
<1>4. ASSUME NEW c \in Call, OpenAgain(c) PROVE FALSE
  BY <1>4 DEF OpenAgain
<1>5. ASSUME NEW c \in Call, Persist(c) PROVE SerialInv'
  <2>1. \A d \in Call : d # c => pc[d] \notin {"checked", "saving"}
    BY <1>5 DEF Persist
  <2>2. QED BY <1>5, <2>1 DEF Persist
<1>6. ASSUME NEW c \in Call, Conflict(c) PROVE FALSE
  BY <1>6 DEF Conflict
<1>7. ASSUME NEW c \in Call, Retry(c) PROVE FALSE
  BY <1>7 DEF Retry
<1>8. ASSUME NEW c \in Call, CommitRaises(c) PROVE SerialInv'
  <2>1. \A d \in Call : d # c => pc[d] \notin {"checked", "saving"}
    BY <1>8 DEF CommitRaises
  <2>2. attached'[ProcessOf[c]] = c /\ outcome'[c] = "raised"
    BY <1>8 DEF CommitRaises, AttachedInv
  <2>3. QED BY <1>8, <2>1, <2>2 DEF CommitRaises
<1>9. ASSUME NEW p \in Process, ReadTool(p) PROVE SerialInv'
  BY <1>9 DEF ReadTool, Reload
<1>10. CASE UNCHANGED vars
  BY <1>10 DEF vars
<1>11. QED BY <1>1, <1>2, <1>3, <1>4, <1>5, <1>6, <1>7, <1>8, <1>9, <1>10
           DEF Next, CallStep

\* The persisted structure is what the calls make of it one after the other, each
\* cleared for the structure that it changes.
OneAfterTheOther ==
    [][\E c \in Call : /\ outcome[c] = "none" /\ outcome'[c] = "evolved"
                       /\ Cleared(c, head) /\ head' = Apply(c, head)
                       /\ version' = version + 1]_storageVars

\* In such a deployment the lock alone keeps what handler.py:398-404 promises of
\* a retry: every commit replaces the very structure its operations were cleared
\* for, so that the commits are serial, and no call is refused for a concurrent one.
THEOREM AloneIsSerial ==
    ASSUME Alone
    PROVE  Spec => /\ ClearedForHead
                   /\ OneAfterTheOther
                   /\ [](\A c \in Call : outcome[c] # "concurrent_modification")
<1>1. Init => SerialInv /\ ClearedSnap /\ ValidHead /\ Contention /\ AttachedInv
  BY StructureAssumption, CallAssumption
     DEF Init, SerialInv, Serial, Settled, AttachedInv, ClearedSnap, ValidHead, Contention, Lost
<1>2. TypeInv /\ SerialInv /\ [Next]_vars
        => [\A c \in Call \ Tool :
               pc[c] = "saving" /\ outcome'[c] = "evolved" => snap[c] = head]_vars
  BY DEF SerialInv, Serial
<1>3. TypeInv /\ SerialInv /\ ClearedSnap /\ Contention /\ [Next]_vars
        => [\E c \in Call : /\ outcome[c] = "none" /\ outcome'[c] = "evolved"
                            /\ Cleared(c, head) /\ head' = Apply(c, head)
                            /\ version' = version + 1]_storageVars
  <2> SUFFICES ASSUME TypeInv, SerialInv, ClearedSnap, Contention, [Next]_vars,
                      ~ UNCHANGED storageVars
               PROVE  \E c \in Call : /\ outcome[c] = "none" /\ outcome'[c] = "evolved"
                                      /\ Cleared(c, head) /\ head' = Apply(c, head)
                                      /\ version' = version + 1
    OBVIOUS
  <2>1. PICK c \in Call : Persist(c)
    BY DEF Next, CallStep, Arrive, Check, OpenFirst, OpenAgain, Conflict, Retry,
          CommitRaises, ReadTool, vars
  <2>2. pc[c] = "saving" /\ head' = Apply(c, snap[c]) /\ version' = version + 1
    BY <2>1 DEF Persist
  <2>3. outcome[c] = "none" /\ outcome'[c] = "evolved"
    BY <2>1, <2>2 DEF Persist, Answer, Contention, Lost, TypeInv, TypeOK
  <2>4. snap[c] = head /\ Cleared(c, snap[c])
    BY <2>2 DEF SerialInv, Serial, ClearedSnap
  <2>5. QED BY <2>2, <2>3, <2>4
<1>4. SerialInv => \A c \in Call : outcome[c] # "concurrent_modification"
  BY DEF SerialInv, Serial
<1>5. QED BY <1>1, <1>2, <1>3, <1>4, SerialStep, ValidStep, ContentionStep, AttachedStep, TypeInvariant,
             Alone, PTL DEF Spec, ClearedForHead, OneAfterTheOther

-----------------------------------------------------------------------------
(* The lock, and the end of every call                                     *)

AtWork(c) == pc[c] \in {"checked", "ready", "saving", "conflicted"}

\* The lock is held by the call that is at work under it, and by no other.
LockInv ==
    \A p \in Process, c \in Call :
        lock[p] = c <=> c \notin Tool /\ ProcessOf[c] = p /\ AtWork(c)

LEMMA LockStep == TypeInv /\ Contention /\ LockInv /\ [Next]_vars => LockInv'
<1> SUFFICES ASSUME TypeInv, Contention, LockInv, [Next]_vars
             PROVE  LockInv'
  OBVIOUS
<1> USE CallAssumption
    DEF TypeInv, TypeOK, LockInv, AtWork, storageVars, sessionVars, callVars, GoTo, Answer
<1>1. ASSUME NEW c \in Call, Arrive(c) PROVE LockInv'
  BY <1>1 DEF Arrive
<1>2. ASSUME NEW c \in Call, Check(c) PROVE LockInv'
  <2>1. CASE Cleared(c, mem[ProcessOf[c]])
    BY <1>2, <2>1 DEF Check
  <2>2. CASE ~Cleared(c, mem[ProcessOf[c]])
    BY <1>2, <2>2 DEF Check
  <2>3. QED BY <2>1, <2>2
<1>3. ASSUME NEW c \in Call, OpenFirst(c) PROVE LockInv'
  BY <1>3 DEF OpenFirst, Open
<1>4. ASSUME NEW c \in Call, OpenAgain(c) PROVE LockInv'
  BY <1>4 DEF OpenAgain, Open
<1>5. ASSUME NEW c \in Call, Persist(c) PROVE LockInv'
  BY <1>5 DEF Persist
<1>6. ASSUME NEW c \in Call, Conflict(c) PROVE LockInv'
  BY <1>6 DEF Conflict
<1>11. ASSUME NEW c \in Call, CommitRaises(c) PROVE LockInv'
  BY <1>11 DEF CommitRaises
<1>7. ASSUME NEW c \in Call, Retry(c) PROVE LockInv'
  BY <1>7 DEF Retry, Contention, Lost
<1>8. ASSUME NEW p \in Process, ReadTool(p) PROVE LockInv'
  BY <1>8 DEF ReadTool
<1>9. CASE UNCHANGED vars
  BY <1>9 DEF vars
<1>10. QED BY <1>1, <1>2, <1>3, <1>4, <1>5, <1>6, <1>7, <1>8, <1>9, <1>11
           DEF Next, CallStep

\* Calls of evolve_knowledge take turns: within a process at most one of them is
\* between its dry run and its answer, and whenever the lock is taken the call that
\* holds it is one that still has a step to take.
TakeTurns ==
    /\ \A c, d \in Call \ Tool :
          AtWork(c) /\ AtWork(d) /\ ProcessOf[c] = ProcessOf[d] => c = d
    /\ \A p \in Process : lock[p] # NoCall => AtWork(lock[p])

\* The session lock excludes, on every path, and is never left with a call that has
\* answered: what EveryCallAnswered needs of it besides fairness.
THEOREM CallsTakeTurns == Spec => []TakeTurns
<1>1. Init => LockInv /\ Contention
  BY CallAssumption DEF Init, LockInv, AtWork, Contention, Lost
<1>2. TypeInv /\ LockInv => TakeTurns
  BY CallAssumption DEF TypeInv, TypeOK, LockInv, TakeTurns
<1>3. QED BY <1>1, <1>2, LockStep, ContentionStep, TypeInvariant, PTL DEF Spec

\* The steps a call may still take: three for each attempt that is left to it.
Left(c) ==
    CASE pc[c] = "idle"       -> 3 * MaxCommitRetries + 4
      [] pc[c] = "waiting"    -> 3 * MaxCommitRetries + 3
      [] pc[c] = "checked"    -> 3 * MaxCommitRetries + 2
      [] pc[c] = "ready"      -> 3 * (MaxCommitRetries - attempt[c]) + 2
      [] pc[c] = "saving"     -> 3 * (MaxCommitRetries - attempt[c]) + 1
      [] pc[c] = "conflicted" -> 3 * (MaxCommitRetries - attempt[c])
      [] pc[c] = "done"       -> 0

\* Every step of a call brings it nearer to its answer, and nothing that other calls
\* or processes do takes it back: a call takes no more steps than it has left.
ComesToAnEnd ==
    [][\A c \in Call :
          /\ Left(c) \in Nat
          /\ Left(c)' < Left(c) \/ UNCHANGED <<pc[c], attempt[c]>>
          /\ Arrive(c) \/ CallStep(c) \/ CommitRaises(c) => Left(c)' < Left(c)]_vars

\* The retries of a call are bounded whatever the others commit: three steps for
\* each, the other half of EveryCallAnswered.
THEOREM CallsComeToAnEnd == Spec => ComesToAnEnd
<1>1. Init => Contention
  BY DEF Init, Contention, Lost
<1>2. TypeInv /\ Contention /\ [Next]_vars
        => [\A c \in Call :
              /\ Left(c) \in Nat
              /\ Left(c)' < Left(c) \/ UNCHANGED <<pc[c], attempt[c]>>
              /\ Arrive(c) \/ CallStep(c) \/ CommitRaises(c) => Left(c)' < Left(c)]_vars
  <2> SUFFICES ASSUME TypeInv, Contention, Next, NEW d \in Call
               PROVE  /\ Left(d) \in Nat
                      /\ Left(d)' < Left(d) \/ UNCHANGED <<pc[d], attempt[d]>>
                      /\ Arrive(d) \/ CallStep(d) \/ CommitRaises(d) => Left(d)' < Left(d)
    BY DEF vars
  <2> USE CommitRetriesAssumption
  <2>1. /\ pc[d] \in Step /\ attempt[d] \in Nat /\ MaxCommitRetries - attempt[d] \in Nat
        /\ pc'[d] \in Step /\ attempt'[d] \in Nat /\ MaxCommitRetries - attempt'[d] \in Nat
        /\ pc[d] \in {"idle", "waiting", "checked"} => attempt[d] = 0
    BY TypeStep DEF TypeInv, TypeOK, Contention, Lost
  <2>2. Left(d) \in Nat
    BY <2>1 DEF Left
  <2>3. ASSUME Arrive(d) \/ CallStep(d) \/ CommitRaises(d) PROVE Left(d)' < Left(d)
    <3>1. \/ pc[d] = "idle" /\ pc'[d] = "waiting"
          \/ pc[d] = "waiting" /\ pc'[d] \in {"checked", "done"}
          \/ pc[d] = "checked" /\ pc'[d] \in {"saving", "done"} /\ attempt'[d] = attempt[d]
          \/ pc[d] = "ready" /\ pc'[d] \in {"saving", "done"} /\ attempt'[d] = attempt[d]
          \/ pc[d] = "saving" /\ pc'[d] \in {"conflicted", "done"} /\ attempt'[d] = attempt[d]
          \/ pc[d] = "conflicted" /\ pc'[d] = "ready" /\ attempt'[d] = attempt[d] + 1
          \/ pc[d] = "conflicted" /\ pc'[d] = "done"
      BY <2>3 DEF TypeInv, TypeOK, Arrive, CallStep, Check, OpenFirst, OpenAgain, Open, Persist,
                  Conflict, Retry, CommitRaises, GoTo, Answer, callVars
    <3>2. pc[d] = "conflicted" => MaxCommitRetries - attempt[d] > 0
      BY <2>1 DEF TypeInv, RetriesLeft
    <3>3. QED BY <2>1, <3>1, <3>2 DEF Left
  <2>4. ASSUME ~(Arrive(d) \/ CallStep(d) \/ CommitRaises(d)) PROVE UNCHANGED <<pc[d], attempt[d]>>
    <3>1. ASSUME NEW c \in Call, c # d, Arrive(c) \/ CallStep(c) \/ CommitRaises(c)
          PROVE  UNCHANGED <<pc[d], attempt[d]>>
      BY <3>1 DEF TypeInv, TypeOK, Arrive, CallStep, Check, OpenFirst, OpenAgain, Open, Persist,
                  Conflict, Retry, CommitRaises, GoTo, Answer, callVars
    <3>2. ASSUME NEW p \in Process, ReadTool(p) PROVE UNCHANGED <<pc[d], attempt[d]>>
      BY <3>2 DEF ReadTool, callVars
    <3>3. QED BY <2>4, <3>1, <3>2 DEF Next
  <2>5. QED BY <2>2, <2>3, <2>4
<1>3. QED BY <1>1, <1>2, ContentionStep, TypeInvariant, PTL DEF Spec, ComesToAnEnd
=============================================================================
