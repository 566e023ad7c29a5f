---------------------------- MODULE EvolveCommit ----------------------------
(***************************************************************************)
(* evolve_knowledge: optimistic commits to one session.  The session is    *)
(* persisted in a storage that several server processes share; each        *)
(* process keeps a copy in memory, shared by all the calls it serves.      *)
(* Calls of evolve_knowledge take turns within a process by a lock; tools  *)
(* that commit once and directly (clone_graph, link_graphs, merge_branch,  *)
(* revert_version) take no lock; any session tool refreshes the copy.      *)
(*                                                                         *)
(* External (cks_runtime): a transaction applies the operations to the     *)
(* structure its EvolveOperation was built with, puts the result into the  *)
(* session in memory, and is saved only when the storage still holds the   *)
(* version the session had; otherwise ConcurrentModificationError.         *)
(***************************************************************************)
EXTENDS Integers, FiniteSets

CONSTANTS
    Call,               \* calls, each made once
    Tool,               \* the calls of tools that commit directly
    Process,            \* server processes
    ProcessOf,          \* [Call -> Process]
    Object,             \* ids of objects and relations
    Ops,                \* [Call -> SUBSET [kind, obj]]: one operation per object
    Initial,            \* the structure at the start
    Valid,              \* the structures that pass validation
    MaxCommitRetries,   \* _MAX_COMMIT_RETRIES
    MaxErrors,          \* bound: commits that fail other than by a conflict
    Absent, Original,   \* contents of an object: none, that of Initial, or a call's
    NoCall              \* nobody holds the lock, no transaction is active

Kind == {"add", "remove", "update"}
Content == Call \cup {Absent, Original}
Structure == [Object -> Content]

ASSUME CallAssumption ==
    /\ Tool \subseteq Call /\ NoCall \notin Call
    /\ ProcessOf \in [Call -> Process]
    /\ Ops \in [Call -> SUBSET [kind : Kind, obj : Object]]
ASSUME StructureAssumption == Valid \subseteq Structure /\ Initial \in Valid
ASSUME CommitRetriesAssumption == MaxCommitRetries \in Nat /\ MaxErrors \in Nat

VARIABLES
    head,       \* the persisted structure
    version,    \* the number of its last version
    mem,        \* [Process -> Structure]: session.knowledge_structure
    known,      \* [Process -> Nat]: the last of session.version_history
    lock,       \* [Process -> Call]: the holder of the session's asyncio lock
    attached,   \* [Process -> Call]: the session's active transaction
    pc,         \* [Call -> STRING]
    snap,       \* [Call -> Structure]: the structure its operation was built with
    expected,   \* [Call -> Nat]: the version its transaction must find in storage
    attempt,    \* [Call -> Nat]
    outcome,    \* [Call -> STRING]: what it answered
    began       \* history: [Call -> Nat], the version when its first attempt opened

storageVars == <<head, version>>
sessionVars == <<mem, known>>
callVars == <<snap, expected, attempt, began>>
vars == <<storageVars, sessionVars, lock, attached, pc, outcome, callVars>>

Step == {"idle", "waiting", "checked", "ready", "saving", "conflicted", "done"}
Outcome == {"none", "evolved", "no_op", "error", "concurrent_modification", "raised"}

Init ==
    /\ head = Initial /\ version = 0
    /\ mem = [p \in Process |-> Initial]
    /\ known = [p \in Process |-> 0]
    /\ lock = [p \in Process |-> NoCall]
    /\ attached = [p \in Process |-> NoCall]
    /\ pc = [c \in Call |-> "idle"]
    /\ outcome = [c \in Call |-> "none"]
    /\ snap = [c \in Call |-> Initial]
    /\ expected = [c \in Call |-> 0]
    /\ attempt = [c \in Call |-> 0]
    /\ began = [c \in Call |-> 0]

-----------------------------------------------------------------------------
(* What the operations do to a structure                                   *)

\* Adding what exists fails, as does removing or updating what does not.
Applicable(c, s) == \A op \in Ops[c] : (s[op.obj] = Absent) <=> (op.kind = "add")

Apply(c, s) ==
    [o \in Object |->
        IF [kind |-> "remove", obj |-> o] \in Ops[c] THEN Absent
        ELSE IF \E op \in Ops[c] : op.obj = o THEN c ELSE s[o]]

\* Variant: the dry run alone clears the operations.
ClearedUnvalidated(c, s) == Applicable(c, s)

\* The dry run, the provenance check and the validation against s pass.
Cleared(c, s) == Applicable(c, s) /\ Apply(c, s) \in Valid

\* _operations_already_applied: an update is never taken for applied.
AlreadyApplied(c, s) ==
    \A op \in Ops[c] :
        op.kind # "update" /\ ((s[op.obj] = Absent) <=> (op.kind = "remove"))

-----------------------------------------------------------------------------
(* The steps of a call                                                     *)

GoTo(c, s) == pc' = [pc EXCEPT ![c] = s]

\* Variant: an answer that is not a commit leaves the lock taken.
AnswerKeepsLock(c, o) ==
    /\ GoTo(c, "done")
    /\ outcome' = [outcome EXCEPT ![c] = o]
    /\ lock' = [lock EXCEPT ![ProcessOf[c]] = IF @ = c /\ o = "evolved" THEN NoCall ELSE @]

\* The call answers; leaving the "async with" releases the lock.
Answer(c, o) ==
    /\ GoTo(c, "done")
    /\ outcome' = [outcome EXCEPT ![c] = o]
    /\ lock' = [lock EXCEPT ![ProcessOf[c]] = IF @ = c THEN NoCall ELSE @]

\* Variant: the reload brings the structure but not the version history.
ReloadStructureOnly(p) ==
    /\ mem' = [mem EXCEPT ![p] = head]
    /\ UNCHANGED known

\* reload_session_from_storage: in place, for every call that shares the copy.
Reload(p) ==
    /\ mem' = [mem EXCEPT ![p] = head]
    /\ known' = [known EXCEPT ![p] = version]

\* Any session tool, read-only ones included, starts with the middleware's
\* reload, whatever other calls are in the middle of.
ReadTool(p) ==
    /\ Reload(p)
    /\ UNCHANGED <<storageVars, lock, attached, pc, outcome, callVars>>

\* A committing call that comes through the registry does too, before it waits for
\* the lock; one that an agent makes, or that names its graph, does not.
Arrive(c) ==
    /\ pc[c] = "idle"
    /\ GoTo(c, "waiting")
    /\ Reload(ProcessOf[c]) \/ UNCHANGED sessionVars
    /\ UNCHANGED <<storageVars, lock, attached, outcome, callVars>>

\* evolve_knowledge takes the lock; the copy in memory is dry-run and validated.
Check(c) ==
    /\ pc[c] = "waiting"
    /\ c \notin Tool => lock[ProcessOf[c]] = NoCall
    /\ LET s == mem[ProcessOf[c]] IN
        /\ snap' = [snap EXCEPT ![c] = s]
        /\ IF Cleared(c, s)
           THEN /\ GoTo(c, "checked")
                /\ lock' = IF c \in Tool THEN lock ELSE [lock EXCEPT ![ProcessOf[c]] = c]
                /\ UNCHANGED outcome
           ELSE Answer(c, "error")
    /\ UNCHANGED <<storageVars, sessionVars, attached, expected, attempt, began>>

\* begin_transaction raises when the session has an active transaction;
\* commit_transaction then executes the operation on the session in memory.
\* The session has the structure and the version given.
Open(c, structure, seen) ==
    LET p == ProcessOf[c] IN
    /\ known' = [known EXCEPT ![p] = seen]
    /\ IF attached[p] # NoCall
       THEN /\ Answer(c, "error")
            /\ mem' = [mem EXCEPT ![p] = structure]
            /\ UNCHANGED <<attached, expected>>
       ELSE /\ attached' = [attached EXCEPT ![p] = c]
            /\ mem' = [mem EXCEPT ![p] = Apply(c, snap[c])]
            /\ expected' = [expected EXCEPT ![c] = seen]
            /\ GoTo(c, "saving")
            /\ UNCHANGED <<lock, outcome>>

\* "Reload right before opening the transaction": the operation stays as built.
OpenFirst(c) ==
    /\ pc[c] = "checked" /\ c \notin Tool
    /\ Open(c, head, version)
    /\ began' = [began EXCEPT ![c] = version]
    /\ UNCHANGED <<storageVars, snap, attempt>>

\* A retry has reloaded before its dry run; a tool commits what it has.
OpenAgain(c) ==
    /\ pc[c] = IF c \in Tool THEN "checked" ELSE "ready"
    /\ Open(c, mem[ProcessOf[c]], known[ProcessOf[c]])
    /\ UNCHANGED <<storageVars, snap, attempt, began>>

\* The storage still holds the expected version: the commit is saved, and the
\* session in memory shows it.
Persist(c) ==
    /\ pc[c] = "saving" /\ expected[c] = version
    /\ head' = Apply(c, snap[c])
    /\ version' = version + 1
    /\ mem' = [mem EXCEPT ![ProcessOf[c]] = head']
    /\ known' = [known EXCEPT ![ProcessOf[c]] = version']
    /\ attached' = [attached EXCEPT ![ProcessOf[c]] = NoCall]
    /\ Answer(c, "evolved")
    /\ UNCHANGED callVars

\* Variant: the failed transaction is not aborted.
DetachForgotten(c) == UNCHANGED attached

\* transactions.abort(tx), which only evolve_knowledge calls.
Detach(c) ==
    attached' = IF c \in Tool THEN attached
                ELSE [attached EXCEPT ![ProcessOf[c]] = NoCall]

GivesUp(c) == attempt[c] >= MaxCommitRetries

\* ConcurrentModificationError: the uncommitted result stays in memory.
Conflict(c) ==
    /\ pc[c] = "saving" /\ expected[c] # version
    /\ Detach(c)
    /\ IF c \in Tool THEN Answer(c, "error")
       ELSE IF GivesUp(c) THEN Answer(c, "concurrent_modification")
       ELSE GoTo(c, "conflicted") /\ UNCHANGED <<lock, outcome>>
    /\ UNCHANGED <<storageVars, sessionVars, callVars>>

\* commit_transaction raises anything else (the storage fails, the call is
\* cancelled) before it has saved: no "except" aborts the transaction, the
\* "async with" releases the lock, and the call ends with the exception.
CommitRaises(c) ==
    /\ pc[c] = "saving"
    /\ Cardinality({d \in Call : outcome[d] = "raised"}) < MaxErrors
    /\ Answer(c, "raised")
    /\ UNCHANGED <<storageVars, sessionVars, attached, callVars>>

\* After the backoff: reload, then no-op, refuse, or build the operation anew.
Retry(c) ==
    /\ pc[c] = "conflicted"
    /\ Reload(ProcessOf[c])
    /\ IF AlreadyApplied(c, head)
       THEN Answer(c, "no_op") /\ UNCHANGED <<snap, attempt>>
       ELSE IF ~Cleared(c, head)
       THEN Answer(c, "error") /\ UNCHANGED <<snap, attempt>>
       ELSE /\ snap' = [snap EXCEPT ![c] = head]
            /\ attempt' = [attempt EXCEPT ![c] = @ + 1]
            /\ GoTo(c, "ready")
            /\ UNCHANGED <<lock, outcome>>
    /\ UNCHANGED <<storageVars, attached, expected, began>>

CallStep(c) ==
    Check(c) \/ OpenFirst(c) \/ OpenAgain(c) \/ Persist(c) \/ Conflict(c) \/ Retry(c)

Next ==
    \/ \E c \in Call : Arrive(c) \/ CallStep(c) \/ CommitRaises(c)
    \/ \E p \in Process : ReadTool(p)

Spec == Init /\ [][Next]_vars

\* The event loop runs every call that can go on; nothing keeps a call that
\* waits for the lock from getting it once the calls before it have answered.
\* No commit has to raise.
Fairness == \A c \in Call : WF_vars(CallStep(c))

FairSpec == Spec /\ Fairness

-----------------------------------------------------------------------------
(* Properties                                                              *)

\* Every variable stays in its domain; a process knows no version that the
\* storage has not had.
TypeOK ==
    /\ head \in Structure /\ version \in Nat
    /\ mem \in [Process -> Structure]
    /\ known \in [Process -> 0..version]
    /\ lock \in [Process -> Call \cup {NoCall}]
    /\ attached \in [Process -> Call \cup {NoCall}]
    /\ pc \in [Call -> Step]
    /\ outcome \in [Call -> Outcome]
    /\ snap \in [Call -> Structure]
    /\ expected \in [Call -> 0..version]
    /\ attempt \in [Call -> 0..MaxCommitRetries]
    /\ began \in [Call -> 0..version]

\* "Validate the evolved structure before committing" (handler.py:270): over all
\* interleavings of processes, tools, conflicts and retries, what is persisted
\* is a structure that validation accepts.
ValidHead == head \in Valid

\* "First failed attempt must not leave a dangling active transaction behind"
\* (test_concurrency_retry.py:80): a transaction of evolve_knowledge is attached
\* only while its commit is in flight, or for good after a commit that raised,
\* which then is the process's last.
EvolveLeavesNoTransaction ==
    \A p \in Process : \A c \in Call \ Tool : attached[p] = c =>
        \/ pc[c] = "saving"
        \/ outcome[c] = "raised" /\ \A d \in Call : ProcessOf[d] = p => pc[d] # "saving"

\* "could not commit after N attempts" is answered under real contention only:
\* others have committed at least N versions since the call's first attempt
\* opened, one for every attempt it lost.
GiveUpIsContention ==
    \A c \in Call :
        outcome[c] = "concurrent_modification" => version - began[c] > MaxCommitRetries

\* A call that has arrived is answered: the retries are bounded, every path
\* releases the lock, and no call waits for a transaction.
EveryCallAnswered == \A c \in Call : pc[c] = "waiting" ~> pc[c] = "done"

\* Does not hold: a failed commit leaves no transaction attached, whatever failed:
\* the "except" names ConcurrentModificationError alone (handler.py:330-355).
NoDanglingTransaction ==
    \A p \in Process : \A c \in Call \ Tool : attached[p] = c => pc[c] = "saving"

\* Does not hold: "so a retry can't commit an evolution that validation never actually cleared
\* for the state it's now being applied on top of" (handler.py:398-404): when
\* evolve_knowledge commits, the structure its operations were cleared for is
\* the one the new version replaces.
ClearedForHead ==
    [][\A c \in Call \ Tool :
        pc[c] = "saving" /\ outcome'[c] = "evolved" => snap[c] = head]_vars
=============================================================================
