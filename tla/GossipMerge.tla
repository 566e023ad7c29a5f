----------------------------- MODULE GossipMerge -----------------------------
(***************************************************************************)
(* A remote branch that gossip cannot merge into a local session.  The     *)
(* conflict goes to two places: a capped inbox in the server's memory,     *)
(* which MCP clients drain to resolve it with merge_branch or              *)
(* resolve_gossip_conflict, and the persistent outbox, from which a Critic *)
(* takes it to try a plain merge.  Both merge into the same session, from  *)
(* the copy that their own process has of it.                              *)
(*                                                                         *)
(* External (cks_runtime): the three-way merge against the branch's fork   *)
(* point, which merges one object that both sides changed by itself when   *)
(* they changed other fields of it, and drops a relation when an object it *)
(* relates does not survive; a commit is saved only over the version the   *)
(* process last saw.                                                       *)
(* A commit is one step here (EvolveCommit has the steps of one).          *)
(***************************************************************************)
EXTENDS Integers, Sequences

CONSTANTS
    Session,        \* local sessions
    Branch,         \* remote branches that gossip registers as sessions
    Target,         \* [Branch -> Session]
    Object,         \* objects and relations
    Field,          \* fields of an object
    Participants,   \* [Object -> SUBSET Object]: what a relation relates
    Ours, Theirs,   \* [Session -> Structure], [Branch -> Structure]: what both sides have made of
                    \* the fork point when gossip first meets the branch
    FieldMerge,     \* whether the storage has the log that field-level merges need
    Client,         \* MCP clients of the server
    Critic,         \* Critic agents
    Process,        \* the server and standalone agents; others only commit
    Server,         \* the process that gossips and serves the clients
    ProcessOf,      \* [Critic -> Process]: each agent has a Runtime of its own
    MaxRecords,     \* the cap of the inbox
    MaxRetries,     \* attempts before a task is dead-lettered
    Choice,         \* what a caller may choose for a conflict
    Attended,       \* bound: the branches that anybody tries to merge
    MaxEdits, MaxCalls, MaxFaults   \* bounds: edits, clients' merges, restarts and failed enqueues

ASSUME GossipAssumption ==
    /\ Target \in [Branch -> Session]
    /\ Attended \subseteq Branch
    /\ Server \in Process /\ ProcessOf \in [Critic -> Process]
    /\ {MaxRecords, MaxRetries} \subseteq Nat \ {0} /\ {MaxEdits, MaxCalls, MaxFaults} \subseteq Nat
ASSUME ChoiceAssumption == Choice \subseteq {"branch_a", "branch_b", "null", "custom"}
ASSUME ActorAssumption == Client \cap Critic = {}

Actor == Client \cup Critic

\* A field is as at the fork point, edited, resolved by a caller, or as in a branch.
Value == {"base", "edited", "resolved", "gone"} \cup Branch
Content == [Field -> Value]
Structure == [Object -> Content]

Fork == [f \in Field |-> "base"]
Gone == [f \in Field |-> "gone"]

\* No relation is left without what it relates.
Whole(s) == [o \in Object |-> IF \E p \in Participants[o] : s[p] = Gone THEN Gone ELSE s[o]]

ASSUME ContentAssumption ==
    /\ Participants \in [Object -> SUBSET Object] /\ FieldMerge \in BOOLEAN
    /\ Ours \in [Session -> Structure] /\ Theirs \in [Branch -> Structure]

VARIABLES
    head,       \* [Session -> Structure]: what is persisted
    copy,       \* [Process -> [Session -> Structure]]: the session in memory
    latest,     \* the <<process, session>> whose copy is of the last version
    stuck,      \* the <<process, session>> with a transaction nobody aborts
    loaded,     \* [Process -> SUBSET Branch]: branch sessions the process has
    closed,     \* branch sessions that were closed
    inbox,      \* the conflicts buffered in the server, oldest first
    event,      \* [Branch -> STRING]: where the handler of its conflict event stands
    task,       \* [Branch -> [state, retry]]: its gossip_conflict row
    todo,       \* [Client -> SUBSET Branch]: conflicts read and not dealt with
    run,        \* [Actor -> [pc, at, retry, choice]]: its merge
    log,        \* history: the conflicts recorded since the server started
    taken,      \* history: those that left the inbox by a drain
    merged,     \* history: branches that were merged
    edits, calls, faults

inboxVars == <<inbox, event, log, taken>>
storeVars == <<head, copy, latest, stuck, merged>>
vars == <<storeVars, loaded, closed, inboxVars, task, todo, run, edits, calls, faults>>

Idle == [pc |-> "idle", at |-> CHOOSE b \in Branch : TRUE, retry |-> 0, choice |-> [o \in {} |-> ""]]

\* What a caller chose, for some of the objects.
Choices == UNION {[S -> Choice] : S \in SUBSET Object}
Run ==
    [pc : {"idle", "probe", "shown", "clean", "merged", "failed"},
     at : {Idle.at} \cup Branch, retry : Nat, choice : Choices]
Task == [state : {"none", "pending", "claimed", "done", "dead"}, retry : Nat]

TypeOK ==
    /\ head \in [Session -> Structure] /\ copy \in [Process -> [Session -> Structure]]
    /\ latest \in SUBSET (Process \X Session) /\ stuck \in SUBSET (Process \X Session)
    /\ loaded \in [Process -> SUBSET Branch] /\ todo \in [Client -> SUBSET Branch]
    /\ closed \in SUBSET Branch /\ taken \in SUBSET Branch /\ merged \in SUBSET Branch
    /\ inbox \in Seq(Branch) /\ log \in Seq(Branch)
    /\ event \in [Branch -> {"none", "published", "recorded", "enqueued", "unqueued", "lost"}]
    /\ task \in [Branch -> Task]
    /\ run \in [Actor -> Run] /\ \A a \in Actor : run[a].pc # "idle" => run[a].at \in Branch
    /\ edits \in Nat /\ calls \in Nat /\ faults \in Nat

Init ==
    /\ head = Ours
    /\ copy = [p \in Process |-> head]
    /\ latest = Process \X Session /\ stuck = {}
    /\ loaded = [p \in Process |-> {}] /\ closed = {}
    /\ inbox = <<>> /\ log = <<>> /\ taken = {}
    /\ event = [b \in Branch |-> "none"]
    /\ task = [b \in Branch |-> [state |-> "none", retry |-> 0]]
    /\ todo = [c \in Client |-> {}]
    /\ run = [a \in Actor |-> Idle]
    /\ merged = {} /\ edits = 0 /\ calls = 0 /\ faults = 0

-----------------------------------------------------------------------------
(* The three-way merge                                                      *)

Changed(b) == {o \in Object : Theirs[b][o] # Fork}

\* Both sides changed it, and not to the same.
Conflicts(s, b) == {o \in Changed(b) : s[o] \notin {Fork, Theirs[b][o]}}

\* They changed other fields of it.
Disjoint(ours, theirs) ==
    /\ ours # Gone /\ theirs # Gone
    /\ \A f \in Field : ours[f] = "base" \/ theirs[f] = "base"

Unresolved(s, b, choice) ==
    {o \in Conflicts(s, b) \ DOMAIN choice : ~(FieldMerge /\ Disjoint(s[o], Theirs[b][o]))}

\* Each side's changes; when both have one, they are of different fields or the same.
Combined(ours, theirs) ==
    [f \in Field |-> IF ours[f] = "base" THEN theirs[f] ELSE ours[f]]

Chosen(ours, theirs, choice) ==
    CASE choice = "branch_a" -> ours
      [] choice = "branch_b" -> theirs
      [] choice = "null" -> Gone
      [] OTHER -> [f \in Field |-> "resolved"]

Merge(s, b, choice) ==
    Whole([o \in Object |->
        IF o \in Conflicts(s, b) \cap DOMAIN choice THEN Chosen(s[o], Theirs[b][o], choice[o])
        ELSE Combined(s[o], Theirs[b][o])])

-----------------------------------------------------------------------------
(* Detection: gossip, the inbox and the outbox                              *)

\* The merge of a gossip round fails: the branch is registered, the event published.
Detect(b) ==
    /\ event[b] = "none" /\ Conflicts(head[Target[b]], b) # {}
    /\ event' = [event EXCEPT ![b] = "published"]
    /\ loaded' = [loaded EXCEPT ![Server] = @ \cup {b}]
    /\ UNCHANGED <<storeVars, closed, inbox, log, taken, task, todo, run, edits, calls, faults>>

\* What the buffer keeps of its records: the newest.
Newest(records) ==
    IF Len(records) > MaxRecords
    THEN SubSeq(records, Len(records) - MaxRecords + 1, Len(records)) ELSE records

\* conflict_inbox.record; the queues of the other two kinds are the same code.
Record(b) ==
    /\ event[b] = "published"
    /\ event' = [event EXCEPT ![b] = "recorded"]
    /\ inbox' = Newest(Append(inbox, b))
    /\ log' = Append(log, b)
    /\ UNCHANGED <<storeVars, loaded, closed, taken, task, todo, run, edits, calls, faults>>

\* _on_conflict writes the outbox too, once the record is made; it may fail to.
Enqueue(b) ==
    /\ event[b] = "recorded"
    /\ event' = [event EXCEPT ![b] = "enqueued"]
    /\ task' = [task EXCEPT ![b].state = "pending"]
    /\ UNCHANGED <<storeVars, loaded, closed, inbox, log, taken, todo, run, edits, calls, faults>>

EnqueueFails(b) ==
    /\ event[b] = "recorded" /\ faults < MaxFaults
    /\ event' = [event EXCEPT ![b] = "unqueued"]
    /\ faults' = faults + 1
    /\ UNCHANGED <<storeVars, loaded, closed, inbox, log, taken, task, todo, run, edits, calls>>

\* The records that stay behind a drain, in their order.
Without(records, drained) ==
    LET left[i \in 0..Len(records)] ==
            IF i = 0 THEN <<>>
            ELSE IF records[i] \in drained THEN left[i - 1] ELSE Append(left[i - 1], records[i])
    IN  left[Len(records)]

\* list_gossip_conflicts of one session or of all (S), draining or peeking.
List(c, S, drain) ==
    LET matched == {b \in Branch : Target[b] \in S /\ \E i \in DOMAIN inbox : inbox[i] = b} IN
    /\ matched # {}
    /\ todo' = [todo EXCEPT ![c] = @ \cup matched]
    /\ inbox' = IF drain THEN Without(inbox, matched) ELSE inbox
    /\ taken' = IF drain THEN taken \cup matched ELSE taken
    /\ UNCHANGED <<storeVars, loaded, closed, event, log, task, run, edits, calls, faults>>

-----------------------------------------------------------------------------
(* One merge                                                                *)

At(a) == IF a \in Client THEN Server ELSE ProcessOf[a]
Of(a) == Target[run[a].at]
Mem(a) == copy[At(a)][Of(a)]
Goto(a, pc) == run' = [run EXCEPT ![a].pc = pc]

\* The middleware's reload.
Reload(p, s) ==
    /\ copy' = [copy EXCEPT ![p][s] = head[s]]
    /\ latest' = latest \cup {<<p, s>>}

\* A client calls merge_branch or resolve_gossip_conflict, with the choices it has made:
\* the target is reloaded, and both must be there and open.
StartCall(c, b, choice) ==
    /\ calls < MaxCalls /\ run[c].pc \in {"idle", "shown"}
    /\ b \in todo[c] \cap Attended /\ b \in loaded[Server] \ closed
    /\ Reload(Server, Target[b])
    /\ run' = [run EXCEPT ![c] = [pc |-> "probe", at |-> b, retry |-> 0, choice |-> choice]]
    /\ calls' = calls + 1
    /\ UNCHANGED <<head, stuck, merged, loaded, closed, inboxVars, task, todo, edits, faults>>

\* Anew without choices, or choosing for some of the conflicts it was shown.
Call(c) ==
    \/ run[c].pc = "idle" /\ \E b \in todo[c] : StartCall(c, b, Idle.choice)
    \/ /\ run[c].pc = "shown"
       /\ \E S \in SUBSET (Changed(run[c].at) \ DOMAIN run[c].choice) :
          \E new \in [S -> Choice] :
              StartCall(c, run[c].at, [o \in S \cup DOMAIN run[c].choice |->
                                          IF o \in S THEN new[o] ELSE run[c].choice[o]])

\* auto_resolve: the LLM's choices go into a second merge_branch of the same call.
AutoResolve(c) ==
    /\ c \in Client /\ run[c].pc = "shown" /\ run[c].choice = Idle.choice
    /\ \E S \in SUBSET Changed(run[c].at) :
       \E choice \in [S -> Choice] :
           run' = [run EXCEPT ![c].pc = "probe", ![c].choice = choice]
    /\ UNCHANGED <<storeVars, loaded, closed, inboxVars, task, todo, edits, calls, faults>>

\* The client leaves it at that, or the LLM's answer was of no use.
GiveUp(c) ==
    /\ c \in Client /\ run[c].pc \in {"shown", "failed"}
    /\ run' = [run EXCEPT ![c] = Idle]
    /\ todo' = [todo EXCEPT ![c] = @ \ {run[c].at}]
    /\ UNCHANGED <<storeVars, loaded, closed, inboxVars, task, edits, calls, faults>>

\* The dry run on the copy in memory; the source must be a session of the process.
Probe(a) ==
    /\ run[a].pc = "probe"
    /\ Goto(a, IF run[a].at \notin loaded[At(a)] \ closed THEN "failed"
               ELSE IF Unresolved(Mem(a), run[a].at, run[a].choice) = {} THEN "clean"
               ELSE IF a \in Client THEN "shown" ELSE "failed")
    /\ UNCHANGED <<storeVars, loaded, closed, inboxVars, task, todo, edits, calls, faults>>

\* The prospective merge has a VerificationRecord with invalid provenance.
Blocked(a) ==
    /\ run[a].pc = "clean"
    /\ Goto(a, "failed")
    /\ UNCHANGED <<storeVars, loaded, closed, inboxVars, task, todo, edits, calls, faults>>

\* Variant: what was probed is saved over whatever is there.
SavesAnyway(p, s) == TRUE
Saves(p, s) == <<p, s>> \in latest

Committed(p, s, content) ==
    /\ head' = [head EXCEPT ![s] = content]
    /\ copy' = [copy EXCEPT ![p][s] = content]
    /\ latest' = {at \in latest : at[2] # s} \cup {<<p, s>>}

(* begin_transaction and commit_transaction: merged again, from the copy there is now. *)
(* No failure aborts the transaction, and what was merged stays in memory.             *)
Commit(a) ==
    LET p == At(a)
        s == Of(a)
        b == run[a].at
    IN
    /\ run[a].pc = "clean"
    /\ IF <<p, s>> \in stuck THEN
          Goto(a, "failed") /\ UNCHANGED storeVars
       ELSE IF Unresolved(copy[p][s], b, run[a].choice) # {} THEN
          /\ Goto(a, "failed")
          /\ stuck' = stuck \cup {<<p, s>>}
          /\ UNCHANGED <<head, copy, latest, merged>>
       ELSE IF Saves(p, s) THEN
          /\ Committed(p, s, Merge(copy[p][s], b, run[a].choice))
          /\ merged' = merged \cup {b}
          /\ Goto(a, "merged")
          /\ UNCHANGED stuck
       ELSE
          /\ copy' = [copy EXCEPT ![p][s] = Merge(@, b, run[a].choice)]
          /\ stuck' = stuck \cup {<<p, s>>}
          /\ Goto(a, "failed")
          /\ UNCHANGED <<head, latest, merged>>
    /\ UNCHANGED <<loaded, closed, inboxVars, task, todo, edits, calls, faults>>

\* "Once merged, close_session the source branch."
Finish(c, close) ==
    /\ c \in Client /\ run[c].pc = "merged"
    /\ run' = [run EXCEPT ![c] = Idle]
    /\ todo' = [todo EXCEPT ![c] = @ \ {run[c].at}]
    /\ closed' = IF close THEN closed \cup {run[c].at} ELSE closed
    /\ UNCHANGED <<storeVars, loaded, inboxVars, task, edits, calls, faults>>

-----------------------------------------------------------------------------
(* The Critic                                                               *)

Claim(a, b) ==
    /\ run[a].pc = "idle" /\ task[b].state = "pending" /\ b \in Attended
    /\ task' = [task EXCEPT ![b].state = "claimed"]
    /\ run' = [run EXCEPT ![a] = [Idle EXCEPT !.pc = "probe", !.at = b, !.retry = task[b].retry]]
    /\ UNCHANGED <<storeVars, loaded, closed, inboxVars, todo, edits, calls, faults>>

\* Variant: a merge that reports conflicts counts as an answer.
ResolvedByAnswer(a) == run[a].pc \in {"merged", "failed"}
Resolved(a) == run[a].pc = "merged"

\* Variant: a failed attempt is not counted.
NextRetryUncounted(a) == run[a].retry
NextRetry(a) == run[a].retry + 1
GivesUp(a) == NextRetry(a) >= MaxRetries

Report(a) ==
    LET b == run[a].at IN
    /\ a \in Critic /\ run[a].pc \in {"merged", "failed"}
    /\ task' = [task EXCEPT ![b] =
                   IF Resolved(a) THEN [state |-> "done", retry |-> 0]
                   ELSE IF GivesUp(a) THEN [state |-> "dead", retry |-> 0]
                   ELSE [state |-> "pending", retry |-> NextRetry(a)]]
    /\ run' = [run EXCEPT ![a] = Idle]
    /\ UNCHANGED <<storeVars, loaded, closed, inboxVars, todo, edits, calls, faults>>

-----------------------------------------------------------------------------
(* Around them                                                              *)

\* evolve_knowledge sets a field, perhaps back, or removes an object with its relations.
Evolved(s) ==
    {[s EXCEPT ![o][f] = v] : o \in {p \in Object : s[p] # Gone}, f \in Field, v \in {"base", "edited"}}
    \cup {Whole([s EXCEPT ![o] = Gone]) : o \in Object}

\* A client's call: it reloads, and meets a stuck transaction or commits.
Edit(p, s, content) ==
    /\ edits < MaxEdits /\ <<p, s>> \notin stuck /\ content \in Evolved(head[s]) \ {head[s]}
    /\ Committed(p, s, content)
    /\ edits' = edits + 1
    /\ UNCHANGED <<stuck, merged, loaded, closed, inboxVars, task, todo, run, calls, faults>>

\* Another process on the same storage does.
EditElsewhere(s, content) ==
    /\ edits < MaxEdits /\ content \in Evolved(head[s]) \ {head[s]}
    /\ head' = [head EXCEPT ![s] = content]
    /\ latest' = {at \in latest : at[2] # s}
    /\ edits' = edits + 1
    /\ UNCHANGED copy
    /\ UNCHANGED <<stuck, merged, loaded, closed, inboxVars, task, todo, run, calls, faults>>

(* A process is started again: it restores every session from storage.  The server's   *)
(* inbox, event handlers and clients' calls are gone; a claimed row's lease runs out.  *)
Restart(p) ==
    LET here == {a \in Actor : At(a) = p}
        gone == IF p = Server THEN {b \in Branch : event[b] \in {"published", "recorded"}} ELSE {}
    IN
    /\ faults < MaxFaults
    /\ faults' = faults + 1
    /\ copy' = [copy EXCEPT ![p] = head]
    /\ latest' = latest \cup ({p} \X Session)
    /\ stuck' = {at \in stuck : at[1] # p}
    /\ loaded' = [loaded EXCEPT ![p] = UNION {loaded[q] : q \in Process}]
    /\ run' = [a \in Actor |-> IF a \in here THEN Idle ELSE run[a]]
    /\ task' = [b \in Branch |->
                   IF task[b].state = "claimed" /\ \E a \in here \cap Critic : run[a].pc # "idle" /\ run[a].at = b
                   THEN [task[b] EXCEPT !.state = "pending"] ELSE task[b]]
    /\ IF p = Server
       THEN /\ inbox' = <<>> /\ log' = <<>> /\ taken' = {}
            /\ todo' = [c \in Client |-> {}]
            /\ event' = [b \in Branch |-> IF b \in gone THEN "lost" ELSE event[b]]
       ELSE UNCHANGED <<inboxVars, todo>>
    /\ UNCHANGED <<head, merged, closed, edits, calls>>

-----------------------------------------------------------------------------
ActorStep(a) ==
    \/ Probe(a) \/ Blocked(a) \/ Commit(a)
    \/ AutoResolve(a) \/ GiveUp(a) \/ (\E close \in BOOLEAN : Finish(a, close))
    \/ Report(a)

Next ==
    \/ \E b \in Branch : Detect(b) \/ Record(b) \/ Enqueue(b) \/ EnqueueFails(b)
    \/ \E c \in Client, S \in {Session} \cup {{s} : s \in Session}, drain \in BOOLEAN : List(c, S, drain)
    \/ \E c \in Client : Call(c)
    \/ \E a \in Actor : ActorStep(a)
    \/ \E a \in Critic, b \in Branch : Claim(a, b)
    \/ \E s \in Session : \E content \in Evolved(head[s]) :
           EditElsewhere(s, content) \/ \E p \in Process : Edit(p, s, content)
    \/ \E p \in Process : Restart(p)

Spec == Init /\ [][Next]_vars

\* Every call and event handler goes on, and a Critic polls; clients may never come.
FairSpec ==
    /\ Spec
    /\ \A a \in Actor : WF_vars(ActorStep(a))
    /\ WF_vars(\E a \in Critic, b \in Branch : Claim(a, b))
    /\ \A b \in Branch : WF_vars(Record(b) \/ Enqueue(b) \/ EnqueueFails(b))

-----------------------------------------------------------------------------
(* Properties                                                               *)

(* The inbox loses a conflict only to a drain, or to as many newer ones as it holds:   *)
(* however drains of one session, peeks and evictions interleave, a reader that comes  *)
(* late misses the oldest, never the newest.                                           *)
InboxKeepsNewest ==
    \A i \in DOMAIN log :
        \/ log[i] \in taken
        \/ \E j \in DOMAIN inbox : inbox[j] = log[i]
        \/ Len(log) - i >= MaxRecords

(* The outbox makes up for the inbox: whoever drained, evicted or lost the record in a *)
(* restart, a conflict that was written to both is completed only once its branch has  *)
(* been merged, and until then a row for it is there.                                  *)
UnmergedIsKept ==
    \A b \in Branch : event[b] = "enqueued" /\ b \notin merged
                      => task[b].state \in {"pending", "claimed", "dead"}

(* A merge is of what is persisted, whatever was edited, merged or restarted between   *)
(* the probe and the commit.  It changes only what its branch changed, and there it    *)
(* leaves each field that the target has changed, unless a caller chose otherwise for  *)
(* the object; a Critic, which has no evidence to pick a side, never chooses.  What    *)
(* may go besides is a relation of which something does not survive.                   *)
MergeKeepsEdits ==
    [][\A a \in Actor : run[a].pc = "clean" /\ run'[a].pc = "merged" =>
        LET s == head[Of(a)]
            new == head'[Of(a)]
        IN  \A o \in Object : new[o] # s[o] =>
                \/ new[o] = Gone /\ \E p \in Participants[o] : new[p] = Gone
                \/ /\ o \in Changed(run[a].at)
                   /\ \/ a \in Client /\ o \in DOMAIN run[a].choice
                      \/ \A f \in Field : s[o][f] # "base" => new[o][f] = s[o][f]]_vars

(* Every conflict written to the outbox is merged or dead-lettered in the end, though  *)
(* transactions that nobody aborts may fail every later merge of the process.          *)
EventuallySettled ==
    \A b \in Attended : task[b].state \in {"pending", "claimed"} ~> task[b].state \in {"done", "dead"}
=============================================================================
