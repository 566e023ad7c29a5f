----------------------------- MODULE Enrichment -----------------------------
(***************************************************************************)
(* The Enrichment Agent: for an object of a session it searches documents, *)
(* ingests the best of them and links them to the object.  A document is   *)
(* added with its parts (topics, metadata, sections, tables, lists), whose *)
(* ids derive from the url as its own does, and, when the source could be  *)
(* checked, with a verification record, whose id is fresh each time.       *)
(*                                                                         *)
(* Several agents drain the queue, each with its own copy of the session,  *)
(* which only its own commits and a restart bring up to date; nothing      *)
(* keeps an object from being requested twice.  evolve_knowledge is taken  *)
(* at its outcomes, as in Contradictions.                                  *)
(***************************************************************************)
EXTENDS EnrichmentSources

CONSTANTS
    Object,         \* objects that can be enriched
    Url,            \* sources
    Adapter,        \* search adapters
    Finds,          \* [Adapter -> SUBSET (Url \cup {NoUrl})]: the entries it is answered
    Page,           \* [Url -> what EnrichmentSources knows of it]
    Query,          \* [Object -> set of words]
    Policy,         \* the operator's EnrichmentPolicy
    MinScore,       \* CKS_ENRICHMENT_MIN_SCORE
    Disallowed,     \* urls their robots.txt forbids
    Task,           \* enrichment_request tasks
    About,          \* [Task -> Object]
    Agent,
    NoTask, NoUrl,
    MaxIngests,     \* CKS_ENRICHMENT_MAX_INGESTS
    MaxRetries,     \* attempts before a task is dead-lettered
    Touched,        \* bound: objects and urls whose parts of the graph others edit
    MaxTroubles     \* bound: edits by others, lost leases and restarts, together

\* Nothing distinguishes sources of one score but the order they were found in.
ASSUME SourcesAssumption ==
    /\ NoUrl \notin Url /\ Disallowed \subseteq Url
    /\ Finds \in [Adapter -> SUBSET (Url \cup {NoUrl})]
    /\ \A d, e \in Adapter : d # e => Finds[d] \cap Finds[e] \subseteq {NoUrl}
    /\ \A o \in Object : \A u, v \in Url :
           ScoreCandidate(Page[u], Query[o]) = ScoreCandidate(Page[v], Query[o]) => u = v
ASSUME EnrichmentTasks == About \in [Task -> Object] /\ NoTask \notin Task
ASSUME EnrichmentBounds ==
    /\ MaxRetries \in Nat \ {0} /\ {MinScore, MaxIngests, MaxTroubles} \subseteq Nat

VARIABLES
    head,       \* the persisted structure: [objects, docs, parts, links, records]
    copy,       \* [Agent -> structure]: the session in the memory of the agent's process
    task,       \* [Task -> [state, retry, by]]
    agent,      \* [Agent -> [pc, task, todo, url, known, checked, linked, failed]]
    troubles

vars == <<head, copy, task, agent, troubles>>

Empty == [objects |-> Object, docs |-> {}, parts |-> {}, links |-> {}, records |-> [u \in Url |-> 0]]
Idle == [pc |-> "idle", task |-> NoTask, todo |-> {}, url |-> NoUrl,
         known |-> FALSE, checked |-> FALSE, linked |-> FALSE, failed |-> FALSE]

Init ==
    /\ head = Empty
    /\ copy = [a \in Agent |-> head]
    /\ task = [t \in Task |-> [state |-> "none", retry |-> 0, by |-> {}]]
    /\ agent = [a \in Agent |-> Idle]
    /\ troubles = 0

-----------------------------------------------------------------------------
(* Troubles                                                                 *)

Trouble == troubles < MaxTroubles /\ troubles' = troubles + 1

(* Edits by others.  Removing an object removes the relations it is in.     *)

Edit(s) ==
    /\ s # head /\ Trouble
    /\ head' = s
    /\ UNCHANGED <<copy, task, agent>>

RemoveObject(o) ==
    Edit([head EXCEPT !.objects = @ \ {o}, !.links = {l \in @ : l[1] # o}])
RemoveDocument(u) ==
    Edit([head EXCEPT !.docs = @ \ {u}, !.links = {l \in @ : l[2] # u}, !.records[u] = 0])
RemoveParts(u) == Edit([head EXCEPT !.parts = @ \ {u}])
RemoveLink(l) == Edit([head EXCEPT !.links = @ \ {l}])
AddDocument(u) == Edit([head EXCEPT !.docs = @ \cup {u}])

-----------------------------------------------------------------------------
(* Tasks, leases, processes                                                 *)

Request(t) ==
    /\ task[t].state = "none" /\ About[t] \in head.objects
    /\ task' = [task EXCEPT ![t].state = "pending"]
    /\ UNCHANGED <<head, copy, agent, troubles>>

Claim(a, t) ==
    /\ agent[a].pc = "idle" /\ task[t].state = "pending"
    /\ task' = [task EXCEPT ![t].state = "claimed", ![t].by = {a}]
    /\ agent' = [agent EXCEPT ![a] = [Idle EXCEPT !.pc = "look", !.task = t]]
    /\ UNCHANGED <<head, copy, troubles>>

LoseLease(t) ==
    /\ task[t].state = "claimed" /\ Trouble
    /\ task' = [task EXCEPT ![t].state = "pending", ![t].by = {}]
    /\ UNCHANGED <<head, copy, agent>>

\* A heartbeat has found the lease gone: the attempt runs to its end and is not reported.
Abandon(a) ==
    /\ agent[a].pc = "next" /\ agent[a].todo = {} /\ task[agent[a].task].by # {a}
    /\ agent' = [agent EXCEPT ![a] = Idle]
    /\ UNCHANGED <<head, copy, task, troubles>>

Restart(a) ==
    /\ Trouble
    /\ copy' = [copy EXCEPT ![a] = head]
    /\ task' = [t \in Task |-> IF task[t].by = {a} THEN [task[t] EXCEPT !.state = "pending", !.by = {}]
                               ELSE task[t]]
    /\ agent' = [agent EXCEPT ![a] = Idle]
    /\ UNCHANGED <<head>>

-----------------------------------------------------------------------------
(* One attempt: search and selection                                        *)

Set(a, r) == agent' = [agent EXCEPT ![a] = r]
Target(a) == About[agent[a].task]

\* An object that is not (any more) in the copy needs no enrichment.
ObjectGone(a) ==
    /\ agent[a].pc = "look" /\ Target(a) \notin copy[a].objects
    /\ Set(a, [agent[a] EXCEPT !.pc = "next"])
    /\ UNCHANGED <<head, copy, task, troubles>>

AlreadyEnriched(s, o) == {u \in s.docs : <<o, u>> \in s.links}

\* Wikipedia and arXiv: an entry without a url is skipped.
Candidates(d) == Finds[d] \ {NoUrl}

\* build_enrichment_candidates: an adapter that raises does not stop the others.
Found(down) == UNION {Candidates(d) : d \in Adapter \ down}

Permitted == {u \in Url : CandidateAllowed(u, Page[u], Policy)}
Score == [o \in Object |-> [u \in Url |-> ScoreCandidate(Page[u], Query[o])]]

\* The best of what is not linked yet, passes the policy and scores well enough.
Accepted(found, already, score) ==
    LET fit == {u \in (found \ already) \cap Permitted : score[u] >= MinScore}
    IN  {u \in fit : Cardinality({v \in fit : score[v] > score[u]}) < MaxIngests}

(* A search without any result fails the attempt only if an adapter was down.  Nothing  *)
(* to accept is a result.                                                               *)
Search(a, down) ==
    LET found == Found(down)
        accepted == Accepted(found, AlreadyEnriched(copy[a], Target(a)), Score[Target(a)])
    IN  /\ agent[a].pc = "look" /\ Target(a) \in copy[a].objects
        /\ Set(a, [agent[a] EXCEPT !.pc = "next", !.todo = accepted,
                                   !.failed = found = {} /\ down # {}])
        /\ UNCHANGED <<head, copy, task, troubles>>

-----------------------------------------------------------------------------
(* One attempt: its candidates, the best first                              *)

Candidate(a, u) ==
    /\ agent[a].pc = "next" /\ u \in agent[a].todo
    /\ \A v \in agent[a].todo : Score[Target(a)][v] <= Score[Target(a)][u]
Rest(a, u) == [agent[a] EXCEPT !.todo = @ \ {u}]

\* robots_allows; a robots.txt that cannot be fetched allows all, as long as the process lives.
RobotsRefuse(a, u) ==
    /\ Candidate(a, u) /\ u \in Disallowed
    /\ Set(a, Rest(a, u))
    /\ UNCHANGED <<head, copy, task, troubles>>

\* The fetch is refused as unsafe, cannot connect, is answered by an error or not parsed.
IngestFails(a, u) ==
    /\ Candidate(a, u)
    /\ Set(a, [Rest(a, u) EXCEPT !.failed = TRUE])
    /\ UNCHANGED <<head, copy, task, troubles>>

Known(a, u) == u \in copy[a].docs

\* Variant: the source of a known document is checked again.
ToCheckAlways(a, u) == TRUE
\* verify_source, for what it yields.
ToCheck(a, u) == ~Known(a, u)

Ingest(a, u, checked) ==
    /\ Candidate(a, u)
    /\ checked => ToCheck(a, u)
    /\ Set(a, [Rest(a, u) EXCEPT !.pc = "evolve", !.url = u,
                                 !.known = Known(a, u), !.checked = checked])
    /\ UNCHANGED <<head, copy, task, troubles>>

\* The operations: the document unless it is known, its parts in any case, the link.
Evolved(a, s) ==
    LET u == agent[a].url IN
    [s EXCEPT !.docs = @ \cup {u}, !.parts = @ \cup {u}, !.links = @ \cup {<<Target(a), u>>},
              !.records[u] = IF agent[a].checked THEN @ + 1 ELSE @]

(* The dry run: no id that is added is taken, and the link has both its ends.           *)
Cleared(a, s) ==
    LET u == agent[a].url IN
    /\ ~agent[a].known => u \notin s.docs
    /\ u \notin s.parts /\ <<Target(a), u>> \notin s.links
    /\ Target(a) \in s.objects /\ (agent[a].known => u \in s.docs)

\* _operations_already_applied: all ids are taken, which a fresh record's never is.
Applied(a) ==
    LET u == agent[a].url IN
    ~agent[a].checked /\ u \in head.docs \cap head.parts /\ <<Target(a), u>> \in head.links

Ends(a, linked) ==
    Set(a, [agent[a] EXCEPT !.pc = "next", !.url = NoUrl, !.known = FALSE, !.checked = FALSE,
                            !.linked = @ \/ linked, !.failed = @ \/ ~linked])

Committed(a, s) ==
    /\ head' = Evolved(a, s)
    /\ copy' = [copy EXCEPT ![a] = head']
    /\ Ends(a, TRUE)

\* The first attempt commits what it validated against the copy over what is persisted.
Evolve(a) ==
    /\ agent[a].pc = "evolve"
    /\ IF Cleared(a, copy[a]) THEN Committed(a, copy[a])
       ELSE UNCHANGED <<head, copy>> /\ Ends(a, FALSE)
    /\ UNCHANGED <<task, troubles>>

\* Somebody has committed since: the copy is reloaded and the change tried on it.
EvolveAfterConflict(a) ==
    /\ agent[a].pc = "evolve" /\ copy[a] # head /\ Cleared(a, copy[a])
    /\ IF ~Applied(a) /\ Cleared(a, head) THEN Committed(a, head)
       ELSE /\ UNCHANGED head
            /\ copy' = [copy EXCEPT ![a] = head]
            /\ Ends(a, Applied(a))
    /\ UNCHANGED <<task, troubles>>

\* One link is enough; without any, a failure asks for another attempt and a refusal does not.
Resolved(a) == agent[a].linked \/ ~agent[a].failed

NextRetry(t) == task[t].retry + 1
GivesUp(t) == NextRetry(t) >= MaxRetries

\* complete, fail or dead_letter, whoever holds the lease by now.
Report(a) ==
    LET t == agent[a].task IN
    /\ agent[a].pc = "next" /\ agent[a].todo = {}
    /\ task' = IF task[t].state \notin {"pending", "claimed"} THEN task
               ELSE [task EXCEPT ![t] =
                        IF Resolved(a) THEN [state |-> "done", retry |-> 0, by |-> {}]
                        ELSE IF GivesUp(t) THEN [state |-> "dead", retry |-> 0, by |-> {}]
                        ELSE [state |-> "pending", retry |-> NextRetry(t), by |-> {}]]
    /\ agent' = [agent EXCEPT ![a] = Idle]
    /\ UNCHANGED <<head, copy, troubles>>

-----------------------------------------------------------------------------
Attempt(a) ==
    \/ ObjectGone(a) \/ \E down \in SUBSET Adapter : Search(a, down)
    \/ \E u \in Url : \/ RobotsRefuse(a, u) \/ IngestFails(a, u)
                      \/ \E checked \in BOOLEAN : Ingest(a, u, checked)
    \/ Evolve(a) \/ EvolveAfterConflict(a)
    \/ Report(a)

Others ==
    \/ \E o \in Object \cap Touched : RemoveObject(o)
    \/ \E u \in Url \cap Touched : RemoveDocument(u) \/ RemoveParts(u) \/ AddDocument(u)
    \/ \E l \in head.links \cap (Object \X Touched) : RemoveLink(l)

Next ==
    \/ Others
    \/ \E t \in Task : Request(t) \/ LoseLease(t) \/ \E a \in Agent : Claim(a, t)
    \/ \E a \in Agent : Attempt(a) \/ Abandon(a) \/ Restart(a)

Spec == Init /\ [][Next]_vars

-----------------------------------------------------------------------------
(* Properties                                                               *)

(* A document gets at most one verification record from the agents, however many objects *)
(* it was found for and however often a task was delivered.                              *)
VerifiedOnce == \A u \in Url : head.records[u] <= 1

=============================================================================
