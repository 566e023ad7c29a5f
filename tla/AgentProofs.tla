---------------------------- MODULE AgentProofs -----------------------------
(***************************************************************************)
(* Theorems of Enrichment, for any sources, objects, requests, agents,     *)
(* edits and faults, whatever the scores and the policy; of AgentFleet,    *)
(* the processes that agents run in, for any instances, work and faults;   *)
(* and of AiChat, for any settings, responses, limits and calls.           *)
(***************************************************************************)
EXTENDS Enrichment, AgentFleet, AiChat, SequenceTheorems, FiniteSetTheorems, TLAPS

-----------------------------------------------------------------------------
(* Type correctness                                                        *)

Structure == [objects : SUBSET Object, docs : SUBSET Url, parts : SUBSET Url,
              links : SUBSET (Object \X Url), records : [Url -> Nat]]
Slot == [pc : {"idle", "look", "next", "evolve"}, task : Task \cup {NoTask}, todo : SUBSET Url,
         url : Url \cup {NoUrl}, known : BOOLEAN, checked : BOOLEAN, linked : BOOLEAN,
         failed : BOOLEAN]
Row == [state : {"none", "pending", "claimed", "done", "dead"}, retry : Nat, by : SUBSET Agent]

EnrichmentTypeOK ==
    /\ head \in Structure
    /\ copy \in [Agent -> Structure]
    /\ task \in [Task -> Row]
    /\ agent \in [Agent -> Slot]
    /\ troubles \in Nat
    /\ \A a \in Agent : /\ agent[a].pc # "idle" => agent[a].task \in Task
                        /\ agent[a].pc = "evolve" => agent[a].url \in Url

LEMMA EvolvedType ==
    ASSUME EnrichmentTypeOK, NEW a \in Agent, agent[a].pc = "evolve", NEW s \in Structure
    PROVE  /\ Evolved(a, s) \in Structure
           /\ Target(a) \in Object /\ agent[a].url \in Url
           /\ Evolved(a, s).docs = s.docs \cup {agent[a].url}
           /\ Evolved(a, s).links = s.links \cup {<<Target(a), agent[a].url>>}
           /\ Evolved(a, s).records =
                  [s.records EXCEPT ![agent[a].url] = IF agent[a].checked THEN @ + 1 ELSE @]
<1>1. Target(a) \in Object /\ agent[a].url \in Url
  BY EnrichmentTasks DEF EnrichmentTypeOK, Target
<1> DEFINE u == agent[a].url
           l == <<Target(a), u>>
<1>2. agent[a].checked \in BOOLEAN
  BY DEF EnrichmentTypeOK, Slot
<1>3. s.links \cup {l} \in SUBSET (Object \X Url)
  BY <1>1 DEF Structure
<1>4. Evolved(a, s) = [s EXCEPT !.docs = @ \cup {u}, !.parts = @ \cup {u}, !.links = @ \cup {l},
                                !.records[u] = IF agent[a].checked THEN @ + 1 ELSE @]
  BY DEF Evolved
<1> HIDE DEF l
<1> DEFINE e == Evolved(a, s)
<1>5. e.objects = s.objects /\ e.docs = s.docs \cup {u} /\ e.parts = s.parts \cup {u}
  BY <1>4 DEF Structure
<1>6. e.links = s.links \cup {l}
  BY <1>4 DEF Structure
<1>7. /\ e.records = [s.records EXCEPT ![u] = IF agent[a].checked THEN @ + 1 ELSE @]
      /\ e.records \in [Url -> Nat]
  BY <1>1, <1>2, <1>4 DEF Structure
<1>8. e = [objects |-> e.objects, docs |-> e.docs, parts |-> e.parts, links |-> e.links,
           records |-> e.records]
  BY <1>4 DEF Structure
<1> HIDE DEF e
<1>9. e \in Structure
  BY <1>1, <1>3, <1>5, <1>6, <1>7, <1>8 DEF Structure
<1>10. QED BY <1>1, <1>5, <1>6, <1>7, <1>9 DEF e, l

\* What an agent's step leaves of the slots: those of the others, and a slot of its own.
LEMMA SlotSet ==
    ASSUME EnrichmentTypeOK, NEW a \in Agent, NEW r \in Slot, Set(a, r),
           r.pc # "idle" => r.task \in Task, r.pc = "evolve" => r.url \in Url
    PROVE  /\ agent' \in [Agent -> Slot]
           /\ \A b \in Agent : /\ agent'[b].pc # "idle" => agent'[b].task \in Task
                               /\ agent'[b].pc = "evolve" => agent'[b].url \in Url
BY DEF Set, EnrichmentTypeOK

LEMMA IdleSlot == Idle \in Slot /\ Idle.pc = "idle"
BY DEF Idle, Slot

\* An edit of somebody else yields a structure.
LEMMA OthersType == ASSUME EnrichmentTypeOK, Others PROVE EnrichmentTypeOK'
<1>1. SUFFICES ASSUME NEW s, Edit(s), s \in Structure PROVE EnrichmentTypeOK'
  <2>1. head \in Structure
    BY DEF EnrichmentTypeOK
  <2>2. ASSUME NEW o \in Object, RemoveObject(o) PROVE EnrichmentTypeOK'
    BY <1>1, <2>1, <2>2 DEF RemoveObject, Structure
  <2>3. ASSUME NEW u \in Url, RemoveDocument(u) PROVE EnrichmentTypeOK'
    <3> DEFINE e == [head EXCEPT !.docs = @ \ {u}, !.links = {l \in @ : l[2] # u}, !.records[u] = 0]
    <3>1. e \in Structure
      BY <2>1 DEF Structure
    <3>2. QED BY <1>1, <2>3, <3>1 DEF RemoveDocument
  <2>4. ASSUME NEW u \in Url, RemoveParts(u) \/ AddDocument(u) PROVE EnrichmentTypeOK'
    BY <1>1, <2>1, <2>4 DEF RemoveParts, AddDocument, Structure
  <2>5. ASSUME NEW l, RemoveLink(l) PROVE EnrichmentTypeOK'
    BY <1>1, <2>1, <2>5 DEF RemoveLink, Structure
  <2>6. QED BY <2>2, <2>3, <2>4, <2>5 DEF Others
<1>2. /\ head' = s /\ troubles' = troubles + 1
      /\ UNCHANGED <<copy, task, agent>>
  BY <1>1 DEF Edit, Trouble
<1>3. QED BY <1>1, <1>2 DEF EnrichmentTypeOK

LEMMA EndsType ==
    ASSUME EnrichmentTypeOK, NEW a \in Agent, agent[a].pc = "evolve", NEW linked \in BOOLEAN,
           Ends(a, linked)
    PROVE  /\ agent' \in [Agent -> Slot]
           /\ \A b \in Agent : /\ agent'[b].pc # "idle" => agent'[b].task \in Task
                               /\ agent'[b].pc = "evolve" => agent'[b].url \in Url
<1> DEFINE r == [agent[a] EXCEPT !.pc = "next", !.url = NoUrl, !.known = FALSE, !.checked = FALSE,
                                 !.linked = @ \/ linked, !.failed = @ \/ ~linked]
<1>1. r \in Slot /\ r.pc = "next" /\ r.task = agent[a].task
  BY DEF EnrichmentTypeOK, Slot
<1>2. r.task \in Task
  BY <1>1 DEF EnrichmentTypeOK
<1>3. Set(a, r)
  BY DEF Ends
<1> HIDE DEF r
<1>4. QED BY <1>1, <1>2, <1>3, SlotSet

LEMMA EnrichmentTypeStep == EnrichmentTypeOK /\ [Next]_vars => EnrichmentTypeOK'
<1> SUFFICES ASSUME EnrichmentTypeOK, [Next]_vars PROVE EnrichmentTypeOK'
  OBVIOUS
<1>a. head \in Structure /\ copy \in [Agent -> Structure] /\ task \in [Task -> Row]
  BY DEF EnrichmentTypeOK
<1> DEFINE SlotsOK == /\ agent' \in [Agent -> Slot]
                      /\ \A b \in Agent : /\ agent'[b].pc # "idle" => agent'[b].task \in Task
                                          /\ agent'[b].pc = "evolve" => agent'[b].url \in Url
<1>1. CASE Others
  BY <1>1, OthersType
<1>2. ASSUME NEW t \in Task, Request(t) PROVE EnrichmentTypeOK'
  BY <1>2 DEF Request, EnrichmentTypeOK, Row
<1>3. ASSUME NEW t \in Task, LoseLease(t) PROVE EnrichmentTypeOK'
  <2>1. task' \in [Task -> Row]
    BY <1>3, <1>a DEF LoseLease, Row
  <2>2. troubles' \in Nat
    BY <1>3 DEF LoseLease, Trouble, EnrichmentTypeOK
  <2>3. QED BY <1>3, <2>1, <2>2 DEF LoseLease, EnrichmentTypeOK
<1>4. ASSUME NEW t \in Task, NEW a \in Agent, Claim(a, t) PROVE EnrichmentTypeOK'
  <2> DEFINE r == [Idle EXCEPT !.pc = "look", !.task = t]
  <2>1. r \in Slot /\ r.pc = "look" /\ r.task = t
    BY IdleSlot DEF Slot, Idle
  <2>2. Set(a, r)
    BY <1>4 DEF Claim, Set
  <2> HIDE DEF r
  <2>3. SlotsOK
    BY <2>1, <2>2, SlotSet
  <2>4. task' \in [Task -> Row]
    BY <1>4, <1>a DEF Claim, Row
  <2>5. QED BY <1>4, <2>3, <2>4 DEF Claim, EnrichmentTypeOK
<1>5. ASSUME NEW a \in Agent, Abandon(a) PROVE EnrichmentTypeOK'
  <2>1. Set(a, Idle)
    BY <1>5 DEF Abandon, Set
  <2>2. SlotsOK
    BY <2>1, IdleSlot, SlotSet
  <2>3. QED BY <1>5, <2>2 DEF Abandon, EnrichmentTypeOK
<1>6. ASSUME NEW a \in Agent, Restart(a) PROVE EnrichmentTypeOK'
  <2>1. Set(a, Idle)
    BY <1>6 DEF Restart, Set
  <2>2. SlotsOK
    BY <2>1, IdleSlot, SlotSet
  <2>3. task' \in [Task -> Row]
    BY <1>6, <1>a DEF Restart, Row
  <2>4. copy' \in [Agent -> Structure]
    BY <1>6, <1>a DEF Restart
  <2>5. troubles' \in Nat
    <3>1. troubles \in Nat /\ Trouble
      BY <1>6 DEF Restart, EnrichmentTypeOK
    <3>2. QED BY <3>1 DEF Trouble
  <2>6. QED BY <1>6, <2>2, <2>3, <2>4, <2>5 DEF Restart, EnrichmentTypeOK
<1>7. ASSUME NEW a \in Agent, NEW r, Set(a, r), agent[a].pc # "idle",
             r \in Slot, r.task = agent[a].task, r.pc = "evolve" => r.url \in Url,
             UNCHANGED <<head, copy, task, troubles>>
      PROVE  EnrichmentTypeOK'
  <2>1. r.task \in Task
    BY <1>7 DEF EnrichmentTypeOK
  <2>2. SlotsOK
    BY <1>7, <2>1, SlotSet
  <2>3. QED BY <1>7, <2>2 DEF EnrichmentTypeOK
<1>8. ASSUME NEW a \in Agent, ObjectGone(a) PROVE EnrichmentTypeOK'
  <2> DEFINE r == [agent[a] EXCEPT !.pc = "next"]
  <2>1. r \in Slot /\ r.task = agent[a].task /\ r.pc # "evolve"
    BY DEF EnrichmentTypeOK, Slot
  <2>2. Set(a, r) /\ agent[a].pc # "idle" /\ UNCHANGED <<head, copy, task, troubles>>
    BY <1>8 DEF ObjectGone
  <2> HIDE DEF r
  <2>3. QED BY <1>7, <2>1, <2>2
<1>9. ASSUME NEW a \in Agent, NEW down \in SUBSET Adapter, Search(a, down) PROVE EnrichmentTypeOK'
  <2> DEFINE todo == Accepted(Found(down), AlreadyEnriched(copy[a], Target(a)), Score[Target(a)])
             failed == Found(down) = {} /\ down # {}
             r == [agent[a] EXCEPT !.pc = "next", !.todo = todo, !.failed = failed]
  <2>1. todo \in SUBSET Url /\ failed \in BOOLEAN
    BY DEF Accepted, Permitted
  <2>2. Set(a, r) /\ agent[a].pc # "idle" /\ UNCHANGED <<head, copy, task, troubles>>
    BY <1>9 DEF Search
  <2> HIDE DEF todo, failed
  <2>3. r \in Slot /\ r.task = agent[a].task /\ r.pc # "evolve"
    BY <2>1 DEF EnrichmentTypeOK, Slot
  <2> HIDE DEF r
  <2>4. QED BY <1>7, <2>2, <2>3
<1>10. ASSUME NEW a \in Agent, NEW u \in Url, RobotsRefuse(a, u) PROVE EnrichmentTypeOK'
  <2>1. Rest(a, u) \in Slot /\ Rest(a, u).task = agent[a].task /\ Rest(a, u).pc = agent[a].pc
    BY DEF EnrichmentTypeOK, Slot, Rest
  <2>2. /\ Set(a, Rest(a, u)) /\ agent[a].pc = "next"
        /\ UNCHANGED <<head, copy, task, troubles>>
    BY <1>10 DEF RobotsRefuse, Candidate
  <2>3. QED BY <1>7, <2>1, <2>2
<1>11. ASSUME NEW a \in Agent, NEW u \in Url, IngestFails(a, u) PROVE EnrichmentTypeOK'
  <2> DEFINE r == [Rest(a, u) EXCEPT !.failed = TRUE]
  <2>1. r \in Slot /\ r.task = agent[a].task /\ r.pc = agent[a].pc
    BY DEF EnrichmentTypeOK, Slot, Rest
  <2>2. /\ Set(a, r) /\ agent[a].pc = "next"
        /\ UNCHANGED <<head, copy, task, troubles>>
    BY <1>11 DEF IngestFails, Candidate
  <2> HIDE DEF r
  <2>3. QED BY <1>7, <2>1, <2>2
<1>12. ASSUME NEW a \in Agent, NEW u \in Url, NEW checked \in BOOLEAN, Ingest(a, u, checked)
       PROVE  EnrichmentTypeOK'
  <2> DEFINE known == Known(a, u)
             r == [Rest(a, u) EXCEPT !.pc = "evolve", !.url = u, !.known = known, !.checked = checked]
  <2>1. known \in BOOLEAN
    BY DEF Known
  <2>2. /\ Set(a, r) /\ agent[a].pc = "next"
        /\ UNCHANGED <<head, copy, task, troubles>>
    BY <1>12 DEF Ingest, Candidate
  <2> HIDE DEF known
  <2>3. r \in Slot /\ r.task = agent[a].task /\ r.url = u
    BY <2>1 DEF EnrichmentTypeOK, Slot, Rest
  <2> HIDE DEF r
  <2>4. QED BY <1>7, <2>2, <2>3
<1>13. ASSUME NEW a \in Agent, Evolve(a) \/ EvolveAfterConflict(a) PROVE EnrichmentTypeOK'
  <2>1. agent[a].pc = "evolve" /\ UNCHANGED <<task, troubles>>
    BY <1>13 DEF Evolve, EvolveAfterConflict
  <2>2. \E linked \in BOOLEAN : Ends(a, linked)
    BY <1>13 DEF Evolve, EvolveAfterConflict, Committed, Applied
  <2>3. SlotsOK
    BY <2>1, <2>2, EndsType
  <2>4. /\ head' \in Structure
        /\ copy' = copy \/ copy' = [copy EXCEPT ![a] = head']
    <3>1. copy[a] \in Structure
      BY <1>a
    <3>2. Evolved(a, copy[a]) \in Structure /\ Evolved(a, head) \in Structure
      BY <1>a, <2>1, <3>1, EvolvedType
    <3>3. CASE Evolve(a)
      BY <1>a, <3>2, <3>3 DEF Evolve, Committed
    <3>4. CASE EvolveAfterConflict(a)
      BY <1>a, <3>2, <3>4 DEF EvolveAfterConflict, Committed
    <3>5. QED BY <1>13, <3>3, <3>4
  <2>5. QED BY <1>a, <2>1, <2>3, <2>4 DEF EnrichmentTypeOK
<1>14. ASSUME NEW a \in Agent, Report(a) PROVE EnrichmentTypeOK'
  <2>1. Set(a, Idle)
    BY <1>14 DEF Report, Set
  <2>2. SlotsOK
    BY <2>1, IdleSlot, SlotSet
  <2>3. agent[a].task \in Task
    BY <1>14 DEF Report, EnrichmentTypeOK
  <2>4. NextRetry(agent[a].task) \in Nat
    BY <1>a, <2>3 DEF NextRetry, Row
  <2>5. task' \in [Task -> Row]
    BY <1>14, <1>a, <2>3, <2>4 DEF Report, Row
  <2>6. QED BY <1>14, <2>2, <2>5 DEF Report, EnrichmentTypeOK
<1>15. CASE UNCHANGED vars
  BY <1>15 DEF vars, EnrichmentTypeOK
<1>16. QED
  BY <1>1, <1>2, <1>3, <1>4, <1>5, <1>6, <1>8, <1>9, <1>10, <1>11, <1>12, <1>13, <1>14, <1>15
     DEF Next, Attempt

LEMMA EnrichmentTypeInit == Init => EnrichmentTypeOK
<1>1. Empty \in Structure
  BY DEF Empty, Structure
<1>2. QED BY <1>1, IdleSlot DEF Init, EnrichmentTypeOK, Row

(* Every variable stays in its domain; an agent at work has a task, and one that evolves *)
(* has a source (_process_one, _enrich of the Enrichment Agent).                         *)
THEOREM EnrichmentTypeCorrect == Spec => []EnrichmentTypeOK
BY EnrichmentTypeInit, EnrichmentTypeStep, PTL DEF Spec

-----------------------------------------------------------------------------
(* One verification record                                                 *)

\* A structure has at most one record of a document, and none of one it does not have.
Once(s) == \A u \in Url : s.records[u] <= 1 /\ (s.records[u] # 0 => u \in s.docs)

\* VerifiedOnce is not inductive: what is committed is an agent's copy, which may be old.
VerifiedInv ==
    /\ Once(head)
    /\ \A a \in Agent : /\ Once(copy[a])
                        /\ agent[a].pc = "evolve" /\ agent[a].checked => ~agent[a].known

LEMMA CommitOnce ==
    ASSUME EnrichmentTypeOK, VerifiedInv, NEW a \in Agent, agent[a].pc = "evolve",
           NEW s \in Structure, Once(s), Cleared(a, s)
    PROVE  Once(Evolved(a, s))
<1>1. agent[a].checked => agent[a].url \notin s.docs
  BY DEF VerifiedInv, Cleared
<1>2. agent[a].url \in Url /\ s.records \in [Url -> Nat]
  BY EvolvedType DEF Structure
<1>3. /\ Evolved(a, s).docs = s.docs \cup {agent[a].url}
      /\ Evolved(a, s).records =
             [s.records EXCEPT ![agent[a].url] = IF agent[a].checked THEN @ + 1 ELSE @]
  BY EvolvedType
<1>4. QED BY <1>1, <1>2, <1>3 DEF Once

LEMMA VerifiedStep ==
    EnrichmentTypeOK /\ VerifiedInv /\ [Next]_vars => VerifiedInv'
<1> SUFFICES ASSUME EnrichmentTypeOK, VerifiedInv, [Next]_vars PROVE VerifiedInv'
  OBVIOUS
<1>a. head \in Structure /\ copy \in [Agent -> Structure] /\ agent \in [Agent -> Slot]
  BY DEF EnrichmentTypeOK
<1> USE DEF VerifiedInv
<1>1. CASE Others
  <2>1. UNCHANGED <<copy, agent>>
    BY <1>1 DEF Others, RemoveObject, RemoveDocument, RemoveParts, RemoveLink, AddDocument, Edit
  <2>2. ASSUME NEW u \in Url, RemoveDocument(u) PROVE Once(head')
    BY <1>a, <2>2 DEF RemoveDocument, Edit, Structure, Once
  <2>3. ASSUME head'.records = head.records, head.docs \subseteq head'.docs PROVE Once(head')
    BY <2>3 DEF Once
  <2>4. ASSUME NEW o \in Object, RemoveObject(o) PROVE Once(head')
    BY <1>a, <2>3, <2>4 DEF RemoveObject, Edit, Structure
  <2>5. ASSUME NEW u \in Url, RemoveParts(u) \/ AddDocument(u) PROVE Once(head')
    BY <1>a, <2>3, <2>5 DEF RemoveParts, AddDocument, Edit, Structure
  <2>6. ASSUME NEW l, RemoveLink(l) PROVE Once(head')
    BY <1>a, <2>3, <2>6 DEF RemoveLink, Edit, Structure
  <2>7. Once(head')
    BY <1>1, <2>2, <2>4, <2>5, <2>6 DEF Others
  <2>8. QED BY <2>1, <2>7
<1>2. ASSUME UNCHANGED <<head, copy>>, NEW a \in Agent, NEW r, Set(a, r),
             r.pc # "evolve" \/ ~r.checked \/ ~r.known
      PROVE  VerifiedInv'
  BY <1>a, <1>2 DEF Set
<1>3. ASSUME NEW t \in Task, Request(t) \/ LoseLease(t) PROVE VerifiedInv'
  BY <1>3 DEF Request, LoseLease
<1>4. ASSUME NEW t \in Task, NEW a \in Agent, Claim(a, t) PROVE VerifiedInv'
  <2> DEFINE r == [Idle EXCEPT !.pc = "look", !.task = t]
  <2>1. Set(a, r) /\ r.pc # "evolve" /\ UNCHANGED <<head, copy>>
    BY <1>4 DEF Claim, Set, Idle
  <2> HIDE DEF r
  <2>2. QED BY <1>2, <2>1
<1>5. ASSUME NEW a \in Agent, Abandon(a) \/ Report(a) PROVE VerifiedInv'
  BY <1>2, <1>5, IdleSlot DEF Abandon, Report, Set
<1>6. ASSUME NEW a \in Agent, Restart(a) PROVE VerifiedInv'
  BY <1>a, <1>6, IdleSlot DEF Restart
<1>7. ASSUME NEW a \in Agent, ObjectGone(a) PROVE VerifiedInv'
  BY <1>a, <1>2, <1>7 DEF ObjectGone, Slot
<1>8. ASSUME NEW a \in Agent, NEW down \in SUBSET Adapter, Search(a, down) PROVE VerifiedInv'
  BY <1>a, <1>8 DEF Search, Set, Slot
<1>9. ASSUME NEW a \in Agent, NEW u \in Url, RobotsRefuse(a, u) \/ IngestFails(a, u)
      PROVE  VerifiedInv'
  <2>1. /\ agent'[a].pc = "next" /\ UNCHANGED <<head, copy>>
        /\ \A b \in Agent : b # a => agent'[b] = agent[b]
    BY <1>a, <1>9 DEF RobotsRefuse, IngestFails, Candidate, Rest, Set, Slot
  <2>2. QED BY <2>1
<1>10. ASSUME NEW a \in Agent, NEW u \in Url, NEW checked \in BOOLEAN, Ingest(a, u, checked)
       PROVE  VerifiedInv'
  <2>1. checked => ~Known(a, u)
    BY <1>10 DEF Ingest, ToCheck
  <2> DEFINE r == [Rest(a, u) EXCEPT !.pc = "evolve", !.url = u, !.known = Known(a, u),
                                     !.checked = checked]
  <2>2. Set(a, r) /\ UNCHANGED <<head, copy>>
    BY <1>10 DEF Ingest
  <2>3. r.known = Known(a, u) /\ r.checked = checked
    BY <1>a DEF Rest, Slot
  <2> HIDE DEF r
  <2>4. QED BY <1>2, <2>1, <2>2, <2>3
<1>11. ASSUME NEW a \in Agent, Evolve(a) \/ EvolveAfterConflict(a) PROVE VerifiedInv'
  <2>1. agent[a].pc = "evolve"
    BY <1>11 DEF Evolve, EvolveAfterConflict
  <2>2. PICK linked \in BOOLEAN : Ends(a, linked)
    BY <1>11 DEF Evolve, EvolveAfterConflict, Committed, Applied
  <2>3. agent'[a].pc = "next" /\ \A b \in Agent : b # a => agent'[b] = agent[b]
    BY <1>a, <2>2 DEF Ends, Set, Slot
  <2>4. Once(head') /\ (copy' = copy \/ copy' = [copy EXCEPT ![a] = head'])
    BY <1>11, <1>a, <2>1, CommitOnce DEF Evolve, EvolveAfterConflict, Committed
  <2>5. QED BY <1>a, <2>3, <2>4
<1>12. CASE UNCHANGED vars
  BY <1>12 DEF vars
<1>13. QED
  BY <1>1, <1>3, <1>4, <1>5, <1>6, <1>7, <1>8, <1>9, <1>10, <1>11, <1>12 DEF Next, Attempt

(* A document gets at most one verification record, for any number of objects it was     *)
(* found for, deliveries of a request, stale copies and edits (verify_source, whose      *)
(* record has a fresh id each time).                                                     *)
THEOREM SourcesVerifiedOnce == Spec => []VerifiedOnce
<1>1. Init => VerifiedInv
  BY IdleSlot DEF Init, Empty, VerifiedInv, Once
<1>2. VerifiedInv => VerifiedOnce
  BY DEF VerifiedInv, Once, VerifiedOnce
<1>3. QED BY <1>1, <1>2, VerifiedStep, EnrichmentTypeCorrect, PTL DEF Spec

-----------------------------------------------------------------------------
(* The agents' liveness rows                                               *)

Places == {"unborn", "creating", "draining", "resolving", "unwinding", "waiting", "finishing",
           "retiring", "gone", "crashed"}

\* Where a tick may be going on: after the reporter has started and before it has stopped.
Reporting == {"draining", "resolving", "unwinding", "waiting", "finishing"}

Unstarted == {"unborn", "creating"}

FleetTypeOK ==
    /\ pc \in [Instance -> Places]
    /\ tick \in [Instance -> {"none", "asleep", "due", "over"}]
    /\ misses \in [Instance -> 0..2]
    /\ row \in [Instance -> 0..Absent]
    /\ desired \in [Instance -> BOOLEAN]

(* The age of a row is the heartbeats its tick has missed, and one more when the next is   *)
(* due; a tick lives only as long as its agent works, and a row is not there before.       *)
RowInv ==
    /\ \A i \in Instance : tick[i] # "none" => pc[i] \in Reporting
    /\ \A i \in Instance :
          tick[i] \in {"asleep", "due"} /\ row[i] # Absent /\ misses[i] < 2
              => row[i] <= misses[i] + (IF tick[i] = "due" THEN 1 ELSE 0)
    /\ \A i \in Instance : pc[i] \in Unstarted => row[i] = Absent

FleetInv == FleetTypeOK /\ RowInv

\* The server makes its embedded agents, once.
BootInv ==
    /\ enabled \subseteq Embeddable
    /\ server = "booting" => \A i \in Embeddable : pc[i] = "unborn"

Ages == Epoch = 4 /\ Absent = 5 /\ Ttl = 3

LEMMA AgesHold == Ages
BY DEF Ages, Epoch, Absent, Ttl

\* A step that changes no tick, count or age, and takes no agent with a tick from its work.
LEMMA PlacesStep ==
    ASSUME FleetInv, UNCHANGED <<tick, misses, row>>,
           pc' \in [Instance -> Places], desired' \in [Instance -> BOOLEAN],
           \A i \in Instance : /\ pc[i] \in Reporting => pc'[i] \in Reporting
                               /\ pc'[i] \in Unstarted => pc[i] \in Unstarted
    PROVE  FleetInv'
BY DEF FleetInv, FleetTypeOK, RowInv, Ages

LEMMA BootStep == FleetTypeOK /\ BootInv /\ [FleetNext]_fleetVars => BootInv'
<1> SUFFICES ASSUME FleetTypeOK, BootInv, [FleetNext]_fleetVars
             PROVE  BootInv'
  OBVIOUS
<1> USE DEF agentVars, rowVars, workVars
<1>1. ASSUME enabled' = enabled \/ enabled' = {}, server' # "booting"
      PROVE  BootInv'
  BY <1>1 DEF BootInv
<1>2. ASSUME UNCHANGED <<enabled, server>>,
             \A i \in Embeddable : pc[i] = "unborn" => pc'[i] = "unborn"
      PROVE  BootInv'
  BY <1>2 DEF BootInv
<1>3. CASE UNCHANGED <<enabled, server, pc>>
  BY <1>2, <1>3
<1>4. ASSUME NEW i \in Instance, AgentStep(i) PROVE BootInv'
  <2>1. UNCHANGED <<enabled, server>>
    BY <1>4 DEF AgentStep, Launch, Work, AgentFault, Start, ClaimTask, DrainEnds, Wake, ResolverEnds,
       ReportTask, StopTick, Retire, Beat, CreateRaises, ClaimRaises, Hang, BeatFails, ReadFails, Signal
  <2>2. \/ UNCHANGED pc
        \/ Launch(i)
        \/ \E from, to : Goes(i, from, to)
    BY <1>4 DEF AgentStep, Work, AgentFault, Start, ClaimTask, DrainEnds, Wake, ResolverEnds,
       ReportTask, StopTick, Retire, Beat, CreateRaises, ClaimRaises, Hang, BeatFails, ReadFails, Signal
  <2>3. CASE Launch(i)
    <3>1. i \notin Embeddable /\ pc' = [pc EXCEPT ![i] = "creating"]
      BY <2>3 DEF Launch
    <3>2. QED BY <1>2, <2>1, <3>1, EmbeddableAssumption DEF FleetTypeOK
  <2>4. ASSUME NEW from, NEW to, Goes(i, from, to) PROVE BootInv'
    <3>1. pc[i] # "unborn" /\ pc' = [pc EXCEPT ![i] = to]
      BY <2>4 DEF Goes, Runs, Alive
    <3>2. QED BY <1>2, <2>1, <3>1, EmbeddableAssumption DEF FleetTypeOK
  <2>5. QED BY <1>3, <2>1, <2>2, <2>3, <2>4
<1>5. CASE Boot \/ BeginShutdown \/ EndShutdown \/ TimeOut
  BY <1>1, <1>5 DEF Boot, BeginShutdown, EndShutdown, TimeOut, ServerIs
<1>6. CASE Tool
  <2>1. UNCHANGED <<enabled, server, pc>>
    BY <1>6 DEF Tool, RequestStop, Prune, ServerIs
  <2>2. QED BY <1>3, <2>1
<1>7. ASSUME NEW l \in Loops, Block(l) \/ Unblock(l) PROVE BootInv'
  BY <1>3, <1>7 DEF Block, Unblock
<1>8. ASSUME NEW l \in Loops, Crash(l) PROVE BootInv'
  <2>1. /\ UNCHANGED enabled
        /\ server' = server \/ server' = "crashed"
        /\ \A i \in Instance : pc[i] = "unborn" => pc'[i] = "unborn"
    BY <1>8 DEF Crash, Alive
  <2>2. QED BY <2>1, EmbeddableAssumption DEF BootInv
<1>9. CASE Arrive \/ Clock
  BY <1>3, <1>9 DEF Arrive, Clock
<1>10. CASE UNCHANGED fleetVars
  BY <1>3, <1>10 DEF fleetVars
<1>11. QED
  BY <1>4, <1>5, <1>6, <1>7, <1>8, <1>9, <1>10 DEF FleetNext, ServerStep

LEMMA FleetStep == FleetInv /\ BootInv /\ [FleetNext]_fleetVars => FleetInv'
<1> SUFFICES ASSUME FleetInv, BootInv, [FleetNext]_fleetVars
             PROVE  FleetInv'
  OBVIOUS
<1>a. FleetTypeOK /\ RowInv
  BY DEF FleetInv
<1>b. Ages
  BY AgesHold
<1> USE DEF agentVars, rowVars, workVars
<1>1. ASSUME NEW i \in Instance, NEW from, NEW to \in Places, Goes(i, from, to),
             from \in Reporting => to \in Reporting, to \in Unstarted => from \in Unstarted,
             UNCHANGED <<tick, misses, row, desired>>
      PROVE  FleetInv'
  <2>1. pc[i] = from /\ pc' = [pc EXCEPT ![i] = to]
    BY <1>1 DEF Goes
  <2>2. pc' \in [Instance -> Places]
    BY <1>a, <1>1, <2>1 DEF FleetTypeOK
  <2>3. \A j \in Instance : /\ pc[j] \in Reporting => pc'[j] \in Reporting
                            /\ pc'[j] \in Unstarted => pc[j] \in Unstarted
    BY <1>a, <1>1, <2>1 DEF FleetTypeOK
  <2>4. QED BY <1>a, <1>1, <2>2, <2>3, PlacesStep DEF FleetTypeOK
<1>2. CASE UNCHANGED <<pc, tick, misses, row, desired>>
  BY <1>a, <1>2, PlacesStep DEF FleetTypeOK
<1>3. ASSUME NEW i \in Instance,
             \/ CreateRaises(i) \/ ClaimTask(i) \/ ClaimRaises(i) \/ DrainEnds(i) \/ Wake(i)
             \/ ResolverEnds(i) \/ ReportTask(i)
      PROVE  FleetInv'
  <2>1. UNCHANGED <<tick, misses, row, desired>>
    BY <1>3 DEF CreateRaises, ClaimTask, ClaimRaises, DrainEnds, Wake, ResolverEnds, ReportTask
  <2>2. \/ Goes(i, "creating", "gone")
        \/ \E from \in Reporting, to \in Reporting : Goes(i, from, to)
    BY <1>3 DEF CreateRaises, ClaimTask, ClaimRaises, DrainEnds, Wake, ResolverEnds, ReportTask, Reporting
  <2>3. CASE Goes(i, "creating", "gone")
    BY <1>1, <2>1, <2>3 DEF Places, Reporting, Unstarted
  <2>4. ASSUME NEW from \in Reporting, NEW to \in Reporting, Goes(i, from, to) PROVE FleetInv'
    <3>1. to \in Places /\ to \notin Unstarted
      BY DEF Places, Reporting, Unstarted
    <3>2. QED BY <1>1, <2>1, <2>4, <3>1
  <2>5. QED BY <2>2, <2>3, <2>4
<1>4. ASSUME NEW i \in Instance, Hang(i) \/ Signal(i) PROVE FleetInv'
  BY <1>2, <1>4 DEF Hang, Signal
<1>5. ASSUME NEW i \in Instance, Launch(i) PROVE FleetInv'
  <2>1. pc[i] = "unborn" /\ pc' = [pc EXCEPT ![i] = "creating"] /\ UNCHANGED <<tick, misses, row, desired>>
    BY <1>5 DEF Launch
  <2>2. pc' \in [Instance -> Places]
    BY <1>a, <2>1 DEF FleetTypeOK, Places
  <2>3. \A j \in Instance : /\ pc[j] \in Reporting => pc'[j] \in Reporting
                            /\ pc'[j] \in Unstarted => pc[j] \in Unstarted
    BY <1>a, <2>1 DEF FleetTypeOK, Reporting, Unstarted
  <2>4. QED BY <1>a, <2>1, <2>2, <2>3, PlacesStep DEF FleetTypeOK
<1>6. ASSUME NEW i \in Instance, Start(i) PROVE FleetInv'
  <2>1. /\ pc[i] = "creating" /\ pc' = [pc EXCEPT ![i] = "draining"]
        /\ tick' = [tick EXCEPT ![i] = "asleep"] /\ UNCHANGED misses
        /\ row' = [row EXCEPT ![i] = 0] \/ UNCHANGED row
        /\ UNCHANGED desired
    BY <1>6 DEF Start, Goes, Write
  <2>2. FleetTypeOK'
    BY <1>a, <1>b, <2>1 DEF FleetTypeOK, Ages, Places
  <2>3. tick[i] = "none" /\ row[i] = Absent
    BY <1>a, <2>1 DEF RowInv, Reporting, Unstarted, FleetTypeOK
  <2>4. RowInv'
    BY <1>a, <1>b, <2>1, <2>3 DEF FleetTypeOK, RowInv, Ages, Reporting, Unstarted
  <2>5. QED BY <2>2, <2>4 DEF FleetInv
<1>7. ASSUME NEW i \in Instance, StopTick(i) PROVE FleetInv'
  <2>1. /\ pc[i] = "finishing" /\ pc' = [pc EXCEPT ![i] = "retiring"]
        /\ tick' = [tick EXCEPT ![i] = "none"] /\ misses' = [misses EXCEPT ![i] = 0]
        /\ UNCHANGED <<row, desired>>
    BY <1>7 DEF StopTick, Goes, TickCancelled
  <2>2. FleetTypeOK'
    BY <1>a, <2>1 DEF FleetTypeOK, Places
  <2>3. RowInv'
    BY <1>a, <2>1 DEF FleetTypeOK, RowInv, Reporting, Unstarted
  <2>4. QED BY <2>2, <2>3 DEF FleetInv
<1>8. ASSUME NEW i \in Instance, Retire(i) PROVE FleetInv'
  <2>1. /\ pc[i] = "retiring" /\ pc' = [pc EXCEPT ![i] = "gone"]
        /\ UNCHANGED <<tick, misses>>
        /\ row' = [row EXCEPT ![i] = Epoch] \/ UNCHANGED row
        /\ UNCHANGED desired
    BY <1>8 DEF Retire, Goes, Write
  <2>2. FleetTypeOK'
    BY <1>a, <1>b, <2>1 DEF FleetTypeOK, Ages, Places
  <2>3. tick[i] = "none"
    BY <1>a, <2>1 DEF RowInv, Reporting, FleetTypeOK
  <2>4. RowInv'
    BY <1>a, <1>b, <2>1, <2>3 DEF FleetTypeOK, RowInv, Ages, Reporting, Unstarted
  <2>5. QED BY <2>2, <2>4 DEF FleetInv
<1>9. ASSUME NEW i \in Instance, Beat(i) \/ BeatFails(i) \/ ReadFails(i) PROVE FleetInv'
  <2>1. /\ tick[i] = "due" /\ UNCHANGED <<pc, desired>>
        /\ \E t \in {"asleep", "over"} : tick' = [tick EXCEPT ![i] = t]
        /\ \/ row' = [row EXCEPT ![i] = 0] /\ misses' = [misses EXCEPT ![i] = 0]
           \/ /\ tick' = [tick EXCEPT ![i] = "asleep"]
              /\ misses' = [misses EXCEPT ![i] = Missed(i)] /\ UNCHANGED row
    BY <1>9 DEF Beat, BeatFails, ReadFails, Ticks, Write
  <2>2. PICK t \in {"asleep", "over"} : tick' = [tick EXCEPT ![i] = t]
    BY <2>1
  <2>3. pc[i] \in Reporting /\ Missed(i) \in 0..2 /\ (Missed(i) < 2 => Missed(i) = misses[i] + 1)
    BY <1>a, <2>1 DEF RowInv, FleetTypeOK, Missed
  <2>4. FleetTypeOK'
    BY <1>a, <1>b, <2>1, <2>2, <2>3 DEF FleetTypeOK, Ages
  <2>5. CASE row' = [row EXCEPT ![i] = 0] /\ misses' = [misses EXCEPT ![i] = 0]
    BY <1>a, <2>1, <2>2, <2>3, <2>4, <2>5 DEF FleetInv, FleetTypeOK, RowInv, Reporting, Unstarted
  <2>6. CASE /\ tick' = [tick EXCEPT ![i] = "asleep"]
             /\ misses' = [misses EXCEPT ![i] = Missed(i)] /\ UNCHANGED row
    BY <1>a, <1>b, <2>1, <2>3, <2>4, <2>6 DEF FleetInv, FleetTypeOK, RowInv, Ages
  <2>7. QED BY <2>1, <2>5, <2>6
<1>10. CASE Boot
  <2>1. /\ UNCHANGED <<tick, misses, row, desired>>
        /\ pc' = [i \in Instance |-> IF i \in enabled THEN "creating" ELSE pc[i]] \/ UNCHANGED pc
    BY <1>10 DEF Boot
  <2>2. \A i \in Instance : i \in enabled => pc[i] = "unborn"
    BY <1>10 DEF Boot, ServerIs, BootInv
  <2>3. /\ pc' \in [Instance -> Places]
        /\ \A i \in Instance : /\ pc[i] \in Reporting => pc'[i] \in Reporting
                               /\ pc'[i] \in Unstarted => pc[i] \in Unstarted
    BY <1>a, <2>1, <2>2 DEF FleetTypeOK, Places, Reporting, Unstarted
  <2>4. QED BY <1>a, <2>1, <2>3, PlacesStep DEF FleetTypeOK
<1>11. ASSUME NEW kind, RequestStop(kind) PROVE FleetInv'
  <2>1. UNCHANGED <<pc, tick, misses, row>> /\ desired' \in [Instance -> BOOLEAN]
    BY <1>a, <1>11 DEF RequestStop, FleetTypeOK
  <2>2. QED BY <1>a, <2>1, PlacesStep DEF FleetTypeOK
<1>12. ASSUME NEW i \in Instance, Prune(i) PROVE FleetInv'
  <2>1. /\ UNCHANGED <<pc, tick, misses>> /\ row' = [row EXCEPT ![i] = Absent]
        /\ desired' = [desired EXCEPT ![i] = FALSE]
    BY <1>12 DEF Prune
  <2>2. FleetTypeOK'
    BY <1>a, <1>b, <2>1 DEF FleetTypeOK, Ages
  <2>3. RowInv'
    BY <1>a, <1>b, <1>12, <2>1 DEF FleetTypeOK, RowInv, Ages, Prune, Over, Unstarted
  <2>4. QED BY <2>2, <2>3 DEF FleetInv
<1>13. CASE BeginShutdown \/ EndShutdown
  BY <1>2, <1>13 DEF BeginShutdown, EndShutdown
<1>14. CASE TimeOut
  <2>1. UNCHANGED <<tick, misses, row, desired>> /\ pc' = [i \in Instance |-> Cancelled(i)]
    BY <1>14 DEF TimeOut
  <2>2. \A i \in Instance : /\ Cancelled(i) \in Places
                            /\ pc[i] \in Reporting => Cancelled(i) \in Reporting
                            /\ Cancelled(i) \in Unstarted => pc[i] \in Unstarted
    BY <1>a DEF FleetTypeOK, Cancelled, AfterCancel, Places, Reporting, Unstarted
  <2>3. QED BY <1>a, <2>1, <2>2, PlacesStep DEF FleetTypeOK
<1>15. CASE Clock
  <2>1. /\ UNCHANGED <<pc, desired>>
        /\ row' = [i \in Instance |-> Older(row[i])]
        /\ tick' = [i \in Instance |-> IF tick[i] = "asleep" THEN "due" ELSE tick[i]]
        /\ misses' = [i \in Instance |-> IF Behind(i) THEN Missed(i) ELSE misses[i]]
    BY <1>15 DEF Clock
  <2>2. ASSUME NEW i \in Instance
        PROVE  /\ Older(row[i]) \in 0..Absent /\ (Older(row[i]) # Absent => row[i] # Absent)
               /\ row[i] < Epoch => Older(row[i]) = row[i] + 1
               /\ Missed(i) \in 0..2 /\ (Missed(i) < 2 => Missed(i) = misses[i] + 1)
    BY <1>a, <1>b DEF Older, Missed, FleetTypeOK, Ages
  <2>3. FleetTypeOK'
    BY <1>a, <2>1, <2>2 DEF FleetTypeOK, Ages
  <2>4. ASSUME NEW i \in Instance, tick'[i] \in {"asleep", "due"}, row'[i] # Absent, misses'[i] < 2
        PROVE  row'[i] <= misses'[i] + (IF tick'[i] = "due" THEN 1 ELSE 0)
    <3>1. /\ row[i] \in 0..5 /\ misses[i] \in 0..2 /\ tick[i] \in {"asleep", "due"} /\ tick'[i] = "due"
          /\ row[i] # Absent /\ row'[i] = Older(row[i])
      BY <1>a, <1>b, <2>1, <2>2, <2>4 DEF FleetTypeOK, Ages
    <3>2. CASE tick[i] = "asleep"
      <4>1. misses'[i] = misses[i]
        BY <2>1, <3>2 DEF Behind
      <4>2. row[i] <= misses[i]
        BY <1>a, <2>4, <3>1, <3>2, <4>1 DEF RowInv
      <4>3. QED BY <1>b, <2>2, <2>4, <3>1, <4>1, <4>2 DEF Ages
    <3>3. CASE tick[i] = "due"
      <4>1. misses'[i] = Missed(i)
        BY <2>1, <3>3 DEF Behind
      <4>2. misses'[i] = misses[i] + 1
        BY <2>2, <2>4, <4>1
      <4>3. row[i] <= misses[i] + 1
        BY <1>a, <2>4, <3>1, <3>3, <4>2 DEF RowInv
      <4>4. QED BY <1>b, <2>2, <2>4, <3>1, <4>2, <4>3 DEF Ages
    <3>4. QED BY <3>1, <3>2, <3>3
  <2>5. \A i \in Instance : /\ tick'[i] # "none" => pc'[i] \in Reporting
                            /\ pc'[i] \in Unstarted => row'[i] = Absent
    BY <1>a, <2>1 DEF RowInv, Older
  <2>6. QED BY <2>3, <2>4, <2>5 DEF FleetInv, RowInv, Absent, Epoch, Ttl
<1>16. ASSUME NEW l \in Loops, Block(l) \/ Unblock(l) PROVE FleetInv'
  BY <1>2, <1>16 DEF Block, Unblock
<1>17. ASSUME NEW l \in Loops, Crash(l) PROVE FleetInv'
  <2> DEFINE dies(i) == LoopOf(i) = l /\ Alive(i)
  <2>1. /\ pc' = [i \in Instance |-> IF dies(i) THEN "crashed" ELSE pc[i]]
        /\ tick' = [i \in Instance |-> IF dies(i) THEN "none" ELSE tick[i]]
        /\ misses' = [i \in Instance |-> IF dies(i) THEN 0 ELSE misses[i]]
        /\ UNCHANGED <<row, desired>>
    BY <1>17 DEF Crash
  <2> HIDE DEF dies
  <2>2. FleetTypeOK'
    BY <1>a, <2>1 DEF FleetTypeOK, Places
  <2>3. RowInv'
    BY <1>a, <2>1 DEF FleetTypeOK, RowInv, Unstarted
  <2>4. QED BY <2>2, <2>3 DEF FleetInv
<1>18. CASE Arrive
  BY <1>2, <1>18 DEF Arrive
<1>19. CASE UNCHANGED fleetVars
  BY <1>2, <1>19 DEF fleetVars
<1>20. QED
  BY <1>3, <1>4, <1>5, <1>6, <1>7, <1>8, <1>9, <1>10, <1>11, <1>12, <1>13, <1>14, <1>15, <1>16,
     <1>17, <1>18, <1>19 DEF FleetNext, AgentStep, Work, AgentFault, ServerStep, Tool

LEMMA FleetInitially == FleetInit => FleetInv /\ BootInv
<1> SUFFICES ASSUME FleetInit PROVE FleetInv /\ BootInv
  OBVIOUS
<1>1. FleetTypeOK
  BY AgesHold DEF FleetInit, FleetTypeOK, Places, Ages
<1>2. RowInv
  BY DEF FleetInit, RowInv, Unstarted
<1>3. BootInv
  BY EmbeddableAssumption DEF FleetInit, BootInv
<1>4. QED BY <1>1, <1>2, <1>3 DEF FleetInv

(* One heartbeat missed in a row, for a storage error or a stalled loop, never makes a     *)
(* working agent read stopped (LivenessReporter, _LIVENESS_TTL_MULTIPLIER, _status_for).   *)
THEOREM MissIsForgiven == FleetSpec => []OneMissIsForgiven
<1>1. FleetInv => OneMissIsForgiven
  <2> SUFFICES ASSUME FleetInv, NEW i \in Instance, Alive(i), Present(i), misses[i] <= 1,
                      tick[i] \notin {"none", "over"}
               PROVE  ReadsAlive(i)
    BY DEF OneMissIsForgiven
  <2>1. row[i] \in 0..5 /\ misses[i] \in 0..2 /\ tick[i] \in {"asleep", "due"} /\ row[i] # Absent
    BY AgesHold DEF FleetInv, FleetTypeOK, Ages, Present
  <2>2. row[i] <= misses[i] + 1
    BY <2>1 DEF FleetInv, RowInv
  <2>3. QED BY <2>1, <2>2, AgesHold DEF Ages, ReadsAlive, Present
<1>2. QED BY <1>1, FleetInitially, BootStep, FleetStep, PTL DEF FleetSpec, FleetInv

(* Nothing makes an agent that is over and reads stopped read alive again: its tick has    *)
(* ended before its last row is written (LivenessReporter.stop).                           *)
THEOREM StoppedForGood == FleetSpec => OverStaysStopped
<1>1. FleetInv /\ [FleetNext]_fleetVars =>
          [\A i \in Instance : Over(i) /\ ~ReadsAlive(i) => ~ReadsAlive(i)']_fleetVars
  <2> SUFFICES ASSUME FleetInv, FleetNext, NEW i \in Instance, Over(i), ~ReadsAlive(i)
               PROVE  ~ReadsAlive(i)'
    OBVIOUS
  <2>1. /\ pc[i] \in {"gone", "crashed"} /\ tick[i] = "none"
        /\ row \in [Instance -> 0..5] /\ row[i] \in {3, 4, 5}
    BY AgesHold DEF FleetInv, FleetTypeOK, RowInv, Over, Reporting, ReadsAlive, Present, Ages
  <2>2. row'[i] \in {3, 4, 5} => ~ReadsAlive(i)'
    BY AgesHold DEF Ages, ReadsAlive, Present, Absent, Epoch, Ttl
  <2>3. CASE UNCHANGED row
    BY <2>1, <2>2, <2>3
  <2>4. ASSUME NEW j \in Instance, AgentStep(j) PROVE row'[i] = row[i]
    <3>1. i = j => UNCHANGED row
      BY <2>1, <2>4 DEF AgentStep, Launch, Work, AgentFault, Start, ClaimTask, DrainEnds, Wake, ResolverEnds,
         ReportTask, StopTick, Retire, Beat, CreateRaises, ClaimRaises, Hang, BeatFails, ReadFails, Signal,
         Goes, Ticks, rowVars
    <3>2. UNCHANGED row \/ \E age : row' = [row EXCEPT ![j] = age]
      BY <2>4 DEF AgentStep, Launch, Work, AgentFault, Start, ClaimTask, DrainEnds, Wake, ResolverEnds,
         ReportTask, StopTick, Retire, Beat, CreateRaises, ClaimRaises, Hang, BeatFails, ReadFails, Signal,
         Write, rowVars
    <3>3. QED BY <2>1, <3>1, <3>2
  <2>5. ASSUME NEW j \in Instance, Prune(j) PROVE row'[i] \in {3, 4, 5}
    BY <2>1, <2>5, AgesHold DEF Prune, Ages
  <2>6. CASE Clock
    BY <2>1, <2>2, <2>6, AgesHold DEF Clock, Older, Ages
  <2>7. CASE Boot \/ BeginShutdown \/ EndShutdown \/ TimeOut \/ Arrive
    BY <2>3, <2>7 DEF Boot, BeginShutdown, EndShutdown, TimeOut, Arrive, rowVars
  <2>8. ASSUME NEW kind, RequestStop(kind) PROVE UNCHANGED row
    BY <2>8 DEF RequestStop
  <2>9. ASSUME NEW l \in Loops, Block(l) \/ Unblock(l) \/ Crash(l) PROVE UNCHANGED row
    BY <2>9 DEF Block, Unblock, Crash, rowVars
  <2>10. QED
    BY <2>1, <2>2, <2>3, <2>4, <2>5, <2>6, <2>7, <2>8, <2>9 DEF FleetNext, ServerStep, Tool
<1>2. QED BY <1>1, FleetInitially, BootStep, FleetStep, PTL DEF FleetSpec, FleetInv, OverStaysStopped

-----------------------------------------------------------------------------
(* The telemetry of LLM calls                                              *)

\* While a call is on it has not ended, and its request goes where the setting says.
CallInv ==
    /\ phase \in Step /\ answer \in Answer
    /\ phase # "idle" => answer = "none"
    /\ phase \in {"calling", "backoff"} => via \in Routes

RecordInv ==
    /\ telemetry \in Seq(Outcome) /\ requests \in Seq(Requested) /\ rounds \in Nat
    /\ RequestsAreRecorded

\* The outcomes of requests that were made, and of them and one that failed.
Became(s) == [i \in 1..Len(s) |-> IF s[i] = "answered" THEN "success" ELSE s[i]]
OutcomesOf(s, failed) == Became(s) \o (IF failed THEN <<"failure">> ELSE <<>>)

LEMMA OutcomesGrow ==
    ASSUME NEW s \in Seq(Requested)
    PROVE  /\ OutcomesOf(s, FALSE) \in Seq(Outcome)
           /\ s \in Seq(Outcome) => OutcomesOf(s, FALSE) = s
           /\ \A x \in Requested :
                OutcomesOf(Append(s, x), FALSE)
                    = Append(OutcomesOf(s, FALSE), IF x = "answered" THEN "success" ELSE x)
           /\ OutcomesOf(s, TRUE) = Append(OutcomesOf(s, FALSE), "failure")
<1>1. ASSUME NEW t \in Seq(Requested)
      PROVE  Became(t) \in Seq(Outcome) /\ Len(Became(t)) = Len(t)
  <2>1. \A i \in 1..Len(t) : t[i] \in Requested
    BY ElementOfSeq
  <2>2. \A i \in 1..Len(t) : (IF t[i] = "answered" THEN "success" ELSE t[i]) \in Outcome
    BY <2>1 DEF Outcome, Requested
  <2>3. QED BY <2>2 DEF Became
<1>2. ASSUME NEW t \in Seq(Requested) PROVE OutcomesOf(t, FALSE) = Became(t)
  <2>1. OutcomesOf(t, FALSE) = Became(t) \o <<>>
    BY DEF OutcomesOf
  <2>2. QED BY <1>1, <2>1, ConcatEmptySeq
<1>3. ASSUME s \in Seq(Outcome) PROVE Became(s) = s
  <2>1. \A i \in 1..Len(s) : s[i] \in Outcome
    BY <1>3, ElementOfSeq
  <2>2. \A i \in 1..Len(s) : Became(s)[i] = s[i]
    BY <2>1 DEF Became, Outcome
  <2>3. QED BY <1>1, <1>3, <2>2, SeqEqual
<1>4. ASSUME NEW x \in Requested
      PROVE  Became(Append(s, x)) = Append(Became(s), IF x = "answered" THEN "success" ELSE x)
  <2> DEFINE t == Append(s, x)
             y == IF x = "answered" THEN "success" ELSE x
             b == Became(s)
  <2>1. /\ t \in Seq(Requested) /\ Len(t) = Len(s) + 1 /\ t[Len(s) + 1] = x
        /\ \A i \in 1..Len(s) : t[i] = s[i]
    BY AppendProperties
  <2>2. y \in Outcome
    BY DEF Outcome, Requested
  <2>3. b \in Seq(Outcome) /\ Len(b) = Len(s)
    BY <1>1
  <2> HIDE DEF y
  <2>4. /\ Append(b, y) \in Seq(Outcome) /\ Len(Append(b, y)) = Len(b) + 1
        /\ Append(b, y)[Len(b) + 1] = y /\ \A i \in 1..Len(b) : Append(b, y)[i] = b[i]
    BY <2>2, <2>3, AppendProperties
  <2>5. Became(t) \in Seq(Outcome) /\ Len(Became(t)) = Len(t)
    BY <1>1, <2>1
  <2>6. \A i \in 1..Len(t) : Became(t)[i] = Append(b, y)[i]
    <3> TAKE i \in 1..Len(t)
    <3>1. Len(s) \in Nat
      OBVIOUS
    <3>2. Became(t)[i] = IF t[i] = "answered" THEN "success" ELSE t[i]
      BY DEF Became
    <3>3. CASE i = Len(s) + 1
      BY <2>1, <2>3, <2>4, <3>2, <3>3 DEF y
    <3>4. CASE i # Len(s) + 1
      <4>1. i \in 1..Len(s)
        BY <2>1, <3>1, <3>4
      <4>2. b[i] = IF s[i] = "answered" THEN "success" ELSE s[i]
        BY <4>1 DEF Became
      <4>3. t[i] = s[i] /\ Append(b, y)[i] = b[i]
        BY <2>1, <2>3, <2>4, <4>1
      <4>4. QED BY <3>2, <4>2, <4>3
    <3>5. QED BY <3>3, <3>4
  <2> HIDE DEF t, b
  <2>7. Became(t) = Append(b, y)
    BY <2>1, <2>3, <2>4, <2>5, <2>6, SeqEqual
  <2>8. QED BY <2>7 DEF t, b, y
<1>5. OutcomesOf(s, TRUE) = Append(Became(s), "failure")
  <2>1. OutcomesOf(s, TRUE) = Became(s) \o <<"failure">>
    BY DEF OutcomesOf
  <2>2. "failure" \in Outcome
    BY DEF Outcome
  <2>3. QED BY <1>1, <2>1, <2>2, AppendIsConcat
<1>6. \A x \in Requested : Append(s, x) \in Seq(Requested)
  BY AppendProperties
<1>7. QED BY <1>1, <1>2, <1>3, <1>4, <1>5, <1>6

\* The ring buffer holds the newest outcomes also with one more.
LEMMA NewestWithOneMore ==
    ASSUME NEW r \in Seq(Outcome), NEW s \in Seq(Outcome), NEW x \in Outcome, AreNewest(r, s)
    PROVE  /\ Evicted(Append(r, x)) \in Seq(Outcome)
           /\ AreNewest(Evicted(Append(r, x)), Append(s, x))
<1> DEFINE r1 == Append(r, x)
           s1 == Append(s, x)
<1>1. /\ MaxRecords \in Nat \ {0} /\ Len(r) \in Nat /\ Len(s) \in Nat /\ Len(r) <= MaxRecords
      /\ Len(r) = IF Len(s) < MaxRecords THEN Len(s) ELSE MaxRecords
      /\ r1 \in Seq(Outcome) /\ Len(r1) = Len(r) + 1
      /\ s1 \in Seq(Outcome) /\ Len(s1) = Len(s) + 1
  BY LimitAssumption DEF AreNewest
<1>2. \A i \in 1..Len(r1) : r1[i] = s1[Len(s1) - Len(r1) + i]
  <2> TAKE i \in 1..Len(r1)
  <2>1. CASE i = Len(r1)
    <3>1. r1[Len(r) + 1] = x /\ s1[Len(s) + 1] = x
      BY AppendProperties
    <3> HIDE DEF r1, s1
    <3>2. Len(r) + 1 = i /\ Len(s1) - Len(r1) + i = Len(s) + 1
      <4>1. i = Len(r) + 1 /\ Len(r1) = Len(r) + 1 /\ Len(s1) = Len(s) + 1
        BY <1>1, <2>1
      <4>2. Len(r) \in Nat /\ Len(s) \in Nat
        BY <1>1
      <4>3. (Len(s) + 1) - (Len(r) + 1) + (Len(r) + 1) = Len(s) + 1
        BY <4>2
      <4>4. QED BY <4>1, <4>3
    <3>3. QED BY <3>1, <3>2
  <2>2. CASE i # Len(r1)
    <3>1. i \in 1..Len(r) /\ r1[i] = r[i] /\ r[i] = s[Len(s) - Len(r) + i]
      <4>1. i \in 1..Len(r)
        BY <1>1, <2>2
      <4>2. QED BY <4>1, AppendProperties DEF AreNewest
    <3>2. Len(s) - Len(r) + i \in 1..Len(s)
      BY <1>1, <3>1 DEF AreNewest
    <3>3. s1[Len(s) - Len(r) + i] = s[Len(s) - Len(r) + i]
      BY <3>2, AppendProperties
    <3>4. Len(s1) - Len(r1) + i = Len(s) - Len(r) + i
      BY <1>1, <3>1
    <3> HIDE DEF r1, s1
    <3>5. QED BY <3>1, <3>3, <3>4
  <2>3. QED BY <2>1, <2>2
<1> HIDE DEF r1, s1
<1>3. CASE Len(r1) <= MaxRecords
  <2>1. Evicted(r1) = r1
    <3>1. ~(Len(r1) > MaxRecords)
      BY <1>1, <1>3
    <3>2. Evicted(r1) = SubSeq(r1, 1, Len(r1))
      BY <3>1 DEF Evicted
    <3>3. QED BY <1>1, <3>2, SubSeqFull
  <2>2. Len(r1) = IF Len(s1) < MaxRecords THEN Len(s1) ELSE MaxRecords
    BY <1>1, <1>3 DEF AreNewest
  <2>3. QED BY <1>1, <1>2, <2>1, <2>2 DEF AreNewest, r1, s1
<1>4. CASE Len(r1) > MaxRecords
  <2>1. Len(r) = MaxRecords /\ Len(r1) = MaxRecords + 1 /\ Evicted(r1) = SubSeq(r1, 2, Len(r1))
    <3>1. Len(r) = MaxRecords /\ Len(r1) = MaxRecords + 1 /\ Len(r1) - MaxRecords + 1 = 2
      BY <1>1, <1>4
    <3>2. QED BY <1>4, <3>1 DEF Evicted
  <2> DEFINE e == SubSeq(r1, 2, Len(r1))
  <2>2. e \in Seq(Outcome) /\ Len(e) = MaxRecords /\ \A i \in 1..MaxRecords : e[i] = r1[i + 1]
    <3>1. /\ r1 \in Seq(Outcome) /\ Len(r1) \in Nat /\ \A i \in 2..Len(r1) : r1[i] \in Outcome
      BY <1>1, ElementOfSeq
    <3>2. /\ e \in Seq(Outcome) /\ Len(e) = IF 2 <= Len(r1) THEN Len(r1) - 2 + 1 ELSE 0
          /\ \A i \in 1..Len(r1) - 2 + 1 : e[i] = r1[2 + i - 1]
      BY <3>1, SubSeqProperties
    <3> HIDE DEF e
    <3>3. Len(r1) - 2 + 1 = MaxRecords /\ 2 <= Len(r1) /\ \A i \in 1..MaxRecords : 2 + i - 1 = i + 1
      BY <1>1, <2>1
    <3>4. QED BY <3>2, <3>3
  <2> HIDE DEF e
  <2>3. Len(e) = IF Len(s1) < MaxRecords THEN Len(s1) ELSE MaxRecords
    BY <1>1, <2>1, <2>2 DEF AreNewest
  <2>4. ASSUME NEW i \in 1..MaxRecords PROVE e[i] = s1[Len(s1) - Len(e) + i]
    <3>1. i + 1 \in 1..Len(r1) /\ Len(s1) - Len(r1) + (i + 1) = Len(s1) - Len(e) + i
      <4>1. Len(r1) = Len(e) + 1 /\ Len(e) = MaxRecords /\ Len(s1) \in Nat
        BY <1>1, <2>1, <2>2
      <4>2. i \in Int /\ 1 <= i /\ i <= Len(e) /\ Len(e) \in Nat
        BY <1>1, <4>1
      <4>3. i + 1 \in 1..Len(e) + 1
        BY <4>2
      <4>4. Len(s1) - (Len(e) + 1) + (i + 1) = Len(s1) - Len(e) + i
        <5>1. \A k, m, j \in Int : k - (m + 1) + (j + 1) = k - m + j
          OBVIOUS
        <5>2. Len(s1) \in Int /\ Len(e) \in Int /\ i \in Int
          BY <4>1, <4>2
        <5>3. QED BY <5>1, <5>2
      <4>5. QED BY <4>1, <4>3, <4>4
    <3>2. QED BY <1>2, <2>2, <3>1
  <2>5. QED BY <1>1, <2>1, <2>2, <2>3, <2>4 DEF AreNewest, r1, s1, e
<1>5. QED BY <1>1, <1>3, <1>4

\* What a step says of the requests.
Silent == UNCHANGED <<telemetry, requests, rounds>> /\ ~RequestFailed'
Succeeds == Answered /\ ~RequestFailed'
Failed == Record("failure") /\ UNCHANGED <<requests, rounds>> /\ RequestFailed'

\* A step of a call that is on says of its request what it answers.
LEMMA ServeStep ==
    ASSUME CallInv, Serve
    PROVE  CallInv' /\ ~RequestFailed /\ (Silent \/ Succeeds \/ Failed)
<1>1. phase # "idle" /\ ~RequestFailed
  <2>1. phase # "idle"
    BY DEF Serve, CallWithTools, CallSingleShot, Route, NoKey, Again, RunTool, ResultEscapes,
       Requesting,
       CallOllama, CallAnthropic, CallOpenaiCompatibleSingleShot, CallGoogle, CallOllamaWithTools,
       CallAnthropicWithTools, CallOpenaiCompatibleWithTools, CallGoogleWithTools
  <2>2. QED BY <2>1 DEF CallInv, RequestFailed
<1>2. CASE CallWithTools \/ CallSingleShot
  <2>1. /\ phase' = "calling" /\ via' \in Routes
        /\ UNCHANGED <<setting, keyed, answer, telemetry, requests, rounds>>
    BY <1>2 DEF CallWithTools, CallSingleShot, Route, serverVars, recordVars
  <2>2. QED BY <1>1, <2>1 DEF CallInv, Silent, RequestFailed, Routes, Step
<1>3. CASE NoKey
  <2>1. /\ via \in Routes /\ via # "ollama" /\ ~keyed /\ phase' = "idle"
        /\ answer' = IF setting = "auto" THEN "llm_provider_unavailable" ELSE "llm_call_failed"
        /\ UNCHANGED <<setting, keyed, telemetry, requests, rounds>>
    BY <1>3 DEF CallInv, NoKey, Return, serverVars, recordVars
  <2>2. QED BY <1>1, <2>1 DEF CallInv, Silent, RequestFailed, Routes, Step, Answer
<1>4. CASE Again
  <2>1. /\ phase = "backoff" /\ phase' = "calling"
        /\ UNCHANGED <<setting, keyed, via, answer, telemetry, requests, rounds>>
    BY <1>4 DEF Again, serverVars, recordVars
  <2>2. QED BY <1>1, <2>1 DEF CallInv, Silent, RequestFailed, Routes, Step
<1>5. CASE RunTool
  <2>1. /\ \/ phase' \in {"tools", "turn"} /\ answer' = answer
           \/ phase' = "idle" /\ answer' = "truncated"
        /\ UNCHANGED <<setting, keyed, telemetry, requests, rounds>>
    BY <1>5 DEF RunTool, Return, serverVars, recordVars
  <2>2. QED BY <1>1, <2>1 DEF CallInv, Silent, RequestFailed, Step, Answer
<1>6. ASSUME phase = "calling", via = "ollama" \/ keyed,
             Retry \/ Escapes \/ RequestFails \/ Unusable \/ Complete \/ Reply
      PROVE  CallInv' /\ (Silent \/ Succeeds \/ Failed)
  <2>1. CASE Retry
    <3>1. /\ phase' = "backoff"
          /\ UNCHANGED <<setting, keyed, via, answer, telemetry, requests, rounds>>
      BY <2>1 DEF Retry, serverVars, recordVars
    <3>2. QED BY <1>1, <1>6, <3>1 DEF CallInv, Silent, RequestFailed, Routes, Step
  <2>2. CASE Escapes
    <3>1. /\ phase' = "idle" /\ answer' = "raised"
          /\ UNCHANGED <<setting, keyed, telemetry, requests, rounds>>
      BY <2>2 DEF Escapes, Return, serverVars, recordVars
    <3>2. QED BY <3>1 DEF CallInv, Silent, RequestFailed, Step, Answer
  <2>3. CASE RequestFails \/ Unusable
    <3>1. /\ phase' = "idle" /\ answer' = "llm_call_failed" /\ Record("failure")
          /\ UNCHANGED <<setting, keyed, requests, rounds>>
      BY <2>3 DEF RequestFails, Unusable, Return, serverVars
    <3>2. keyed \/ setting \in {"auto", "ollama"}
      BY <1>6 DEF CallInv, Routes
    <3>3. QED BY <3>1, <3>2 DEF CallInv, Failed, RequestFailed, Step, Answer
  <2>4. CASE Complete
    <3>1. phase' = "idle" /\ answer' = "text" /\ Answered
      BY <2>4 DEF Complete, Return
    <3>2. QED BY <3>1 DEF CallInv, Succeeds, RequestFailed, Step, Answer
  <2>5. CASE Reply
    <3>1. /\ (phase' = "tools" /\ answer' = answer) \/ (phase' = "idle" /\ answer' = "reply")
          /\ Answered
      BY <2>5 DEF Reply, Return
    <3>2. QED BY <1>1, <3>1 DEF CallInv, Succeeds, RequestFailed, Step, Answer
  <2>6. QED BY <1>6, <2>1, <2>2, <2>3, <2>4, <2>5
<1>6a. CASE ResultEscapes
  <2>1. phase' = "idle" /\ answer' = "raised" /\ UNCHANGED <<setting, keyed, telemetry, requests, rounds>>
    BY <1>6a DEF ResultEscapes, Return, serverVars, recordVars
  <2>2. ~RequestFailed'
    BY <2>1 DEF RequestFailed
  <2>3. CallInv'
    BY <2>1 DEF CallInv, Step, Answer
  <2>4. Silent
    BY <2>1, <2>2 DEF Silent
  <2>5. QED BY <1>1, <2>3, <2>4
<1>7. CallInv' /\ (Silent \/ Succeeds \/ Failed)
  BY <1>2, <1>3, <1>4, <1>5, <1>6, <1>6a, <1>1 DEF Serve, Requesting, CallOllama, CallAnthropic,
     CallOpenaiCompatibleSingleShot, CallGoogle, CallOllamaWithTools, CallAnthropicWithTools,
     CallOpenaiCompatibleWithTools, CallGoogleWithTools
<1>8. QED BY <1>1, <1>7

(* The telemetry shows each request of a call once, by what came of it, among the      *)
(* requests of its tools and of others in the process: whichever provider it went to,  *)
(* however often it was retried, and however many the ring buffer holds                *)
(* (LLMTelemetry.record_call).                                                         *)
THEOREM TelemetryIsComplete == ChatSpec => []RequestsAreRecorded
<1>1. ChatInit => CallInv /\ RecordInv
  <2> SUFFICES ASSUME ChatInit PROVE CallInv /\ RecordInv
    OBVIOUS
  <2>1. /\ phase = "idle" /\ answer = "none" /\ telemetry = <<>> /\ requests = <<>> /\ rounds = 0
        /\ <<>> \in Seq(Outcome) /\ ~RequestFailed
    BY DEF ChatInit, RequestFailed
  <2>2. Outcomes = <<>>
    BY <2>1, OutcomesGrow DEF Outcomes, OutcomesOf
  <2>3. AreNewest(telemetry, <<>>)
    BY <2>1, LimitAssumption DEF AreNewest
  <2>4. QED BY <2>1, <2>2, <2>3 DEF CallInv, RecordInv, RequestsAreRecorded, Step, Answer
<1>2. CallInv /\ RecordInv /\ [ChatNext]_chatVars => (CallInv /\ RecordInv)'
  <2> SUFFICES ASSUME CallInv, RecordInv, [ChatNext]_chatVars PROVE (CallInv /\ RecordInv)'
    OBVIOUS
  <2>1. /\ ~RequestFailed => Outcomes = OutcomesOf(requests, FALSE)
        /\ ~RequestFailed' => Outcomes' = OutcomesOf(requests', FALSE)
        /\ RequestFailed' => Outcomes' = OutcomesOf(requests', TRUE)
    BY DEF Outcomes, OutcomesOf, Became
  <2>2. CASE Reconfigure
    <3>1. /\ phase' \in Step /\ answer' = "none" /\ phase' = "idle" /\ telemetry' = <<>>
          /\ requests' = <<>> /\ rounds' = 0 /\ <<>> \in Seq(Outcome) /\ ~RequestFailed'
      BY <2>2 DEF Reconfigure, RequestFailed, CallInv
    <3>2. Outcomes' = <<>>
      <4>1. <<>> \in Seq(Requested) /\ <<>> \in Seq(Outcome)
        OBVIOUS
      <4>2. OutcomesOf(<<>>, FALSE) = <<>>
        BY <4>1, OutcomesGrow
      <4>3. QED BY <2>1, <3>1, <4>2
    <3>3. AreNewest(<<>>, <<>>)
      BY LimitAssumption DEF AreNewest
    <3>4. RequestsAreRecorded'
      BY <3>1, <3>2, <3>3 DEF RequestsAreRecorded
    <3>5. QED BY <3>1, <3>4 DEF CallInv, RecordInv, Answer
  <2>3. CASE Ask("chat") \/ Ask("completion")
    <3>1. /\ phase' = "turn" /\ answer' = "none" /\ UNCHANGED telemetry
          /\ requests' = telemetry /\ rounds' = 0 /\ ~RequestFailed'
      BY <2>3 DEF Ask, RequestFailed
    <3>2. Outcomes' = telemetry /\ telemetry \in Seq(Requested) /\ telemetry \in Seq(Outcome)
      <4>1. telemetry \in Seq(Outcome) /\ Outcome \subseteq Requested
        BY DEF RecordInv, Requested
      <4>2. telemetry \in Seq(Requested)
        BY <4>1
      <4>3. QED BY <2>1, <3>1, <4>1, <4>2, OutcomesGrow
    <3>3. AreNewest(telemetry, telemetry)
      BY <3>2, LimitAssumption DEF RecordInv, RequestsAreRecorded, AreNewest
    <3>4. RequestsAreRecorded'
      BY <3>1, <3>2, <3>3 DEF RequestsAreRecorded
    <3>5. QED BY <3>1, <3>2, <3>4 DEF CallInv, RecordInv, Answer, Step
  <2>4. CASE Serve
    <3>1. CallInv' /\ ~RequestFailed /\ (Silent \/ Succeeds \/ Failed)
      BY <2>4, ServeStep
    <3> DEFINE s == OutcomesOf(requests, FALSE)
    <3>2. /\ telemetry \in Seq(Outcome) /\ requests \in Seq(Requested) /\ rounds \in Nat
          /\ s \in Seq(Outcome) /\ AreNewest(telemetry, s)
      BY <2>1, <3>1, OutcomesGrow DEF RecordInv, RequestsAreRecorded
    <3>3. CASE Silent
      <4>1. Outcomes' = s
        BY <2>1, <3>3 DEF Silent
      <4>2. QED BY <3>1, <3>2, <3>3, <4>1 DEF Silent, RecordInv, RequestsAreRecorded
    <3>4. CASE Succeeds
      <4>1. Outcomes' = Append(s, "success")
        BY <2>1, <3>2, <3>4, OutcomesGrow DEF Succeeds, Answered, Requested
      <4>2. telemetry' \in Seq(Outcome) /\ AreNewest(telemetry', Append(s, "success"))
        BY <3>2, <3>4, NewestWithOneMore DEF Succeeds, Answered, Record, Outcome
      <4>3. rounds' \in Nat /\ requests' \in Seq(Requested)
        BY <3>2, <3>4 DEF Succeeds, Answered, Requested
      <4>4. QED BY <3>1, <4>1, <4>2, <4>3 DEF RecordInv, RequestsAreRecorded
    <3>5. CASE Failed
      <4>1. Outcomes' = Append(s, "failure")
        BY <2>1, <3>2, <3>5, OutcomesGrow DEF Failed
      <4>2. telemetry' \in Seq(Outcome) /\ AreNewest(telemetry', Append(s, "failure"))
        BY <3>2, <3>5, NewestWithOneMore DEF Failed, Record, Outcome
      <4>3. rounds' \in Nat /\ requests' \in Seq(Requested)
        BY <3>2, <3>5 DEF Failed
      <4>4. QED BY <3>1, <4>1, <4>2, <4>3 DEF RecordInv, RequestsAreRecorded
    <3>6. QED BY <3>1, <3>3, <3>4, <3>5
  <2>4a. CASE OthersRequest
    <3> DEFINE s == OutcomesOf(requests, FALSE)
    <3>1. PICK x \in Outcome :
              /\ Record(x) /\ requests' = Append(requests, x)
              /\ phase # "idle" /\ UNCHANGED <<setting, keyed, phase, via, answer, rounds>>
      BY <2>4a DEF OthersRequest, serverVars
    <3>2. ~RequestFailed /\ ~RequestFailed' /\ CallInv'
      BY <3>1 DEF CallInv, RequestFailed, Routes
    <3>3. /\ telemetry \in Seq(Outcome) /\ requests \in Seq(Requested) /\ rounds \in Nat
          /\ s \in Seq(Outcome) /\ AreNewest(telemetry, s)
      BY <2>1, <3>2, OutcomesGrow DEF RecordInv, RequestsAreRecorded
    <3>4. x \in Requested /\ x # "answered"
      BY DEF Outcome, Requested
    <3>5. Outcomes' = Append(s, x)
      BY <2>1, <3>1, <3>2, <3>3, <3>4, OutcomesGrow
    <3>6. telemetry' \in Seq(Outcome) /\ AreNewest(telemetry', Append(s, x))
      BY <3>1, <3>3, NewestWithOneMore DEF Record
    <3>7. requests' \in Seq(Requested)
      BY <3>1, <3>3, <3>4
    <3>8. QED BY <3>1, <3>2, <3>3, <3>5, <3>6, <3>7 DEF RecordInv, RequestsAreRecorded
  <2>5. CASE UNCHANGED chatVars
    <3>1. UNCHANGED <<setting, keyed, phase, via, answer, telemetry, requests, rounds>>
      BY <2>5 DEF chatVars, serverVars, recordVars
    <3>2. UNCHANGED RequestFailed
      BY <3>1 DEF RequestFailed
    <3>3. UNCHANGED Outcomes
      BY <3>1, <3>2 DEF Outcomes
    <3>4. QED BY <3>1, <3>3 DEF CallInv, RecordInv, RequestsAreRecorded, Routes
  <2>6. QED BY <2>2, <2>3, <2>4, <2>4a, <2>5 DEF ChatNext
<1>3. RecordInv => RequestsAreRecorded
  BY DEF RecordInv
<1>4. QED BY <1>1, <1>2, <1>3, PTL DEF ChatSpec

-----------------------------------------------------------------------------
(* The members of a sequence that have a type                              *)

LEMMA LeastNatural ==
    ASSUME NEW T \in SUBSET Nat, T # {}
    PROVE  \E m \in T : \A k \in T : m <= k
<1> DEFINE Less == {ss \in Nat \X Nat : ss[1] < ss[2]}
<1>1. PICK m \in T : \A k \in T : <<k, m>> \notin Less
  <2>1. IsWellFoundedOn(Less, Nat)
    BY NatLessThanWellFounded DEF OpToRel
  <2> HIDE DEF Less
  <2>2. QED BY <2>1, WFMin
<1>2. ASSUME NEW k \in T PROVE m <= k
  <2>1. <<k, m>> \in Nat \X Nat /\ ~(k < m)
    BY <1>1
  <2>2. QED BY <2>1
<1>3. QED BY <1>2

\* A set of positions has a k-th member for each k that it has members for.
LEMMA NthIsThere ==
    ASSUME NEW n \in Nat, NEW at \in SUBSET (1..n), NEW k \in 1..Cardinality(at)
    PROVE  Nth(at, k) \in at /\ Cardinality({j \in at : j <= Nth(at, k)}) = k
<1> DEFINE upTo(m) == {j \in at : j <= m}
           few == {m \in 0..n : k <= Cardinality(upTo(m))}
<1>1. IsFiniteSet(at) /\ Cardinality(at) \in Nat /\ k \in Nat \ {0}
  <2>1. IsFiniteSet(1..n)
    BY FS_Interval
  <2>2. IsFiniteSet(at)
    BY <2>1, FS_Subset
  <2>3. Cardinality(at) \in Nat
    BY <2>2, FS_CardinalityType
  <2>4. QED BY <2>2, <2>3
<1>2. \A m \in 0..n : IsFiniteSet(upTo(m)) /\ Cardinality(upTo(m)) \in Nat
  <2> TAKE m \in 0..n
  <2>1. upTo(m) \in SUBSET at
    OBVIOUS
  <2> HIDE DEF upTo
  <2>2. IsFiniteSet(upTo(m))
    BY <1>1, <2>1, FS_Subset
  <2>3. QED BY <2>2, FS_CardinalityType
<1>3. few \in SUBSET Nat /\ n \in few
  <2>1. upTo(n) = at
    <3>1. \A j \in at : j <= n
      OBVIOUS
    <3>2. QED BY <3>1
  <2> HIDE DEF upTo
  <2>2. QED BY <2>1, <1>1
<1>4. PICK i \in few : \A m \in few : i <= m
  <2> HIDE DEF few
  <2>1. QED BY <1>3, LeastNatural
<1>5. i \in 0..n /\ k <= Cardinality(upTo(i))
  BY <1>4
<1>6. i # 0
  <2>1. upTo(0) = {}
    <3>1. \A j \in at : ~(j <= 0)
      OBVIOUS
    <3>2. QED BY <3>1
  <2> HIDE DEF upTo
  <2>2. Cardinality(upTo(0)) = 0
    BY <2>1, FS_EmptySet
  <2>3. QED BY <1>1, <1>5, <2>2
<1>7. i - 1 \in 0..n /\ ~(k <= Cardinality(upTo(i - 1)))
  <2>1. i - 1 \in 0..n /\ ~(i <= i - 1)
    BY <1>5, <1>6
  <2>2. i - 1 \notin few
    <3> HIDE DEF few
    <3>1. QED BY <1>4, <2>1
  <2>3. QED BY <2>1, <2>2
<1>8. i \in at /\ upTo(i) = upTo(i - 1) \cup {i} /\ i \notin upTo(i - 1)
  <2>1. upTo(i) = IF i \in at THEN upTo(i - 1) \cup {i} ELSE upTo(i - 1)
    <3>1. \A j \in at : j <= i <=> j <= i - 1 \/ j = i
      <4>1. at \subseteq Int /\ i \in Int
        BY <1>5
      <4>2. \A j \in Int : j <= i <=> j <= i - 1 \/ j = i
        BY <4>1
      <4>3. QED BY <4>1, <4>2
    <3>2. i <= i
      BY <1>5
    <3>3. QED BY <3>1, <3>2
  <2>2. i \notin upTo(i - 1)
    BY <1>5
  <2> HIDE DEF upTo
  <2>3. i \in at
    BY <1>5, <1>7, <2>1
  <2>4. QED BY <2>1, <2>2, <2>3
<1>9. Cardinality(upTo(i)) = k
  <2> HIDE DEF upTo
  <2>1. Cardinality(upTo(i)) = Cardinality(upTo(i - 1)) + 1
    BY <1>2, <1>7, <1>8, FS_AddElement
  <2>2. Cardinality(upTo(i - 1)) \in Nat
    BY <1>2, <1>7
  <2>3. QED BY <1>1, <1>5, <1>7, <2>1, <2>2
<1>10. \E m \in at : Cardinality({j \in at : j <= m}) = k
  BY <1>8, <1>9
<1>11. QED BY <1>10 DEF Nth

\* Of a whole interval it is counted from the first.
LEMMA NthOfInterval ==
    ASSUME NEW a \in Nat, NEW n \in Nat, NEW k \in 1..n
    PROVE  /\ Cardinality((a + 1)..(a + n)) = n
           /\ Nth((a + 1)..(a + n), k) = a + k
<1> DEFINE at == (a + 1)..(a + n)
<1>1. Cardinality(at) = n
  BY FS_Interval
<1>2. \A i \in at : {j \in at : j <= i} = (a + 1)..i
  OBVIOUS
<1>3. \A i \in at : Cardinality((a + 1)..i) = i - a
  <2> TAKE i \in at
  <2>1. i \in Int /\ a + 1 \in Int /\ ~(a + 1 > i)
    OBVIOUS
  <2>2. QED BY <2>1, FS_Interval
<1>4. at \in SUBSET (1..a + n) /\ a + n \in Nat
  OBVIOUS
<1> HIDE DEF at
<1>5. Nth(at, k) \in at /\ Cardinality({j \in at : j <= Nth(at, k)}) = k
  BY <1>1, <1>4, NthIsThere
<1>6. Nth(at, k) - a = k
  BY <1>2, <1>3, <1>5
<1>7. Nth(at, k) = a + k
  <2>1. \A i \in 1..a + n : i \in Nat
    BY <1>4
  <2>2. Nth(at, k) \in Nat
    BY <1>4, <1>5, <2>1
  <2>3. QED BY <1>6, <2>2
<1>8. QED BY <1>1, <1>7 DEF at

\* What OfType takes from a sequence, at positions that differ.
LEMMA OfTypeTakes ==
    ASSUME NEW S, NEW s \in Seq(S), NEW type
    PROVE  /\ OfType(s, type) \in Seq(S)
           /\ Len(OfType(s, type)) = Cardinality(Positions(s, type))
           /\ Cardinality(Positions(s, type)) \in Nat
           /\ \A k \in 1..Cardinality(Positions(s, type)) :
                /\ Nth(Positions(s, type), k) \in DOMAIN s
                /\ OfType(s, type)[k] = s[Nth(Positions(s, type), k)]
                /\ OfType(s, type)[k].type = type
           /\ \A k, l \in 1..Cardinality(Positions(s, type)) :
                Nth(Positions(s, type), k) = Nth(Positions(s, type), l) => k = l
<1> DEFINE at == Positions(s, type)
<1>1. at \in SUBSET (1..Len(s)) /\ Len(s) \in Nat /\ DOMAIN s = 1..Len(s)
  BY DEF Positions
<1>2. Cardinality(at) \in Nat
  <2> HIDE DEF at
  <2>1. IsFiniteSet(1..Len(s))
    BY <1>1, FS_Interval
  <2>2. IsFiniteSet(at)
    BY <1>1, <2>1, FS_Subset
  <2>3. QED BY <2>2, FS_CardinalityType
<1>3. \A k \in 1..Cardinality(at) :
        Nth(at, k) \in at /\ Cardinality({j \in at : j <= Nth(at, k)}) = k
  <2> HIDE DEF at
  <2>1. QED BY <1>1, NthIsThere
<1>4. \A k \in 1..Cardinality(at) : Nth(at, k) \in DOMAIN s /\ s[Nth(at, k)].type = type
  BY <1>3 DEF Positions
<1>5. OfType(s, type) = [k \in 1..Cardinality(at) |-> s[Nth(at, k)]]
  BY DEF OfType
<1> HIDE DEF at
<1>6. \A k \in 1..Cardinality(at) : s[Nth(at, k)] \in S
  BY <1>1, <1>4
<1>7. OfType(s, type) \in Seq(S) /\ Len(OfType(s, type)) = Cardinality(at)
  BY <1>2, <1>5, <1>6
<1>8. \A k, l \in 1..Cardinality(at) : Nth(at, k) = Nth(at, l) => k = l
  BY <1>3
<1>9. QED BY <1>2, <1>4, <1>5, <1>7, <1>8 DEF at

\* All of it when its members have the type, from the n-th on when they have it from there,
\* nothing when none has.
LEMMA OfTypeOfSuffix ==
    ASSUME NEW S, NEW s \in Seq(S), NEW type, NEW a \in Nat, NEW n \in Nat,
           Positions(s, type) = (a + 1)..(a + n)
    PROVE  OfType(s, type) = [k \in 1..n |-> s[a + k]]
<1>1. CASE n = 0
  <2>1. Positions(s, type) = {}
    BY <1>1
  <2>2. Cardinality(Positions(s, type)) = 0
    BY <2>1, FS_EmptySet
  <2>3. 1..Cardinality(Positions(s, type)) = 1..n
    BY <1>1, <2>2
  <2>4. 1..n = {}
    BY <1>1
  <2>5. QED BY <2>3, <2>4 DEF OfType
<1>2. CASE n # 0
  <2>1. Cardinality(Positions(s, type)) = n
    BY <1>2, NthOfInterval
  <2>2. \A k \in 1..n : Nth(Positions(s, type), k) = a + k
    BY NthOfInterval
  <2>3. QED BY <2>1, <2>2 DEF OfType
<1>3. QED BY <1>1, <1>2

LEMMA OfTypeOfAll ==
    ASSUME NEW S, NEW s \in Seq(S), NEW type, \A i \in DOMAIN s : s[i].type = type
    PROVE  OfType(s, type) = s
<1>1. Positions(s, type) = 1..Len(s) /\ Len(s) \in Nat
  BY DEF Positions
<1>2. Positions(s, type) = (0 + 1)..(0 + Len(s))
  BY <1>1
<1>3. OfType(s, type) = [k \in 1..Len(s) |-> s[0 + k]]
  <2>1. \A n \in Nat : Positions(s, type) = (0 + 1)..(0 + n) =>
                        OfType(s, type) = [k \in 1..n |-> s[0 + k]]
    BY OfTypeOfSuffix
  <2>2. QED BY <1>1, <1>2, <2>1
<1>4. s = [k \in 1..Len(s) |-> s[k]]
  OBVIOUS
<1>5. \A k \in 1..Len(s) : 0 + k = k
  BY <1>1
<1>6. QED BY <1>3, <1>4, <1>5

LEMMA OfTypeOfNone ==
    ASSUME NEW S, NEW s \in Seq(S), NEW type
    PROVE  OfType(s, type) = <<>> <=> \A i \in DOMAIN s : s[i].type # type
<1>1. Positions(s, type) = {} <=> \A i \in DOMAIN s : s[i].type # type
  BY DEF Positions
<1>2. IsFiniteSet(Positions(s, type))
  <2>1. IsFiniteSet(1..Len(s)) /\ Positions(s, type) \in SUBSET (1..Len(s))
    BY FS_Interval DEF Positions
  <2>2. QED BY <2>1, FS_Subset
<1>3. Cardinality(Positions(s, type)) = 0 <=> Positions(s, type) = {}
  BY <1>2, FS_EmptySet
<1>4. OfType(s, type) = <<>> <=> Cardinality(Positions(s, type)) = 0
  BY OfTypeTakes
<1>5. QED BY <1>1, <1>3, <1>4

-----------------------------------------------------------------------------
(* The history of a chat                                                   *)

\* What a message holds: texts, and calls and results with an id and a name.
UseId == Id \cup (Provider \X Nat)
Use == [type : {"tool_use", "tool_result"}, id : UseId, name : Allowed \cup Other]
ContentBlock == {Text} \cup Use

\* No two calls of a message share an id; a message with a result has nothing else.
DistinctIds(c) ==
    \A j, k \in DOMAIN c : IsCall(c[j]) /\ IsCall(c[k]) /\ c[j].id = c[k].id => j = k

IsContent(c) ==
    /\ c \in Seq(ContentBlock) /\ DistinctIds(c)
    /\ \A j, k \in DOMAIN c : IsResult(c[j]) => IsResult(c[k])

CallPart == [type : {"tool_use"}, id : Id \cup {Nothing}, name : Allowed \cup Other]

LEMMA BlockKinds ==
    /\ IsText(Text) /\ ~IsCall(Text) /\ ~IsResult(Text)
    /\ \A b \in ContentBlock : b = Text \/ b \in Use
    /\ \A b \in Use : ~IsText(b) /\ (IsCall(b) <=> ~IsResult(b)) /\ b.name # Nothing
    /\ \A b \in Part : IsText(b) \/ b \in CallPart
    /\ \A b \in CallPart : ~IsText(b) /\ IsCall(b)
<1>1. Nothing \notin Allowed \cup Other
  BY ToolAssumption
<1>2. \A b \in Use : ~IsText(b) /\ (IsCall(b) <=> ~IsResult(b)) /\ b.name # Nothing
  BY <1>1 DEF Use, IsText, IsCall, IsResult
<1>3. QED BY <1>2 DEF ContentBlock, Part, CallPart, Text, IsText, IsCall, IsResult

LEMMA CallIsBlock ==
    ASSUME NEW p \in Provider, NEW x \in CallPart, NEW i \in Nat
    PROVE  Call(p, x, i) \in Use /\ IsCall(Call(p, x, i))
<1>1. <<p, i>> \in Provider \X Nat
  OBVIOUS
<1>2. QED BY <1>1 DEF Call, CallPart, Use, UseId, IsCall

\* The ids of two calls at two positions differ, also when a provider gives them to none
\* or to one of them.
LEMMA CallsDiffer ==
    ASSUME NEW p \in Provider, NEW x \in CallPart, NEW y \in CallPart, NEW i \in Nat, NEW j \in Nat,
           i # j, x.id # y.id \/ x.id = Nothing
    PROVE  Call(p, x, i).id # Call(p, y, j).id
<1>1. \A id \in Id : id # Nothing /\ id # <<p, i>> /\ id # <<p, j>>
  <2>1. <<p, i>> \in Provider \X Nat /\ <<p, j>> \in Provider \X Nat
    OBVIOUS
  <2>2. QED BY <2>1, IdAssumption
<1>2. <<p, i>> # <<p, j>>
  OBVIOUS
<1>3. x.id \in Id \cup {Nothing} /\ y.id \in Id \cup {Nothing}
  BY DEF CallPart
<1>4. /\ Call(p, x, i).id = IF x.id = Nothing THEN <<p, i>> ELSE x.id
      /\ Call(p, y, j).id = IF y.id = Nothing THEN <<p, j>> ELSE y.id
  BY DEF Call
<1>5. QED BY <1>1, <1>2, <1>3, <1>4

\* What an assistant's message is made of.
IsAnswer(c) == c \in Seq(ContentBlock) /\ DistinctIds(c) /\ \A i \in DOMAIN c : ~IsResult(c[i])

LEMMA AnswerIsContent == ASSUME NEW c, IsAnswer(c) PROVE IsContent(c)
  BY DEF IsAnswer, IsContent

\* Texts, and calls made of parts that differ, at positions that differ.
LEMMA CallsMakeAnAnswer ==
    ASSUME NEW p \in Provider, NEW c \in Seq(ContentBlock),
           \A i \in DOMAIN c : \/ c[i] = Text
                               \/ \E x \in CallPart, m \in Nat : c[i] = Call(p, x, m),
           DistinctIds(c)
    PROVE  IsAnswer(c)
<1>1. \A i \in DOMAIN c : ~IsResult(c[i])
  <2> TAKE i \in DOMAIN c
  <2>1. CASE c[i] = Text
    BY <2>1, BlockKinds
  <2>2. CASE \E x \in CallPart, m \in Nat : c[i] = Call(p, x, m)
    BY <2>2, CallIsBlock, BlockKinds
  <2>3. QED BY <2>1, <2>2
<1>2. QED BY <1>1 DEF IsAnswer

LEMMA EmptyText == IsAnswer(<<Text>>) /\ IsAnswer(<<>>)
<1>1. <<Text>> \in Seq(ContentBlock) /\ <<>> \in Seq(ContentBlock)
  BY DEF ContentBlock
<1>2. \A i \in DOMAIN <<Text>> : <<Text>>[i] = Text /\ i = 1
  OBVIOUS
<1>3. \A i \in DOMAIN <<Text>> : ~IsCall(<<Text>>[i]) /\ ~IsResult(<<Text>>[i])
  BY <1>2, BlockKinds
<1>4. DOMAIN <<>> = {}
  OBVIOUS
<1>5. QED BY <1>1, <1>3, <1>4 DEF IsAnswer, DistinctIds

LEMMA WellFormedAnswer == ASSUME NEW c, IsAnswer(c) PROVE IsAnswer(WellFormed(c))
  BY EmptyText DEF WellFormed

\* The parts of a response.
LEMMA ResponseParts ==
    ASSUME NEW p \in Provider, NEW parts \in Response[p]
    PROVE  /\ parts \in Seq(Part)
           /\ \A i, j \in DOMAIN parts : i # j => parts[i].id # parts[j].id \/ parts[i].id = Nothing
           /\ p = "anthropic" => \A i \in DOMAIN parts : IsCall(parts[i]) => parts[i].id # Nothing
  BY ResponseAssumption

LEMMA FromAnthropicIsAnswer ==
    ASSUME NEW parts \in Response["anthropic"]
    PROVE  IsAnswer(parts)
<1>1. "anthropic" \in Provider
  BY DEF Provider
<1>2. /\ parts \in Seq(Part)
      /\ \A i, j \in DOMAIN parts : i # j => parts[i].id # parts[j].id \/ parts[i].id = Nothing
      /\ \A i \in DOMAIN parts : IsCall(parts[i]) => parts[i].id # Nothing
  BY <1>1, ResponseParts
<1>3. \A i \in DOMAIN parts : parts[i] \in Part
  BY <1>2
<1>4. \A i \in DOMAIN parts : parts[i] \in ContentBlock /\ ~IsResult(parts[i])
  <2> TAKE i \in DOMAIN parts
  <2>1. CASE parts[i] = Text
    BY <2>1, BlockKinds DEF ContentBlock
  <2>2. CASE parts[i] \in CallPart
    <3>1. IsCall(parts[i]) /\ parts[i].id # Nothing
      BY <1>2, <2>2, BlockKinds
    <3>2. parts[i] \in Use
      BY <2>2, <3>1 DEF CallPart, Use, UseId
    <3>3. QED BY <3>1, <3>2, BlockKinds DEF ContentBlock
  <2>3. QED BY <1>3, <2>1, <2>2 DEF Part, CallPart
<1>5. parts \in Seq(ContentBlock)
  BY <1>2, <1>4
<1>6. DistinctIds(parts)
  BY <1>2 DEF DistinctIds
<1>7. QED BY <1>4, <1>5, <1>6 DEF IsAnswer

LEMMA FromGoogleIsAnswer ==
    ASSUME NEW parts \in Response["google"]
    PROVE  IsAnswer(FromGoogle(parts))
<1> DEFINE c == FromGoogle(parts)
           n == Len(parts)
<1>1. "google" \in Provider
  BY DEF Provider
<1>2. /\ parts \in Seq(Part)
      /\ \A i, j \in DOMAIN parts : i # j => parts[i].id # parts[j].id \/ parts[i].id = Nothing
  BY <1>1, ResponseParts
<1>3. n \in Nat /\ DOMAIN parts = 1..n /\ \A i \in 1..n : parts[i] \in Part
  BY <1>2
<1>4. /\ DOMAIN c = 1..n
      /\ \A i \in 1..n : c[i] = IF IsText(parts[i]) THEN Text ELSE Call("google", parts[i], i)
  BY <1>3 DEF FromGoogle
<1>5. c = [i \in 1..n |-> c[i]]
  BY <1>3 DEF FromGoogle
<1> HIDE DEF c
<1>6. \A i \in 1..n : IF IsText(parts[i]) THEN c[i] = Text
                      ELSE parts[i] \in CallPart /\ c[i] = Call("google", parts[i], i)
  BY <1>3, <1>4, BlockKinds
<1>7. \A i \in 1..n : c[i] \in ContentBlock
  <2> TAKE i \in 1..n
  <2>1. i \in Nat
    BY <1>3
  <2>2. QED BY <1>1, <1>6, <2>1, CallIsBlock DEF ContentBlock
<1>8. c \in Seq(ContentBlock)
  BY <1>3, <1>5, <1>7
<1>9. DistinctIds(c)
  <2>1. SUFFICES ASSUME NEW j \in 1..n, NEW k \in 1..n, IsCall(c[j]), IsCall(c[k]), j # k
                 PROVE  c[j].id # c[k].id
    BY <1>4 DEF DistinctIds
  <2>2. ~IsText(parts[j]) /\ ~IsText(parts[k])
    BY <1>6, <2>1, BlockKinds
  <2>3. /\ parts[j] \in CallPart /\ c[j] = Call("google", parts[j], j)
        /\ parts[k] \in CallPart /\ c[k] = Call("google", parts[k], k)
    BY <1>6, <2>2
  <2>4. j \in Nat /\ k \in Nat /\ (parts[j].id # parts[k].id \/ parts[j].id = Nothing)
    BY <1>2, <1>3, <2>1
  <2>5. QED BY <1>1, <2>1, <2>3, <2>4, CallsDiffer
<1>10. \A i \in DOMAIN c : c[i] = Text \/ \E x \in CallPart, m \in Nat : c[i] = Call("google", x, m)
  BY <1>3, <1>4, <1>6
<1>11. IsAnswer(c)
  BY <1>1, <1>8, <1>9, <1>10, CallsMakeAnAnswer
<1>12. QED BY <1>11 DEF c

LEMMA TextThenCallsIsAnswer ==
    ASSUME NEW p \in Provider, NEW parts \in Response[p]
    PROVE  IsAnswer(TextThenCalls(p, parts))
<1> DEFINE calls == OfType(parts, "tool_use")
           at == Positions(parts, "tool_use")
           n == Cardinality(at)
           text == IF \E i \in DOMAIN parts : IsText(parts[i]) THEN <<Text>> ELSE <<>>
           made == [i \in DOMAIN calls |-> Call(p, calls[i], i)]
           c == text \o made
<1>1. /\ parts \in Seq(Part)
      /\ \A i, j \in DOMAIN parts : i # j => parts[i].id # parts[j].id \/ parts[i].id = Nothing
  BY ResponseParts
<1>2. /\ calls \in Seq(Part) /\ Len(calls) = n /\ n \in Nat /\ DOMAIN calls = 1..n
      /\ \A k \in 1..n : /\ Nth(at, k) \in DOMAIN parts /\ calls[k] = parts[Nth(at, k)]
                         /\ calls[k].type = "tool_use"
      /\ \A k, l \in 1..n : Nth(at, k) = Nth(at, l) => k = l
  <2>1. /\ calls \in Seq(Part) /\ Len(calls) = n /\ n \in Nat
        /\ \A k \in 1..n : /\ Nth(at, k) \in DOMAIN parts /\ calls[k] = parts[Nth(at, k)]
                           /\ calls[k].type = "tool_use"
        /\ \A k, l \in 1..n : Nth(at, k) = Nth(at, l) => k = l
    BY <1>1, OfTypeTakes
  <2> HIDE DEF calls, at
  <2>2. DOMAIN calls = 1..n
    BY <2>1
  <2>3. QED BY <2>1, <2>2
<1> HIDE DEF calls, at, n
<1>3. \A k \in 1..n : calls[k] \in CallPart
  <2> TAKE k \in 1..n
  <2>1. calls[k] \in Part /\ ~IsText(calls[k])
    BY <1>2 DEF IsText
  <2>2. QED BY <2>1, BlockKinds
<1>4. \A k \in 1..n : made[k] = Call(p, calls[k], k) /\ made[k] \in ContentBlock
  <2> TAKE k \in 1..n
  <2>1. k \in Nat /\ made[k] = Call(p, calls[k], k)
    BY <1>2
  <2>2. QED BY <1>3, <2>1, CallIsBlock DEF ContentBlock
<1>5. made \in Seq(ContentBlock) /\ Len(made) = n
  BY <1>2, <1>4
<1>6. text \in Seq(ContentBlock) /\ \A i \in DOMAIN text : text[i] = Text
  <2>1. text = <<Text>> \/ text = <<>>
    OBVIOUS
  <2>2. <<Text>> \in Seq(ContentBlock) /\ <<>> \in Seq(ContentBlock)
    BY EmptyText DEF IsAnswer
  <2>3. \A i \in DOMAIN <<Text>> : <<Text>>[i] = Text
    OBVIOUS
  <2>4. \A i \in DOMAIN <<>> : FALSE
    OBVIOUS
  <2> HIDE DEF text
  <2>5. QED BY <2>1, <2>2, <2>3, <2>4
<1>7. Len(text) \in Nat
  BY <1>6
<1> DEFINE t == Len(text)
<1> HIDE DEF made, text
<1>8. /\ c \in Seq(ContentBlock) /\ Len(c) = t + n
      /\ \A i \in 1..t : c[i] = Text
      /\ \A i \in t + 1..t + n : c[i] = made[i - t]
  <2>1. c \in Seq(ContentBlock) /\ Len(c) = t + n
    BY <1>5, <1>6, ConcatProperties
  <2>2. \A i \in 1..t : c[i] = text[i]
    BY <1>5, <1>6, ConcatProperties
  <2>3. DOMAIN text = 1..t
    BY <1>6
  <2>4. \A i \in t + 1..t + n : c[i] = made[i - t]
    BY <1>5, <1>6, ConcatProperties
  <2>5. QED BY <1>6, <2>1, <2>2, <2>3, <2>4
<1>9. DOMAIN c = 1..t + n
  BY <1>8
<1> HIDE DEF c, t
<1>10. \A i \in DOMAIN c : \/ i \in 1..t /\ c[i] = Text
                           \/ i - t \in 1..n /\ c[i] = Call(p, calls[i - t], i - t)
  <2> TAKE i \in DOMAIN c
  <2>1. t \in Nat
    BY <1>7 DEF t
  <2>2. i \in 1..t \/ (i \in t + 1..t + n /\ i - t \in 1..n)
    BY <1>2, <1>9, <2>1
  <2>3. QED BY <1>4, <1>8, <2>2
<1>11. \A i \in DOMAIN c : c[i] = Text \/ \E x \in CallPart, m \in Nat : c[i] = Call(p, x, m)
  <2> TAKE i \in DOMAIN c
  <2>1. CASE i - t \in 1..n /\ c[i] = Call(p, calls[i - t], i - t)
    <3>1. i - t \in Nat /\ calls[i - t] \in CallPart
      BY <1>2, <1>3, <2>1
    <3>2. QED BY <2>1, <3>1
  <2>2. QED BY <1>10, <2>1
<1>12. DistinctIds(c)
  <2>1. SUFFICES ASSUME NEW j \in DOMAIN c, NEW k \in DOMAIN c, IsCall(c[j]), IsCall(c[k]), j # k
                 PROVE  c[j].id # c[k].id
    BY DEF DistinctIds
  <2> DEFINE a == j - t
             b == k - t
  <2>2. /\ a \in 1..n /\ c[j] = Call(p, calls[a], a)
        /\ b \in 1..n /\ c[k] = Call(p, calls[b], b)
    BY <1>10, <2>1, BlockKinds
  <2>3. a # b /\ a \in Nat /\ b \in Nat
    BY <1>7, <1>9, <2>1, <2>2 DEF t
  <2> HIDE DEF a, b
  <2>4. calls[a].id # calls[b].id \/ calls[a].id = Nothing
    BY <1>1, <1>2, <2>2, <2>3
  <2>5. QED BY <1>3, <2>2, <2>3, <2>4, CallsDiffer
<1>13. IsAnswer(c)
  BY <1>8, <1>11, <1>12, CallsMakeAnAnswer
<1>14. TextThenCalls(p, parts) = c
  BY DEF TextThenCalls, c, made, text, calls
<1>15. QED BY <1>13, <1>14

\* Whichever provider answers, its response comes back as texts and calls, whose ids
\* differ.
LEMMA ReceivedIsAnswer ==
    ASSUME NEW p \in Provider, NEW parts \in Response[p]
    PROVE  IsAnswer(Received(p, parts))
<1>1. CASE p = "anthropic"
  BY <1>1, FromAnthropicIsAnswer DEF Received
<1>2. CASE p = "google"
  BY <1>2, FromGoogleIsAnswer, WellFormedAnswer DEF Received
<1>3. CASE p = "openai_compatible"
  BY <1>3, TextThenCallsIsAnswer, WellFormedAnswer DEF Received, FromOpenai
<1>4. CASE p = "ollama"
  BY <1>4, TextThenCallsIsAnswer, WellFormedAnswer DEF Received, FromOllama
<1>5. QED BY <1>1, <1>2, <1>3, <1>4 DEF Provider

-----------------------------------------------------------------------------
(* What is sent of it                                                      *)

ResultsOf(calls) == [k \in DOMAIN calls |-> Result(calls[k])]
CallsOf(c) == OfType(c, "tool_use")

LEMMA ResultIsBlock ==
    ASSUME NEW b \in Use
    PROVE  Result(b) \in Use /\ Result(b) \in ContentBlock /\ IsResult(Result(b))
<1>1. Result(b) = [type |-> "tool_result", id |-> b.id, name |-> b.name]
  BY DEF Result
<1>2. b.id \in UseId /\ b.name \in Allowed \cup Other
  BY DEF Use
<1>3. Result(b) \in Use
  BY <1>1, <1>2 DEF Use
<1>4. QED BY <1>1, <1>3 DEF ContentBlock, IsResult

\* The key by which a provider pairs a call or a result.
KeyOf(p) ==
    [b \in ContentBlock |-> CASE p = "ollama" -> Nothing [] p = "google" -> b.name [] OTHER -> b.id]

KeysBy(key, blocks) == [k \in DOMAIN blocks |-> key[blocks[k]]]

\* Blocks with a key each, as a provider is sent them.
AreItems(s, c, key) ==
    /\ DOMAIN s = DOMAIN c
    /\ \A i \in DOMAIN c : s[i].type = c[i].type /\ s[i].key = key[c[i]]

LEMMA KeysOfItems ==
    ASSUME NEW c \in Seq(ContentBlock), NEW s, NEW key, NEW type, AreItems(s, c, key)
    PROVE  /\ Positions(s, type) = Positions(c, type)
           /\ Keys(s, type) = KeysBy(key, OfType(c, type))
<1> DEFINE of == OfType(c, type)
           at == Positions(c, type)
           n == Cardinality(at)
<1>1. Positions(s, type) = at
  BY DEF Positions, AreItems
<1>2. OfType(s, type) = [k \in 1..n |-> s[Nth(at, k)]]
  BY <1>1 DEF OfType
<1>3. of = [k \in 1..n |-> c[Nth(at, k)]] /\ \A k \in 1..n : Nth(at, k) \in DOMAIN c
  BY OfTypeTakes DEF OfType
<1>4. \A k \in 1..n : s[Nth(at, k)].key = key[c[Nth(at, k)]]
  BY <1>3 DEF AreItems
<1>5. Keys(s, type) = [k \in 1..n |-> s[Nth(at, k)].key]
  BY <1>2 DEF Keys
<1> HIDE DEF at, n, of
<1>6. Keys(s, type) = [k \in DOMAIN of |-> key[of[k]]]
  BY <1>3, <1>4, <1>5
<1>7. QED BY <1>1, <1>6 DEF at, of, KeysBy

\* Results first, then text, then calls: each in the order it had.
LEMMA ResultsFirstKeeps ==
    ASSUME NEW c, IsContent(c)
    PROVE  /\ ResultsFirst(c) \in Seq(ContentBlock)
           /\ OfType(ResultsFirst(c), "tool_use") = OfType(c, "tool_use")
           /\ OfType(ResultsFirst(c), "tool_result") = OfType(c, "tool_result")
           /\ \A j, k \in DOMAIN ResultsFirst(c) :
                IsResult(ResultsFirst(c)[j]) => IsResult(ResultsFirst(c)[k])
<1> DEFINE r == OfType(c, "tool_result")
           t == OfType(c, "text")
           u == OfType(c, "tool_use")
<1>1. /\ c \in Seq(ContentBlock) /\ r \in Seq(ContentBlock)
      /\ t \in Seq(ContentBlock) /\ u \in Seq(ContentBlock)
  BY OfTypeTakes DEF IsContent
<1>2. /\ \A i \in DOMAIN t : t[i].type = "text"
      /\ \A i \in DOMAIN u : u[i].type = "tool_use"
  <2>1. DOMAIN t = 1..Len(t) /\ DOMAIN u = 1..Len(u)
    BY <1>1
  <2>2. QED BY <1>1, <2>1, OfTypeTakes
<1>3. ResultsFirst(c) = (r \o t) \o u
  BY DEF ResultsFirst
<1>4. CASE \E i \in DOMAIN c : IsResult(c[i])
  <2>1. \A i \in DOMAIN c : c[i].type = "tool_result"
    BY <1>4 DEF IsContent, IsResult
  <2>2. r = c
    BY <1>1, <2>1, OfTypeOfAll
  <2>3. t = <<>> /\ u = <<>>
    BY <1>1, <2>1, OfTypeOfNone
  <2>4. ResultsFirst(c) = c
    <3>1. c \o <<>> = c
      BY <1>1, ConcatEmptySeq
    <3>2. QED BY <1>3, <2>2, <2>3, <3>1
  <2>5. QED BY <1>1, <2>4 DEF IsContent
<1>5. CASE \A i \in DOMAIN c : ~IsResult(c[i])
  <2>1. r = <<>>
    BY <1>1, <1>5, OfTypeOfNone DEF IsResult
  <2> DEFINE s == t \o u
  <2>2. ResultsFirst(c) = s
    <3>1. <<>> \o t = t
      BY <1>1, ConcatEmptySeq
    <3>2. QED BY <1>3, <2>1, <3>1
  <2> DEFINE a == Len(t)
             n == Len(u)
  <2>3. a \in Nat /\ n \in Nat /\ DOMAIN t = 1..a /\ DOMAIN u = 1..n
    BY <1>1
  <2>4. /\ s \in Seq(ContentBlock) /\ Len(s) = a + n
        /\ \A i \in 1..a : s[i] = t[i]
        /\ \A i \in a + 1..a + n : s[i] = u[i - a]
    <3> HIDE DEF t, u
    <3>1. QED BY <1>1, ConcatProperties
  <2>5. DOMAIN s = 1..a + n
    BY <2>4
  <2> HIDE DEF s, a, n, t, u, r
  <2>6. \A i \in 1..a + n : /\ i \in 1..a => s[i].type = "text"
                            /\ i \in a + 1..a + n => s[i].type = "tool_use"
                            /\ i \in 1..a \/ i \in a + 1..a + n
    <3> TAKE i \in 1..a + n
    <3>1. i \in 1..a \/ i \in a + 1..a + n
      BY <2>3
    <3>2. CASE i \in 1..a
      <4>1. s[i].type = "text" /\ i \notin a + 1..a + n
        BY <1>2, <2>3, <2>4, <3>2
      <4>2. QED BY <3>2, <4>1
    <3>3. CASE i \in a + 1..a + n
      <4>1. i - a \in 1..n /\ i \notin 1..a
        BY <2>3, <3>3
      <4>2. s[i].type = "tool_use"
        <5>1. s[i] = u[i - a]
          BY <2>4, <3>3
        <5>2. QED BY <1>2, <2>3, <4>1, <5>1
      <4>3. QED BY <3>3, <4>1, <4>2
    <3>4. QED BY <3>1, <3>2, <3>3
  <2>7. \A i \in DOMAIN s : ~IsResult(s[i])
    BY <2>5, <2>6 DEF IsResult
  <2>8. OfType(s, "tool_result") = <<>>
    BY <2>4, <2>7, OfTypeOfNone DEF IsResult
  <2>9. Positions(s, "tool_use") = (a + 1)..(a + n)
    <3>1. \A i \in (a + 1)..(a + n) : i \in 1..a + n
      BY <2>3
    <3>2. QED BY <2>5, <2>6, <3>1 DEF Positions
  <2>10. OfType(s, "tool_use") = [k \in 1..n |-> s[a + k]]
    BY <2>3, <2>4, <2>9, OfTypeOfSuffix
  <2>11. \A k \in 1..n : s[a + k] = u[k]
    <3> TAKE k \in 1..n
    <3>1. a + k \in a + 1..a + n /\ (a + k) - a = k
      BY <2>3
    <3>2. QED BY <2>4, <3>1
  <2>12. u = [k \in 1..n |-> u[k]]
    BY <1>1, <2>3
  <2>13. OfType(s, "tool_use") = u
    BY <2>10, <2>11, <2>12
  <2>14. QED BY <2>1, <2>2, <2>4, <2>7, <2>8, <2>13 DEF r, u
<1>6. QED BY <1>4, <1>5

\* A message is sent as items: of its blocks, or of its blocks with the results first.
LEMMA TranslatedIsItems ==
    ASSUME NEW p \in Provider, NEW h, NEW c, IsContent(c)
    PROVE  \/ AreItems(Translated(p, h, c), c, KeyOf(p))
           \/ AreItems(Translated(p, h, c), ResultsFirst(c), KeyOf(p))
<1>1. c \in Seq(ContentBlock) /\ ResultsFirst(c) \in Seq(ContentBlock)
  BY ResultsFirstKeeps DEF IsContent
<1>2. /\ \A i \in DOMAIN c : c[i] \in ContentBlock
      /\ \A i \in DOMAIN ResultsFirst(c) : ResultsFirst(c)[i] \in ContentBlock
  BY <1>1
<1>3. CASE p = "anthropic"
  <2>1. Translated(p, h, c) = [i \in DOMAIN c |-> Item(c[i], c[i].id)]
    BY <1>3 DEF Translated, ToAnthropic
  <2>2. AreItems(Translated(p, h, c), c, KeyOf(p))
    BY <1>2, <1>3, <2>1 DEF AreItems, Item, KeyOf
  <2>3. QED BY <2>2
<1>4. CASE p = "google"
  <2>1. \A b \in ContentBlock : ~(IsResult(b) /\ b.name = Nothing)
    BY BlockKinds
  <2>2. Translated(p, h, c) = [i \in DOMAIN c |-> Item(c[i], c[i].name)]
    BY <1>2, <1>4, <2>1 DEF Translated, ToGoogle
  <2>3. AreItems(Translated(p, h, c), c, KeyOf(p))
    BY <1>2, <1>4, <2>2 DEF AreItems, Item, KeyOf
  <2>4. QED BY <2>3
<1> DEFINE s == ResultsFirst(c)
<1>5. CASE p = "openai_compatible"
  <2>1. Translated(p, h, c) = [i \in DOMAIN s |-> Item(s[i], s[i].id)]
    BY <1>5 DEF Translated, ToOpenai
  <2>2. AreItems(Translated(p, h, c), s, KeyOf(p))
    BY <1>2, <1>5, <2>1 DEF AreItems, Item, KeyOf
  <2>3. QED BY <2>2
<1>6. CASE p = "ollama"
  <2>1. Translated(p, h, c) = [i \in DOMAIN s |-> Item(s[i], Nothing)]
    BY <1>6 DEF Translated, ToOllama
  <2>2. AreItems(Translated(p, h, c), s, KeyOf(p))
    BY <1>2, <1>6, <2>1 DEF AreItems, Item, KeyOf
  <2>3. QED BY <2>2
<1>7. QED BY <1>3, <1>4, <1>5, <1>6 DEF Provider

\* So each provider is sent a message's calls and results by its own keys, in their order,
\* and the results before anything else.
LEMMA TranslatedKeys ==
    ASSUME NEW p \in Provider, NEW h, NEW c, IsContent(c),
           NEW type \in {"tool_use", "tool_result"}
    PROVE  /\ Keys(Translated(p, h, c), type) = KeysBy(KeyOf(p), OfType(c, type))
           /\ \A j \in Positions(Translated(p, h, c), "tool_result") :
                1..j \subseteq Positions(Translated(p, h, c), "tool_result")
<1> DEFINE s == Translated(p, h, c)
<1>1. PICK d \in {c, ResultsFirst(c)} : AreItems(s, d, KeyOf(p))
  BY TranslatedIsItems
<1>2. /\ d \in Seq(ContentBlock)
      /\ \A j, k \in DOMAIN d : IsResult(d[j]) => IsResult(d[k])
      /\ OfType(d, type) = OfType(c, type)
  BY <1>1, ResultsFirstKeeps DEF IsContent
<1> HIDE DEF s
<1>3. Keys(s, type) = KeysBy(KeyOf(p), OfType(d, type))
  <2>1. d \in Seq(ContentBlock) /\ AreItems(s, d, KeyOf(p))
    BY <1>1, <1>2
  <2> DEFINE key == KeyOf(p)
  <2> HIDE DEF key
  <2>2. AreItems(s, d, key)
    BY <2>1 DEF key
  <2>3. Keys(s, type) = KeysBy(key, OfType(d, type))
    BY <2>1, <2>2, KeysOfItems
  <2>4. QED BY <2>3 DEF key
<1>4. Positions(s, "tool_result") = Positions(d, "tool_result")
  BY <1>1, <1>2, KeysOfItems
<1>5. ASSUME NEW j \in Positions(d, "tool_result"), NEW k \in 1..j
      PROVE  k \in Positions(d, "tool_result")
  <2>1. j \in 1..Len(d) /\ IsResult(d[j]) /\ DOMAIN d = 1..Len(d)
    BY <1>2 DEF Positions, IsResult
  <2>2. k \in DOMAIN d
    BY <2>1
  <2>3. QED BY <1>2, <2>1, <2>2 DEF Positions, IsResult
<1>6. QED BY <1>2, <1>3, <1>4, <1>5 DEF s

-----------------------------------------------------------------------------
(* The history, message by message                                         *)

\* Each message answers the calls of the one before it.
IsHistory(h) ==
    /\ h \in Seq([role : {"user", "assistant"}, content : Seq(ContentBlock)])
    /\ \A i \in DOMAIN h :
        /\ IsContent(h[i].content)
        /\ OfType(h[i].content, "tool_result") =
                IF i = 1 THEN <<>> ELSE ResultsOf(CallsOf(h[i - 1].content))

\* No call waits for its result.
Closed(h) == h # <<>> => CallsOf(h[Len(h)].content) = <<>>

\* The results so far are those of the first calls of the last message; the calls that are
\* still to execute are the others.
Executing ==
    LET calls == CallsOf(messages[Len(messages)].content)
    IN /\ messages # <<>> /\ pending # <<>>
       /\ pending \in Seq(ContentBlock) /\ results \in Seq(ContentBlock)
       /\ Len(calls) = Len(results) + Len(pending)
       /\ \A k \in DOMAIN results : results[k] = Result(calls[k])
       /\ \A k \in DOMAIN pending : pending[k] = calls[Len(results) + k]

HistoryInv ==
    /\ IsHistory(kept) /\ Closed(kept)
    /\ IsHistory(messages)
    /\ phase # "tools" => Closed(messages)
    /\ phase = "tools" => Executing

\* The calls of a message, each with its id.
LEMMA CallsOfContent ==
    ASSUME NEW c, IsContent(c)
    PROVE  /\ CallsOf(c) \in Seq(Use)
           /\ \A k \in DOMAIN CallsOf(c) : IsCall(CallsOf(c)[k])
           /\ \A j, k \in DOMAIN CallsOf(c) : CallsOf(c)[j].id = CallsOf(c)[k].id => j = k
<1> DEFINE calls == OfType(c, "tool_use")
           at == Positions(c, "tool_use")
           n == Cardinality(at)
<1>1. c \in Seq(ContentBlock)
  BY DEF IsContent
<1>2. /\ calls \in Seq(ContentBlock) /\ Len(calls) = n /\ n \in Nat
      /\ \A k \in 1..n : /\ Nth(at, k) \in DOMAIN c /\ calls[k] = c[Nth(at, k)]
                         /\ calls[k].type = "tool_use"
      /\ \A k, l \in 1..n : Nth(at, k) = Nth(at, l) => k = l
  BY <1>1, OfTypeTakes
<1> HIDE DEF calls, at, n
<1>3. DOMAIN calls = 1..n
  BY <1>2
<1>4. \A k \in 1..n : IsCall(calls[k]) /\ calls[k] \in Use
  <2> TAKE k \in 1..n
  <2>1. IsCall(calls[k]) /\ calls[k] \in ContentBlock
    BY <1>2, <1>3 DEF IsCall
  <2>2. QED BY <2>1, BlockKinds
<1>5. calls \in Seq(Use)
  BY <1>2, <1>3, <1>4
<1>6. \A j, k \in 1..n : calls[j].id = calls[k].id => j = k
  BY <1>2, <1>4 DEF IsContent, DistinctIds
<1>7. QED BY <1>3, <1>4, <1>5, <1>6 DEF CallsOf, calls

\* What a provider pairs a result by, it pairs its call by.
LEMMA KeysOfResults ==
    ASSUME NEW p \in Provider, NEW calls \in Seq(Use)
    PROVE  KeysBy(KeyOf(p), ResultsOf(calls)) = KeysBy(KeyOf(p), calls)
<1>1. DOMAIN ResultsOf(calls) = DOMAIN calls
  BY DEF ResultsOf
<1>2. \A k \in DOMAIN calls : KeyOf(p)[ResultsOf(calls)[k]] = KeyOf(p)[calls[k]]
  <2> TAKE k \in DOMAIN calls
  <2>1. calls[k] \in Use /\ ResultsOf(calls)[k] = Result(calls[k])
    BY DEF ResultsOf
  <2>2. Result(calls[k]) \in ContentBlock /\ calls[k] \in ContentBlock
    BY <2>1, ResultIsBlock DEF ContentBlock
  <2>3. Result(calls[k]).id = calls[k].id /\ Result(calls[k]).name = calls[k].name
    BY DEF Result
  <2>4. QED BY <2>1, <2>2, <2>3 DEF KeyOf
<1>3. QED BY <1>1, <1>2 DEF KeysBy

\* A history without waiting calls can be sent to any provider.
LEMMA HistoryIsPaired ==
    ASSUME NEW p \in Provider, NEW h, IsHistory(h), Closed(h)
    PROVE  Paired(p, Sent(p, h))
<1> DEFINE sent == Sent(p, h)
           c(i) == h[i].content
           key == KeyOf(p)
<1>1. /\ h \in Seq([role : {"user", "assistant"}, content : Seq(ContentBlock)])
      /\ Len(h) \in Nat /\ DOMAIN h = 1..Len(h) /\ DOMAIN sent = 1..Len(h) /\ Len(sent) = Len(h)
      /\ \A i \in 1..Len(h) : sent[i] = Translated(p, h, c(i)) /\ IsContent(c(i))
      /\ \A i \in 1..Len(h) : OfType(c(i), "tool_result") =
                                IF i = 1 THEN <<>> ELSE ResultsOf(CallsOf(c(i - 1)))
  <2>1. h \in Seq([role : {"user", "assistant"}, content : Seq(ContentBlock)])
    BY DEF IsHistory
  <2>2. Len(h) \in Nat /\ DOMAIN h = 1..Len(h)
    BY <2>1
  <2>3. sent = [i \in 1..Len(h) |-> Translated(p, h, c(i))]
    BY <2>2 DEF Sent
  <2>4. DOMAIN sent = 1..Len(h) /\ Len(sent) = Len(h)
    BY <2>2, <2>3
  <2>5. \A i \in 1..Len(h) : sent[i] = Translated(p, h, c(i))
    BY <2>3
  <2> HIDE DEF sent
  <2>6. QED BY <2>1, <2>2, <2>4, <2>5 DEF IsHistory
<1> HIDE DEF sent, c, key
<1>2. \A i \in 1..Len(h) :
        /\ Keys(sent[i], "tool_use") = KeysBy(key, CallsOf(c(i)))
        /\ Keys(sent[i], "tool_result") = KeysBy(key, OfType(c(i), "tool_result"))
        /\ \A j \in Positions(sent[i], "tool_result") :
                1..j \subseteq Positions(sent[i], "tool_result")
  BY <1>1, TranslatedKeys DEF CallsOf, key
<1>3. KeysBy(key, <<>>) = <<>>
  BY DEF KeysBy
<1>4. ASSUME NEW i \in DOMAIN sent
      PROVE  Keys(sent[i], "tool_result") = IF i = 1 THEN <<>> ELSE Keys(sent[i - 1], "tool_use")
  <2>1. CASE i = 1
    BY <1>1, <1>2, <1>3, <2>1
  <2>2. CASE i # 1
    <3>1. i - 1 \in 1..Len(h) /\ i \in 1..Len(h)
      BY <1>1, <2>2
    <3>2. CallsOf(c(i - 1)) \in Seq(Use)
      BY <1>1, <3>1, CallsOfContent
    <3>3. KeysBy(key, ResultsOf(CallsOf(c(i - 1)))) = KeysBy(key, CallsOf(c(i - 1)))
      BY <3>2, KeysOfResults DEF key
    <3>4. Keys(sent[i], "tool_result") = KeysBy(key, ResultsOf(CallsOf(c(i - 1))))
      BY <1>1, <1>2, <2>2, <3>1
    <3>5. Keys(sent[i - 1], "tool_use") = KeysBy(key, CallsOf(c(i - 1)))
      BY <1>2, <3>1
    <3>6. QED BY <2>2, <3>3, <3>4, <3>5
  <2>3. QED BY <2>1, <2>2
<1>5. ASSUME NEW i \in DOMAIN sent, p \in {"anthropic", "openai_compatible"},
             NEW j \in DOMAIN Keys(sent[i], "tool_use"), NEW k \in DOMAIN Keys(sent[i], "tool_use"),
             Keys(sent[i], "tool_use")[j] = Keys(sent[i], "tool_use")[k]
      PROVE  j = k
  <2> DEFINE calls == CallsOf(c(i))
  <2>1. /\ calls \in Seq(Use)
        /\ \A a, b \in DOMAIN calls : calls[a].id = calls[b].id => a = b
    BY <1>1, CallsOfContent
  <2>2. Keys(sent[i], "tool_use") = [a \in DOMAIN calls |-> key[calls[a]]]
    BY <1>1, <1>2 DEF KeysBy
  <2> HIDE DEF calls
  <2>3. \A a \in DOMAIN calls : key[calls[a]] = calls[a].id
    <3> TAKE a \in DOMAIN calls
    <3>1. calls[a] \in ContentBlock
      BY <2>1 DEF ContentBlock
    <3>2. QED BY <1>5, <3>1 DEF key, KeyOf
  <2>4. j \in DOMAIN calls /\ k \in DOMAIN calls /\ calls[j].id = calls[k].id
    BY <1>5, <2>2, <2>3
  <2>5. QED BY <2>1, <2>4
<1>6. ASSUME sent # <<>> PROVE Keys(sent[Len(sent)], "tool_use") = <<>>
  <2>1. Len(h) # 0
    <3>1. Len(h) = 0 => sent = <<>>
      <4>1. sent = [i \in DOMAIN h |-> sent[i]]
        BY DEF sent, Sent
      <4>2. ASSUME Len(h) = 0 PROVE DOMAIN h = {}
        BY <1>1, <4>2
      <4>3. QED BY <4>1, <4>2
    <3>2. QED BY <1>6, <3>1
  <2>2. Len(h) \in 1..Len(h) /\ h # <<>>
    BY <1>1, <2>1
  <2>3. CallsOf(c(Len(h))) = <<>>
    BY <2>2 DEF Closed, c
  <2>4. Keys(sent[Len(h)], "tool_use") = KeysBy(key, <<>>)
    BY <1>2, <2>2, <2>3
  <2>5. QED BY <1>1, <1>3, <2>4
<1>7. QED BY <1>1, <1>2, <1>4, <1>5, <1>6 DEF Paired, sent

LEMMA LastMessage ==
    ASSUME NEW h, IsHistory(h), h # <<>>
    PROVE  Len(h) \in DOMAIN h /\ IsContent(h[Len(h)].content)
<1> DEFINE M == [role : {"user", "assistant"}, content : Seq(ContentBlock)]
<1>1. h \in Seq(M)
  BY DEF IsHistory
<1> HIDE DEF M
<1>2. Len(h) \in DOMAIN h
  BY <1>1
<1>3. QED BY <1>2 DEF IsHistory

\* A message may follow that answers the calls of the last one.
LEMMA HistoryGrows ==
    ASSUME NEW h, IsHistory(h), NEW role \in {"user", "assistant"}, NEW c, IsContent(c),
           OfType(c, "tool_result") =
                IF h = <<>> THEN <<>> ELSE ResultsOf(CallsOf(h[Len(h)].content))
    PROVE  LET longer == Append(h, Message(role, c))
           IN /\ IsHistory(longer) /\ longer # <<>>
              /\ longer[Len(longer)].content = c
<1> DEFINE M == [role : {"user", "assistant"}, content : Seq(ContentBlock)]
           m == Message(role, c)
           longer == Append(h, m)
           n == Len(h)
<1>1. /\ h \in Seq(M) /\ n \in Nat /\ DOMAIN h = 1..n
      /\ \A i \in 1..n :
            /\ IsContent(h[i].content)
            /\ OfType(h[i].content, "tool_result") =
                    IF i = 1 THEN <<>> ELSE ResultsOf(CallsOf(h[i - 1].content))
  <2>1. h \in Seq(M)
    BY DEF IsHistory
  <2> HIDE DEF M
  <2>2. n \in Nat /\ DOMAIN h = 1..n
    BY <2>1
  <2>3. QED BY <2>1, <2>2 DEF IsHistory
<1>2. m \in M /\ m.content = c
  BY DEF Message, IsContent
<1>3. h = <<>> <=> n = 0
  BY <1>1
<1> HIDE DEF m
<1>4. /\ longer \in Seq(M) /\ Len(longer) = n + 1
      /\ \A i \in 1..n : longer[i] = h[i]
      /\ longer[n + 1] = m
  <2> HIDE DEF M
  <2>1. QED BY <1>1, <1>2, AppendProperties
<1> HIDE DEF longer, M, n
<1>5. DOMAIN longer = 1..n + 1 /\ longer # <<>>
  BY <1>1, <1>4
<1>6. ASSUME NEW i \in 1..n + 1
      PROVE  /\ IsContent(longer[i].content)
             /\ OfType(longer[i].content, "tool_result") =
                    IF i = 1 THEN <<>> ELSE ResultsOf(CallsOf(longer[i - 1].content))
  <2>1. CASE i \in 1..n
    <3>1. longer[i] = h[i] /\ (i # 1 => longer[i - 1] = h[i - 1])
      BY <1>1, <1>4, <2>1
    <3>2. QED BY <1>1, <2>1, <3>1
  <2>2. CASE i = n + 1
    <3>1. longer[i].content = c /\ (i = 1 <=> h = <<>>)
      BY <1>1, <1>2, <1>3, <1>4, <2>2
    <3>2. i # 1 => longer[i - 1] = h[n]
      BY <1>1, <1>4, <2>2
    <3>3. QED BY <3>1, <3>2 DEF n
  <2>3. QED BY <1>1, <2>1, <2>2
<1>7. IsHistory(longer)
  BY <1>4, <1>5, <1>6 DEF IsHistory, M
<1>8. longer[Len(longer)].content = c
  BY <1>2, <1>4
<1>9. QED BY <1>5, <1>7, <1>8 DEF longer, m

LEMMA AnswerFollows ==
    ASSUME NEW h, IsHistory(h), Closed(h), NEW role \in {"user", "assistant"}, NEW c, IsAnswer(c)
    PROVE  LET longer == Append(h, Message(role, c))
           IN /\ IsHistory(longer) /\ longer # <<>>
              /\ longer[Len(longer)].content = c
<1>1. OfType(c, "tool_result") = <<>>
  BY OfTypeOfNone DEF IsAnswer, IsResult
<1>2. ResultsOf(<<>>) = <<>>
  BY DEF ResultsOf
<1>3. QED BY <1>1, <1>2, AnswerIsContent, HistoryGrows DEF Closed

LEMMA QuestionFollows ==
    ASSUME NEW h, IsHistory(h), Closed(h)
    PROVE  LET longer == Append(h, Message("user", <<Text>>))
           IN IsHistory(longer) /\ Closed(longer)
<1>1. CallsOf(<<Text>>) = <<>>
  <2>1. <<Text>> \in Seq(ContentBlock) /\ \A i \in DOMAIN <<Text>> : <<Text>>[i] = Text
    BY DEF ContentBlock
  <2>2. QED BY <2>1, BlockKinds, OfTypeOfNone DEF CallsOf, IsCall
<1>2. QED BY <1>1, EmptyText, AnswerFollows DEF Closed

\* The results of all calls of the last message close it.
LEMMA ResultsFollow ==
    ASSUME NEW h, IsHistory(h), h # <<>>
    PROVE  LET longer == Append(h, Message("user", ResultsOf(CallsOf(h[Len(h)].content))))
           IN IsHistory(longer) /\ Closed(longer)
<1> DEFINE calls == CallsOf(h[Len(h)].content)
           c == ResultsOf(calls)
<1>1. IsContent(h[Len(h)].content)
  BY LastMessage
<1>2. calls \in Seq(Use)
  BY <1>1, CallsOfContent
<1> HIDE DEF calls
<1>3. /\ c \in Seq(ContentBlock) /\ DOMAIN c = DOMAIN calls
      /\ \A k \in DOMAIN c : IsResult(c[k])
  BY <1>2, ResultIsBlock DEF ResultsOf
<1> HIDE DEF c
<1>4. \A k \in DOMAIN c : ~IsCall(c[k])
  BY <1>3 DEF IsResult, IsCall
<1>5. IsContent(c)
  BY <1>3, <1>4 DEF IsContent, DistinctIds
<1>6. OfType(c, "tool_result") = c
  BY <1>3, OfTypeOfAll DEF IsResult
<1>7. CallsOf(c) = <<>>
  BY <1>3, <1>4, OfTypeOfNone DEF CallsOf, IsCall
<1>8. LET longer == Append(h, Message("user", c))
      IN IsHistory(longer) /\ longer # <<>> /\ longer[Len(longer)].content = c
  BY <1>5, <1>6, HistoryGrows DEF c, calls
<1>9. QED BY <1>7, <1>8 DEF Closed, c, calls

\* A call executed leaves the others of its message.
LEMMA OneExecuted ==
    ASSUME IsHistory(messages), Executing
    PROVE  LET done == results \o ResultOf(Head(pending))
               calls == CallsOf(messages[Len(messages)].content)
           IN /\ Len(pending) > 1 =>
                    /\ Tail(pending) # <<>>
                    /\ Tail(pending) \in Seq(ContentBlock) /\ done \in Seq(ContentBlock)
                    /\ Len(calls) = Len(done) + Len(Tail(pending))
                    /\ \A k \in DOMAIN done : done[k] = Result(calls[k])
                    /\ \A k \in DOMAIN Tail(pending) : Tail(pending)[k] = calls[Len(done) + k]
              /\ ~(Len(pending) > 1) => done = ResultsOf(calls)
<1> DEFINE one == ResultOf(Head(pending))
           done == results \o one
           calls == CallsOf(messages[Len(messages)].content)
           rest == Tail(pending)
           r == Len(results)
           n == Len(pending)
<1>1. calls \in Seq(Use)
  <2>1. messages # <<>> /\ IsContent(messages[Len(messages)].content)
    BY LastMessage DEF Executing
  <2>2. QED BY <2>1, CallsOfContent
<1>2. /\ pending # <<>> /\ pending \in Seq(ContentBlock) /\ results \in Seq(ContentBlock)
      /\ r \in Nat /\ n \in Nat \ {0} /\ Len(calls) = r + n
      /\ DOMAIN results = 1..r /\ DOMAIN pending = 1..n
      /\ \A k \in 1..r : results[k] = Result(calls[k])
      /\ \A k \in 1..n : pending[k] = calls[r + k]
  <2>1. pending # <<>> /\ pending \in Seq(ContentBlock) /\ results \in Seq(ContentBlock)
    BY DEF Executing
  <2>2. r \in Nat /\ n \in Nat \ {0} /\ DOMAIN results = 1..r /\ DOMAIN pending = 1..n
    BY <2>1
  <2>3. QED BY <2>1, <2>2 DEF Executing
<1> HIDE DEF calls
<1>3. DOMAIN calls = 1..r + n /\ \A k \in 1..r + n : calls[k] \in Use
  BY <1>1, <1>2
<1>4. Head(pending) = calls[r + 1] /\ calls[r + 1] \in Use
  <2>1. Head(pending) = pending[1] /\ 1 \in 1..n /\ r + 1 \in 1..r + n
    BY <1>2
  <2>2. QED BY <1>2, <1>3, <2>1
<1>5. one \in Seq(ContentBlock) /\ Len(one) = 1 /\ one[1] = Result(calls[r + 1])
  BY <1>4, ResultIsBlock DEF ResultOf
<1> HIDE DEF one
<1>6. /\ done \in Seq(ContentBlock) /\ Len(done) = r + 1
      /\ \A k \in 1..r : done[k] = results[k]
      /\ done[r + 1] = one[1]
  <2>1. results \in Seq(ContentBlock) /\ one \in Seq(ContentBlock)
    BY <1>2, <1>5
  <2>2. /\ done \in Seq(ContentBlock) /\ Len(done) = Len(results) + Len(one)
        /\ \A k \in 1..Len(results) + Len(one) :
                done[k] = IF k <= Len(results) THEN results[k] ELSE one[k - Len(results)]
    BY <2>1, ConcatProperties
  <2> HIDE DEF done, r
  <2>3. r \in Nat /\ Len(results) = r /\ Len(one) = 1
    BY <1>2, <1>5 DEF r
  <2>4. r + 1 \in 1..r + 1 /\ ~(r + 1 <= r) /\ (r + 1) - r = 1
    BY <2>3
  <2>5. \A k \in 1..r : k \in 1..r + 1 /\ k <= r
    BY <2>3
  <2>6. QED BY <2>2, <2>3, <2>4, <2>5
<1>7. /\ rest \in Seq(ContentBlock) /\ Len(rest) = n - 1
      /\ \A k \in 1..n - 1 : rest[k] = pending[k + 1]
  BY <1>2, HeadTailProperties
<1> HIDE DEF done, rest, r, n
<1>8. DOMAIN done = 1..r + 1 /\ \A k \in 1..r + 1 : done[k] = Result(calls[k])
  <2>1. DOMAIN done = 1..r + 1
    BY <1>6
  <2>2. \A k \in 1..r + 1 : k \in 1..r \/ k = r + 1
    BY <1>2
  <2>3. QED BY <1>2, <1>5, <1>6, <2>1, <2>2
<1>9. ASSUME n > 1
      PROVE  /\ rest # <<>>
             /\ Len(calls) = Len(done) + Len(rest)
             /\ \A k \in DOMAIN rest : rest[k] = calls[Len(done) + k]
  <2>1. Len(rest) # 0 /\ Len(calls) = Len(done) + Len(rest) /\ DOMAIN rest = 1..n - 1
    BY <1>2, <1>6, <1>7, <1>9
  <2>2. ASSUME NEW k \in 1..n - 1 PROVE rest[k] = calls[Len(done) + k]
    <3>1. k + 1 \in 1..n /\ r + (k + 1) = (r + 1) + k
      BY <1>2
    <3>2. QED BY <1>2, <1>6, <1>7, <3>1
  <2>3. rest # <<>>
    <3>1. Len(<<>>) = 0
      OBVIOUS
    <3>2. QED BY <2>1, <3>1
  <2>4. QED BY <2>1, <2>2, <2>3
<1>10. ASSUME ~(n > 1) PROVE done = ResultsOf(calls)
  <2>1. n = 1
    BY <1>2, <1>10
  <2>2. DOMAIN calls = 1..r + 1
    BY <1>3, <2>1
  <2>3. done = [k \in DOMAIN done |-> done[k]]
    BY <1>6
  <2>4. QED BY <1>8, <2>2, <2>3 DEF ResultsOf
<1>11. QED BY <1>6, <1>7, <1>8, <1>9, <1>10 DEF one, done, calls, rest, n

\* A call that returns leaves the client a history without waiting calls.
LEMMA ReturnedHistory ==
    ASSUME HistoryInv, NEW a, NEW h, IsHistory(h), Closed(h), Return(a, h)
    PROVE  HistoryInv'
<1>1. phase' = "idle" /\ messages' = <<>> /\ (kept' = h \/ kept' = kept)
  BY DEF Return
<1>2. IsHistory(<<>>) /\ Closed(<<>>)
  BY DEF IsHistory, Closed
<1>3. QED BY <1>1, <1>2 DEF HistoryInv

\* A step that is not of a tool and leaves the histories as they are.
LEMMA HistoryKept ==
    ASSUME HistoryInv, phase # "tools", phase' # "tools", UNCHANGED <<messages, kept>>
    PROVE  HistoryInv'
  BY DEF HistoryInv

LEMMA ReplyStep ==
    ASSUME HistoryInv, phase = "calling", via \in Provider, Reply
    PROVE  HistoryInv'
<1>1. PICK parts \in Response[via] :
        LET content == Received(via, parts)
            history == Append(messages, Message("assistant", content))
            calls == OfType(content, "tool_use")
        IN IF calls = <<>>
           THEN Return("reply", history)
           ELSE /\ messages' = history
                /\ phase' = "tools" /\ pending' = calls /\ results' = <<>>
                /\ UNCHANGED kept
  BY DEF Reply, clientVars
<1> DEFINE content == Received(via, parts)
           history == Append(messages, Message("assistant", content))
           calls == CallsOf(content)
<1>2. IsAnswer(content)
  BY ReceivedIsAnswer
<1>3. IsHistory(messages) /\ Closed(messages)
  BY DEF HistoryInv
<1> HIDE DEF content
<1>4. IsHistory(history) /\ history # <<>> /\ history[Len(history)].content = content
  BY <1>2, <1>3, AnswerFollows
<1> HIDE DEF history
<1>5. CASE calls = <<>>
  <2>1. Return("reply", history)
    BY <1>1, <1>5 DEF content, history, CallsOf
  <2>2. Closed(history)
    BY <1>4, <1>5 DEF Closed
  <2>3. QED BY <1>4, <2>1, <2>2, ReturnedHistory
<1>6. CASE calls # <<>>
  <2>1. /\ messages' = history /\ kept' = kept
        /\ phase' = "tools" /\ pending' = calls /\ results' = <<>>
    BY <1>1, <1>6 DEF content, history, CallsOf
  <2>2. calls \in Seq(Use)
    BY <1>2, AnswerIsContent, CallsOfContent
  <2> HIDE DEF calls
  <2>3. calls \in Seq(ContentBlock)
    BY <2>2 DEF ContentBlock
  <2>4. /\ <<>> \in Seq(ContentBlock) /\ Len(<<>>) = 0 /\ DOMAIN <<>> = {}
        /\ \A k \in DOMAIN calls : 0 + k = k
    BY <2>2
  <2>5. Len(calls) = 0 + Len(calls)
    BY <2>2
  <2>6. Executing'
    BY <1>4, <1>6, <2>1, <2>3, <2>4, <2>5 DEF Executing, calls
  <2>7. QED BY <1>4, <2>1, <2>6 DEF HistoryInv
<1>7. QED BY <1>5, <1>6

LEMMA RunToolStep ==
    ASSUME HistoryInv, RunTool
    PROVE  HistoryInv'
<1> DEFINE done == results \o ResultOf(Head(pending))
           history == Append(messages, Message("user", done))
           calls == CallsOf(messages[Len(messages)].content)
<1>1. IsHistory(messages) /\ Executing /\ messages # <<>>
  BY DEF RunTool, HistoryInv, Executing
<1>2. CASE Len(pending) > 1
  <2>1. /\ results' = done /\ pending' = Tail(pending)
        /\ UNCHANGED <<phase, messages, kept>> /\ phase = "tools"
    BY <1>2 DEF RunTool, clientVars
  <2>2. Executing'
    BY <1>1, <1>2, <2>1, OneExecuted DEF Executing
  <2>3. QED BY <2>1, <2>2 DEF HistoryInv
<1>3. CASE ~(Len(pending) > 1)
  <2>1. done = ResultsOf(calls)
    BY <1>1, <1>3, OneExecuted
  <2>2. IsHistory(history) /\ Closed(history)
    BY <1>1, <2>1, ResultsFollow
  <2>3. \/ phase' = "turn" /\ messages' = history /\ UNCHANGED kept
        \/ Return("truncated", history)
    BY <1>3 DEF RunTool, clientVars
  <2> HIDE DEF done, history
  <2>4. CASE phase' = "turn" /\ messages' = history /\ UNCHANGED kept
    BY <2>2, <2>4 DEF HistoryInv
  <2>5. CASE Return("truncated", history)
    BY <2>2, <2>5, ReturnedHistory
  <2>6. QED BY <2>3, <2>4, <2>5
<1>4. QED BY <1>2, <1>3

LEMMA HistoryStep == HistoryInv /\ [ChatNext]_chatVars => HistoryInv'
<1> SUFFICES ASSUME HistoryInv, [ChatNext]_chatVars PROVE HistoryInv'
  OBVIOUS
<1>1. CASE Reconfigure
  BY <1>1, HistoryKept DEF Reconfigure, loopVars, clientVars
<1>2. ASSUME NEW j \in {"chat", "completion"}, Ask(j) PROVE HistoryInv'
  <2>1. /\ phase' = "turn" /\ kept' = kept
        /\ messages' = IF j = "chat" THEN Append(kept, Message("user", <<Text>>)) ELSE <<>>
    BY <1>2 DEF Ask
  <2>2. IsHistory(messages') /\ Closed(messages')
    <3>1. IsHistory(<<>>) /\ Closed(<<>>)
      BY DEF IsHistory, Closed
    <3>2. QED BY <2>1, <3>1, QuestionFollows DEF HistoryInv
  <2>3. QED BY <2>1, <2>2 DEF HistoryInv
<1>3. CASE CallWithTools \/ CallSingleShot
  BY <1>3, HistoryKept DEF CallWithTools, CallSingleShot, Route, loopVars, clientVars
<1>4. CASE Again
  BY <1>4, HistoryKept DEF Again, loopVars, clientVars
<1>5. CASE RunTool
  BY <1>5, RunToolStep
<1>5a. CASE ResultEscapes \/ OthersRequest
  <2>1. CASE ResultEscapes
    <3>1. phase' = "idle" /\ messages' = <<>> /\ kept' = kept
      BY <2>1 DEF ResultEscapes, Return
    <3>2. IsHistory(<<>>) /\ Closed(<<>>)
      BY DEF IsHistory, Closed
    <3>3. QED BY <3>1, <3>2 DEF HistoryInv
  <2>2. CASE OthersRequest
    BY <2>2 DEF OthersRequest, loopVars, clientVars, HistoryInv, Executing
  <2>3. QED BY <1>5a, <2>1, <2>2
<1>6. ASSUME phase = "calling", via \in Provider,
             NoKey \/ Retry \/ RequestFails \/ Unusable \/ Escapes \/ Complete \/ Reply
      PROVE  HistoryInv'
  <2>1. IsHistory(messages) /\ Closed(messages)
    BY <1>6 DEF HistoryInv
  <2>2. CASE Retry
    BY <1>6, <2>2, HistoryKept DEF Retry, loopVars, clientVars
  <2>3. CASE NoKey \/ RequestFails \/ Unusable \/ Escapes \/ Complete
    <3>1. \E a \in Answer : Return(a, messages)
      BY <2>3 DEF NoKey, RequestFails, Unusable, Escapes, Complete, Answer
    <3>2. QED BY <2>1, <3>1, ReturnedHistory
  <2>4. CASE Reply
    BY <1>6, <2>4, ReplyStep
  <2>5. QED BY <1>6, <2>2, <2>3, <2>4
<1>7. CASE NoKey
  <2>1. phase = "calling"
    BY <1>7 DEF NoKey
  <2>2. IsHistory(messages) /\ Closed(messages)
    BY <2>1 DEF HistoryInv
  <2>3. \E a \in Answer : Return(a, messages)
    BY <1>7 DEF NoKey, Answer
  <2>4. QED BY <2>2, <2>3, ReturnedHistory
<1>8. CASE CallOllama \/ CallAnthropic \/ CallOpenaiCompatibleSingleShot \/ CallGoogle
  BY <1>6, <1>8 DEF CallOllama, CallAnthropic, CallOpenaiCompatibleSingleShot, CallGoogle,
     Requesting, Provider
<1>9. CASE \/ CallOllamaWithTools \/ CallAnthropicWithTools
           \/ CallOpenaiCompatibleWithTools \/ CallGoogleWithTools
  BY <1>6, <1>9 DEF CallOllamaWithTools, CallAnthropicWithTools,
     CallOpenaiCompatibleWithTools, CallGoogleWithTools, Requesting, Provider
<1>10. CASE UNCHANGED chatVars
  BY <1>10 DEF chatVars, loopVars, clientVars, HistoryInv, Executing
<1>11. QED BY <1>1, <1>2, <1>3, <1>4, <1>5, <1>5a, <1>7, <1>8, <1>9, <1>10 DEF ChatNext, Serve

(* Every provider can be sent the history that a request starts from, whoever answered    *)
(* before: each call stands answered in the next message, by the key the provider pairs   *)
(* by, for any responses, tools, limits, errors and changes of provider (run_ai_chat, the *)
(* _to_..._messages and _from_..._response of the providers).                             *)
THEOREM CallsHaveAnswers == ChatSpec => []CallsAreAnswered
<1>1. ChatInit => HistoryInv
  <2>1. IsHistory(<<>>) /\ Closed(<<>>)
    BY DEF IsHistory, Closed
  <2>2. QED BY <2>1 DEF ChatInit, HistoryInv
<1>2. HistoryInv => CallsAreAnswered
  BY HistoryIsPaired DEF HistoryInv, CallsAreAnswered
<1>3. QED BY <1>1, <1>2, HistoryStep, PTL DEF ChatSpec

-----------------------------------------------------------------------------
(* The end of a call                                                       *)

\* Where a call is in its round-trips, and a request in its attempts.
BoundInv ==
    /\ iteration \in 0..MaxIterations - 1 /\ attempt \in 0..MaxAttempts
    /\ rounds \in 0..MaxIterations
    /\ phase = "turn" => attempt = 0 /\ rounds = iteration
    /\ phase = "calling" => attempt >= 1 /\ rounds = iteration
    /\ phase = "backoff" => attempt >= 1 /\ attempt < MaxAttempts /\ rounds = iteration
    /\ phase = "tools" => attempt = 0 /\ rounds = iteration + 1
    /\ phase = "idle" => attempt = 0 /\ iteration = 0

\* How far a round-trip is.
Stage ==
    CASE phase = "turn" -> 0
      [] phase = "calling" -> 2 * attempt
      [] phase = "backoff" -> 2 * attempt + 1
      [] OTHER -> 2 * MaxAttempts + 1

\* What a step of a call does to it.
Advances ==
    \/ phase' = "idle"
    \/ phase # "idle" /\ iteration' = iteration + 1
    \/ phase # "idle" /\ iteration' = iteration /\ Stage' > Stage
    \/ /\ phase = "tools" /\ phase' = "tools" /\ iteration' = iteration
       /\ Len(pending) \in Nat /\ Len(pending') \in Nat /\ Len(pending') < Len(pending)

LEMMA ReturnedBounds ==
    ASSUME BoundInv, phase # "idle", NEW a, NEW h, Return(a, h),
           rounds' = rounds \/ (phase = "calling" /\ rounds' = rounds + 1)
    PROVE  BoundInv' /\ Advances
BY LimitAssumption DEF BoundInv, Return, Advances

LEMMA BoundStep ==
    ASSUME BoundInv, CallInv, HistoryInv, Serve
    PROVE  BoundInv' /\ Advances
<1> USE LimitAssumption
<1>1. CASE CallWithTools \/ CallSingleShot
  <2>1. /\ phase = "turn" /\ phase' = "calling" /\ attempt' = 1
        /\ UNCHANGED <<iteration, rounds>>
    BY <1>1 DEF CallWithTools, CallSingleShot, Route, loopVars, recordVars
  <2>2. QED BY <2>1 DEF BoundInv, Advances, Stage
<1>2. CASE NoKey
  <2>1. phase = "calling" /\ rounds' = rounds /\ \E a : Return(a, messages)
    BY <1>2 DEF NoKey, recordVars
  <2>2. QED BY <2>1, ReturnedBounds
<1>3. CASE Again
  <2>1. /\ phase = "backoff" /\ phase' = "calling" /\ attempt' = attempt + 1
        /\ UNCHANGED <<iteration, rounds>>
    BY <1>3 DEF Again, NextAttempt, loopVars, recordVars
  <2>2. QED BY <2>1 DEF BoundInv, Advances, Stage
<1>4. CASE RunTool
  <2>1. phase = "tools" /\ rounds' = rounds
    BY <1>4 DEF RunTool, recordVars
  <2>2. CASE Len(pending) > 1
    <3>1. pending' = Tail(pending) /\ UNCHANGED <<phase, attempt, iteration>>
      BY <1>4, <2>2 DEF RunTool
    <3>2. pending \in Seq(ContentBlock) /\ pending # <<>>
      BY <2>1 DEF HistoryInv, Executing
    <3>3. Len(pending) \in Nat /\ Len(Tail(pending)) = Len(pending) - 1
      BY <3>2, HeadTailProperties
    <3>4. QED BY <2>1, <2>2, <3>1, <3>3 DEF BoundInv, Advances
  <2>3. CASE ~(Len(pending) > 1) /\ iteration + 1 < MaxIterations
    <3>1. phase' = "turn" /\ iteration' = iteration + 1 /\ attempt' = attempt
      BY <1>4, <2>3 DEF RunTool
    <3>2. QED BY <2>1, <2>3, <3>1 DEF BoundInv, Advances
  <2>4. CASE ~(Len(pending) > 1) /\ ~(iteration + 1 < MaxIterations)
    <3>1. \E h : Return("truncated", h)
      BY <1>4, <2>4 DEF RunTool
    <3>2. QED BY <2>1, <3>1, ReturnedBounds
  <2>5. QED BY <2>2, <2>3, <2>4
<1>4a. CASE ResultEscapes
  <2>1. phase = "tools" /\ rounds' = rounds /\ Return("raised", messages)
    BY <1>4a DEF ResultEscapes, recordVars
  <2>2. QED BY <2>1, ReturnedBounds
<1>5. ASSUME phase = "calling",
             Retry \/ RequestFails \/ Unusable \/ Escapes \/ Complete \/ Reply
      PROVE  BoundInv' /\ Advances
  <2>1. CASE Retry
    <3>1. /\ attempt < MaxAttempts /\ phase' = "backoff"
          /\ UNCHANGED <<attempt, iteration, rounds>>
      BY <2>1 DEF Retry, loopVars, recordVars
    <3>2. QED BY <1>5, <3>1 DEF BoundInv, Advances, Stage
  <2>2. CASE RequestFails \/ Unusable \/ Escapes
    <3>1. rounds' = rounds /\ \E a : Return(a, messages)
      BY <2>2 DEF RequestFails, Unusable, Escapes, recordVars
    <3>2. QED BY <1>5, <3>1, ReturnedBounds
  <2>3. CASE Complete
    <3>1. rounds' = rounds + 1 /\ \E a : Return(a, messages)
      BY <2>3 DEF Complete, Answered
    <3>2. QED BY <1>5, <3>1, ReturnedBounds
  <2>4. CASE Reply
    <3>1. /\ rounds' = rounds + 1
          /\ \/ \E h : Return("reply", h)
             \/ phase' = "tools" /\ attempt' = 0 /\ iteration' = iteration
      BY <2>4 DEF Reply, Answered
    <3>2. CASE \E h : Return("reply", h)
      BY <1>5, <3>1, <3>2, ReturnedBounds
    <3>3. CASE phase' = "tools" /\ attempt' = 0 /\ iteration' = iteration
      BY <1>5, <3>1, <3>3 DEF BoundInv, Advances, Stage
    <3>4. QED BY <3>1, <3>2, <3>3
  <2>5. QED BY <1>5, <2>1, <2>2, <2>3, <2>4
<1>6. QED BY <1>1, <1>2, <1>3, <1>4, <1>4a, <1>5 DEF Serve, Requesting, CallOllama, CallAnthropic,
     CallOpenaiCompatibleSingleShot, CallGoogle, CallOllamaWithTools, CallAnthropicWithTools,
     CallOpenaiCompatibleWithTools, CallGoogleWithTools

LEMMA BoundIdle ==
    ASSUME BoundInv, Reconfigure \/ (\E j : Ask(j)) \/ OthersRequest \/ UNCHANGED chatVars
    PROVE  BoundInv'
<1>1. CASE Reconfigure
  BY <1>1, LimitAssumption DEF BoundInv, Reconfigure, loopVars
<1>2. CASE \E j : Ask(j)
  BY <1>2, LimitAssumption DEF BoundInv, Ask
<1>3. CASE UNCHANGED chatVars
  BY <1>3 DEF BoundInv, chatVars, loopVars, recordVars
<1>4. CASE OthersRequest
  BY <1>4 DEF BoundInv, OthersRequest, loopVars
<1>5. QED BY <1>1, <1>2, <1>3, <1>4

LEMMA CallStep ==
    ASSUME CallInv, [ChatNext]_chatVars
    PROVE  CallInv'
<1>1. CASE Serve
  BY <1>1, ServeStep
<1>2. CASE Reconfigure
  BY <1>2 DEF Reconfigure, CallInv, Answer
<1>3. CASE Ask("chat") \/ Ask("completion")
  BY <1>3 DEF Ask, CallInv, Step, Answer
<1>4. CASE UNCHANGED chatVars
  BY <1>4 DEF chatVars, serverVars, CallInv, Routes
<1>5. CASE OthersRequest
  BY <1>5 DEF OthersRequest, serverVars, CallInv, Routes
<1>6. QED BY <1>1, <1>2, <1>3, <1>4, <1>5 DEF ChatNext

\* A call makes no more requests than the loop has round-trips, a request no more
\* attempts than call_with_retry has, and each step of a call ends it, leads to the next
\* round-trip, or is a step forward in this one: the next attempt, or one tool fewer
\* to execute.  So every call is over after finitely many steps, whatever providers,
\* tools and timeouts do.
EachCallIsBounded ==
    /\ [](rounds <= MaxIterations /\ attempt <= MaxAttempts /\ iteration < MaxIterations)
    /\ [][Serve => Advances]_chatVars

(* Retries and round-trips are bounded (_MAX_ITERATIONS, max_attempts): what                *)
(* EventuallyAnswered needs besides fairness.                                             *)
THEOREM CallsAreBounded == ChatSpec => EachCallIsBounded
<1>1. ChatInit => BoundInv /\ CallInv /\ HistoryInv
  <2> SUFFICES ASSUME ChatInit PROVE BoundInv /\ CallInv /\ HistoryInv
    OBVIOUS
  <2>1. BoundInv /\ CallInv
    BY LimitAssumption DEF ChatInit, BoundInv, CallInv, Step, Answer
  <2>2. IsHistory(<<>>) /\ Closed(<<>>)
    BY DEF IsHistory, Closed
  <2>3. QED BY <2>1, <2>2 DEF ChatInit, HistoryInv
<1>2. BoundInv /\ CallInv /\ HistoryInv /\ [ChatNext]_chatVars
        => BoundInv' /\ CallInv' /\ HistoryInv' /\ [Serve => Advances]_chatVars
  <2> SUFFICES ASSUME BoundInv, CallInv, HistoryInv, [ChatNext]_chatVars
               PROVE  BoundInv' /\ CallInv' /\ HistoryInv' /\ [Serve => Advances]_chatVars
    OBVIOUS
  <2>1. CallInv' /\ HistoryInv'
    BY CallStep, HistoryStep
  <2>2. CASE Serve
    BY <2>1, <2>2, BoundStep
  <2>3. CASE ~Serve
    BY <2>1, <2>3, BoundIdle DEF ChatNext
  <2>4. QED BY <2>2, <2>3
<1>3. BoundInv => rounds <= MaxIterations /\ attempt <= MaxAttempts /\ iteration < MaxIterations
  BY LimitAssumption DEF BoundInv
<1>4. QED BY <1>1, <1>2, <1>3, PTL DEF ChatSpec, EachCallIsBounded
=============================================================================
