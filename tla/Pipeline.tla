------------------------------ MODULE Pipeline ------------------------------
(***************************************************************************)
(* The Researcher / Reviewer pipeline: a research task for an object makes *)
(* a finding and hands the object to the Reviewer, whose verdict resolves  *)
(* it or sends it back.  Tasks are delivered at least once; what makes a   *)
(* redelivered or duplicated task harmless is the object's transition_log, *)
(* keyed by the hash of its content, and the node ids derived from that    *)
(* hash.  Every step commits its node and the log entry in one             *)
(* evolve_knowledge call, then enqueues the next stage, then completes its *)
(* own task; it may die, or lose the lease of its row, between any two of  *)
(* these.                                                                  *)
(*                                                                         *)
(* Every orchestrator process works on a copy of the session.  A commit is *)
(* checked and built on that copy, and the reload right before it          *)
(* (EvolveCommit, ClearedForHead) lets it replace whatever others have     *)
(* committed since.                                                        *)
(*                                                                         *)
(* The outbox is taken at its abstract word (TaskLifecycle).  In           *)
(* particular a run whose lease ran out unnoticed reports nothing here;    *)
(* what its late report does to the row is Outbox's subject.               *)
(***************************************************************************)
EXTENDS Naturals, Sequences, SequencesExt

CONSTANTS
    Object,         \* objects of the session that pipelines are started for
    Worker,         \* orchestrators draining the two queues
    Verdict,        \* what the Reviewer may answer, by the status it sets
    MaxRetries,     \* the orchestrator's max_retries
    MaxStarts,      \* bound: start_pipeline calls per object
    LastContent,    \* the contents an object may have are 0..LastContent
    MaxEdits,       \* bound: edits of an object's content
    MaxLosses       \* bound: leases lost, by a dead worker or a stalled one

ASSUME ObjectAssumption == Object # {}
ASSUME VerdictAssumption == Verdict \subseteq {"resolved", "needs_research"} /\ Verdict # {}
ASSUME PipelineBounds ==
    /\ MaxRetries \in Nat \ {0}
    /\ {MaxStarts, LastContent, MaxEdits, MaxLosses} \subseteq Nat

VARIABLES
    content,    \* [Object -> Content]: stands for the content hash
    log,        \* [Object -> Seq(Entry)]: transition_log; its last entry is current_status
    nodes,      \* finding and verdict nodes, by what their ids are made of, with the outcome
    waiting,    \* [Task -> Nat]: rows that can be claimed
    dead,       \* dead-lettered rows
    pc,         \* [Worker -> STRING]
    job,        \* [Worker -> Task]: the row it has claimed
    holds,      \* [Worker -> BOOLEAN]: its lease of the row has not run out
    readHash,   \* [Worker -> Content]: content_hash of this run
    readLog,    \* [Worker -> Seq(Entry)]: current_log of this run
    route,      \* [Worker -> STRING]: the status whose queue the object goes to
    copy,       \* [Worker -> Graph]: the session in the memory of this run's process
    lostRace,   \* [Worker -> BOOLEAN]: history, this run fails on "already exists"
    given,      \* [Object -> SET]: history, the verdicts the Reviewer has ever given
    overwritten,\* history: some commit has replaced what it was not built on
    starts, edits, losses

Step == {"ResearcherAgent", "ReviewerAgent"}
Content == 0..LastContent
Outcome == {"awaiting_review", "resolved", "needs_research"}
Outcomes(step) == IF step = "ResearcherAgent" THEN {"awaiting_review"} ELSE Verdict
Entry == {e \in [agent : Step, hash : Content, to : Outcome] : e.to \in Outcomes(e.agent)}
Node == [agent : Step, obj : Object, hash : Content, to : Outcome]
Task == [step : Step, obj : Object, retry : 0..(MaxRetries - 1)]

\* A session: what is persisted, and the copy of a process that has read nothing yet.
Graph == [content : [Object -> Content], log : [Object -> Seq(Entry)], nodes : SUBSET Node]
Persisted == [content |-> content, log |-> log, nodes |-> nodes]
NoCopy == [content |-> [o \in Object |-> 0], log |-> [o \in Object |-> <<>>], nodes |-> {}]

graphVars == <<content, log, nodes>>
queueVars == <<waiting, dead>>
runVars == <<readHash, readLog, copy, route, lostRace>>
historyVars == <<given, overwritten>>
counters == <<starts, edits, losses>>
vars == <<graphVars, queueVars, pc, job, holds, runVars, historyVars, counters>>

GoTo(w, s) == pc' = [pc EXCEPT ![w] = s]

AnyTask == CHOOSE t \in Task : TRUE     \* job of a worker that has none

\* What the run has read is not used again.
DropRead(w) ==
    /\ readHash' = [readHash EXCEPT ![w] = 0]
    /\ readLog' = [readLog EXCEPT ![w] = <<>>]
    /\ copy' = [copy EXCEPT ![w] = NoCopy]

\* The run is over and its locals are gone.
EndRun(w) ==
    /\ GoTo(w, "idle")
    /\ job' = [job EXCEPT ![w] = AnyTask]
    /\ holds' = [holds EXCEPT ![w] = FALSE]
    /\ route' = [route EXCEPT ![w] = "resolved"]
    /\ lostRace' = [lostRace EXCEPT ![w] = FALSE]
    /\ DropRead(w)

Init ==
    /\ content = [o \in Object |-> 0]
    /\ log = [o \in Object |-> <<>>]
    /\ nodes = {}
    /\ waiting = [t \in Task |-> 0]
    /\ dead = {}
    /\ pc = [w \in Worker |-> "idle"]
    /\ job = [w \in Worker |-> AnyTask]
    /\ holds = [w \in Worker |-> FALSE]
    /\ readHash = [w \in Worker |-> 0]
    /\ readLog = [w \in Worker |-> <<>>]
    /\ route = [w \in Worker |-> "resolved"]
    /\ copy = [w \in Worker |-> NoCopy]
    /\ lostRace = [w \in Worker |-> FALSE]
    /\ given = [o \in Object |-> {}]
    /\ overwritten = FALSE
    /\ starts = [o \in Object |-> 0]
    /\ edits = [o \in Object |-> 0]
    /\ losses = 0

-----------------------------------------------------------------------------
(* The log and the queues                                                  *)

\* has_agent_transitioned / find_transition: the latest entry an agent made for
\* this content.
Entries(l, agent, hash) == {i \in DOMAIN l : l[i].agent = agent /\ l[i].hash = hash}

Transitioned(l, agent, hash) == Entries(l, agent, hash) # {}

FindTransition(l, agent, hash) ==
    l[CHOOSE i \in Entries(l, agent, hash) : \A j \in Entries(l, agent, hash) : j <= i]

\* current_status: "none" before any step has run.
Status(o) == IF log[o] = <<>> THEN "none" ELSE log[o][Len(log[o])].to

Put(t) == waiting' = [waiting EXCEPT ![t] = @ + 1]

NewTask(step, o) == [step |-> step, obj |-> o, retry |-> 0]

-----------------------------------------------------------------------------
(* Outside the steps                                                       *)

\* start_pipeline enqueues a research request, started before or not.
StartPipeline(o) ==
    /\ starts[o] < MaxStarts
    /\ starts' = [starts EXCEPT ![o] = @ + 1]
    /\ Put(NewTask("ResearcherAgent", o))
    /\ UNCHANGED <<graphVars, dead, pc, job, holds, runVars, historyVars, edits, losses>>

\* Somebody evolves the object, perhaps back to what it was; its pipeline fields
\* are left alone.
EditObject(o, c) ==
    /\ edits[o] < MaxEdits /\ c # content[o]
    /\ edits' = [edits EXCEPT ![o] = @ + 1]
    /\ content' = [content EXCEPT ![o] = c]
    /\ UNCHANGED <<log, nodes, queueVars, pc, job, holds, runVars, historyVars, starts, losses>>

-----------------------------------------------------------------------------
(* One run of a step                                                       *)

ClaimTask(w, t) ==
    /\ pc[w] = "idle" /\ waiting[t] > 0
    /\ waiting' = [waiting EXCEPT ![t] = @ - 1]
    /\ job' = [job EXCEPT ![w] = t]
    /\ holds' = [holds EXCEPT ![w] = TRUE]
    /\ GoTo(w, "reading")
    /\ UNCHANGED <<graphVars, dead, runVars, historyVars, counters>>

\* The idempotency guard: this agent has already recorded this very content.
AlreadyDone(w) ==
    LET o == job[w].obj IN Transitioned(log[o], job[w].step, content[o])

\* Variant: a skipped run completes its task and enqueues nothing (CHANGELOG 1.52.1).
AfterSkipStops(w) == "resolved"

\* A skipped run hands the object on as the recorded outcome says.
AfterSkip(w) ==
    LET o == job[w].obj IN FindTransition(log[o], job[w].step, content[o]).to

\* refresh_session, the idempotency guard, and what a fresh run reads.
Read(w) ==
    /\ pc[w] = "reading"
    /\ IF AlreadyDone(w)
       THEN /\ route' = [route EXCEPT ![w] = AfterSkip(w)]
            /\ GoTo(w, "routing")
            /\ UNCHANGED <<readHash, readLog, copy>>
       ELSE /\ readHash' = [readHash EXCEPT ![w] = content[job[w].obj]]
            /\ readLog' = [readLog EXCEPT ![w] = log[job[w].obj]]
            /\ copy' = [copy EXCEPT ![w] = Persisted]
            /\ GoTo(w, "writing")
            /\ UNCHANGED route
    /\ UNCHANGED <<graphVars, queueVars, job, holds, lostRace, historyVars, counters>>

\* The LLM call fails, or evolve_knowledge with an error that is not a lost race.
AttemptFails(w) ==
    /\ pc[w] = "writing"
    /\ GoTo(w, "failing")
    /\ DropRead(w)
    /\ UNCHANGED <<graphVars, queueVars, job, holds, route, lostRace, historyVars, counters>>

\* Another tool in the process has reloaded the session, or evolve_knowledge did, after
\* it lost the version check, to check and build the same operations anew.
Refresh(w) ==
    /\ pc[w] = "writing" /\ copy[w] # Persisted
    /\ copy' = [copy EXCEPT ![w] = Persisted]
    /\ UNCHANGED <<graphVars, queueVars, pc, job, holds, readHash, readLog, route, lostRace,
                   historyVars, counters>>

\* The deterministic id of the node a run makes.
IsNodeOf(n, w) == n.agent = job[w].step /\ n.obj = job[w].obj /\ n.hash = readHash[w]

\* Variant: the node gets a fresh id on every run.
NodeExistsNever(w) == FALSE

\* add_object fails in the dry run, on an id that the copy shows.
NodeExists(w) == \E n \in copy[w].nodes : IsNodeOf(n, w)

\* One evolve_knowledge: the node, and the log that was read plus one entry, on top
\* of the copy, whatever is persisted by now.
Commit(w, to) ==
    /\ pc[w] = "writing" /\ to \in Outcomes(job[w].step)
    /\ ~NodeExists(w)
    /\ LET e == [agent |-> job[w].step, hash |-> readHash[w], to |-> to]
           o == job[w].obj
       IN /\ nodes' = copy[w].nodes
                      \cup {[agent |-> e.agent, obj |-> o, hash |-> e.hash, to |-> to]}
          /\ log' = [copy[w].log EXCEPT ![o] = Append(readLog[w], e)]
          /\ content' = copy[w].content
          /\ given' = [given EXCEPT ![o] = IF e.agent = "ReviewerAgent" THEN @ \cup {to} ELSE @]
          /\ overwritten' = (overwritten \/ copy[w] # Persisted)
    /\ route' = [route EXCEPT ![w] = to]
    /\ GoTo(w, "routing")
    /\ DropRead(w)
    /\ UNCHANGED <<queueVars, job, holds, lostRace, counters>>

\* Variant: the loser of a race reports evolve_knowledge's error.
WinnerSeenNever(w) == FALSE

\* The winner's transition is found, for the content as it is now.
WinnerSeen(w) == AlreadyDone(w)

\* "Evolution failed: ... already exists": another run of this step won.
LoseRace(w) ==
    /\ pc[w] = "writing" /\ NodeExists(w)
    /\ IF WinnerSeen(w)
       THEN /\ route' = [route EXCEPT ![w] = AfterSkip(w)]
            /\ GoTo(w, "routing")
            /\ UNCHANGED lostRace
       ELSE /\ GoTo(w, "failing")
            /\ lostRace' = [lostRace EXCEPT ![w] = TRUE]
            /\ UNCHANGED route
    /\ DropRead(w)
    /\ UNCHANGED <<graphVars, queueVars, job, holds, historyVars, counters>>

\* _enqueue_review, or _route_next_stage, which has nothing to do for "resolved".
EnqueueNext(w) ==
    /\ pc[w] = "routing"
    /\ CASE route[w] = "awaiting_review" -> Put(NewTask("ReviewerAgent", job[w].obj))
         [] route[w] = "needs_research" -> Put(NewTask("ResearcherAgent", job[w].obj))
         [] OTHER -> UNCHANGED waiting
    /\ GoTo(w, "completing")
    /\ route' = [route EXCEPT ![w] = "resolved"]     \* not used again
    /\ UNCHANGED <<graphVars, dead, job, holds, readHash, readLog, copy, lostRace, historyVars, counters>>

\* complete_conflict_task, or nothing when the lease was lost: the row is gone from
\* the queues, or is another worker's.
CompleteTask(w) ==
    /\ pc[w] = "completing"
    /\ EndRun(w)
    /\ UNCHANGED <<graphVars, queueVars, historyVars, counters>>

\* Variant: the failed attempt is not counted.
AttemptsAfterUncounted(w) == job[w].retry

AttemptsAfter(w) == job[w].retry + 1

\* fail_conflict_task, or dead_letter_conflict_task at max_retries; a run that lost
\* its lease is abandoned and reports nothing.
FailTask(w) ==
    /\ pc[w] = "failing"
    /\ CASE ~holds[w] -> UNCHANGED queueVars
         [] holds[w] /\ AttemptsAfter(w) >= MaxRetries ->
                dead' = dead \cup {job[w]} /\ UNCHANGED waiting
         [] OTHER -> Put([job[w] EXCEPT !.retry = AttemptsAfter(w)]) /\ UNCHANGED dead
    /\ EndRun(w)
    /\ UNCHANGED <<graphVars, historyVars, counters>>

\* The lease runs out and the row can be claimed again, while the run goes on: an
\* LLM call blocks the event loop and with it the heartbeat.
LoseLease(w) ==
    /\ losses < MaxLosses /\ holds[w]
    /\ losses' = losses + 1
    /\ Put(job[w])
    /\ holds' = [holds EXCEPT ![w] = FALSE]
    /\ UNCHANGED <<graphVars, dead, pc, job, runVars, historyVars, starts, edits>>

\* The worker dies; the row it holds is claimed again once the lease runs out.
Crash(w) ==
    /\ losses < MaxLosses /\ pc[w] # "idle"
    /\ losses' = losses + 1
    /\ IF holds[w] THEN Put(job[w]) ELSE UNCHANGED waiting
    /\ EndRun(w)
    /\ UNCHANGED <<graphVars, dead, historyVars, starts, edits>>

StepOf(w) ==
    \/ Read(w) \/ AttemptFails(w) \/ Refresh(w)
    \/ \E to \in Outcome : Commit(w, to)
    \/ LoseRace(w) \/ EnqueueNext(w) \/ CompleteTask(w) \/ FailTask(w)

Next ==
    \/ \E o \in Object : StartPipeline(o) \/ \E c \in Content : EditObject(o, c)
    \/ \E w \in Worker :
        \/ \E t \in Task : ClaimTask(w, t)
        \/ StepOf(w)
        \/ LoseLease(w) \/ Crash(w)

Spec == Init /\ [][Next]_vars

\* An orchestrator drains its queues as long as they hold a row and goes on with
\* the row it has; which row it is given is left open.
Fairness ==
    /\ \A w \in Worker : WF_vars(StepOf(w))
    /\ WF_vars(\E w \in Worker : \E t \in Task : ClaimTask(w, t))

FairSpec == Spec /\ Fairness

-----------------------------------------------------------------------------
(* Properties                                                              *)

\* A task for o in some queue, leased to a worker, or dead-lettered.
HasTask(o) ==
    \/ \E t \in Task : t.obj = o /\ waiting[t] > 0
    \/ \E w \in Worker : holds[w] /\ job[w].obj = o
    \/ \E t \in dead : t.obj = o

\* Every variable stays in its domain; an entry in a log and the status a run hands
\* its object on by are outcomes of the very step.
TypeOK ==
    /\ content \in [Object -> Content]
    /\ log \in [Object -> Seq(Entry)]
    /\ nodes \subseteq Node
    /\ waiting \in [Task -> Nat]
    /\ dead \subseteq Task
    /\ pc \in [Worker -> {"idle", "reading", "writing", "routing", "completing", "failing"}]
    /\ job \in [Worker -> Task]
    /\ holds \in [Worker -> BOOLEAN]
    /\ readHash \in [Worker -> Content]
    /\ readLog \in [Worker -> Seq(Entry)]
    /\ route \in [Worker -> Outcome]
    /\ \A w \in Worker : pc[w] = "routing" => route[w] \in Outcomes(job[w].step)
    /\ lostRace \in [Worker -> BOOLEAN]
    /\ copy \in [Worker -> Graph]
    /\ given \in [Object -> SUBSET Verdict]
    /\ overwritten \in BOOLEAN
    /\ starts \in [Object -> 0..MaxStarts]

\* The Reviewer has approved the object at some time.
Approved(o) == "resolved" \in given[o]

\* "permanently stranding the object" with "no task in any queue" (CHANGELOG
\* 1.52.1): whatever crashes, lost leases, duplicated starts, edits and overwriting
\* commits do, an object a pipeline was started for and that the Reviewer never
\* approved has a task somewhere, if only a dead-lettered one.
NotStranded ==
    \A o \in Object : starts[o] > 0 /\ ~Approved(o) => HasTask(o)

\* The verdict on a content is given once: however often its task is delivered and
\* however many orchestrators race for it, no later commit replaces a verdict that
\* is in the log by a different one for the same content, until a process commits
\* over what it has not seen.  The log is written whole from a stale read, so this
\* hangs on the node id alone.
VerdictIsFinal ==
    [][~overwritten' =>
          \A o \in Object : \A i \in DOMAIN log[o], j \in DOMAIN log'[o] :
              /\ log'[o][j].agent = log[o][i].agent
              /\ log'[o][j].hash = log[o][i].hash
              => log'[o][j].to = log[o][i].to]_log

\* "Callers use this to distinguish 'I lost a race, my work is already done' (fold
\* into a no-op success)" (common.py:142-144): as long as nobody edits the object
\* and no commit overwrites another, losing a race never costs the task an attempt.
LostRaceIsSuccess ==
    \A w \in Worker :
        pc[w] = "failing" /\ edits[job[w].obj] = 0 /\ ~overwritten => ~lostRace[w]

\* Under every crash, lost lease, race and overwriting commit, a started object comes
\* to a verdict or to a dead-lettered task an operator can see.
EventuallyJudged ==
    \A o \in Object :
        starts[o] > 0 ~> given[o] # {} \/ \E t \in dead : t.obj = o

\* Does not hold: "One wins; evolve_knowledge for the other returns an 'Evolution
\* failed' error whose message names that id" (common.py:112-114): of two runs that
\* judge one content, only one puts its verdict into the log.
OneVerdictWins ==
    [][\A o \in Object : \A i \in DOMAIN log[o], j \in DOMAIN log'[o] :
          /\ log'[o][j].agent = log[o][i].agent
          /\ log'[o][j].hash = log[o][i].hash
          => log'[o][j].to = log[o][i].to]_log

\* Does not hold: "Nothing overwrites or removes an entry; each step only ever appends"
\* (schema.py:15-18): a log only grows at its end.
LogIsAppendOnly == [][\A o \in Object : IsPrefix(log[o], log'[o])]_log

\* Does not hold: "so a NEEDS_RESEARCH verdict actually triggers a new research cycle"
\* (CHANGELOG 1.52.1): an object sent back is researched again, its status moving
\* on, or its task is dead-lettered.
RejectionIsResearched ==
    \A o \in Object :
        Status(o) = "needs_research"
            ~> Status(o) # "needs_research" \/ \E t \in dead : t.obj = o
=============================================================================
