----------------------------- MODULE AgentFleet -----------------------------
(***************************************************************************)
(* The agent processes around one server: agents embedded in the server's  *)
(* event loop and standalone ones, the liveness row each of them keeps     *)
(* fresh (table cks_agent_liveness), the tools that read those rows and    *)
(* ask a process to stop, and the server's shutdown                        *)
(* (agents/agent_loop.py LivenessReporter, the four run_*_agent functions, *)
(* which are one function four times, agents/embedded_agents.py,           *)
(* server.py main and the *_process* tools).                               *)
(*                                                                         *)
(* An instance is one start of an agent, with an instance_id of its own.   *)
(* The unit of time is the liveness interval.                              *)
(***************************************************************************)
EXTENDS Naturals, Sequences, SequencesExt

CONSTANTS
    Instance,       \* the starts of agents in a behaviour
    Embeddable,     \* those the server makes if their flag is set
    Kind,           \* [Instance -> process_kind]
    NoInstance,     \* no instance of a kind was ever seen
    ServerLoop,     \* the event loop the server and its embedded agents share
    MaxFaults,      \* bound: errors, hangs, stalls and crashes in a behaviour
    MaxWork         \* bound: tasks that arrive in a behaviour

ASSUME KindAssumption == DOMAIN Kind = Instance
ASSUME EmbeddableAssumption == Embeddable \subseteq Instance
ASSUME NamesAssumption == NoInstance \notin Instance /\ ServerLoop \notin Instance
ASSUME BoundAssumption == MaxFaults \in Nat /\ MaxWork \in Nat

VARIABLES
    server,     \* where main stands
    enabled,    \* the embedded agents whose flag is set
    pc,         \* where run_*_agent stands
    stop,       \* its stop event
    hung,       \* its resolver awaits something that never comes
    tick,       \* its _tick_forever
    misses,     \* heartbeats missed in a row
    row,        \* the age of its last_heartbeat_at, or Absent
    desired,    \* desired_state = "stop_requested" in its row
    birth,      \* instances by started_at
    queue,      \* tasks waiting
    arrived,    \* tasks that ever arrived
    deaf,       \* instances that swallowed the cancellation of the shutdown
    blocked,    \* event loops inside a synchronous call
    faults

rowVars == <<row, desired, birth>>
workVars == <<queue, arrived>>
agentVars == <<pc, stop, hung, tick, misses>>
fleetVars == <<server, enabled, agentVars, rowVars, workVars, deaf, blocked, faults>>

\* Variant for the mutation checks: one missed heartbeat uses the slack up.
TtlTwice == 2

\* _LIVENESS_TTL_MULTIPLIER
Ttl == 3

Epoch == Ttl + 1        \* backdated by LivenessReporter.stop(), or as old
Absent == Epoch + 1     \* no row

FleetInit ==
    /\ server = "booting"
    /\ enabled \in SUBSET Embeddable
    /\ pc = [i \in Instance |-> "unborn"]
    /\ stop = [i \in Instance |-> FALSE]
    /\ hung = [i \in Instance |-> FALSE]
    /\ tick = [i \in Instance |-> "none"]
    /\ misses = [i \in Instance |-> 0]
    /\ row = [i \in Instance |-> Absent]
    /\ desired = [i \in Instance |-> FALSE]
    /\ birth = <<>>
    /\ queue = 0
    /\ arrived = 0
    /\ deaf = {}
    /\ blocked = {}
    /\ faults = 0

Over(i) == pc[i] \in {"gone", "crashed"}
Alive(i) == pc[i] # "unborn" /\ ~Over(i)

LoopOf(i) == IF i \in Embeddable THEN ServerLoop ELSE i
Runs(i) == Alive(i) /\ LoopOf(i) \notin blocked

Goes(i, from, to) == Runs(i) /\ pc[i] = from /\ pc' = [pc EXCEPT ![i] = to]

Fault == faults < MaxFaults /\ faults' = faults + 1

Present(i) == row[i] # Absent

\* _status_for: an age between n and n + 1 intervals is n here.
ReadsAlive(i) == Present(i) /\ row[i] < Ttl

-----------------------------------------------------------------------------
(* One agent: run_*_agent                                                  *)

\* An operator starts a standalone agent.
Launch(i) ==
    /\ i \notin Embeddable /\ pc[i] = "unborn"
    /\ pc' = [pc EXCEPT ![i] = "creating"]
    /\ UNCHANGED <<server, enabled, stop, hung, tick, misses, rowVars,
                   workVars, deaf, blocked, faults>>

\* Runtime.create raises and nothing is left behind ...
CreateRaises(i) ==
    /\ Goes(i, "creating", "gone") /\ Fault
    /\ UNCHANGED <<server, enabled, stop, hung, tick, misses, rowVars,
                   workVars, deaf, blocked>>

\* Variant: every heartbeat writes the whole row afresh.
WriteWhole(i, age) ==
    /\ row' = [row EXCEPT ![i] = age]
    /\ desired' = [desired EXCEPT ![i] = FALSE]

\* upsert_agent_liveness leaves desired_state as it is.
Write(i, age) ==
    /\ row' = [row EXCEPT ![i] = age]
    /\ UNCHANGED desired

\* ... or returns: the reporter takes its started_at and LivenessReporter.start
\* writes a first row, suppressing a failure, and starts the tick.
Start(i) ==
    /\ Goes(i, "creating", "draining")
    /\ birth' = Append(birth, i)
    /\ tick' = [tick EXCEPT ![i] = "asleep"]
    /\ \/ Write(i, 0) /\ UNCHANGED faults
       \/ Fault /\ UNCHANGED <<row, desired>>
    /\ UNCHANGED <<server, enabled, stop, hung, misses, workVars, deaf,
                   blocked>>

\* run_once drains the queue: it claims for as long as there is a task,
\* whatever the stop event says.
ClaimTask(i) ==
    /\ queue > 0
    /\ Goes(i, "draining", "resolving")
    /\ queue' = queue - 1
    /\ UNCHANGED <<server, enabled, stop, hung, tick, misses, rowVars,
                   arrived, deaf, blocked, faults>>

\* A storage error in a claim ends the loop through its finally.
ClaimRaises(i) ==
    /\ Goes(i, "draining", "finishing") /\ Fault
    /\ UNCHANGED <<server, enabled, stop, hung, tick, misses, rowVars,
                   workVars, deaf, blocked>>

DrainEnds(i) ==
    /\ queue = 0
    /\ Goes(i, "draining", "waiting")
    /\ UNCHANGED <<server, enabled, stop, hung, tick, misses, rowVars,
                   workVars, deaf, blocked, faults>>

\* The poll interval passes, or the stop event cuts it short; then "while not stop".
Wake(i) ==
    /\ Goes(i, "waiting", IF stop[i] THEN "finishing" ELSE "draining")
    /\ UNCHANGED <<server, enabled, stop, hung, tick, misses, rowVars,
                   workVars, deaf, blocked, faults>>

Hang(i) ==
    /\ Runs(i) /\ pc[i] = "resolving" /\ Fault
    /\ hung' = [hung EXCEPT ![i] = TRUE]
    /\ UNCHANGED <<server, enabled, pc, stop, tick, misses, rowVars,
                   workVars, deaf, blocked>>

\* The resolver ends: run_resolver_with_heartbeat cancels its heartbeat and
\* awaits it, with CancelledError suppressed.
ResolverEnds(i) ==
    /\ ~hung[i]
    /\ Goes(i, "resolving", "unwinding")
    /\ UNCHANGED <<server, enabled, stop, hung, tick, misses, rowVars,
                   workVars, deaf, blocked, faults>>

\* The heartbeat is over; the task is reported and the drain goes on.
ReportTask(i) ==
    /\ Goes(i, "unwinding", "draining")
    /\ UNCHANGED <<server, enabled, stop, hung, tick, misses, rowVars,
                   workVars, deaf, blocked, faults>>

\* Variant: the final row is written while the tick goes on.
TickOutlives(i) == tick

TickCancelled(i) == [tick EXCEPT ![i] = "none"]

\* LivenessReporter.stop(): the tick is cancelled and awaited ...
StopTick(i) ==
    /\ Goes(i, "finishing", "retiring")
    /\ tick' = TickCancelled(i)
    /\ misses' = [misses EXCEPT ![i] = 0]
    /\ UNCHANGED <<server, enabled, stop, hung, rowVars, workVars, deaf,
                   blocked, faults>>

\* ... then the heartbeat is backdated, an error suppressed, and runtime.aclose()
\* ends the agent.
Retire(i) ==
    /\ Goes(i, "retiring", "gone")
    /\ \/ Write(i, Epoch) /\ UNCHANGED faults
       \/ Fault /\ UNCHANGED <<row, desired>>
    /\ UNCHANGED <<server, enabled, stop, hung, tick, misses, birth,
                   workVars, deaf, blocked>>

\* Where a cancellation takes a coroutine.  Awaiting its cancelled heartbeat, or
\* its cancelled tick, it takes the CancelledError for theirs and suppresses it;
\* before the try and inside the finally nothing more is cleaned up.
AfterCancel(place) ==
    CASE place \in {"unwinding", "finishing", "gone", "crashed"} -> place
      [] place \in {"draining", "resolving", "waiting"} -> "finishing"
      [] OTHER -> "gone"

\* SIGTERM or SIGINT at a standalone agent, which owns its signals.
Signal(i) ==
    /\ i \notin Embeddable /\ Runs(i) /\ ~stop[i]
    /\ pc[i] \notin {"creating"}
    /\ stop' = [stop EXCEPT ![i] = TRUE]
    /\ UNCHANGED <<server, enabled, pc, hung, tick, misses, rowVars,
                   workVars, deaf, blocked, faults>>

-----------------------------------------------------------------------------
(* Its background tick: _tick_forever                                      *)

\* One more heartbeat missed; past two nothing tells the counts apart.
Missed(i) == IF misses[i] < 2 THEN misses[i] + 1 ELSE 2

\* The tick is a task of the event loop, not of run_*_agent.
Ticks(i, from) == LoopOf(i) \notin blocked /\ tick[i] = from

\* It writes the row, then reads it back: a requested stop sets the stop event
\* and ends the tick.
Beat(i) ==
    /\ Ticks(i, "due")
    /\ Write(i, 0)
    /\ misses' = [misses EXCEPT ![i] = 0]
    /\ tick' = [tick EXCEPT ![i] = IF desired'[i] THEN "over" ELSE "asleep"]
    /\ stop' = [stop EXCEPT ![i] = @ \/ desired'[i]]
    /\ UNCHANGED <<server, enabled, pc, hung, birth, workVars, deaf,
                   blocked, faults>>

\* A storage error is suppressed; the next attempt is an interval away.
BeatFails(i) ==
    /\ Ticks(i, "due") /\ Fault
    /\ tick' = [tick EXCEPT ![i] = "asleep"]
    /\ misses' = [misses EXCEPT ![i] = Missed(i)]
    /\ UNCHANGED <<server, enabled, pc, stop, hung, rowVars, workVars, deaf,
                   blocked>>

\* The row is written and cannot be read back: also suppressed.
ReadFails(i) ==
    /\ Ticks(i, "due") /\ Fault
    /\ Write(i, 0)
    /\ misses' = [misses EXCEPT ![i] = 0]
    /\ tick' = [tick EXCEPT ![i] = "asleep"]
    /\ UNCHANGED <<server, enabled, pc, stop, hung, birth, workVars, deaf,
                   blocked>>

-----------------------------------------------------------------------------
(* The server: main, stop_embedded_agents and the process tools            *)

ServerIs(from, to) ==
    server = from /\ server' = to /\ ServerLoop \notin blocked

\* The storage opens, and every embedded agent whose flag is set becomes a
\* task; with the in-memory fallback none does.
Boot ==
    /\ ServerIs("booting", "serving")
    /\ \/ /\ pc' = [i \in Instance |-> IF i \in enabled THEN "creating" ELSE pc[i]]
          /\ UNCHANGED enabled
       \/ enabled' = {} /\ UNCHANGED pc
    /\ UNCHANGED <<stop, hung, tick, misses, rowVars, workVars, deaf,
                   blocked, faults>>

\* list_agent_liveness, the most recently started first.
Newest(kind) ==
    LET known == SelectSeq(birth, LAMBDA i : Kind[i] = kind /\ Present(i))
    IN IF known = <<>> THEN NoInstance ELSE Last(known)

\* request_process_stop marks the newest row of a kind, whether its instance
\* reads alive or not.  (Look-up and mark are two calls; what happens between
\* them could as well happen before or after both.)
RequestStop(kind) ==
    /\ ServerIs("serving", "serving")
    /\ Newest(kind) # NoInstance
    /\ desired' = [desired EXCEPT ![Newest(kind)] = TRUE]
    /\ UNCHANGED <<enabled, agentVars, row, birth, workVars, deaf, blocked, faults>>

\* list_processes prunes rows older than a week in the background: a backdated
\* row at once, and no agent that runs misses heartbeats for that long.
Prune(i) ==
    /\ server = "serving" /\ Over(i)
    /\ row[i] = Epoch
    /\ row' = [row EXCEPT ![i] = Absent]
    /\ desired' = [desired EXCEPT ![i] = FALSE]
    /\ UNCHANGED <<server, enabled, agentVars, birth, workVars, deaf,
                   blocked, faults>>

\* stdin ends, or an exception leaves the loop: every stop event is set.
BeginShutdown ==
    /\ ServerIs("serving", "waiting")
    /\ stop' = [i \in Instance |-> stop[i] \/ i \in enabled]
    /\ UNCHANGED <<enabled, pc, hung, tick, misses, rowVars, workVars, deaf,
                   blocked, faults>>

Pending == {i \in enabled : ~Over(i)}

\* The tasks are done: teardown and aclose follow.
EndShutdown ==
    /\ \/ ServerIs("waiting", "closed")
       \/ ServerIs("cancelling", "closed")
    /\ Pending = {}
    /\ UNCHANGED <<enabled, agentVars, rowVars, workVars, deaf, blocked, faults>>

\* Variant: what the timeout finds running is only waited for.
CancelledNot(i) == pc[i]

Cancelled(i) == IF i \in Pending THEN AfterCancel(pc[i]) ELSE pc[i]

\* The timeout passes: what still runs is cancelled, and awaited without one.
TimeOut ==
    /\ ServerIs("waiting", "cancelling")
    /\ Pending # {}
    /\ pc' = [i \in Instance |-> Cancelled(i)]
    /\ hung' = [i \in Instance |-> hung[i] /\ pc'[i] = pc[i]]
    /\ deaf' = {i \in Pending : AfterCancel(pc[i]) = pc[i]}
    /\ UNCHANGED <<enabled, stop, tick, misses, rowVars, workVars, blocked, faults>>

-----------------------------------------------------------------------------
(* Time, work and faults                                                   *)

\* A detector enqueues a task.
Arrive ==
    /\ arrived < MaxWork
    /\ queue' = queue + 1 /\ arrived' = arrived + 1
    /\ UNCHANGED <<server, enabled, agentVars, rowVars, deaf, blocked, faults>>

Behind(i) == tick[i] = "due"

Older(age) == IF age \in {Epoch, Absent} THEN age ELSE age + 1

\* A liveness interval passes: sleeping ticks fall due.  A loop that runs has
\* done what was due before; one inside a synchronous call misses the beat.
\* (A tick sleeps a whole interval after each attempt: stalls shorter than one,
\* which put off every later tick, are not counted.)
Clock ==
    /\ \A i \in Instance : Behind(i) => LoopOf(i) \in blocked
    /\ row' = [i \in Instance |-> Older(row[i])]
    /\ tick' = [i \in Instance |-> IF tick[i] = "asleep" THEN "due" ELSE tick[i]]
    /\ misses' = [i \in Instance |->
                    IF Behind(i) THEN Missed(i) ELSE misses[i]]
    /\ UNCHANGED <<server, enabled, pc, stop, hung, desired, birth, workVars,
                   deaf, blocked, faults>>

\* An LLM call over urllib, in a resolver or in a request, holds its event loop ...
Block(l) ==
    /\ l \notin blocked /\ Fault
    /\ \/ \E i \in Instance : LoopOf(i) = l /\ pc[i] = "resolving"
       \/ l = ServerLoop /\ server = "serving"
    /\ blocked' = blocked \cup {l}
    /\ UNCHANGED <<server, enabled, agentVars, rowVars, workVars, deaf>>

\* ... until its timeout at the latest.
Unblock(l) ==
    /\ l \in blocked
    /\ blocked' = blocked \ {l}
    /\ UNCHANGED <<server, enabled, agentVars, rowVars, workVars, deaf, faults>>

\* A process dies, the server's with every agent in it.
Crash(l) ==
    /\ Fault
    /\ \/ \E i \in Instance : LoopOf(i) = l /\ Alive(i)
       \/ l = ServerLoop /\ server \notin {"booting", "closed", "crashed"}
    /\ LET dies(i) == LoopOf(i) = l /\ Alive(i) IN
        /\ pc' = [i \in Instance |-> IF dies(i) THEN "crashed" ELSE pc[i]]
        /\ tick' = [i \in Instance |-> IF dies(i) THEN "none" ELSE tick[i]]
        /\ misses' = [i \in Instance |-> IF dies(i) THEN 0 ELSE misses[i]]
        /\ stop' = [i \in Instance |-> stop[i] /\ ~dies(i)]
        /\ hung' = [i \in Instance |-> hung[i] /\ ~dies(i)]
    /\ server' = IF l = ServerLoop THEN "crashed" ELSE server
    /\ blocked' = blocked \ {l}
    /\ UNCHANGED <<enabled, rowVars, workVars, deaf>>

-----------------------------------------------------------------------------
\* What an agent does of itself.
Work(i) ==
    \/ Start(i)
    \/ ClaimTask(i) \/ DrainEnds(i) \/ Wake(i) \/ ResolverEnds(i) \/ ReportTask(i)
    \/ StopTick(i) \/ Retire(i)

AgentFault(i) ==
    CreateRaises(i) \/ ClaimRaises(i) \/ Hang(i) \/ BeatFails(i) \/ ReadFails(i)

AgentStep(i) == Launch(i) \/ Work(i) \/ Beat(i) \/ AgentFault(i) \/ Signal(i)

Tool ==
    \E i \in Instance : RequestStop(Kind[i]) \/ Prune(i)

ServerStep == Boot \/ Tool \/ BeginShutdown \/ EndShutdown \/ TimeOut

Loops == Instance \cup {ServerLoop}

FleetNext ==
    \/ \E i \in Instance : AgentStep(i)
    \/ ServerStep
    \/ \E l \in Loops : Block(l) \/ Unblock(l) \/ Crash(l)
    \/ Arrive
    \/ Clock

FleetSpec == FleetInit /\ [][FleetNext]_fleetVars

\* Time passes, synchronous calls end, and an event loop runs what is ready.
\* A resolver that hangs never gets ready; nobody must start, signal, ask,
\* shut down or enqueue anything.
Fairness ==
    /\ WF_fleetVars(Clock)
    /\ WF_fleetVars(\E l \in Loops : Unblock(l))
    /\ \A i \in Instance : WF_fleetVars(Work(i)) /\ WF_fleetVars(Beat(i))
    /\ WF_fleetVars(EndShutdown \/ TimeOut)

FleetFairSpec == FleetSpec /\ Fairness

-----------------------------------------------------------------------------
(* Properties                                                              *)

\* The multiplier of three gives "slack for one missed tick without flapping":
\* an agent whose tick has missed no more than one heartbeat in a row, by a
\* storage error or by a loop stalled over its time, reads alive.
OneMissIsForgiven ==
    \A i \in Instance :
        Alive(i) /\ Present(i) /\ misses[i] <= 1 /\ tick[i] \notin {"none", "over"}
            => ReadsAlive(i)

\* Once an agent is over and reads stopped, nothing makes it read alive again:
\* no heartbeat of its own lands after the backdated one.
OverStaysStopped ==
    [][\A i \in Instance : Over(i) /\ ~ReadsAlive(i) => ~ReadsAlive(i)']_fleetVars

\* A requested stop that found a working agent, embedded or not, is honoured: it
\* gets through its tick to the stop event and through the drain to the end of
\* the loop, unless a resolver of the agent hangs.
StopIsHonoured ==
    \A i \in Instance : desired[i] /\ Alive(i) ~> Over(i) \/ hung[i]

\* "Its task is cancelled outright rather than blocking server shutdown forever"
\* (embedded_agents.py:30-33): the shutdown ends, whatever resolvers hang, unless
\* an agent took the cancellation for its heartbeat's and then hangs in the next
\* task of its drain.
ShutdownEnds ==
    server \in {"waiting", "cancelling"}
        ~> \/ server \in {"closed", "crashed"}
           \/ \E i \in deaf : hung[i]

\* Does not hold: the same without the exception.
ShutdownAlwaysEnds ==
    server \in {"waiting", "cancelling"} ~> server \in {"closed", "crashed"}

\* Does not hold: "Call process_status(process_kind) afterward to confirm the
\* instance has actually gone" (request_process_stop/schema.py:26-28): an agent that was asked to
\* stop and reads stopped is over.
StoppedIsGone ==
    \A i \in Instance : desired[i] /\ Present(i) /\ ~ReadsAlive(i) => Over(i)
=============================================================================
