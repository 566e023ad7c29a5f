# A verification project for cks-mcp

TLA+ models of the parts of cks-mcp in which several actors meet or in which a long
sequence of steps has to come out right: the persistent outbox and the agents that drain
it, the operator's review of dead letters, the optimistic commits of `evolve_knowledge`,
the pipeline and its orchestrator, the resolvers of forks, contradictions, inference and
gossip conflicts, the enrichment of objects from the web, the tool loop of the AI chat, and
the start and stop of the agent processes. TLC checks them on small instances; TLAPS
proves safety properties of them for every value of the constants.

Paths below are relative to the package, `src/src/cks_mcp/`. cks_runtime and cks, on
which the package is built, are outside the repository; what they do is modelled from
the way the package calls them.

1. [The system](#1-the-system)
2. [Modules and the code](#2-modules-and-the-code)
3. [What the runs check](#3-what-the-runs-check)
4. [Fairness](#4-fairness)
5. [What is proved](#5-what-is-proved)
6. [Where code and documentation disagree](#6-where-code-and-documentation-disagree)
7. [Limits of the models](#7-limits-of-the-models)
8. [Plan](#8-plan)

To repeat a check: `tlc -config pipeline.cfg MCPipeline`, `tlapm PipelineProofs.tla`.

## 1. The system

An MCP server serves tools over stdio, SSE or HTTP. The tools read and change
*sessions*: knowledge structures that each process keeps in memory and shares with
other processes through a storage. Findings that need work (conflicts from gossip,
forks, contradictions, inference conflicts, enrichment requests, pipeline stages) become
rows of an outbox table, which agents drain, as separate processes or embedded in the
server's event loop.

Three things are shared, and everything hard comes from them:

- **the outbox table** (`cks_outbox_tasks`), by agents, orchestrators and the
  operator's tools; every call but the claim names a row by id alone;
- **the persisted sessions**, by all processes, with optimistic commits; a server
  reloads its copy in place, under the feet of the calls it is serving, an agent's process
  only after a conflict of its own;
- **one asyncio loop** per process, which synchronous LLM calls, web searches and
  their retry sleeps block, heartbeats included.

| component | state | operations | what makes it correct |
|---|---|---|---|
| Outbox protocol and agent workers (`agents/agent_loop.py`, `_process_one` of the three agents, the `*_conflict_task` tools) | rows: status, retry_count, next_retry_at, lease; per worker: the task dict of the claim, heartbeat, resolver | enqueue, claim, touch, complete, fail, dead_letter; start, cancel | one worker per task; a report lands on one's own claim; a budget is used up before a row is dead; every task is settled |
| Inference-conflict resolution (`critic_agent.py`, `arbitrate_inference_conflict`) | the session's active steps and superseded premises; the circuit breaker | batch arbitration, premise repair, record_success / record_failure | a task disappears only when what its attempts were shown is dealt with, though its two parts commit separately |
| Dead-letter review (`approve_resolution`, `reject_resolution`, `retry_dead_letter`, ...) | the requests in flight | approve, reject, retry beside running agents | an operator's request does not pull a row from under a worker, unless two of them reach for it at once |
| `evolve_knowledge` commits (`tools/evolve/handler.py`, `session_refresh.py`) | persisted structure and version; per process: session in memory, lock, active transaction | check, dry-run, validate, commit, retry, no-op; direct commits of other tools | only validated structures are persisted; a transaction is left behind only by a commit that raised; retries end |
| Researcher/Reviewer pipeline (`pipeline/`) | the object's content, transition_log, finding and verdict nodes; the stage queues | start_pipeline, both steps, lost race, next-stage enqueue | one verdict per content, until a stale commit replaces it; no object stranded; every object is judged |
| Orchestrator and pipeline agent (`orchestrator.py`, `token_budget.py`, `agents/pipeline_agent/`) | the run: token budget, degradation, sandbox; a drain loop per step | drain the queues, one after the other or concurrently; stop on a budget or a failure; merge a sandbox | a budget caps what all drains spend; a run is merged only if nothing failed |
| Synthesizer and Arbiter steps | the same | the same | as above; reached by no task the package enqueues for the Synthesizer |
| Contradictions and their resolvers (`resolve_contradiction`, `pipeline/arbiter_step.py`) | relations and verdicts of a session; each agent's copy | find, drop the first (Critic), keep a chosen one (Arbiter) | two agents that resolve one contradiction do not drop all of it |
| Fork resolution (`fork_resolution_agent.py`, `lca_arbiter.py`) | live rows of a pointer; announced forks | choose a winner, collapse the pointer, mark resolved; LCA search, deltas, verdict | a fork is marked resolved only when it is; replicas agree without talking |
| Enrichment (`enrichment_agent.py`, `enrichment/`, `ingest_document`) | documents, parts, links and verification records of a session | search, filter, score, ingest, link | a source is verified once, however often it is found; a page is read as what it is |
| Gossip conflicts, inbox and merges (`gossip.py`, `conflict_inbox.py`, `merge_branch`) | capped inbox in memory; outbox rows; branch sessions | record, enqueue, peek, drain, merge with resolutions | a conflict stays findable until it is merged; a merge touches only what its branch changed, and relations that lose an object |
| Critic's other resolvers | none of their own | temporal and provenance conflicts, one commit each | as the resolver of the outbox protocol |
| Embedded agents and process supervision (`embedded_agents.py`, `start_agent`, `*_process*`) | handles, stop events, liveness rows | tick, stop request, drain, prune, boot, shutdown with a deadline | rows tell the truth about who is alive; stops and shutdowns end |
| LLM clients and AI chat (`llm/`, `tools/ai_chat`) | the history of a chat, held by the client; telemetry | choose a provider, translate, retry, run tools | a history that is kept can be sent to every provider; each request is recorded once |
| Server, transports, event streams (`server.py`, `transport/`) | subscribers and their queues | dispatch, fan out | stdio serves one request at a time; slow subscribers do not block others |
| Tool registry and middleware | none | refresh before a session tool, check fields | sessions are fresh when a handler starts |
| Session and graph tools (`tools/`) | sessions | some seventy queries and conversions | those that commit are calls of the commit protocol |
| Graph registry, export, migration | rows of the storage | single calls and bulk copies | concurrency is the storage's |
| Provenance | none | sign and verify | a clause of validation |
| Observability, resources, prompts, plugins | none | logging, static text | no state that others read |

The hard behaviours: stalls that outlive a lease; crashes between any two calls of a
worker; delivery at least once; snapshots (a retry_count, a log, a structure, a copy of a
session) used after an await; two commits of one unit of work; two kinds of agents with
different policies on one queue; retries that meet their own earlier success; loops that
must end. `PROJECT.json` lists them under `hazards`, each at its line with the properties
that would catch it going wrong.

## 2. Modules and the code

```
TaskLifecycle          what the outbox promises (abstract), with and without an operator
   ^ implemented by
Outbox                 claim / heartbeat / report         OutboxProofs
   ^ extended by          ^ extended by                       ^ extended by
InferenceResolver      DeadLetterReview                   (all three)

EvolveCommit           optimistic commits                 EvolveCommitProofs
Pipeline               Researcher / Reviewer              PipelineProofs
PipelineRun            orchestrator, pipeline agent       PipelineRunProofs
Contradictions         Critic and Arbiter                 ContradictionsProofs
ForkPolicy  <--  ForkResolution         LcaArbiter        forks; ForkResolutionProofs
EnrichmentSources <-- Enrichment        DocumentParts     web sources; AgentProofs
GossipMerge            inbox, outbox, merge_branch        GossipMergeProofs
AgentFleet             liveness, stop, shutdown           AgentProofs
LlmFormats  <--  AiChat                                   providers, tool loop; AgentProofs
MC*                    values of the constants for TLC
```

Modules that do not model the steps of the outbox or of a commit take them at their word:
the outbox at TaskLifecycle's (a lease may be lost, and then two workers have the task), and
a commit at the outcomes of EvolveCommit (against the version last seen, or over what was
written since, see 6.4).

**TaskLifecycle** is the promise: a task is queued, owned by one worker, perhaps orphaned
when the owner dies, and done or dead; only its owner decides its fate, and attempts grow
by one. It has no leases, heartbeats or ids. With an operator (`OperatedSpec`) a dead task,
and only a dead one, may be discarded or reopened. A dead task that two operators reach for at once
is `contested` (`Contest`): nothing more is promised of it, and all is of the others.

**Outbox** is what the code does. A row has `status`, `retry` (retry_count), `ready`
(next_retry_at has passed) and `age` (ticks since claim or renewal); `claimant` is history.
A worker has `pc` (where `_process_one` stands), `job` and `seen` (the id and retry_count
of the dict the claim returned), `hb` and `beat` (the heartbeat coroutine) and `success`.
`Claim` is dequeue_next_outbox_task; `HeartbeatRenews`, `HeartbeatLosesLease`,
`HeartbeatRaises` are a pass of `_heartbeat_loop`; `ResolverReturns` and `ResolverRaises`
end the resolver, both with the cancelled heartbeat awaited in the `finally` of
`run_resolver_with_heartbeat`, which is where an exception of the heartbeat replaces the
outcome and where an exception of the resolver drops `lease_lost`; `Complete`, `Fail`,
`DeadLetter` are the reports, applied to whatever the row holds. `Block`/`Unblock` stall an
event loop inside a synchronous call, `Crash`/`Restart` kill and start a worker. External
and modelled from use: `Claimable` (dequeue, with reclaim of stale leases), `TouchAnswers`
(touch), `RowExists` (fail and dead_letter on a deleted row).

**InferenceResolver** puts the Critic's inference resolver in place of the abstract one:
`Gather`, `Arbitrate` (one batch, with what the LLM decided and whether the commit went
through), `RepairPremises`, `EndResolver`, and the breaker (`RecordSuccess`,
`RecordFailure`, `CooldownElapses`) with one instance per process. It works on the agent's `copy` of
the session's `open` findings, which only a restart or a commit of its own brings up to date: `Persists`
over a stale copy opens again what others closed. A conclusion that cannot be read is an item without
"conflict" and is not missed. `overlooked` and `excused` are history: the findings that an attempt was not
shown, and those that a completed task or such a commit left open.

**DeadLetterReview** adds requests, any number of them in flight, that look a row up among the dead
letters, await something, and act by id: `StartApprove`, `ResolutionEnds`, `FinishApprove`,
`StartReject`, `FinishReject`, `RetryDeadLetter`, `RequestLost`. `contended` is history: the tasks
that a request reached for while another held them.

**EvolveCommit** has one session persisted as `head` with a `version`, and per process the
copy in memory (`mem`, `known`), the asyncio lock and the transaction attached to the
session. A call walks through `Arrive` (the middleware's refresh, or none for calls made by
agents), `Check` (build the operation, dry-run, validate), `OpenFirst` (reload, begin),
`Persist` (the save, by the version check of the storage), `Conflict` (abort, give up or
go on), `CommitRaises` (another exception: the transaction stays attached, and with it the process
commits nothing more to the session) and `Retry` (reload, already applied?, dry-run, validate) to `OpenAgain`. Calls in `Tool`
are clone_graph, link_graphs, merge_branch and revert_version: one direct commit, no lock,
no abort. `ReadTool` is any other session tool: a refresh in between.

**Pipeline** has objects with a `content` (standing for its hash), a `log` and derived
`nodes`; rows in two queues as a multiset; orchestrators, each with a `copy` of the session, that `ClaimTask`, `Read` (and skip
when the log has the transition already), `Commit` or `LoseRace` on an existing node,
`EnqueueNext`, `CompleteTask` or `FailTask`, and that may `Crash` or `LoseLease` anywhere.
`EditObject` is a user's change to the object. A commit is checked and built on the copy and replaces what is
persisted (6.4); `Refresh` is a reload by another tool of the process, or by the retry after a conflict.
`overwritten` is history: some commit replaced what it had not seen.

**PipelineRun** has the run around those steps. `Orchestrate` starts one (sequential or
concurrent, sandboxed or not, with the tasks waiting at that time); each step's drain loop
claims (`ClaimTask`), asks the shared budget (`CheckBudget`), runs the step, hands on and
reports; `DrainAborts` is an exception that escapes the loop, `LeaseLost` a step that has run to its end on a
lease that went to another, and is not reported; `NextStep` and the end of a run decide on degradation and merge. What a step
does to its object is a choice of outcomes, except that a review of an object that is not in
the session (the Synthesizer's) fails.

**ForkPolicy** is the comparison of version vectors and the choice of a winner, for either
agent. **ForkResolution** is the life of the forks of one pointer: `Write` adds a row beside
those its writer has not seen, `Detect`/`OnFork`/`ForkMissed` announce and enqueue a fork, and an
agent loads the rows, chooses, collapses the pointer, marks the fork, and reports, each in a
call of its own. **LcaArbiter** is a library of functions: the search of `find_lca` by growing
depth, the deltas of both branches, the verdict; its constants name the graphs, depths and
rejected nodes that its properties are about.

**Contradictions** has the relations and verdicts of a session and a `copy` per agent.
`Sweep` enqueues what is found, `Resolve` is an attempt: it looks at the copy, drops or
keeps, validates (`Cleared`, the whole session) and commits. A task names a `Location`, a relation and the code
of a rule; an Arbiter's verdict is known by that and by the relations it found (`VerdictOn`). `takenAway` is
history: what a caller removed, or a commit dropped unseen.

**EnrichmentSources** is what the agent thinks of a url before it fetches it: structural
filter, policy, score, selection. **Enrichment** is the attempt on a task: search and select,
check a source, ingest it with its parts and its verification record, link it, go on, report.
**DocumentParts** is the one-pass reader of html_extract.py, with its stack and the depth
counters that tables and lists share.

**LlmFormats** translates a history of Anthropic's shape into what each provider is sent, message
by message (`Sent`), and a response back (`Received`); the members of one type of a message are
taken by their rank (`OfType`). Of an item that is sent, it keeps the type and the key by which
the provider pairs a result with its call. **AiChat** is the loop: `Ask`, a request with its retries (none without a key,
`NoKey`), tools run, the limit of iterations, and what the client keeps. While an allowed tool runs, it or others in
the process have requests of their own recorded (`OthersRequest`); a result that is not JSON leaves the loop
(`ResultEscapes`). A restart (`Reconfigure`)
loses the telemetry, not the client's history.

**AgentFleet** has the instances of agents, embedded or not, with their stop event, tick
task and liveness row (`row` is its age); the tools that read rows and request a stop; boot and
shutdown of the server, with the cancellation of agents that do not stop in time; stalls,
resolvers that hang, storage errors and crashes.

**GossipMerge** has a conflict recorded in the inbox and enqueued (`Detect`, `Record`,
`Enqueue`), clients that `List` and drain it, and merges by clients and Critics, each in the
steps of merge_branch: probe, choose, begin, save. Each process has its own copy of a session: the server's, from
which clients merge, and that of each Critic, which builds its own Runtime also when it is embedded. `Merge` takes
the other side's change of an object that one side changed, combines both sides' where they changed other fields of
it (`FieldMerge`), applies the caller's choices, null among them, and drops relations of what does not survive
(`Whole`). A transaction whose commit failed stays (`stuck`).

Definitions whose comment begins "Variant" are mutations: a plausible bug in the
definition below them, used to see that a property can fail. Definitions whose comment
begins "Does not hold" are the statements of section 6.

## 3. What the runs check

| run | what it asks | distinct states |
|---|---|---|
| `review` | two requests at a time beside two agents with heartbeats on time: `ReviewedStaysDead`, `ClaimsUndisturbed`, and the refinement `ImplementsOperatedLifecycle` | 498,090 |
| `outbox_faults` | stalls, raising renewals, crashes: `LeaseFollowsHeartbeat`, and `EventuallySettled` | 175,219 |
| `inference` | `DoneMeansHandled`: a task is deleted only when what its attempts were shown is closed | 679,167 |
| `evolve` | `ValidHead`, `EvolveLeavesNoTransaction`, `GiveUpIsContention`, `EveryCallAnswered` | 180,009 |
| `pipeline` | `VerdictIsFinal`, `NotStranded`, `LostRaceIsSuccess`, `EventuallyJudged` | 224,359 |
| `orchestrator` | `BudgetCapsCalls`, `MergedIsClean`, `DoneIsHandedOn`, `NothingAfterFailure` | 158,640 |
| `forks` | `ResolvedIsSettled`, `ChoosesLiveHead`, `FinallyOneHead`; of the functions, `LcaVerdictIsRight` and `WinnerIsAgreed` | 297,527 |
| `contradictions` | `OneRelationSurvives` | 1,176,984 |
| `enrichment` | `VerifiedOnce`; of the reader of pages, `PagesAreRead` | 536,444 |
| `chat` | `CallsAreAnswered`, `RequestsAreRecorded`, `EventuallyAnswered` | 586,368 |
| `fleet` | `OneMissIsForgiven`, `OverStaysStopped`, `StopIsHonoured`, `ShutdownEnds` | 232,131 |
| `gossip` | `UnmergedIsKept`, `MergeKeepsEdits`, `EventuallySettled` | 569,059 |

Deadlock is checked in the first four runs. In the others everything may be done (`pipeline`,
`orchestrator`, `contradictions`, `enrichment`, `chat`, `forks`, `fleet`, `gossip`): bounded
work ends, and a client that does not come back is no deadlock.

**Outbox bounds** (`review`, `outbox_faults`, `inference`). Two agents with different budgets
(2 and 3) in one queue are what it takes for one agent to dead-letter a row another would have
retried. One row is enough for them to compete for, since rows share nothing but the workers: in `review` the two
requests and the agents act on it before it is contended and after. That a contended row disturbs no other
needs two rows: with these, and a budget of one attempt, the properties hold in 3,047,678 states. The clock matters only through two thresholds,
so `HeartbeatInterval = 1 < StaleAfter = 2` reaches each order of beat, reclaim and report; `age`
and `beat` stop at their threshold, beyond which nothing reads them. `MaxFaults` bounds crashes
and stalls: three, in `outbox_faults`, allow a stall, the reclaim, and a second fault at the
reclaimer and again at the first; one, in `review` and `inference`, gives every reclaim. The tick waits for due timers and reports of running loops
(`Urgent`): a tick stands for tens of seconds. In `inference`, two conclusions give a batch
that is partly decided, one premise the second commit, `Threshold = 1` a breaker that opens at each failure that
is counted and closes again. The budget is one attempt: a second, by either agent and also beside the first, comes with
the stall or the crash. (Of attempts that fail and are repeated, with a crash but without a stall, the property
holds in 1,109,674 states.)

**Evolve bounds.** Two processes, two calls behind each other at a lock, a tool that takes
none, and an operation that adds a relation `r` which is valid only while `a` exists, while
other calls update or remove `a`; one commit may raise. `MaxCommitRetries = 1` instead of the code's 5: an attempt
after the first is like any other, and the proofs hold for every value.

**Pipeline and orchestrator bounds.** One object, since objects share nothing but the queues;
two orchestrators to race, each with a copy; two contents and one edit; one crash or lost lease and two attempts.
(With a second edit, by which the object may be what it was, the same properties hold in 1,188,552 states.) A run has two steps and three tasks: one
whose success enqueues a second, and a review of an object that is not there; a budget with
room for two calls, which three attempts exhaust in either mode.

**Fork bounds.** Three writes by two replicas give a fork of two, one of three, and one that a
new write extends while it is resolved; one agent of each policy. The functions are evaluated
in the initial state on every choice of up to four out of six relations over five nodes, at
depths 1 and 2 (beyond which such a graph has no further node), with three sets of rejected nodes; winners
on all triples of vectors up to 2 and stamps.

**Contradiction bounds.** A mutual exclusion and a functional relation that share a relation
(three in all), one Critic and two Arbiters, one relation added or removed by others, two sweeps, one lost lease
or restart.

**Enrichment bounds.** Two objects for which both searches find the same four urls: one fine,
one disallowed by robots.txt, one without a word of the query, one a login page; two
requests, two agents, two attempts, one edit, restart or lost lease. The reader runs over
every page of up to two blocks out of eight kinds, and of three headings and texts, with small
limits, so that each limit is hit.
Beyond these the function `Read` was compared with the Python parser on 1500 random sequences of
tokens: all agree.

**Chat bounds.** Two questions of a client over the histories of the first, every provider,
responses of up to three parts, with calls of an allowed and of another tool, with and without ids, two attempts, two
round-trips; keys that are there or not, a restart; the telemetry keeps two records, so that the
second call evicts those of the first, and tools add requests of their own while there are fewer than two.

**Fleet bounds.** An agent the server may embed and a standalone one of the same kind, one
task, one fault; a row's age stops past its lifetime. Two tasks, with which 6.10 happens, are
too many for two agents; with the embedded one alone the temporal properties were also checked
for two tasks and two faults.

**Gossip bounds.** One branch and one session that have both changed two objects, one of them in other fields,
the other in the same, and a relation between the two, which the target has edited; one client of the server and one
Critic with its own copy, one edit, two calls of tools with branch_b or null as a choice, one fault.

## 4. Fairness

Only what the code's scheduling gives:

- **Outbox**: time passes and backoffs elapse; a blocking call ends, because every urllib call
  has a timeout and every retry loop a bound; a loop that runs polls its queue, fires its
  timers, ends its resolver (a finite program) and sends its report. No fairness on
  crashes, stalls, restarts or new tasks. A stall may cost an attempt that is never counted, so
  `EventuallySettled` needs finitely many faults; it excepts a moment with all agents down.
- **EvolveCommit**: a call that can step does (weak fairness of `CallStep`). The asyncio lock is
  FIFO, and each call is made once, so weak fairness is enough for it.
- **Pipeline**: an orchestrator goes on with the row it has, and some row is claimed while any
  waits. Which row, and by whom, is left open.
- **ForkResolution**: the event handlers run, and each agent goes on and polls. Writes, crashes
  and lost leases may stop at any time; both are bounded.
- **GossipMerge**: every call goes on, the Critic polls, the handler of a conflict event ends.
  Clients may never come.
- **AiChat**: a request ends by its timeout, and a tool returns. The client need not ask.
- **AgentFleet**: time passes, synchronous calls end, the loops run what is ready, and the
  shutdown's own wait ends or times out. A resolver that hangs never becomes ready; nobody need
  start, signal or ask anything.

`contradictions`, `orchestrator` and `enrichment` check safety only.

## 5. What is proved

The theorems hold for all values of the constants that satisfy the named assumptions of the
modules (nonempty sets, positive budgets, heartbeat interval below the reclaim window, ...).

| theorem | statement | further assumption |
|---|---|---|
| `TypeCorrect`, `EvolveTypeCorrect`, `PipelineTypeCorrect` | type correctness | |
| `LeaseSound` | `LeaseFollowsHeartbeat`, `AbandonedIsNotHeld` under every fault | |
| `ExclusiveAlways`, `ReportsAreByHolder`, `BudgetsRespected` | no two workers on a task, reports on one's own claim, budgets used up | `OnTime` |
| `LifecycleImplemented` | Outbox implements TaskLifecycle | `OnTime` |
| `ReviewIsSafe` | `ReviewedStaysDead` and `ClaimsUndisturbed`, of tasks that no two requests held at once | `OnTime` |
| `OperatedLifecycleImplemented` | agents and operator implement TaskLifecycle with its operators | `OnTime` |
| `HeadIsValid` | only validated structures are persisted | |
| `NoTransactionLeft` | evolve_knowledge leaves no transaction behind, but by a commit that raised | |
| `GivingUpIsContention` | a call gives up only after as many foreign versions as lost attempts | |
| `VerdictsAreFinal` | a verdict in a log is never replaced by another for the same content, until a commit overwrites what it has not seen | |
| `NeverStranded` | a started object not yet approved has a task | |
| `LosersSucceed` | `LostRaceIsSuccess`: for objects that nobody edits, until a commit overwrites another | |
| `MergesAreClean` | `MergedIsClean`: no run is merged after a failure | |
| `FailureStopsSequence` | `NothingAfterFailure`: a sequential run stops at a failure | |
| `CompletedIsHandedOn` | `DoneIsHandedOn`: a completed task has enqueued the next stage | |
| `CallsAreCapped` | `BudgetCapsCalls`: the steps of a run together stay within its budget | |
| `DoneIsHandled` | `DoneMeansHandled`: a task is deleted only when what its attempts were shown is closed | |
| `Survives` | `OneRelationSurvives` | |
| `ResolvedForksAreSettled` | `ResolvedIsSettled`: a fork is marked resolved only when it is over | |
| `LiveHeadsAreChosen` | `ChoosesLiveHead`: a superseded candidate wins only where none is live, or on a tie | |
| `WinnerOfAnyOrder`, `WinnersAreAgreed` | `WinnerIsAgreed`, of any candidates in any order | |
| `AncestorsAreOnShortestPaths` | `LcaOnShortestPath`, of any finite graph at any depth | |
| `VerdictsAgree`, `OnlyTheFaultyIsDropped` | `VerdictIsSymmetric`, `LoserIsAtFault`, of any graph | |
| `LcaVerdictsAreRight` | `LcaVerdictIsRight`: the three above | |
| `UnmergedKept` | `UnmergedIsKept`: an enqueued conflict has a row until its branch is merged | |
| `InboxKeeps`, `MergesKeepEdits` | `InboxKeepsNewest`, `MergeKeepsEdits` | |
| `SourcesVerifiedOnce` | `VerifiedOnce` | |
| `CallsHaveAnswers` | `CallsAreAnswered`: each provider can be sent the history, every call answered | |
| `CallsAreBounded` | `EachCallIsBounded`: requests and attempts of a chat are limited, each step advances it | |
| `ResolverImplementsOutbox` | InferenceSpec implements Outbox | |
| `InferenceImplementsLifecycle` | and so TaskLifecycle, with `ExclusiveResolution` | `OnTime` |
| `CallsTakeTurns`, `CallsComeToAnEnd` | `TakeTurns`, `ComesToAnEnd`: calls of evolve_knowledge exclude one another, and each takes a bounded number of steps | |
| `AloneIsSerial` | `ClearedForHead` (6.4), `OneAfterTheOther`: commits are serial, none is refused for another | `Alone` |
| `UneditedLogsGrow` | `UneditedLogGrows`: `LogIsAppendOnly` (6.6) for objects that nobody edits, until a commit overwrites another | |
| `MissIsForgiven`, `StoppedForGood` | `OneMissIsForgiven`, `OverStaysStopped` | |
| `TelemetryIsComplete` | `RequestsAreRecorded`: the telemetry holds the process's last requests, each once | |
| `RunTypeCorrect`, `InferenceTypeCorrect`, `EnrichmentTypeCorrect`, `ContradictionsTypeCorrect`, `GossipTypeCorrect` | type correctness | |

`OnTime == ~LoopBlocks /\ ~TouchFails` says that no loop is stalled past a tick and no renewal
raises. Without it they are false (the two of `LeaseSound` are what remains), and 6.2 shows how. `Alone` says that there is one process and that
no tool commits directly; without it `ClearedForHead` is false (6.4).
TLC agrees with results that no run checks on small instances of their own: with
`ExclusiveResolution`, `ReportByHolder` and `ImplementsLifecycle` for two tasks, two agents and a crash (131,090
states), with `InboxKeepsNewest` for four branches of two sessions and an inbox of two (633,409 states), with
`AloneIsSerial` on `evolve.cfg` with one process and without the tool (6,714 states), with
`UneditedLogsGrow` on `pipeline.cfg` (224,359 states).

The arguments:

- **Leases.** `LeaseInv` relates the age of a held row to its holder's heartbeat. It is
  inductive under every fault, since a renewal resets both and a tick ages both.
- **Claims.** `ExclusiveResolution` is not inductive: nothing in it says why a row under work
  cannot be claimed. `ClaimInv` adds, for each worker that is not idle (`Current`), that the row
  is IN_PROGRESS and its claim, that `seen` is the row's retry_count, and that the row is no
  older than the sleep of a running heartbeat, so that it is below `StaleAfter` and not
  `Claimable`. Exclusiveness, the other properties and the refinement follow; the refinement has one lemma per
  way a step maps (`Moved`, `SamePhase`, `Stutter`) and one case per action.
- **Review.** The claims of Outbox are stated of a set of tasks, here of those that are not contended
  (`ReviewInv`). The agents never touch a dead row of those (`DeadStays`), and a request that alone holds a
  task acts on a dead row, which nobody works on; so the step lemmas of Outbox carry over. In the abstract
  lifecycle a request's step discards, reopens or contests a task that is dead.
- **Commits.** `ClearedSnap`: whoever is about to commit holds a structure its operations were
  cleared for, and applies them to that one. Hence `head` is valid *although* it may replace a version
  it was not cleared for. `AttachedInv` ties a transaction to a call that saves it or has raised.
  `Contention` counts: a lost attempt means a version the reload had not seen.
- **Verdicts.** Logs are rewritten whole from stale reads, so no property of the log alone is
  inductive. `RecordInv` says that each entry of a log, and of each log a run has read, has its
  node, and that two nodes of one agent, object and content agree; it holds, of the persisted structure and of every
  copy, as long as no commit has overwritten what it had not seen, and then nodes are only added.
- **Stranding.** `CarriedInv`: an object is approved, queued, dead-lettered, or carried by a
  worker that has the lease and is not past handing it on. `NotStranded` alone fails to be
  inductive, as the row it finds may be one about to be completed. That a skipping run finds the
  *last* entry of its content uses the well-foundedness of finite sets (`LastIndex`). That a verdict in a log was
  given is kept by every commit, overwriting or not (`AccountedInv`), so this one needs no condition.
- **Lost races.** `RaceInv`: while an object is unedited it has one content, every node of it is in
  the log, however stale the log that a run writes back, and a review is only asked for when the
  research is logged; so the run that lost a race finds the winner's transition. Like `RecordInv` it holds until a
  commit overwrites another.
- **Runs.** `RunInv`: between runs nothing drains; in a run, a spoiled task has left its mark on
  the drain of its step; and in a sequential run the earlier steps have ended without a failure
  and the later ones have not begun. `HandInv`: a drain about to report success has its follow-up
  in the outbox, also on a retry that finds its work done. `BudgetInv`: what the steps called sums
  up to what the run has spent; a bound on each step's calls alone is not inductive. How the
  sum over the steps changes with one of them is a lemma about the fold of the community modules.
- **Inference.** `HandledInv`: for each stage of an attempt, what it has dealt with is closed, overlooked or
  excused. Commits of other attempts close more or, over a stale copy, open again what is then excused
  (`Tracked`), so a worker can delete a row but not for what it was shown and left open.
- **Contradictions.** `SurvivalInv`: a relation that some copy has and the head lacks was overwritten
  unseen, removed by a caller or dropped by a decision (`Accounted`); a Critic leaves a relation that comes after all it
  drops (`CriticsLeave`), so the last of those that Critics dropped was left by one who would have had
  to drop it; and a verdict stays unless it is overwritten, so that of one verdict there is one decision (`VerdictsKept`).
- **Forks.** `ForkInv`: objects go only when a pointer is collapsed, which ends every fork so
  far; hence a candidate of a fork that is not over is still there, and the short cut for a fork
  without candidates marks only forks that are over. The short cut of the Critic is taken at one
  live row, when every fork is over. `RowsInv`: a row that is live has a stamp and counts a write,
  which is what a candidate without a row lacks; with it, the order in which candidates are
  compared puts live ones first.
- **Winners.** Two candidates that are both causally newest are one, as no two rows have one vector
  (`NewestIsOne`); what is chosen else, the last or the first by name of a set, does not depend on the
  order of the list.
- **LCA.** The neighbourhoods `find_lca` keeps are balls: the n-th holds what n hops reach. Balls
  add up, reverse and split (`HopsAdd`, `HopsReverse`, `HopsSplit`), so two branches at distance d
  meet in the balls of n hops exactly when d is at most 2n (`MeetHalfway`); a neighbourhood that did not grow never
  will (`NotGrown`), so ending the search there loses nothing. Of the nodes where they meet, the
  nearest is on a shortest path.
- **Gossip.** `QueueInv`: a conflict that was enqueued has its row, or its branch is merged, as it
  is for whoever thinks so (`MergedRuns`). `InboxInv`: the log has each branch once, and what stands
  before k others in the inbox was followed by k others in the log, across drains and evictions.
  `CopyInv`: a copy of the last version is the head, so a merge over it loses nobody's edit. What a merge makes of
  one object is a lemma on the operator (`MergeLeaves`): an object that the branch left alone stays or goes with a
  participant, and of one that both changed each field that the target has changed stays, unless a caller chose.
- **Enrichment.** `VerifiedInv`: the head and every agent's copy of it, however old, have at most
  one record of a document and none of one they lack, and only a document that was not known is
  checked. The copies matter, since what is committed is a copy with the operations applied.
- **Fleet.** `RowInv`: a row is as old as the heartbeats its tick has missed, and one older while the
  next is due; so one missed beat stays below the age at which a row reads dead. `BootInv`: an
  embedded agent is made once, so that none that is over comes back.
- **Telemetry.** The outcomes of a call are what was on record before it, a success for each of its
  responses and what the process's other requests came to, in their order, and the failure that ended it, if
  one did (`Outcomes`). While a call is on, its request
  goes where the setting says (`CallInv`), which is how its answer tells a failed request from one
  that was never made; and the newest of a sequence with one more are the newest with one more,
  cut to size (`NewestWithOneMore`).
- **Histories.** `HistoryInv`: the history of a chat is a sequence of questions, answers and results,
  in which the results of a message are those of the calls of the one before, one for each and in
  their order (`IsHistory`); it ends without a waiting call (`Closed`), except while tools run, when
  what is done and what is pending make up the calls of the last answer (`Executing`). Each
  translation keeps the calls and the results of a message in their order (`KeysBy`), so that their
  keys agree, whatever the key is. That ids tell calls apart hangs on the providers: those of a
  response are distinct (`ResponseAssumption`), and none is one that the code makes from a position
  (`IdAssumption`).
- **Refinement of the outbox.** Whatever `InferenceResolver` does between a claim and a report, it
  moves the queue only by actions of Outbox; so its theorems carry over.
- **Turns and ends.** `LockInv`: the lock is held by exactly the call that is between its dry run and its
  answer. `Left` counts three steps for each attempt that is left to a call; a chat advances in
  round-trips, then in attempts, then in tools to execute (`BoundInv`, `Advances`). These
  are the parts of `EveryCallAnswered` and `EventuallyAnswered` that do not need fairness.
- **Alone.** `SerialInv`: with one process and no direct commits, what a call checked is the head until
  it commits, since the lock keeps the others out; a commit that raised is the last. The claim of 6.4 fails only with a second process
  or a tool that commits directly.
- **Unedited logs.** `OnceInv`: the log of an unedited object has each agent once. With `RaceInv` a run
  that may commit has read the log as it is (`ReadIsCurrent`), although it was read earlier: of the
  Researcher's it is empty, of the Reviewer's the one research. The claim of 6.6 fails only by edits and by
  commits over what was not seen.

Where an argument is by induction, it is by a least counterexample: over the natural numbers, of
the hops of a graph, and over finite sets, of candidates, relations, steps and copies (`MinimalSet`,
`LeastNatural`).

Only model-checked are:

- the liveness properties (`EventuallySettled` twice, `EveryCallAnswered`, `EventuallyJudged`,
  `FinallyOneHead`, `EventuallyAnswered`, `StopIsHonoured`, `ShutdownEnds`), which are out of the
  prover's reach;
- `PagesAreRead`, which compares the reader of pages with a reference on bounded pages; both are folds
  over a page's blocks.

## 6. Where code and documentation disagree

Each statement below is a definition of the module named, whose comment begins "Does not hold";
written as a PROPERTY (or INVARIANT, where it is a state predicate) into the cfg named, TLC finds
it violated.

1. **A rejection changes a status** (`RejectionChangesNoStatus`, DeadLetterReview, `review.cfg`;
   `tools/reject_resolution/handler.py:55`). Its docstring calls the second dead_letter of a task "exactly the
   mechanical, no-status-transition behavior this tool needs". Between the look-up among the dead rows and that
   call another request may retry the task; the rejection then marks the row DEAD again, also under an agent that
   has claimed it. A second approval deletes a row in the same way.
2. **A lost lease is reported** (`LostLeaseNotReported`, Outbox, `outbox_faults.cfg`;
   `agents/agent_loop.py:86`). The docstring says that after a refused renewal the outcome must
   not be reported. When the resolver raises, the exception leaves the function before
   `lease_lost` is returned; `_process_one` sets it to False and sends fail or dead_letter for a
   row another worker holds.
3. **Inference tasks** (InferenceResolver, `inference.cfg`; `critic_agent.py:705-733`).
   *A completed task leaves findings open* (`DoneMeansResolved`; `critic_agent.py:73-75` says that it completes "only
   once both parts succeed"): a conclusion that could not be read is an item without "conflict", which 711-715 do not
   miss, and the agent looks at a copy of the session that may be older than the finding. *A settled task fails*
   (`NothingLeftIsResolved`): with nothing left to arbitrate, the batch answers `missing_decision` and the task is
   failed until it is dead-lettered; the branch written for this case is not reached. *An outage never opens the
   breaker* (`SilentBatchCounts`): when no item of a batch is decided, the same early return precedes record_failure.
4. **A commit replaces what it was not cleared for** (`ClearedForHead`, EvolveCommit,
   `evolve.cfg`; `tools/evolve/handler.py:323`). The first attempt reloads the session after the
   operation was built and validated; the version check compares with the reloaded version. What
   another process committed in between is lost. The comment of the retry path says why that
   must not be. With one process and no direct commits it holds (`AloneIsSerial`). This depends on
   which structure cks_runtime applies the operations to. The model takes the one the EvolveOperation was
   built with, as the comment at `tools/evolve/handler.py:398-404` has it. Were it the reloaded one, nothing
   would be lost, but the commit would still not be cleared for it.
5. **A failed commit leaves its transaction** (`NoDanglingTransaction`, EvolveCommit, `evolve.cfg`;
   `tools/evolve/handler.py:330`). Only ConcurrentModificationError is caught and aborted. After any other exception,
   one of the storage say, the transaction stays attached, and the process commits nothing more to that session.
6. **The pipeline's log** (Pipeline, `pipeline.cfg`). *Both of two verdicts are given* (`OneVerdictWins`;
   `pipeline/common.py:112-114` says that one wins): an orchestrator whose copy does not show the other's node commits
   over it, by 6.4. *The log is not append-only* (`LogIsAppendOnly`; `pipeline/schema.py:15-18`): that commit drops
   entries, and so does the later of two runs that straddle an edit, as it writes the log that it read. Without either
   it holds (`UneditedLogsGrow`). *A rejection leads to no research* (`RejectionIsResearched`;
   `pipeline/researcher_step.py:93`): the content hash does not see the verdict, so the Researcher skips, and so
   does the Reviewer, handing the object to and fro for ever.
7. **A sandbox does not isolate** (`SandboxIsolates`, PipelineRun, `orchestrator.cfg`;
   `orchestrator.py:640`). The tasks carry the parent's session id, and the steps commit there;
   what is merged in the end is an empty branch, which is never closed.
8. **Contradictions** (Contradictions). *Mechanical resolution may give up* (`NoneIsGivenUp`, `contradictions.cfg`
   with `Arbiter = {}`, `MaxFaults = 0`, and one functional relation of three targets, `{{1, 2, 3}}`, or two
   exclusions that are apart, instead of `MCExclusive` and `MCFunctional`;
   `resolve_contradiction/handler.py:267`). CHANGELOG.md:823 calls it fully mechanical. evolve_knowledge
   validates the whole session, so that two contradictions that are open at once, or one of three
   relations, block each other until they are dead-lettered. *Arbiters may leave nothing*
   (`OneSurvivesTheArbiters`, `contradictions.cfg`; `pipeline/arbiter_step.py:16`). An Arbiter is said to remove every
   relation but the LLM's pick. The id of a verdict hashes the code of the task and the relations found (192, 260).
   Two tasks that name one relation under two codes, or Arbiters that were shown two and three relations of one
   rule, get verdicts of different ids, so that neither finds the other's, and each may drop what the other
   kept. With a Critic beside an Arbiter it is the same. `OneRelationSurvives` is what is left.
9. **An agent that reads stopped may still work** (`StoppedIsGone`, AgentFleet, `fleet.cfg`;
   `tools/request_process_stop/schema.py:26`). Its tick returns when it sees the stop request, while the drain of the
   queue goes on, and the row ages until it reads stopped. (It is backdated only after the drain.)
10. **A shutdown may not end** (`ShutdownAlwaysEnds`, AgentFleet, `fleet.cfg` with
    `Instance = {i1}` and `MaxWork = 2`; `agents/embedded_agents.py:30`). The cancellation may arrive while a drain
    awaits its own cancelled heartbeat, which swallows it (`agents/agent_loop.py:87`); the wait that follows has
    no timeout. With `MaxWork = 1`, as in the run, this does not come about, and `ShutdownEnds` excepts nothing.

Read off the code while modelling, and part of the models where they touch their state:

- a known document that is not linked can never be linked: its parts' ids exist, so the attempt
  is refused, while `enrichment_agent.py:353-355` says that it is just linked;
- a standalone Critic has none of the branch sessions that gossip opens in the server
  (`gossip.py:299-303`): its merges fail until they are dead-lettered;
- a merge, clone, link or revert whose commit failed leaves its transaction attached, and every
  later commit of that process to the session fails;
- request_process_stop marks the instance of a kind that started last, though it may be over;
- list_processes prunes rows by last_heartbeat_at, which a clean stop backdates, so they go
  earlier than the seven days of the comment (`list_processes/handler.py:24-31`);
- beyond flat pages html_extract loses count: a list in a table cell, a heading in a list or a
  `</tr>` of an inner table leave a counter or a row open, and later text is dropped
  (`html_extract.py:265-267` speaks only of unclosed elements);
- a timeout while a response is read escapes the handlers of every provider: it is neither
  retried nor recorded, and the history with its executed tools is lost;
- link_graphs writes one graph and then the other, and a failure between the two cannot be
  repeated, as the relation exists already;
- a policy's prefixes are lower-cased and then compared with the url as it is
  (`enrichment/filters.py:142-168`);
- a fork whose announcement was missed waits for the next fork of that pointer: nothing reads
  list_pending_forks.

## 7. Limits of the models

- The outbox table, the storage, the CRDT store and the three-way merge are modelled from their
  callers. Each call is one atomic step.
- An attempt that ends in a crash or a stall is never counted; how often is bounded by `MaxFaults`.
- DeadLetterReview says nothing of a task that two requests held at once (6.1); of a resolution tool it has the outcome only.
- `EvolveCommit` has one session. The second session of link_graphs, the path of evolve_knowledge
  that creates a session, and the operations merge_branch and revert_version build are left out
  (the merge is in GossipMerge). merge_branch and revert_version commit without validation
  (`tools/merge/handler.py:214-240`, `tools/revert/handler.py:55-60`); the direct commits of the model are of
  structures that are valid, so `ValidHead` says that evolve_knowledge and its races persist nothing else.
- A commit in `Pipeline`, `Contradictions` and `Enrichment` is one step, with the outcomes that EvolveCommit's
  steps have: it is on the persisted structure, or replaces what others wrote since it was built (6.4). Their
  properties except what was overwritten so.
- `PipelineRun` has one process: that a task's outcome is reported by id, whoever holds the row by then, when the
  resolver raises after the lease was lost (6.2), is in Outbox alone.
- An object edited after its approval may keep a status that no task will change. `NotStranded`
  therefore speaks of objects that were never approved.
- What an LLM or a web source answers is any member of a small set. HTTP, the reading of
  microdata, meta tags and JSON-LD, signatures and hashes are left out.
- The Critic's temporal and provenance resolvers appear as resolvers of the outbox protocol that
  succeed, fail or raise; each of them is one call of evolve_knowledge.

- `AgentFleet`'s clock counts in intervals of a heartbeat: a stall shorter than one is none, though several of them
  and an error may add up. A heartbeat is one step; a tick that is cancelled in the middle of a write is not one.
- A conflict whose enqueue failed is in the inbox alone and is lost with it: `UnmergedIsKept` excepts it. merge_branch
  does not say which relations it dropped with a participant; merge_knowledge does.
- resolve_fork applies the mechanical policy alone. Nothing but tests calls `_try_lca_resolution`, the only caller of
  `resolve_with_lca`: `LcaVerdictIsRight` and `VerdictsAgree` are about these functions, not about what an agent does.

Not modelled: the queries among the session and graph tools, the graph registry, export and
migration (single calls of the storage, whose concurrency is the storage's), observability,
resources, prompts and plugins (no state others read), the framing of the transports, and the SSE
fan-out, a bounded queue per subscriber that drops for a slow one alone.

## 8. Plan

What would come next, by weight:

1. **DeadLetterReview over InferenceResolver**: partial approvals against `DoneMeansHandled`.
2. **link_graphs with two sessions**, and the path that creates a session.
3. **The SSE fan-out** and the graph registry.
4. **Proofs**: that the reader of pages keeps its limits (`Cap`) for any page.
