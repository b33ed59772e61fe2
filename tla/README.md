# Verification of the Wind-Solar-ESS agent

This directory is a TLA+ development kept beside the code under `src/`. It models the
part of the program where several actors share state: a browser that follows a turn, the
API gateway that runs it on threads, the Agent Runtime process that plans and executes
it, the stores and buses between them, the worker that turns finished runs into
memories and skills, and the page of the digital twin that shows the station. TLC checks each model on small instances;
TLAPS proves their safety properties for every value of the constants.

- [1. The system](#1-the-system)
- [2. Modules and the code they model](#2-modules-and-the-code-they-model)
- [3. Runs](#3-runs)
- [4. Fairness](#4-fairness)
- [5. Proofs](#5-proofs)
- [6. Disagreements between code and text](#6-disagreements-between-code-and-text)
- [7. What is not modelled](#7-what-is-not-modelled)
- [8. What could follow](#8-what-could-follow)

## 1. The system

### 1.1 Components

| component | source | state it keeps | operations |
|---|---|---|---|
| Run coordinator | `apps/api_gateway/agent_run_coordinator.py` | sessions, run records with an event log, the message key of each run, a thread pool | create_session, start_run, append, cancel, snapshot, `_execute` |
| Event stream of the gateway | `apps/api_gateway/routers/agent.py` | one cursor per SSE connection | start a turn, cancel, stream events, forward runtime events |
| Cached run store | `agent_run_coordinator.py:131` | a Postgres row and a Redis key per record | get_run, save_run and the same for sessions and message keys |
| Event bus | `packages/events/bus.py` | a Redis stream and a list in the process per topic | publish, history |
| Agent Runtime | `packages/agent_runtime_rpc/service.py`, `apps/api_gateway/services/run_dispatcher.py`, `apps/api_gateway/routers/runs.py` | one run record per session and text (or per coordinator run), its event topic | StartTurn, StreamRunEvents, cancel_run, complete_run |
| Control BFF | `apps/harness-control/app/api/v1/.../runs/[runId]/route.ts` | the position of one gRPC stream | project a runtime event into a numbered SSE frame |
| Workbench page | `AgentStreamingWorkbench.tsx`, `agent-stream-client.ts`, `stream-reducer.ts` | a cursor, a queue of received events, the message's run state, the active message, a run id in sessionStorage | send, stop, resume, flush, reduce |
| Reflection queue and worker | `packages/reflection/service.py`, `apps/reflection_worker/main.py` | reflection jobs, learning candidates | enqueue, run_pending, review_candidate |
| Memory lifecycle | `packages/memory/service.py` | memory records | create, validate, promote, resolve a conflict, roll back, expire, delete, search |
| Skill lifecycle | `packages/skills/lifecycle_service.py`, `meta_tools.py` | versions of skills | draft, update, evaluate, approve, activate, roll back, suspend |
| Control server | `apps/harness-control/src/server/`, `app/api/v1/` | a secret and one configured user; nothing per client | sign in, validate, issue a session, start a turn |
| Agent access of the page | `ControlLoginGate.tsx`, `station-auth.ts`, `station-api.ts`, `AgentStreamingWorkbench.tsx` | token and session in sessionStorage, the gate, queries under way | sign in, query, send |
| Station telemetry | `BessTelemetryBridge.jsx`, `stationTelemetryClient.js` | one WebSocket per run of its effect, the containers and the overview of the store | connect, fold a snapshot, age, reconnect, refresh |
| Energy trend | `EnergyFlowTrend.jsx`, `energyFlowClient.js` | the points shown, histories and polls under way | choose, load, poll, retry |
| Station page | `digital-twin-workspace.tsx`, `store.js`, `App.jsx`, `scene.jsx` | view, selection, address, camera | choose, navigate, follow |
| Scene loading | `App.jsx`, `store.js` | resources loaded, overlay, two timers | start, progress, finish, hide |
| Temperature filter | `charts.jsx` | two ends of a range, the one held | grab, press, drag, let go |
| Label layout | `digitalTwinAdapters.js`, `scene.jsx` | labels shown, cluster | lay out a frame |
| Plugin host and supervisor | `packages/plugins/` | a child process per plugin version, version pins of runs | call, restart, route |

`PROJECT.json` lists the remaining parts (retrieval, context compiler, intent router,
model adapters, tool gateway, observability, security, charts and video wall,
generated code) with
the reason each is left out.

### 1.2 How they interact

```
 page --POST turn--> gateway (event loop) --submit--> executor thread --gRPC/inline--> Agent Runtime
  ^                     |  lock                            |                            |   |
  |                     v                                  v                            v   v
  +---SSE frames--- stream generator <--- run store (Postgres + Redis cache)     run rows   event bus
  |                                                                                        |
  +---SSE frames--- Control BFF <---------------- gRPC StreamRunEvents <-------------------+

 turn threads, session end --jobs--> reflection worker (own process) --candidates-->
                                     memories and skill versions <--requests-- gateway
```

* All HTTP handlers, SSE generators and asynchronous gRPC handlers of one process share
  an event loop: each runs until its next `await` or `yield`. Turns run on threads, which
  interleave with the loop at any point outside the coordinator's lock.
* A run record is always written as a whole. Who read an older copy and writes it back
  undoes what was written between.
* In the browser everything shares one event loop: React runs the effects of a store change
  before the next event, the router commits a navigation some events later, and answers,
  socket messages and timers come in any order. The parts of the twin's page share
  the store, but each slot of it has one part that writes it, apart from the containers,
  which telemetry and the device tree both replace.
* Readers of a run's events poll by position (the length of the last history) or by
  sequence number (`Last-Event-ID`).

### 1.3 What is hard

* **Check, then act under two lock acquisitions.** `emit` and the projection loop ask
  whether the run was cancelled and append afterwards; the answer may be stale.
* **Overwritten records.** Two turns of one conversation, a cancellation over HTTP and the
  turn itself all store the same run record.
* **Two writes that belong together**: run row and message key, row and cache, status and
  the event that announces it. A crash or an exception falls between them.
* **Logs that are trimmed or reordered** under readers that hold a position in them.
* **Connections that break on either side of the BFF** and are resumed from a number the
  page derived from what it received.
* **Learning in two processes.** The gateway and the reflection worker read and store the
  same memories, versions, candidates and jobs, one record at a time and without a
  transaction; a job is retried after an exception at any step.
* **Answers to a question nobody asks any more**: a history of the device chosen before, a
  snapshot of a socket that was replaced, a 401 for a token that is no longer the stored one.
* **State in two places**: the selection in the store, the address and the scene; the token
  in sessionStorage and the gate.
* **Waiting**: a turn waits for one of four threads; a stream for a final status; a user
  for an outcome; a page for its socket; an overlay for its models.

`PROJECT.json` lists these as hazards, each at the line where it bites, with the
properties that would catch it going wrong.

### 1.4 What makes each part correct

| component | promise |
|---|---|
| run coordinator | one run per client message; a log that starts with `run.started` and never reuses a number; a failure stays, and a completion too where writes do not raise (section 6); after a cancellation at most one late event; a turn ends and gives its thread back |
| event stream | each event once, in order, whatever broke; the stream ends, and not before the final event |
| cached store | the cache is never ahead of the authority; while no committed write missed the cache both behave as one store |
| event bus | no value is lost or invented inside a process; while Redis takes the writes, and in the mirror's order, a reader receives the publications in order |
| Agent Runtime | a run is started once; a stored outcome has been announced; it is taken back only by a turn that still holds an older copy; a planned turn settles its run |
| reflection | a proposal is learned once, whatever is retried or repeated; a completed job leaves its proposal decided; a review is undone by no retry, repeated job or restart, though by a worker that is at the candidate meanwhile (section 6); every job comes to an end |
| memories and skills | of one fact at most one memory is active, of one skill at most one version |
| agent access | a stored token is never replaced by another, only removed; an unknown session is replaced (it is not, section 6) |
| telemetry | the time beside a container's values is not newer than all of them; an old container does not stay live; the panel's figures become authoritative again after every broken socket, refused token and refresh |
| energy trend | a chart that no longer loads shows the chosen device and range only |
| station page | the address names what is shown; a package is marked in its own container only; each container is drawn once; the user's camera is not taken by telemetry |
| loading, filter, labels | the overlay goes; the range stays on its track; labels of one width do not cover each other, others by half the difference at most, and no important one is pushed out |
| workbench | the n-th event shown is the run's n-th; nothing waits behind a gap; a stream that is over leaves an outcome on the message and it stays |

## 2. Modules and the code they model

| module | code | |
|---|---|---|
| `RunCoordinator` | `agent_run_coordinator.py`, `routers/agent.py` | sessions, start_run, the executor's threads, append, trim, cancel, the SSE generator |
| `RunLifecycle` | (abstract) | the status of a run as a user reads it |
| `CachedRunStore` | `CachedAgentRunStore` | read-modify-write over Postgres and its Redis cache |
| `RunStore` | `AgentRunStore` (abstract) | one log per run, written and read |
| `EventBus` | `packages/events/bus.py`, `_forward_runtime_events` | publications and reads in two steps each, failures, restart, two readers that count positions |
| `TopicLog` | `InMemoryEventBus` (abstract) | one growing list, read from a position |
| `AgentRuntime` | `agent_runtime_rpc/service.py`, `run_dispatcher.py`, `routers/runs.py` | turns over a run record, its topic, the handlers that cancel and complete it, StreamRunEvents |
| `AgentWorkbench` | `runs/[runId]/route.ts`, `agent-stream-client.ts`, `stream-reducer.ts`, `AgentStreamingWorkbench.tsx` | EXTENDS `AgentRuntime`: the BFF and the page over one of its streams |
| `RunShown` | (abstract) | the events of a run as the page shows them |
| `LearningStore` | `packages/storage/postgres_*_repository.py` | the four tables of learning, and processes with writes still to make |
| `MemoryLifecycle`, `SkillLifecycle` | `packages/memory/service.py`, `packages/skills/` | EXTEND `LearningStore`: the operations on memories of one fact and versions of one skill |
| `Reflection` | `packages/reflection/service.py`, `apps/reflection_worker` | EXTENDS both lifecycles: jobs, the worker and reviews, and the whole of learning as one specification |
| `AgentAccess` | `ControlLoginGate.tsx`, `station-auth.ts`, `station-api.ts`, `stationAuthClient.js`, `agent-stream-client.ts`, `control-auth.ts`, the routes for sign-in, sessions and turns | token, its two sources, session, queries and turns over deployments and reloads |
| `StationTelemetry` | `BessTelemetryBridge.jsx`, `stationTelemetryClient.js`, `store.js` | sockets, snapshots of several metrics, ageing |
| `EnergyTrend` | `EnergyFlowTrend.jsx`, `energyFlowClient.js`, `digitalTwinAdapters.js` | histories and polls |
| `StationPage` | `digital-twin-workspace.tsx`, `store.js`, `App.jsx`, `scene.jsx` | view, selection, address, camera |
| `SceneLoading` | `App.jsx`, `store.js`, `scene.jsx` | the overlay |
| `TemperatureFilter` | `charts.jsx` | the range of temperatures |
| `LabelLayout` | `digitalTwinAdapters.js`, `scene.jsx` | `resolveSocLabelLayout`, frame by frame |
| `Station` | `App.jsx` | EXTENDS the seven modules above: the page as one specification |
| `RunCoordinatorProofs`, `CachedRunStoreProofs`, `EventBusProofs`, `AgentRuntimeProofs`, `AgentWorkbenchProofs`, `ReflectionProofs`, `StationProofs` | | theorems about the modules they extend |
| `IterationTheorems` | | induction over the numbers, for the other proofs |

`PROJECT.json` maps each definition to its lines. What is common to all of them:

* **Steps.** An action is what happens between two points where another actor can come
  in: an `await` or `yield` of the event loop, an acquisition of the coordinator's lock, a
  call of a store or a bus from a thread. A handler that does not await is one action if
  no thread touches what it reads and writes, and otherwise as many as its store calls.
* **Records.** A record is what the properties tell apart: statuses, the flags and
  references that guards read, the type and number of an event. Texts, payloads, scores
  and times are left out; a timestamp that orders records is the order of their ids.
* **Copies.** Where the code keeps a record it read and later stores it, the model keeps
  the copy: `turn[t].copy`, `op.log`, the `read` and `new` parts of a pending write,
  `wk.record` and `wk.copy`.
* **Mutants.** Definitions commented "Mutant" are the code with a plausible bug in it;
  each property is violated when one of them takes the place of the real definition.

### 2.1 Run coordinator

`runs`, `clientRuns` and `sessions` are the store's maps, `worker[r]` the thread that
executes run `r` with the events it has yet to append, `req` the start_run call the event
loop is in the middle of, `stream[c]` an SSE generator with its cursor and, as history,
what the browser received. start_run is three steps (`StartRun` stores the record,
`SaveClientRun` the message key, `Submit` hands it to the executor), because with Redis
and Postgres each is a write of its own, and with every store a worker thread may run in
between. `_execute` is `Plan`, then `EmitCheck`/`EmitAppend` for each runtime event,
`TurnReturns` or `TurnRaises`, then `ProjectCheck`/`ProjectAppend` for each projected one:
the check and the append take the lock separately. `StoreKind` selects the store: the
in-memory one evicts its oldest sessions and runs, Redis keys expire one by one, Postgres
does neither. Redis and Postgres may raise (`StoreRaises`), before a write or after it went
through: an append then goes to the except clause or ends the thread (`AppendEvent`), as a
check does (`CheckRaises`), and start_run answers with an error and leaves a run without a
turn (`StartRaises`). `Restart` loses threads, queue and connections, and with the in-memory
store the records.

### 2.2 Cached store

`op` is the read-modify-write the coordinator is in the middle of, under its lock:
`Update` reads through the cache and extends the log, `SaveAuthoritative` writes Postgres,
`SaveCache` Redis. The faults are a failed cache read, an expired key, a database error
before or after the commit, a cache write that is dropped, and a crash between the two
writes. `lost` remembers that a committed write has missed the cache.

### 2.3 Event bus

`primary` is the Redis stream of one topic, `fallback` the mirror in the process,
`published` the history of what was published, in the mirror's order. A publication is two
steps, `Mirror` and `Reach` (bus.py:40 and 42), and so is a read, `BeginRead` and `Read`
(bus.py:48 and 50); `pub` and `got` hold what is under way. A reader takes the part of a
history behind its position; `seen` is what it received. A forwarder's position is the
length of the history it was given, a stream's only grows. `apart` remembers that the lists
differ in a way positions do not survive: an event missed Redis or reached it out of the
mirror's order, or another was published while an event equal to an earlier one was on its
way (the merge leaves such an event out until Redis has it). `misled` marks readers that were given an
emptied mirror's events, or a history shorter than their position.

### 2.4 Agent Runtime and workbench

`row[k]` is the status of a stored run, `turn[t]` a turn with the record it holds, `loop`
the handler in progress on the event loop, `stream[c]` one StreamRunEvents call. A turn
over gRPC finds or creates the run of its session and text, so two turns can share one;
it prepares on the loop (`Dispatch`, `PublishStart`, `SaveContext`, `Announce`) and
executes on a thread (`Compile` to `Close`, or `Fail` and `Report` after an exception).
`cutOff` marks runs whose outcome was stored and its event prevented by a restart or a
failing write. In `AgentWorkbench`, `wire` holds the frames between BFF and page, `queue`
is pendingEventsRef, `view` the run state the reducer computes, `page` the streamAgentRun
call with its retry counter. The bus is a sequence here: `EventBus` implements
`TopicLog`, that sequence seen possibly late, until its two lists come apart or a reader
is misled.
`Parsed` is the parser of the frames, `Converted` and `Projected` what the BFF does to an
event, `LoadedRun` the snapshot a reloaded page starts from (it has no events).

### 2.5 Learning

`row` maps the keys of all four tables to records. An operation reads what it needs in its
first step and leaves in `writes[p]` the records that process `p` still has to store; each
`Write` is one upsert, and `Abandon` an exception that leaves the rest unmade. Handlers of
the gateway do not await, so the gateway is one process, `"api"`; turn threads, which
count recalls and enqueue jobs, and the worker come in between. `stale` remembers every
record replaced by a writer that had not read it. The worker's steps are those of
`_process` and `_materialize`: `Take`, `Propose`, `MaterializeNothing`,
`MaterializeMemory` or `DraftSkill` and `EvaluateDraft`, `SaveCandidate`, `CompleteJob`;
`Raise` may follow each, and `Fail` then schedules a retry or gives the job up.

### 2.6 The page of the station

`StationTelemetry`: `conn[g]` is the socket of the g-th run of the bridge's effect, with
the snapshot in flight: a point for some metrics of some devices, whose time may be missing
or unreadable. `shown` and `overview` are the store's, every time in them an age in ticks of
the staleness timer: a container has the age of each value and, as `observed`, the age of the
one time the page keeps for all of them. `Values` keeps what a snapshot leaves out, `Newest`
takes the newest time of any metric, `DeliverOthers` is a snapshot of other containers, and `HasFigures` decides whether the overview changes.
The device tree's `Summary` replaces some values, keeps the others it knows of and drops the
rest, with the time. `Refresh` cleans the effect up and runs it again, and a token awaited by
the old run still arrives. `EnergyTrend`: `loads` and `polls` are the requests under way with the
choice each was made for; an effect that was cleaned up leaves its history inactive and its
poll aborted. `StationPage`: `store` holds view, device and package index, `url` the
address of the last rendering, `pending` the navigation under way; a
choice is one action with the effects React runs after it (`Navigated`, `Follow`), a
commit of the router another. `SceneLoading`: `loading` is the store's, `finishing` and
`hiding` the timers App's effects hold for it. `TemperatureFilter`: the range and the
handle held. `LabelLayout`: `candidates` what a frame sees of each container, `layout`
what the algorithm makes of it; `laid[n]` is the code's loop after `n` turns, each of which
takes the `First` of the labels left in the code's order and puts it on the `Tried` offset;
columns are pixels, labels have the code's three widths (176 selected, 132 far from the
camera, 148 otherwise), and their row is one. `Overlap` is the code's: the position, at which
the page centres the label, counts as its left edge. `Candidates` admits marks and levels in
any combination, though the scene registers fewer labels while one is selected.

`AgentAccess`: a token is the server's state when it was signed, so that the server accepts it
while secret and lifetime are the same; `query` holds the queries under way, `ask`
the turn under way, `result` how the last was answered. Queries are answered by the
station's own service, which may refuse any token. `boot` and `runtime` are
`bootstrapPromise` and `runtimeBootstrapToken` of `stationAuthClient.js`, the second source
of the stored token (`AskBootstrap`, `BootstrapAnswered`, `BootstrapFails`). `LoginAnswer`,
`SessionRefusal`, `InvalidInput`, `StartRefusal` and `TurnAnswer` are the routes' answers.

`Station` lets one part at a time act. Apart from the containers, no part reads what
another writes, and that telemetry replaces the containers while the user looks at one is
an action of the page (`ContainersReplaced`); no property relates two parts, so every
behaviour of the page restricted to one part is a behaviour of `Station`. The full
product of the parts adds states and nothing that a property could see.

## 3. Runs

All runs are exhaustive. `BOUND` constants cap what the environment may do; the other
constants are the code's own limits, made small enough to be reached.

| run | states | what it shows |
|---|---|---|
| `coordinator_evict` | 107,000 | two messages in an in-memory store that keeps one run, a log of four events, one thread: eviction under a running turn, trimming, a cancellation at every point, a turn that waits for the thread: `LogWellFormed`, `AtMostOneLateEvent`, that the status follows `RunLifecycle` (from which `OutcomeIsFinal` follows in this store), and that turns finish and cancelled ones stop |
| `coordinator_stream` | 172,000 | one browser stream that breaks part-way through a poll and resumes, while the log trims, the run is cancelled and the process restarts: `StreamIsFaithful` (each event once, and the outcome before the end), `CompletedCarriesAnswer`, and that the stream closes |
| `coordinator_redis` | 2,232,000 | one message retried against Redis, whose keys expire and whose writes may raise before or after they went through, with a crash between any two steps, two threads and a log of two events: `OneTurnPerMessage` |
| `cache_faults` | 8,700 | two runs under every fault: `CacheNeverAhead`, `CacheCoherent`, and that the pair is a `RunStore` until a committed write misses the cache |
| `cache_dropped` | | a violation, section 6 |
| `bus_faults` | 254,000 | publications that overlap, failures of any subset of Redis calls, and a restart: `ReceivedInOrder`, `NothingForgotten`, and that the bus is a `TopicLog` until the two lists come apart or a reader is misled |
| `runtime_shared` | 604,000 | two turns on one conversation's run or a coordinator's, raising anywhere, with failing writes, a restart, and one cancel or complete: `StartedOnce`, `OutcomeAnnounced`, `OutcomeStays` |
| `workbench_follow` | 3,100,000 | a page over connections that break twice, a restart, an exception, a cancellation, a stop and a reload: `NothingWaits`, `OutcomeShown`, `OutcomeKept`, and that all of it together is a `RunShown` (from which `ShownAtItsPlace` follows) |
| `workbench_live` | 45,000 | without breaks, under fairness: `TurnsSettle`, `UserSeesOutcome` |
| `learning` | 184,000 | two jobs, a worker that raises, retries and dies once, and two requests or turn calls, from an empty store, from one in use, and from one with a successor in reserve: `OneActiveRecord` (of a fact and of a skill), `CompletedIsDecided`, `LearnedOnce`, `ReviewStands`, `JobsSettle` |
| `station` | 538,000 | the page of the station, part by part (below); telemetry with partial, undated and late snapshots, a broken socket, refused token or device tree, and a refresh: `ObservedIsShown`, `OldTurnsStale`, `TelemetryComesBack`, `PointsOfTheChoice`, `AddressAgrees`, `SelectionCoherent`, `CameraLeftAlone`, `OverlayIsGone`, `RangeOnTrack`, `LabelsApart`, `TokenNotReplaced` |
| `stale_session` | | a violation, section 6 |

Why the bounds are enough. Each hazard needs few actors: a race of one thread with one
canceller, of one reader with one trim, of two turns on one record, of one save with one
fault. Limits are set so that they are passed: four events, fewer than a turn
appends, so that the log trims while a cursor points into it; one run kept of two; one
worker for two turns, so that one waits in the queue; one retry of a connection against
two breaks; two attempts of a job, so that it is retried and also given up. Runs, turns,
jobs, memories and values are interchangeable and at most two of them meet in any guard
(a conflict, a duplicate, a shared record, an overtaking). The `learning` run starts from
stores that earlier requests can have left, so that two requests reach what would take
six from the empty store (create, validate and promote two memories). The bounds do not
cover three turns on one run, three concurrent writers of a record, or more than two
outages of Redis in a row.

The bounds of telemetry, in `station`: one device with two metrics, one of them of the
overview, so that a snapshot may leave either out; one tick to staleness; one refresh, so
that two runs of the effect overlap; and one event of a refused token, a closed socket or a
device tree. One device is enough for what is checked: a container is made from its own
points alone, and what it sees of the others is a snapshot without any
(`DeliverOthers`); the overview, which adds the devices up, is only asked whether a snapshot
has figures and of what time.

The bounds of `station`. Trend: two devices and two ranges, two
choices, two retries or polls, one failure: a late answer needs one choice, and a poll in
flight across it one more. Page: two containers with one package and one other
device, all three views, as many choices and commits as there are states: nothing is
bounded. Loading: fewer, as many and more models than are counted (0, 2, 4 of 3), two
remounts, so that one falls into each timer. Filter: a track of six degrees, every press
and drag. Labels: three labels in columns that coincide, overlap or lie apart, each at one of three
distances (both widths, near enough for no cluster or not), of every level and one of them
selected or hovered or none, with a limit of two and a cluster of three. Access: two
users, two queries, one request for a token at a time (the code's own limit), two deployments or lifetimes, two reloads and one failure.

`CHECK_DEADLOCK FALSE` everywhere: when the bounds are used up and the turns are done,
nothing is left to do.

Where a property exempts a case, the exempted case happens in the run: `cutOff`, `lost`,
`apart`, `misled` and `stale` are set on some behaviours and not on others.

## 4. Fairness

Weak fairness is assumed of what the operating system or an event loop schedules by
itself and of nothing that a user, a network or a clock decides.

* `RunCoordinator`: the start_run call in progress, each turn's thread (it takes the run
  from the queue when a worker is free, and a turn that is projecting or appending does so
  to the end), and each SSE generator's poll, which the code repeats with a sleep. Not:
  messages, cancellations, disconnections, expiry, restarts. That a turn's
  model and tool calls return or raise is part of its thread's fairness: the model
  adapters (`model/adapters.py:170`), the station client and the plugin host
  (`opcua_connector/host.py:207`) all wait with a timeout.
* `AgentWorkbench`: the turns' steps, the second half of a handler, the runtime's stream,
  the page's reading loop and its flush timer.
* `StationTelemetry` and `Station`: the bridge's steps (a token that was asked for arrives, a socket that was
  dialled opens, the reconnection timer fires, a snapshot is folded), the staleness check
  and the passing of time, each for itself; the loader and the timers of the overlay,
  taken together. Not: what the user does, refusals and broken sockets, and not what the
  station sends: `BackToLive` (in the run, of the part: `TelemetryComesBack`) is stated of a station that goes on sending figures over a
  socket that stays open.
* `Reflection`: the worker's steps, taken together (its loop polls for ever and is
  restarted when it dies), and the writes it has begun. `JobsSettle` leaves out the job
  the worker died on: `run_pending` does not take a job that is stored as running, so
  that job stays so; this is the code's behaviour.

## 5. Proofs

Checked by TLAPS for every value of the constants that satisfies the assumption its module
names (`CoordinatorAssumption` and so on). These say that bounds are natural numbers, that
limits are positive, that `MaxEvents` is at least 2, that `StoreKind` is one of the three
stores, that the telemetry's figures and the device tree's are among its metrics, that names of different kinds of things differ (runs of conversations and of the
coordinator, containers and other devices, reflection jobs and versions, threads and the
two processes of learning), that the page of the workbench follows one run of a
conversation over one stream, that a track has two ends, and that labels are finitely many
numbers in columns of pixels.

Every safety property, every action property and every refinement of the runs of section 3
has a theorem, except the two properties of section 6 that the code violates. Each
of the invariants below also holds on the bounds of a run of its component, where TLC checks it.
Each proof has the same plan: the initial states satisfy the inductive invariant, a lemma
per action (or per kind of step) shows that it keeps each conjunct it can disturb, and the
theorem puts them together.

**RunCoordinatorProofs.** Four invariants, one on top of the other.

* `IInv`: types, `LogWellFormed` and final outcomes (`TypeCorrect`, `LogsWellFormed`,
  `OutcomesFinal`). `LogWellFormed` is not inductive: a thread that is about to append some
  event could append a second `run.started`, and an id not yet handed out could already own
  a record. `IInv` adds what the threads hold (`TodoOK`: only events of a turn, with
  `run.completed` last), what start_run is in the middle of (`RequestOK`), that unused ids
  are unused (`FreshUnused`), that the queue holds each submitted run once (`QueueOK`), and
  that a run that completed or failed has no thread with an append ahead of it
  (`FinalRests`), but for one: outside the memory store a completed run's thread may be in the
  except clause, when the write of its completion raised after it went through.
  `OutcomesFinal` is stated accordingly: a failed run stays failed in every store, a completed
  one stays completed in the memory store.
* `LogsAt`: what the end of a run's log says of its status, its thread and its
  cancellations. `CancelBudget` counts: while the thread is past a check it made before the
  cancellation, no late event and one cancellation are in the log; afterwards at most one
  and two; an append that raises may or may not have gone through, and `AppendStrays` shows
  that the log stands either way (`StrayedLog`, `MissedLog`). `StatusAt` ties the status to
  the thread until a cancellation, `AnswerLogged`
  and `AnswerShown` say where the canonical answer stands. It gives `CancelledOnceLate`,
  `CompletedAnswers` and, with the events a thread may append ranked by the status they
  set, `LifecycleImplemented`: over the memory store the coordinator implements `RunLifecycle`
  under the refinement mapping of `RunCoordinator`. Over the others it does not, by a
  failure over a completion (section 6).
* `HeardOK`: each connection has received its events in order, and every event of the log
  up to its cursor, across trims (`BrowsersMissNothing`, `StreamsAreFaithful`).
* `Keyed` and `OneAlive`: the message key names the only run of the message whose thread
  has not come to rest, save between start_run's two writes; Postgres finds the run by the
  message itself. `Recorded`: outside the memory store the run of a thread at work is
  stored. Together they give `MessagesAnsweredOnce` for Redis and Postgres, with
  `BusyStored`, so that the condition of `OneTurnPerMessage` that both runs are stored exempts
  nothing. The memory store is left out of it: it may evict the run of a thread at work, and
  a retry of its message then starts a second thread.

`CompletedAnswers`, `StreamsAreFaithful` and `LifecycleImplemented` assume `MaxEvents >= 4`;
the code's value is 2000 (`agent_run_coordinator.py:341`). With less room a cancellation
beside the last two events of an answer pushes one of them out of the log. The part of
`StreamIsFaithful` that does not need it (`SeenExactlyOnce`) is a theorem of its own.

**CachedRunStoreProofs** (`NeverAhead`, `Coherent`, `Implements`). `CacheNeverAhead`
compares ids; it is inductive together with `Newest` (no stored log is newer than the
write counter) and `OpOK` (the log about to be committed ends in the newest write, and the
one about to be cached is the one just committed). `Implements` shows that the initial
state is one of `RunStore` and each step before a committed write misses the cache is a
`RunStore` step or a stutter; it rests on `CInv`: until then the cache agrees with the
authority outside a save, and the log being saved extends the authority's.

**EventBusProofs** (`InOrder`, `NothingIsForgotten`, `TopicImplemented`). As long as the lists
are together (`Together`), Redis holds a beginning of what was published, what it lacks is
under way, and of that only the last event may equal an earlier one; the mirror, and the copy of
it a reader is in the middle of, are stretches of what was published that begin inside
Redis's part (`Copies`). So the merge of the two is a beginning of what was published
(`MergedIsPrefix`), and every history but an emptied mirror is too (`HistoryIsPrefix`); a
position means the same in all of them, and `Received` states that a reader's events are the
publications up to its position. `InOrder` follows. The three ways for the lists to come apart
are those of section 6; each happens in the run.

`NothingForgotten` does not depend on any of this. It counts: the merge is as long as Redis
and the values missing there (`MergedHolds`), each of which the merge lists once and in
the place that its rank among them names (`Ranking`), and `Held` says that the stream is no
longer than the number of publications that have reached it, those under way not counted.

`TopicImplemented` is the refinement: with the publications as the list, each step is one of
`TopicLog` or a stutter until the lists come apart or the reader is misled, because what a
history has behind the reader's position is what the publications have there.

**AgentRuntimeProofs** (`RuntimeTypes`, `RunStartsOnce`, `OutcomesAnnounced`,
`OutcomesStay`). `StartedOnce` needs `StarterAlone`: the turn that has stored a run and not
yet published its start shares the run with no other, since it holds the event loop
(`LoopHeld`) or is the coordinator's only turn. `OutcomeAnnounced` speaks of runs at rest;
`OutcomesBacked` says it of runs at work: the outcome in a record, and the one any turn's
copy could bring back, has its event out or somebody about to publish it. This is where a
whole-record save that overwrites an outcome has to be followed to every copy.

**AgentWorkbenchProofs** (`PlacesShown`, `NothingEverWaits`, `OutcomesShown`,
`OutcomesKept`), on top of the runtime's invariant. `InSequence` says that view, queue,
wire and the stream's cursor continue one another, `FramesInPlace` that each frame in them
is the projection of the event of its number, and `OutcomeComes` that an outcome the page
has received is shown or in the queue. The reducer folds a queue of any length: `Reaches`
says what it has made of the first m frames and is proved by induction on m. `ReadingImplemented` maps
the page with everything behind it (turns, stream, wire, queue) to `RunShown`: turns and
handlers are its `GoOn`, a flush its `Show`, a reload its `Load`, and each break, retry and
frame under way a stutter. `RuntimeUnderPage` carries the invariants and the action property
of the runtime over to the composition, since each of its steps is one of the runtime or
leaves the runtime alone (`RuntimeAlone`).

**ReflectionProofs** (`LearningTypes`, `OneStaysActive`, `CompletedDecided`, `LearnsOnce`,
`ReviewsStand`). An operation holds records it read earlier and stores them whole, so the
invariant is mostly about what each process may still write: `ApiOK` (a list of the
gateway passes activity on from its first record to its last, `HandsOver`), `ThreadOK` (a
recall stores what it read), `WorkerOK` and `WkOK` (the worker drafts a candidate once, and
nobody else does). `ReviewsStand` says who may undo a decision: another review, and the worker
when it stores a copy that it read before the candidate was decided so. `WkOK` supplies the
rest: a worker that found the candidate decided stores it as it found it, in a retry and a
repeated job too. A skill has one active version without exception. Two memories of a
fact are active only after a write replaced *some* memory its writer had not read; that it
was one of those two would be false, because the recall that revives a memory may be
followed by a request that supersedes it, and by a rollback to a third.

**StationProofs** (`TelemetryDated`, `TrendSafe`, `PageAddressed`, `PageCoherent`,
`CameraKept`, `FilterSafe`, `LabelsLaidOut`, `LoadingDue`, `LoadingShortens`, `AccessKept`), each about the specification of its own part,
and `StationSafe`, which carries them over to the page as a whole: a step of `Station` is a
step of each part or leaves it alone. `ObservedIsShown` is not inductive: a partial snapshot
replaces values and takes the newest time of any. `TelInv` names for each container a metric
that `Backs` its time: the value shown, the source's newest measurement of it and whatever
is in flight of it are all no older than the time. Together with `OneSocket` (one run of the effect
at most has a socket) that is kept by every fold. `PointsOfTheChoice` needs that
an active history is for the choice, and that a poll that is not aborted is too.
`AddressAgrees` is
inductive with the types and `PackInDevice`, which is also what `SelectionCoherent` rests
on: a package index is always that of the device selected, whoever set the two.
`CameraLeftAlone` needs `FocusKnown`: the ref that remembers a focus tells the truth about
the store after every effect. `TokenNotReplaced` needs `TokenInv`: the form is there only
while no token is stored, and a request for a token is under way only behind the form, once at
a time and while none is stored, since all callers share one promise and a reload drops it.
`LabelsLaidOut` is about a loop inside one step. `LaidOut` says what holds after each of its
turns: the labels placed do not overlap by the code's test, each is at least as important as
those left, the selected one is placed or still to be tried, and each label neither placed nor
left was passed over for the limit or for one at least as important that overlaps its place.
With the three widths the code's test means that two labels stand the narrower's width
apart, which is what `LabelsApart` promises of the screen. `LaidEnds` proves it for every turn by induction,
and that none is left at the end. `LoadingDue` (`LoadingGoesOn` always holds) and
`LoadingShortens` are the parts of the overlay's liveness that need no fairness: until the
scene stands without an overlay something is due, and each step but a remount decreases
`StepsLeft`, a natural number. They rest on `LoadInv`: the timers run exactly when the state asks for them, and a scene that is mounted
counts as complete however much the loader reported.

**IterationTheorems.** What iterating a step has done after n rounds, for every n: the
induction theorems of the library take an operator as a parameter, which the provers
cannot instantiate, so this module proves induction for a set of numbers
(`NatSetInduction`, from well-foundedness) and the existence and agreement of iterations of
a function. The reducer, the bus's merge and the logs use it.

Only model-checked: the liveness properties (`TurnFinishes`, `CancelledTurnStops`,
`StreamCloses`, `TurnsSettle`, `UserSeesOutcome`, `JobsSettle`, `OldTurnsStale`,
`TelemetryComesBack`, `OverlayIsGone`), which need fairness and ENABLED and are out of the prover's reach.

## 6. Disagreements between code and text

* `cache_dropped`, `CommittedWritesSurvive`. The comment at
  `agent_run_coordinator.py:216` says a failed cache refill must not roll the business
  write back. It does not do so by itself, but the stale record is read first by the next
  operation, which extends it and stores it over the newer row.
* `stale_session`, `StaleSessionRecovered`. A test of the page is named "normalizes
  stale-session error envelopes for automatic recovery"
  (`tests/agent-stream-client.test.ts:106`). The page looks for the code
  `agent_session_not_found`; the server answers `session_not_found`
  (`control-auth.ts:90`), so after a deployment with another secret each turn of an
  open tab fails and no new session is asked for. A session of another user
  (`session_forbidden`) is not replaced either.

Behaviours that no text contradicts outright, but that a reader should know of:

* A run cancelled while it waits in the queue is put back to `planning` by its thread
  (`Plan`), the one late event that `AtMostOneLateEvent` allows.
* A recall of a memory stores the whole record it found, so a memory superseded meanwhile
  is active again, the case `OneActiveMemory` leaves out.
* With Redis or Postgres, a `save_run` that raises after it stored `run.completed` sends the
  thread to the except clause, which puts `error` behind it and the run to `failed`
  (`agent_run_coordinator.py:421`): the browser that saw the answer sees it fail. The in-memory
  store does not raise.
* A write of `start_run` that raises after it went through leaves a stored run that no thread
  executes (`agent_run_coordinator.py:396`). A retry of the message is answered with it, and its stream
  sends heartbeats for ever; on Redis, when only the message key is missing, the retry starts
  a second run.
* The mirror and Redis can differ in order in three ways, each the case `ReceivedInOrder`
  leaves out (`apart`): a Redis write failed and a later one succeeded, so that the older event
  stands behind the newer in every history; two threads published `a` and `b` and reached the
  mirror as a, b and Redis as b, a, with no failure at all (`bus.py:40` and `42` share no
  lock); an event equal to an earlier one was overtaken on its way to Redis, and the merge
  leaves it out until it arrives. A reader that counts positions then receives one event
  twice and another never.
* A forwarder's position is the length of the history it was last given
  (`routers/agent.py:488`): a shorter one, read while Redis does not answer from a mirror that
  a restart emptied, moves it back, and it projects events a second time. These readers
  are the `misled` ones.
* The reflection worker stores its copy of a candidate over a review made while it was at that
  candidate (`reflection/service.py:255`), and the review is gone; a review made from a copy
  read before the worker stored likewise forgets what the worker made of the candidate.
* A container has one time for seven metrics, the newest of any (`stationTelemetryClient.js:62`):
  after a snapshot that leaves a metric out, its old value stands under the newer time, and
  is labelled live. A point without a readable time replaces the value and leaves the time
  as it was. Values the device tree does not have disappear with its answer, those it knows of
  but leaves out stay, and the time is taken away from both.
* Two labels of different widths can be drawn over each other: the code takes the position at
  which a label is centred for its left edge (`digitalTwinAdapters.js:102`, `scene.jsx:595`),
  so a selected label (176) at 140 and a compact one (132) at 0 pass its test and cover
  each other by 14 pixels as drawn. `LabelsApart` says what holds.
* A 401 of the station's service removes whatever token is stored, the one the bootstrap has
  brought meanwhile included (`station-api.ts:89`). The page stays signed in without a token:
  queries fail with `station_login_required`, the telemetry goes on with
  `runtimeBootstrapToken`, and the form returns with the next reload only.
* `fetchStationApi` asks for the token again after it has removed it, so that its second
  attempt is never sent.
* A choice made and taken back while a navigation is under way is undone by its commit.
* A click beside every model deselects (`App.jsx:925`), where a comment of the scene
  (`scene.jsx:1114`) says that a click on empty space keeps the selection.
* A poll whose body is cut off by another choice leaves "reconnecting" over the new chart
  until its history answers; later polls do not clear it.
* A model that fails to load leaves the overlay up, since the scene never mounts:
  `OverlayIsGone` is stated of models that load.
* A refresh restarts the staleness timer, so that a check that was due is made one
  interval later, and who refreshes more often than that has no check at all.

## 7. What is not modelled

* Payloads and their validation: event texts, plans, observations, evidence, prompts.
* Time: timeouts are failures that may happen whenever the code waits; retry delays,
  heartbeats and poll intervals are steps that may come at any time.
* In `AgentRuntime`: the contents of planning and tool calls, the discovery and
  observation events, and reading a run's record by another user.
* In `AgentWorkbench`: a second message sent while the first stream still closes, the pace
  of the paint timer, several tabs on one run, and what is typed
  while a resumed run still loads.
* In learning: `auto_promote_low_risk` (off by default; with it on, the worker activates
  versions too, and races with the gateway), memories of several facts at once, ranking
  and scores. A client may also post a memory that names one of another fact to
  supersede; promoting it passes over the active memory of its own fact. A posted memory's
  idempotency key (`memories.py:44`) and the evaluation and approval fields of a posted version,
  which `create_draft` keeps (`lifecycle_service.py:30`), are left out; no guard the model has
  reads them.
* In the page of the station: hovering (but for the order of the labels), layers, cooling mode and fullscreen; the choice of a
  camera on the video wall; the drawing of charts, models and panels; label heights (labels
  stand in one row) and the level "offline", which `bessHealthLevel` never gives; in the run of
  `LabelLayout` labels are registered whatever is selected. The audit panel, the timeline and the older workbench
  (`features/AgentWorkbench.jsx`, `agentWorkflowClient.js`) are not rendered by any page.
* The parts that `PROJECT.json` lists as `not_modelled`, with the reason for each.

## 8. What could follow

1. The plugin host (`plugins/opcua_connector/host.py`, `supervisor.py`,
   `version_router.py`): requests and responses over the pipe of a child process, with
   timeouts that leave an answer behind, restarts, and version pins of runs. Abstract
   specification: a call returns the answer to its own request or raises.
2. A second message on the page while a resumed run loads (`AgentStreamingWorkbench.tsx:225`).
3. Grounding, guardrails and data quality (`packages/workflow/`) as operators with
   reference definitions.
