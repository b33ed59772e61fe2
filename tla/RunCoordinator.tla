--------------------------- MODULE RunCoordinator ---------------------------
(***************************************************************************)
(* AgentRunCoordinator (apps/api_gateway/agent_run_coordinator.py) and the *)
(* HTTP handlers and SSE generator over it (routers/agent.py): sessions,   *)
(* idempotent run creation, the worker pool that executes a turn, the      *)
(* event log of a run, cancellation, and the resumable event stream.       *)
(*                                                                         *)
(* Threads.  All HTTP handlers and SSE generators run on one event loop,   *)
(* so a handler is interrupted only by worker threads (and by a crash):    *)
(* `req` is the start_run call the loop is in the middle of.  The          *)
(* coordinator's lock is held exactly while req.step = "saved".            *)
(*                                                                         *)
(* A request the code refuses (KeyError, HTTP 404: unknown run, or one of  *)
(* another user) and a start_run that finds its run already stored change  *)
(* nothing and are not actions; the requests modelled are the owner's.     *)
(***************************************************************************)
EXTENDS Integers, Sequences, FiniteSets

CONSTANTS
  Messages,      \* client message ids the browser may submit
  Clients,       \* browser event streams
  StoreKind,     \* which AgentRunStore backs the coordinator
  MaxSessions,   \* InMemoryAgentRunStore.max_sessions
  MaxRuns,       \* InMemoryAgentRunStore.max_runs
  MaxEvents,     \* AgentRunCoordinator.max_events
  MaxWorkers,    \* ThreadPoolExecutor(max_workers)
  SessionBound,  \* bound: sessions ever created
  RunBound,      \* bound: runs ever created
  EmitBound,     \* bound: runtime events emitted by one turn
  BreakBound,    \* bound: disconnections of one event stream
  RestartBound   \* bound: process restarts

ASSUME CoordinatorAssumption ==
  /\ StoreKind \in {"memory", "redis", "postgres"}
  /\ MaxSessions \in Nat \ {0} /\ MaxRuns \in Nat \ {0}
  /\ MaxEvents \in Nat /\ MaxEvents >= 2
  /\ MaxWorkers \in Nat \ {0}
  /\ SessionBound \in Nat /\ RunBound \in Nat
  /\ EmitBound \in Nat /\ BreakBound \in Nat /\ RestartBound \in Nat

VARIABLES
  sessions,     \* store.sessions: the stored session ids
  nextSession,  \* the next fresh session id
  runs,         \* store.runs: run id -> record, NoRecord when absent
  nextRun,      \* the next fresh run id
  clientRuns,   \* store.client_runs: <<session, message>> -> run id, 0 when absent
  req,          \* the start_run call in progress on the event loop
  queue,        \* run ids submitted to the executor and not yet taken
  worker,       \* run id -> the thread of its turn
  stream,       \* client -> its SSE connection and what it received
  restarts      \* process restarts so far

vars == <<sessions, nextSession, runs, nextRun, clientRuns, req, queue, worker,
          stream, restarts>>

storeVars == <<sessions, nextSession, nextRun, clientRuns>>

SessionIds == 1..SessionBound
RunIds == 1..RunBound

TERMINAL_RUN_STATUSES == {"completed", "failed", "cancelled"}
RunStatuses == TERMINAL_RUN_STATUSES \cup {"queued", "planning", "executing", "streaming"}

(***************************************************************************)
(* Events.  Only the type, the status field and the sequence number tell   *)
(* behaviours apart; payloads, labels and timestamps are left out.         *)
(***************************************************************************)
Ev(type, status) == [type |-> type, status |-> status]

StartedEv == Ev("run.started", "queued")
PlanningEv == Ev("phase.changed", "planning")
ExecutingEv == Ev("phase.changed", "executing")
CancelledEv == Ev("run.cancelled", "cancelled")
FailedEv == Ev("error", "failed")
RespStartedEv == Ev("response.started", "streaming")
DeltaEv == Ev("response.delta", "streaming")
RespCompletedEv == Ev("response.completed", "streaming")
CompletedEv == Ev("run.completed", "completed")
ToolStartedEv == Ev("tool.started", "executing")
ToolCompletedEv == Ev("tool.completed", "success")  \* the tool's own status
SceneEv == Ev("scene.action", "none")               \* no status field; reasoning.summary too

ToolEvs == {ToolStartedEv, ToolCompletedEv}
Evs == {StartedEv, PlanningEv, ExecutingEv, CancelledEv, FailedEv, RespStartedEv,
        DeltaEv, RespCompletedEv, CompletedEv, SceneEv} \cup ToolEvs
Event == [ev : Evs, sequence : Nat]

\* Which event types carry the run's own status.
SetsStatus(ev) ==
  ev.type \in {"run.started", "run.completed", "run.cancelled", "phase.changed",
               "response.started", "response.delta", "response.completed", "error"}

(***************************************************************************)
(* The run record and its event log.                                       *)
(***************************************************************************)
NoRecord == [status |-> "absent", session |-> 0, message |-> 0,
             cancelRequested |-> FALSE, events |-> <<>>]

Stored(r) == runs[r].status # "absent"

LastSequence(events) == IF events = <<>> THEN 0 ELSE events[Len(events)].sequence

LastN(s, n) == SubSeq(s, Len(s) - n + 1, Len(s))

Without(s, i) == SubSeq(s, 1, i - 1) \o SubSeq(s, i + 1, Len(s))

\* Mutant: trimming keeps only the latest events.
TrimmedToLatest(events) ==
  IF Len(events) <= MaxEvents THEN events ELSE LastN(events, MaxEvents)

\* Past max_events the log keeps its run.started event and the latest others.
Trimmed(events) ==
  LET started == {i \in DOMAIN events : events[i].ev.type = "run.started"}
      first == CHOOSE i \in started : \A j \in started : i <= j
  IN IF Len(events) <= MaxEvents THEN events
     ELSE IF started = {} THEN LastN(events, MaxEvents)
     ELSE <<events[first]>> \o LastN(Without(events, first), MaxEvents - 1)

AppendLocked(record, ev) ==
  [record EXCEPT
     !.events = Trimmed(Append(@, [ev |-> ev, sequence |-> LastSequence(@) + 1])),
     !.status = IF SetsStatus(ev) THEN ev.status ELSE @]

CancelRequested(r) == Stored(r) /\ runs[r].cancelRequested

\* get_client_run: a key of its own, or the run row that carries the message id.
ClientRun(s, m) ==
  IF StoreKind = "postgres"
  THEN {r \in RunIds : Stored(r) /\ runs[r].session = s /\ runs[r].message = m}
  ELSE {clientRuns[<<s, m>>]} \ {0}

\* The in-memory store drops its oldest entries; ids are handed out in order.
Kept(ids, limit) ==
  IF StoreKind = "memory"
  THEN {i \in ids : Cardinality({j \in ids : j > i}) < limit}
  ELSE ids

\* Redis and Postgres may raise, before a write or after it went through.
StoreRaises == StoreKind # "memory"

(***************************************************************************)
(* Requests on the event loop.                                             *)
(***************************************************************************)
NoRequest == [step |-> "idle", run |-> 0]
LoopFree == req.step = "idle"
LockFree == req.step # "saved"

CreateSession ==
  /\ LoopFree
  /\ nextSession <= SessionBound
  /\ sessions' = Kept(sessions \cup {nextSession}, MaxSessions)
  /\ nextSession' = nextSession + 1
  /\ UNCHANGED <<runs, nextRun, clientRuns, req, queue, worker, stream, restarts>>

\* The body of start_run up to save_run.
NewRun(s, m) ==
  LET fresh == [status |-> "queued", session |-> s, message |-> m,
                cancelRequested |-> FALSE, events |-> <<>>]
      kept == Kept({q \in RunIds : Stored(q)} \cup {nextRun}, MaxRuns)
  IN /\ runs' = [q \in RunIds |-> IF q = nextRun THEN AppendLocked(fresh, StartedEv)
                                  ELSE IF q \in kept THEN runs[q]
                                  ELSE NoRecord]
     /\ req' = [step |-> "saved", run |-> nextRun]
     /\ nextRun' = nextRun + 1
     /\ UNCHANGED <<sessions, nextSession, clientRuns, queue, worker, stream, restarts>>

\* Mutant: a retried message is not looked up.
StartRunAnew(s, m) ==
  /\ LoopFree /\ s \in sessions /\ nextRun <= RunBound
  /\ NewRun(s, m)

\* start_run under the lock, up to save_run: no stored run answers the message.
StartRun(s, m) ==
  /\ LoopFree
  /\ s \in sessions
  /\ \A r \in ClientRun(s, m) : ~Stored(r)
  /\ nextRun <= RunBound
  /\ NewRun(s, m)

SaveClientRun ==
  /\ req.step = "saved"
  /\ clientRuns' = [clientRuns EXCEPT
                      ![<<runs[req.run].session, runs[req.run].message>>] = req.run]
  /\ req' = [req EXCEPT !.step = "mapped"]
  /\ UNCHANGED <<sessions, nextSession, runs, nextRun, queue, worker, stream, restarts>>

\* A write of start_run raises, before or after it went through: the caller is answered
\* with an error, and the run that is stored has no turn.
StartRaises ==
  /\ StoreRaises
  /\ req.step \in {"saved", "mapped"}
  /\ worker' = [worker EXCEPT ![req.run].pc = "dead"]
  /\ req' = NoRequest
  /\ UNCHANGED <<storeVars, runs, queue, stream, restarts>>

\* The lock is released; the turn goes to the executor and the caller is answered.
Submit ==
  /\ req.step = "mapped"
  /\ queue' = Append(queue, req.run)
  /\ worker' = [worker EXCEPT ![req.run].pc = "queued"]
  /\ req' = NoRequest
  /\ UNCHANGED <<storeVars, runs, stream, restarts>>

\* Mutant: a finished run can still be cancelled.
CancelAny(r) ==
  /\ LoopFree /\ Stored(r) /\ ~runs[r].cancelRequested
  /\ runs' = [runs EXCEPT ![r] =
                AppendLocked([@ EXCEPT !.cancelRequested = TRUE], CancelledEv)]
  /\ UNCHANGED <<storeVars, req, queue, worker, stream, restarts>>

Cancel(r) ==
  /\ LoopFree
  /\ Stored(r)
  /\ runs[r].status \notin TERMINAL_RUN_STATUSES
  /\ runs' = [runs EXCEPT ![r] =
                AppendLocked([@ EXCEPT !.cancelRequested = TRUE], CancelledEv)]
  /\ UNCHANGED <<storeVars, req, queue, worker, stream, restarts>>

(***************************************************************************)
(* The turn of a run on its worker thread.  The lock is taken once per     *)
(* check and once per append, so a check can be stale when its append is   *)
(* made.  pc: idle (not submitted), queued, emitting (between two emits),  *)
(* appending (an emit passed its check), projecting (between two projected *)
(* events), delivering (one passed its check), failing (in the except      *)
(* clause), reporting (failure passed its check), done, dead (the append   *)
(* itself raised and the thread is gone).                                  *)
(***************************************************************************)
IdleWorker == [pc |-> "idle", todo |-> <<>>, emits |-> 0, responding |-> FALSE]

Busy(r) == worker[r].pc \notin {"idle", "queued", "done", "dead"}

Step(r, pc) == worker' = [worker EXCEPT ![r].pc = pc]

\* append(): raises KeyError, and so goes to `missing`, when the run is gone, and
\* whatever the store raises.
AppendEvent(r, ev, found, missing) ==
  \/ /\ Stored(r)
     /\ runs' = [runs EXCEPT ![r] = AppendLocked(@, ev)]
     /\ \/ worker' = [worker EXCEPT ![r] = found]
        \/ StoreRaises /\ worker' = [worker EXCEPT ![r].pc = missing]
  \/ /\ ~Stored(r) \/ StoreRaises
     /\ worker' = [worker EXCEPT ![r].pc = missing]
     /\ UNCHANGED runs

\* A free thread takes the oldest job; its first append is not in the try block
\* and has no cancellation check.
Plan(r) ==
  /\ LockFree
  /\ queue # <<>> /\ Head(queue) = r
  /\ Cardinality({q \in RunIds : Busy(q)}) < MaxWorkers
  /\ queue' = Tail(queue)
  /\ AppendEvent(r, PlanningEv, [worker[r] EXCEPT !.pc = "emitting"], "dead")
  /\ UNCHANGED <<storeVars, req, stream, restarts>>

\* What the turn emits next: the executing phase, then the runtime's progress.
Emitted(r) ==
  IF worker[r].emits = 0 THEN {ExecutingEv}
  ELSE ToolEvs \cup (IF worker[r].responding THEN {DeltaEv} ELSE {RespStartedEv})

\* emit(): cancel_requested, then append, each under its own lock.
EmitCheck(r, ev) ==
  /\ LockFree
  /\ worker[r].pc = "emitting"
  /\ worker[r].emits < EmitBound
  /\ ev \in Emitted(r)
  /\ worker' = [worker EXCEPT ![r].emits = @ + 1,
                              ![r].responding = @ \/ ev = RespStartedEv,
                              ![r].todo = IF CancelRequested(r) THEN <<>> ELSE <<ev>>,
                              ![r].pc = IF CancelRequested(r) THEN "emitting" ELSE "appending"]
  /\ UNCHANGED <<storeVars, runs, req, queue, stream, restarts>>

EmitAppend(r) ==
  /\ LockFree
  /\ worker[r].pc = "appending"
  /\ AppendEvent(r, Head(worker[r].todo),
                 [worker[r] EXCEPT !.pc = "emitting", !.todo = <<>>], "failing")
  /\ UNCHANGED <<storeVars, req, queue, stream, restarts>>

\* The events _execute_p1_capability_turn returns once the runtime has finished:
\* the scene command and the summary of the reasoning, the answer unless it was
\* streamed live, and the conclusion.
Scenes == {<<>>, <<SceneEv>>, <<SceneEv, SceneEv>>}
Answers(responding) ==
  IF responding THEN {<<>>} ELSE {<<RespStartedEv>>, <<RespStartedEv, DeltaEv>>}

\* Mutant: run.completed ahead of the canonical answer.
ConclusionSwapped == <<CompletedEv, RespCompletedEv>>

Conclusion == <<RespCompletedEv, CompletedEv>>

Projected(responding) ==
  {scene \o answer \o Conclusion : scene \in Scenes, answer \in Answers(responding)}

TurnReturns(r, events) ==
  /\ worker[r].pc = "emitting"
  /\ worker[r].emits > 0
  /\ events \in Projected(worker[r].responding)
  /\ worker' = [worker EXCEPT ![r].pc = "projecting", ![r].todo = events]
  /\ UNCHANGED <<storeVars, runs, req, queue, stream, restarts>>

TurnRaises(r) ==
  /\ worker[r].pc = "emitting"
  /\ Step(r, "failing")
  /\ UNCHANGED <<storeVars, runs, req, queue, stream, restarts>>

\* Mutant: the projection loop does not look at cancellation.
ProjectCheckBlind(r) ==
  /\ LockFree
  /\ worker[r].pc = "projecting"
  /\ Step(r, IF worker[r].todo = <<>> THEN "done" ELSE "delivering")
  /\ UNCHANGED <<storeVars, runs, req, queue, stream, restarts>>

\* Mutant: a cancelled turn skips the event but never leaves the loop.
ProjectCheckSpin(r) ==
  /\ LockFree
  /\ worker[r].pc = "projecting"
  /\ Step(r, IF CancelRequested(r) THEN "projecting"
             ELSE IF worker[r].todo = <<>> THEN "done" ELSE "delivering")
  /\ UNCHANGED <<storeVars, runs, req, queue, stream, restarts>>

ProjectCheck(r) ==
  /\ LockFree
  /\ worker[r].pc = "projecting"
  /\ Step(r, IF worker[r].todo = <<>> \/ CancelRequested(r) THEN "done" ELSE "delivering")
  /\ UNCHANGED <<storeVars, runs, req, queue, stream, restarts>>

ProjectAppend(r) ==
  /\ LockFree
  /\ worker[r].pc = "delivering"
  /\ AppendEvent(r, Head(worker[r].todo),
                 [worker[r] EXCEPT !.pc = "projecting", !.todo = Tail(@)], "failing")
  /\ UNCHANGED <<storeVars, req, queue, stream, restarts>>

FailCheck(r) ==
  /\ LockFree
  /\ worker[r].pc = "failing"
  /\ Step(r, IF CancelRequested(r) THEN "done" ELSE "reporting")
  /\ UNCHANGED <<storeVars, runs, req, queue, stream, restarts>>

\* Mutant: the failure is swallowed.
FailSilently(r) ==
  /\ LockFree
  /\ worker[r].pc = "reporting"
  /\ Step(r, "done")
  /\ UNCHANGED <<storeVars, runs, req, queue, stream, restarts>>

FailAppend(r) ==
  /\ LockFree
  /\ worker[r].pc = "reporting"
  /\ AppendEvent(r, FailedEv, [worker[r] EXCEPT !.pc = "done"], "dead")
  /\ UNCHANGED <<storeVars, req, queue, stream, restarts>>

\* The store raises as the loop or the except clause asks for a cancellation.
CheckRaises(r) ==
  /\ StoreRaises /\ LockFree
  /\ \/ worker[r].pc = "projecting" /\ worker[r].todo # <<>> /\ Step(r, "failing")
     \/ worker[r].pc = "failing" /\ Step(r, "dead")
  /\ UNCHANGED <<storeVars, runs, req, queue, stream, restarts>>

(***************************************************************************)
(* The SSE stream of a run.  A poll takes one snapshot and sends what lies *)
(* past the cursor; the connection may break after any prefix of it, and   *)
(* the browser resumes with the last sequence it received.                 *)
(***************************************************************************)
NoStream == [state |-> "idle", run |-> 0, cursor |-> 0, seen |-> <<>>, breaks |-> 0]

OpenStream(c, r) ==
  /\ LoopFree
  /\ stream[c].state = "idle"
  /\ Stored(r)
  /\ stream' = [stream EXCEPT ![c].state = "open", ![c].run = r]
  /\ UNCHANGED <<storeVars, runs, req, queue, worker, restarts>>

\* The events past the cursor; the log is in sequence order.
Fresh(events, cursor) ==
  LET sent == Cardinality({i \in DOMAIN events : events[i].sequence <= cursor})
  IN SubSeq(events, sent + 1, Len(events))

\* The connection after the first n events of a poll went out.
Received(conn, fresh, n) ==
  [conn EXCEPT !.seen = @ \o SubSeq(fresh, 1, n),
               !.cursor = IF n = 0 THEN @ ELSE fresh[n].sequence]

\* Mutant: a terminal status closes the stream before the events are sent.
PollStatusFirst(c) ==
  /\ LoopFree
  /\ stream[c].state = "open"
  /\ Stored(stream[c].run)
  /\ LET record == runs[stream[c].run]
         fresh == Fresh(record.events, stream[c].cursor)
     IN stream' = [stream EXCEPT ![c] =
          IF record.status \in TERMINAL_RUN_STATUSES THEN [@ EXCEPT !.state = "ended"]
          ELSE Received(@, fresh, Len(fresh))]
  /\ UNCHANGED <<storeVars, runs, req, queue, worker, restarts>>

\* Mutant: the stream waits for the cursor to pass the last event.
PollPastLast(c) ==
  /\ LoopFree
  /\ stream[c].state = "open"
  /\ Stored(stream[c].run)
  /\ LET events == runs[stream[c].run].events
         fresh == Fresh(events, stream[c].cursor)
         got == Received(stream[c], fresh, Len(fresh))
     IN stream' = [stream EXCEPT ![c] =
          [got EXCEPT !.state = IF /\ runs[got.run].status \in TERMINAL_RUN_STATUSES
                                   /\ got.cursor > LastSequence(events)
                                THEN "ended" ELSE "open"]]
  /\ UNCHANGED <<storeVars, runs, req, queue, worker, restarts>>

Poll(c) ==
  /\ LoopFree
  /\ stream[c].state = "open"
  /\ Stored(stream[c].run)
  /\ LET record == runs[stream[c].run]
         fresh == Fresh(record.events, stream[c].cursor)
         got == Received(stream[c], fresh, Len(fresh))
         final == /\ record.status \in TERMINAL_RUN_STATUSES
                  /\ got.cursor >= LastSequence(record.events)
     IN stream' = [stream EXCEPT ![c] =
                     [got EXCEPT !.state = IF final THEN "ended" ELSE "open"]]
  /\ UNCHANGED <<storeVars, runs, req, queue, worker, restarts>>

\* The browser loses the connection part-way through a poll.
BreakStream(c) ==
  /\ LoopFree
  /\ stream[c].state = "open"
  /\ stream[c].breaks < BreakBound
  /\ Stored(stream[c].run)
  /\ LET fresh == Fresh(runs[stream[c].run].events, stream[c].cursor)
     IN \E n \in 0..Len(fresh) :
          LET got == Received(stream[c], fresh, n)
          IN stream' = [stream EXCEPT ![c] =
                          [got EXCEPT !.state = "broken", !.breaks = @ + 1]]
  /\ UNCHANGED <<storeVars, runs, req, queue, worker, restarts>>

\* The run is gone: the generator raises, and a new request is answered 404.
LoseStream(c) ==
  /\ LoopFree
  /\ stream[c].state \in {"open", "broken"}
  /\ ~Stored(stream[c].run)
  /\ stream' = [stream EXCEPT ![c].state = "lost"]
  /\ UNCHANGED <<storeVars, runs, req, queue, worker, restarts>>

\* Mutant: the resumption ignores Last-Event-ID.
ResumeFromStart(c) ==
  /\ LoopFree
  /\ stream[c].state = "broken"
  /\ Stored(stream[c].run)
  /\ stream' = [stream EXCEPT ![c].state = "open", ![c].cursor = 0]
  /\ UNCHANGED <<storeVars, runs, req, queue, worker, restarts>>

\* cursor = max(Last-Event-ID, afterSequence), the last sequence received.
ResumeStream(c) ==
  /\ LoopFree
  /\ stream[c].state = "broken"
  /\ Stored(stream[c].run)
  /\ stream' = [stream EXCEPT ![c].state = "open",
                              ![c].cursor = LastSequence(stream[c].seen)]
  /\ UNCHANGED <<storeVars, runs, req, queue, worker, restarts>>

(***************************************************************************)
(* The process dies and is started again: threads, executor queue and      *)
(* connections are gone; only the in-memory store loses its data.          *)
(***************************************************************************)
Restart ==
  /\ restarts < RestartBound
  /\ restarts' = restarts + 1
  /\ req' = NoRequest
  /\ queue' = <<>>
  /\ worker' = [r \in RunIds |-> IF r < nextRun THEN [worker[r] EXCEPT !.pc = "dead"]
                                 ELSE worker[r]]
  /\ stream' = [c \in Clients |-> IF stream[c].state = "open"
                                  THEN [stream[c] EXCEPT !.state = "broken"]
                                  ELSE stream[c]]
  /\ IF StoreKind = "memory"
     THEN /\ sessions' = {}
          /\ runs' = [r \in RunIds |-> NoRecord]
          /\ clientRuns' = [key \in SessionIds \X Messages |-> 0]
     ELSE UNCHANGED <<sessions, runs, clientRuns>>
  /\ UNCHANGED <<nextSession, nextRun>>

(***************************************************************************)
(* Redis keys expire: the session a day after its creation, the run a week *)
(* after its last save, its message key a week after the start.            *)
(***************************************************************************)
ExpireSession(s) ==
  /\ StoreKind = "redis"
  /\ s \in sessions
  /\ sessions' = sessions \ {s}
  /\ UNCHANGED <<nextSession, runs, nextRun, clientRuns, req, queue, worker, stream, restarts>>

ExpireRun(r) ==
  /\ StoreKind = "redis"
  /\ Stored(r)
  /\ worker[r].pc \in {"done", "dead"}
  /\ clientRuns[<<runs[r].session, runs[r].message>>] # r
  /\ runs' = [runs EXCEPT ![r] = NoRecord]
  /\ UNCHANGED <<storeVars, req, queue, worker, stream, restarts>>

ExpireClientRun(s, m) ==
  /\ StoreKind = "redis"
  /\ clientRuns[<<s, m>>] # 0
  /\ worker[clientRuns[<<s, m>>]].pc \in {"done", "dead"}
  /\ clientRuns' = [clientRuns EXCEPT ![<<s, m>>] = 0]
  /\ UNCHANGED <<sessions, nextSession, runs, nextRun, req, queue, worker, stream, restarts>>

-----------------------------------------------------------------------------
Init ==
  /\ sessions = {} /\ nextSession = 1
  /\ runs = [r \in RunIds |-> NoRecord] /\ nextRun = 1
  /\ clientRuns = [key \in SessionIds \X Messages |-> 0]
  /\ req = NoRequest
  /\ queue = <<>>
  /\ worker = [r \in RunIds |-> IdleWorker]
  /\ stream = [c \in Clients |-> NoStream]
  /\ restarts = 0

TurnStep(r) ==
  \/ Plan(r)
  \/ \E ev \in Evs : EmitCheck(r, ev)
  \/ EmitAppend(r)
  \/ \E events \in Projected(worker[r].responding) : TurnReturns(r, events)
  \/ TurnRaises(r)
  \/ ProjectCheck(r) \/ ProjectAppend(r)
  \/ FailCheck(r) \/ FailAppend(r) \/ CheckRaises(r)

StreamStep(c) ==
  \/ \E r \in RunIds : OpenStream(c, r)
  \/ Poll(c) \/ BreakStream(c) \/ LoseStream(c) \/ ResumeStream(c)

Expire ==
  \/ \E s \in SessionIds : ExpireSession(s)
  \/ \E r \in RunIds : ExpireRun(r)
  \/ \E s \in SessionIds, m \in Messages : ExpireClientRun(s, m)

Next ==
  \/ CreateSession
  \/ \E s \in SessionIds, m \in Messages : StartRun(s, m)
  \/ SaveClientRun \/ StartRaises
  \/ Submit
  \/ \E r \in RunIds : Cancel(r) \/ TurnStep(r)
  \/ \E c \in Clients : StreamStep(c)
  \/ Restart
  \/ Expire

Spec == Init /\ [][Next]_vars

\* Worker threads run, a turn's runtime returns or raises (its planning loop and
\* model calls are bounded), the loop finishes start_run, open streams poll and
\* a browser resumes.  Nothing obliges a user to cancel or a process to restart.
Fairness ==
  /\ WF_vars(SaveClientRun) /\ WF_vars(Submit)
  /\ \A r \in RunIds : WF_vars(TurnStep(r))
  /\ \A c \in Clients : WF_vars(Poll(c)) /\ WF_vars(LoseStream(c)) /\ WF_vars(ResumeStream(c))

FairSpec == Spec /\ Fairness

-----------------------------------------------------------------------------
(***************************************************************************)
(* Properties.                                                             *)
(***************************************************************************)
Record == [status : RunStatuses, session : SessionIds, message : Messages,
           cancelRequested : BOOLEAN, events : Seq(Event)]

WorkerState ==
  [pc : {"idle", "queued", "emitting", "appending", "projecting", "delivering",
         "failing", "reporting", "done", "dead"},
   todo : Seq(Evs), emits : 0..EmitBound, responding : BOOLEAN]

StreamState ==
  {conn \in [state : {"idle", "open", "broken", "ended", "lost"}, run : 0..RunBound,
             cursor : Nat, seen : Seq(Event), breaks : 0..BreakBound] :
     conn.state # "idle" => conn.run # 0}

\* Types.  In particular a stored run's status is one of the run statuses: a
\* tool's own status never becomes the run's.
TypeOK ==
  /\ sessions \subseteq SessionIds /\ nextSession \in 1..(SessionBound + 1)
  /\ runs \in [RunIds -> Record \cup {NoRecord}] /\ nextRun \in 1..(RunBound + 1)
  /\ clientRuns \in [SessionIds \X Messages -> 0..RunBound]
  /\ req \in [step : {"idle", "saved", "mapped"}, run : 0..RunBound]
  /\ queue \in Seq(RunIds)
  /\ worker \in [RunIds -> WorkerState]
  /\ stream \in [Clients -> StreamState]
  /\ restarts \in 0..RestartBound

\* The log a Last-Event-ID cursor resumes into: run.started (sequence 1) is never
\* trimmed away, the log stays within max_events, and behind its head the
\* sequence numbers are consecutive, so none is reused or skipped.
WellFormedLog(events) ==
  /\ Len(events) \in 1..MaxEvents
  /\ events[1] = [ev |-> StartedEv, sequence |-> 1]
  /\ \A i \in 2..Len(events) : /\ events[i].ev # StartedEv
                               /\ events[i].sequence > events[i - 1].sequence
  /\ \A i \in 3..Len(events) : events[i].sequence = events[i - 1].sequence + 1

LogWellFormed == \A r \in RunIds : Stored(r) => WellFormedLog(runs[r].events)

WorkerEvent(e) == e.ev \notin {StartedEv, CancelledEv}

\* Events a worker appended after the first cancellation of the run.
LateEvents(events) ==
  {i \in DOMAIN events : /\ WorkerEvent(events[i])
                         /\ \E j \in 1..(i - 1) : events[j].ev = CancelledEv}

\* The check in emit, in the projection loop and in the except clause is stale by
\* at most one append: a cancelled turn adds at most one event (its planning
\* phase, a checked emit, a checked projection or the error), and so a run is
\* cancelled at most twice.
AtMostOneLateEvent ==
  \A r \in RunIds :
    /\ Cardinality(LateEvents(runs[r].events)) <= 1
    /\ Cardinality({i \in DOMAIN runs[r].events : runs[r].events[i].ev = CancelledEv}) <= 2

\* A run that shows "completed" ends in run.completed and carries the canonical
\* answer right before it; only a cancellation that lost the race lies between.
\* (The last three events survive trimming when max_events is at least 4.)
CompletedCarriesAnswer ==
  \A r \in RunIds : runs[r].status = "completed" =>
    LET events == runs[r].events
        n == Len(events)
    IN /\ events[n].ev = CompletedEv
       /\ \/ events[n - 1].ev = RespCompletedEv
          \/ events[n - 1].ev = CancelledEv /\ events[n - 2].ev = RespCompletedEv

\* A user's message is never worked on by two threads at once, even when the key
\* that makes start_run idempotent was lost in a crash or expired.
OneTurnPerMessage ==
  \A q, r \in RunIds :
    (/\ Stored(q) /\ Busy(q) /\ Stored(r) /\ Busy(r)
     /\ runs[q].session = runs[r].session /\ runs[q].message = runs[r].message) => q = r

\* Whatever the interleaving of appends, trims, disconnections and resumptions, a
\* browser has received every event still in the log up to its last one, each
\* once and in order.
SeenExactlyOnce ==
  \A c \in Clients :
    LET seen == stream[c].seen
        r == stream[c].run
    IN /\ \A i \in 2..Len(seen) : seen[i].sequence > seen[i - 1].sequence
       /\ (stream[c].state # "idle" /\ Stored(r)) =>
            \A e \in {runs[r].events[i] : i \in DOMAIN runs[r].events} :
              e.sequence <= LastSequence(seen) => \E j \in DOMAIN seen : seen[j] = e

\* A stream the server closes has handed the browser a terminal event of the run.
EndedSawTerminal ==
  \A c \in Clients : stream[c].state = "ended" =>
    \E i \in DOMAIN stream[c].seen :
      stream[c].seen[i].ev \in {CompletedEv, FailedEv, CancelledEv}

\* Both: a browser that sees its stream close has the run's events and its outcome.
StreamIsFaithful == SeenExactlyOnce /\ EndedSawTerminal

\* A run that completed or failed is final: no later append or cancellation gives
\* it another status.  ("cancelled" is not final: see AtMostOneLateEvent.)
OutcomeIsFinal ==
  [][\A r \in RunIds : runs[r].status \in {"completed", "failed"} =>
       runs'[r].status \in {runs[r].status, "absent"}]_vars

\* What is left of that with a store that raises after it wrote a completion: the except
\* clause takes that for a failure, and a failure is final.
FailureIsFinal ==
  [][\A r \in RunIds : runs[r].status = "failed" => runs'[r].status \in {"failed", "absent"}]_vars

\* The status users read follows the abstract life cycle: it only advances until
\* a cancellation, and after one the turn's thread writes at most once.  OutcomeIsFinal
\* follows: a cancelled run that shows an outcome has had its one late write.
Lifecycle == INSTANCE RunLifecycle WITH
  Runs <- RunIds,
  status <- [r \in RunIds |-> runs[r].status],
  cancelled <- [r \in RunIds |-> runs[r].cancelRequested],
  late <- [r \in RunIds |-> LateEvents(runs[r].events) # {}]

ImplementsLifecycle == Lifecycle!Spec

\* Once a cancellation is requested, the turn's thread comes to rest.
CancelledTurnStops ==
  \A r \in RunIds : CancelRequested(r) ~> worker[r].pc \in {"done", "dead"}

\* A turn that is not cancelled, evicted or cut off by a restart reaches a
\* terminal status, however long it waits in the executor queue.
TurnFinishes ==
  \A r \in RunIds :
    worker[r].pc = "queued" ~> \/ runs[r].status \in TERMINAL_RUN_STATUSES
                               \/ CancelRequested(r)
                               \/ ~Stored(r)
                               \/ worker[r].pc = "dead"

\* The stream of a run whose outcome is final closes.
StreamCloses ==
  \A c \in Clients :
    (stream[c].state = "open" /\ stream[c].run # 0
       /\ runs[stream[c].run].status \in {"completed", "failed"})
      ~> stream[c].state \in {"ended", "lost"}
=============================================================================
