---------------------------- MODULE AgentRuntime ----------------------------
(***************************************************************************)
(* The Agent Runtime (packages/agent_runtime_rpc/service.py) with the run  *)
(* dispatcher (services/run_dispatcher.py) and the HTTP handlers that      *)
(* cancel and complete a run (routers/runs.py): how a turn finds or        *)
(* creates its run, executes it, settles it, and how StreamRunEvents       *)
(* follows it.                                                             *)
(*                                                                         *)
(* Processes.  gRPC and HTTP handlers share one event loop and are         *)
(* interrupted only by threads: `loop` is the handler in the middle of its *)
(* store and bus calls.  A turn started over gRPC prepares on the loop and *)
(* then executes on a thread; a coordinator's turn does both on a thread.  *)
(* Every store write replaces the whole run record by the writer's copy.   *)
(* The bus of a run is a sequence (EventBus says when a reader sees it so).*)
(***************************************************************************)
EXTENDS Integers, Sequences, FiniteSets

CONSTANTS
  Conversations,    \* runs keyed by session and text: their turns come over gRPC
  CoordinatorRuns,  \* runs named by the coordinator: one turn each
  Turns,            \* turns, each started once
  Streams,          \* StreamRunEvents calls
  MaxRounds,        \* planning iterations of a turn
  Faults,           \* the faults of the environment, out of FaultKinds
  CallBound,        \* bound: cancel and complete calls
  RestartBound      \* bound: process restarts

FaultKinds ==
  {"turn",   \* a model, tool or trace call of a turn raises
   "store"}  \* a write of a run, or what follows it in its handler, raises

ASSUME RuntimeAssumption ==
  /\ Conversations \cap CoordinatorRuns = {}
  /\ MaxRounds \in Nat \ {0}
  /\ Faults \subseteq FaultKinds
  /\ CallBound \in Nat /\ RestartBound \in Nat

VARIABLES
  row,       \* run -> status of its stored record
  bus,       \* run -> the events published on its topic
  turn,      \* turn -> its thread: where it is and the record it holds
  loop,      \* the handler in progress on the event loop
  stream,    \* StreamRunEvents call -> its state and cursor
  calls,     \* cancel and complete calls so far
  restarts,  \* process restarts so far
  cutOff     \* history: runs whose outcome was stored, and its event prevented

vars == <<row, bus, turn, loop, stream, calls, restarts, cutOff>>

Runs == Conversations \cup CoordinatorRuns

TerminalStatuses == {"completed", "failed", "cancelled"}
Statuses == TerminalStatuses \cup {"running"}  \* running: RUNNING or PENDING

\* "answer" stands for assistant.started, its deltas and assistant.completed.  The
\* discovery, planning, tool and observation events before it are left out.
EventTypes == {"RunStart", "IntentClassified", "answer",
               "RunStop", "RunFailed", "RunCancelled"}

Idle == [pc |-> "idle", run |-> "none", copy |-> "none", rounds |-> 0]

Free == [task |-> "free", on |-> "none"]

Stored(k) == row[k] # "absent"

Failing(kind) == kind \in Faults

Publish(k, type) == bus' = [bus EXCEPT ![k] = Append(@, type)]

Step(t, pc) == turn' = [turn EXCEPT ![t].pc = pc]

-----------------------------------------------------------------------------
(***************************************************************************)
(* Preparing a turn: dispatch, save the request's context, announce the    *)
(* intent.                                                                 *)
(***************************************************************************)
\* The loop while it prepares turn t, or a coordinator's thread.
Preparing(t) ==
  turn[t].run \in Conversations => loop = [task |-> "prepare", on |-> t]

Take(t, k) ==
  IF k \in Conversations
  THEN loop = Free /\ loop' = [task |-> "prepare", on |-> t]
  ELSE (\A u \in Turns : turn[u].run # k) /\ UNCHANGED loop

\* Mutant: dispatch does not look for a run of this key.
DispatchAnew(t, k) ==
  /\ turn[t].pc = "idle"
  /\ Take(t, k)
  /\ row' = [row EXCEPT ![k] = "running"]
  /\ turn' = [turn EXCEPT ![t] = [@ EXCEPT !.pc = "starting", !.run = k, !.copy = "running"]]
  /\ UNCHANGED <<bus, stream, calls, restarts, cutOff>>

\* dispatch: the run of this key, or a new one.
Dispatch(t, k) ==
  /\ turn[t].pc = "idle"
  /\ Take(t, k)
  /\ IF Stored(k)
     THEN /\ turn' = [turn EXCEPT ![t] =
                        [@ EXCEPT !.pc = "saving", !.run = k, !.copy = row[k]]]
          /\ UNCHANGED row
     ELSE /\ turn' = [turn EXCEPT ![t] =
                        [@ EXCEPT !.pc = "starting", !.run = k, !.copy = "running"]]
          /\ row' = [row EXCEPT ![k] = "running"]
  /\ UNCHANGED <<bus, stream, calls, restarts, cutOff>>

\* dispatch of a new run, after the upsert: WAL record, trace, RunStart.
PublishStart(t) ==
  /\ turn[t].pc = "starting"
  /\ Preparing(t)
  /\ Publish(turn[t].run, "RunStart")
  /\ Step(t, "saving")
  /\ UNCHANGED <<row, loop, stream, calls, restarts, cutOff>>

\* runs.create with the copy dispatch returned.
SaveContext(t) ==
  /\ turn[t].pc = "saving"
  /\ Preparing(t)
  /\ row' = [row EXCEPT ![turn[t].run] = turn[t].copy]
  /\ Step(t, "announcing")
  /\ UNCHANGED <<bus, loop, stream, calls, restarts, cutOff>>

\* IntentClassified; over gRPC the turn then goes to a thread of its own.
Announce(t) ==
  /\ turn[t].pc = "announcing"
  /\ Preparing(t)
  /\ Publish(turn[t].run, "IntentClassified")
  /\ Step(t, "compiling")
  /\ loop' = IF turn[t].run \in Conversations THEN Free ELSE loop
  /\ UNCHANGED <<row, stream, calls, restarts, cutOff>>

\* An exception here fails the request; nobody settles the run.
PrepareRaises(t) ==
  /\ Failing("store")
  /\ turn[t].pc \in {"starting", "saving", "announcing"}
  /\ Preparing(t)
  /\ Step(t, "dead")
  /\ loop' = IF turn[t].run \in Conversations THEN Free ELSE loop
  /\ UNCHANGED <<row, bus, stream, calls, restarts, cutOff>>

-----------------------------------------------------------------------------
(***************************************************************************)
(* Executing a turn.                                                       *)
(***************************************************************************)
\* _compile_runtime_context stores the compiled context in the turn's copy.
Compile(t) ==
  /\ turn[t].pc = "compiling"
  /\ row' = [row EXCEPT ![turn[t].run] = turn[t].copy]
  /\ Step(t, "reloading")
  /\ UNCHANGED <<bus, loop, stream, calls, restarts, cutOff>>

\* The record is read again; without a usable tool the turn returns here.
Reload(t) ==
  /\ turn[t].pc = "reloading"
  /\ \E next \in {"planning", "closing"} :
       turn' = [turn EXCEPT ![t] = [@ EXCEPT !.pc = next, !.copy = row[turn[t].run]]]
  /\ UNCHANGED <<row, bus, loop, stream, calls, restarts, cutOff>>

\* One planning iteration: the model selects tools or is done.
PlanRound(t) ==
  /\ turn[t].pc = "planning"
  /\ \E next \in {"calling", "summarizing"} :
       turn' = [turn EXCEPT ![t].pc = next, ![t].rounds = @ + 1]
  /\ UNCHANGED <<row, bus, loop, stream, calls, restarts, cutOff>>

\* The selected tools run, are observed and recorded; a failing tool is a result.
CallTools(t) ==
  /\ turn[t].pc = "calling"
  /\ Step(t, IF turn[t].rounds < MaxRounds THEN "planning" ELSE "summarizing")
  /\ UNCHANGED <<row, bus, loop, stream, calls, restarts, cutOff>>

Summarize(t) ==
  /\ turn[t].pc = "summarizing"
  /\ Publish(turn[t].run, "answer")
  /\ Step(t, "completing")
  /\ UNCHANGED <<row, loop, stream, calls, restarts, cutOff>>

\* Mutant: the last save carries the record as it was read.
CompleteUnmarked(t) ==
  /\ turn[t].pc = "completing"
  /\ row' = [row EXCEPT ![turn[t].run] = turn[t].copy]
  /\ Step(t, "stopping")
  /\ UNCHANGED <<bus, loop, stream, calls, restarts, cutOff>>

Complete(t) ==
  /\ turn[t].pc = "completing"
  /\ row' = [row EXCEPT ![turn[t].run] = "completed"]
  /\ Step(t, "stopping")
  /\ UNCHANGED <<bus, loop, stream, calls, restarts, cutOff>>

Stop(t) ==
  /\ turn[t].pc = "stopping"
  /\ Publish(turn[t].run, "RunStop")
  /\ Step(t, "closing")
  /\ UNCHANGED <<row, loop, stream, calls, restarts, cutOff>>

\* What is left: the trace export and the graph's last nodes.
Close(t) ==
  /\ turn[t].pc = "closing"
  /\ Step(t, "done")
  /\ UNCHANGED <<row, bus, loop, stream, calls, restarts, cutOff>>

\* The graph raises, even after the run was completed.
TurnRaises(t) ==
  /\ Failing("turn")
  /\ turn[t].pc \in {"compiling", "reloading", "planning", "calling", "summarizing",
                     "completing", "closing"}
  /\ Step(t, "failing")
  /\ UNCHANGED <<row, bus, loop, stream, calls, restarts, cutOff>>

\* Mutant: the exception is reported but the run is not.
FailUnsaved(t) ==
  /\ turn[t].pc = "failing"
  /\ Step(t, "reporting")
  /\ UNCHANGED <<row, bus, loop, stream, calls, restarts, cutOff>>

\* The except clause: FAILED is stored, then RunFailed published.
Fail(t) ==
  /\ turn[t].pc = "failing"
  /\ \/ row' = [row EXCEPT ![turn[t].run] = "failed"] /\ Step(t, "reporting")
     \/ Failing("store") /\ Step(t, "dead") /\ UNCHANGED row
  /\ UNCHANGED <<bus, loop, stream, calls, restarts, cutOff>>

\* Mutant: RunFailed is not published.
ReportNothing(t) ==
  /\ turn[t].pc = "reporting"
  /\ Step(t, "done")
  /\ UNCHANGED <<row, bus, loop, stream, calls, restarts, cutOff>>

Report(t) ==
  /\ turn[t].pc = "reporting"
  /\ Publish(turn[t].run, "RunFailed")
  /\ Step(t, "done")
  /\ UNCHANGED <<row, loop, stream, calls, restarts, cutOff>>

-----------------------------------------------------------------------------
(***************************************************************************)
(* HTTP: cancel_run and complete_run, neither looks at the run's status.   *)
(***************************************************************************)
HttpSave(k, task, status) ==
  /\ loop = Free
  /\ calls < CallBound
  /\ Stored(k)
  /\ row' = [row EXCEPT ![k] = status]
  /\ loop' = [task |-> task, on |-> k]
  /\ calls' = calls + 1
  /\ UNCHANGED <<bus, turn, stream, restarts, cutOff>>

HttpPublish(task, type) ==
  /\ loop.task = task
  /\ Publish(loop.on, type)
  /\ loop' = Free
  /\ UNCHANGED <<row, turn, stream, calls, restarts, cutOff>>

CancelRun(k) == HttpSave(k, "cancel", "cancelled")
CancelPublish == HttpPublish("cancel", "RunCancelled")

\* complete_run, once its evidence was accepted.
CompleteRun(k) == HttpSave(k, "complete", "completed")
CompletePublish == HttpPublish("complete", "RunStop")

\* The WAL, trace or memory write between the two raises.
HttpRaises ==
  /\ Failing("store")
  /\ loop.task \in {"cancel", "complete"}
  /\ loop' = Free
  /\ cutOff' = cutOff \cup {loop.on}
  /\ UNCHANGED <<row, bus, turn, stream, calls, restarts>>

-----------------------------------------------------------------------------
(***************************************************************************)
(* StreamRunEvents.  Sending the events of a poll suspends the generator,  *)
(* so the status it then reads is younger than the history it compares it  *)
(* with.  The cursor counts the events sent.                               *)
(***************************************************************************)
NoStream == [state |-> "idle", run |-> "none", cursor |-> 0]

OpenStream(c, k, after) ==
  /\ loop = Free
  /\ stream[c].state \in {"idle", "ended", "broken"}
  /\ Stored(k)
  /\ stream' = [stream EXCEPT ![c] = [state |-> "open", run |-> k, cursor |-> after]]
  /\ UNCHANGED <<row, bus, turn, loop, calls, restarts, cutOff>>

Newest(cursor, history) == IF cursor < Len(history) THEN Len(history) ELSE cursor

SendEvents(c) ==
  /\ loop = Free
  /\ stream[c].state = "open"
  /\ stream' = [stream EXCEPT ![c].state = "checking",
                              ![c].cursor = Newest(@, bus[stream[c].run])]
  /\ UNCHANGED <<row, bus, turn, loop, calls, restarts, cutOff>>

CheckStatus(c) ==
  /\ loop = Free
  /\ stream[c].state = "checking"
  /\ stream' = [stream EXCEPT ![c].state =
                  IF row[stream[c].run] \in TerminalStatuses THEN "ended" ELSE "open"]
  /\ UNCHANGED <<row, bus, turn, loop, calls, restarts, cutOff>>

-----------------------------------------------------------------------------
\* Threads, handlers and streams are gone; runs and events are durable.
Restart ==
  /\ restarts < RestartBound
  /\ restarts' = restarts + 1
  /\ turn' = [t \in Turns |-> IF turn[t].pc \in {"idle", "done"} THEN turn[t]
                              ELSE [turn[t] EXCEPT !.pc = "dead"]]
  /\ loop' = Free
  /\ stream' = [c \in Streams |-> IF stream[c].state \in {"open", "checking"}
                                  THEN [stream[c] EXCEPT !.state = "broken"] ELSE stream[c]]
  /\ cutOff' = cutOff \cup {k \in Runs :
       loop.on = k \/ \E t \in Turns : /\ turn[t].run = k
                                       /\ turn[t].pc \in {"stopping", "reporting"}}
  /\ UNCHANGED <<row, bus, calls>>

Init ==
  /\ row = [k \in Runs |-> "absent"]
  /\ bus = [k \in Runs |-> <<>>]
  /\ turn = [t \in Turns |-> Idle]
  /\ loop = Free
  /\ stream = [c \in Streams |-> NoStream]
  /\ calls = 0
  /\ restarts = 0
  /\ cutOff = {}

Prepare(t) == PublishStart(t) \/ SaveContext(t) \/ Announce(t) \/ PrepareRaises(t)

Execute(t) ==
  \/ Compile(t) \/ Reload(t) \/ PlanRound(t) \/ CallTools(t) \/ Summarize(t)
  \/ Complete(t) \/ Stop(t) \/ Close(t)
  \/ TurnRaises(t) \/ Fail(t) \/ Report(t)

Http ==
  \/ \E k \in Runs : CancelRun(k) \/ CompleteRun(k)
  \/ CancelPublish \/ CompletePublish \/ HttpRaises

TurnNext ==
  \/ \E t \in Turns : (\E k \in Runs : Dispatch(t, k)) \/ Prepare(t) \/ Execute(t)
  \/ Http

\* Streams only read: the module of their client takes their steps.
Next == TurnNext \/ Restart

Spec == Init /\ [][Next]_vars

-----------------------------------------------------------------------------
PcLabels ==
  {"idle", "starting", "saving", "announcing", "compiling", "reloading", "planning",
   "calling", "summarizing", "completing", "stopping", "closing", "failing",
   "reporting", "done", "dead"}

\* Types; a turn that has begun has a stored run, and a handler a stored subject.
TypeOK ==
  /\ row \in [Runs -> Statuses \cup {"absent"}]
  /\ bus \in [Runs -> Seq(EventTypes)]
  /\ turn \in [Turns -> [pc : PcLabels, run : Runs \cup {"none"},
                         copy : Statuses \cup {"none"}, rounds : 0..MaxRounds]]
  /\ \A t \in Turns : turn[t].pc # "idle" =>
       turn[t].run \in Runs /\ Stored(turn[t].run) /\ turn[t].copy \in Statuses
  /\ loop \in {Free} \cup [task : {"prepare"}, on : Turns]
                     \cup [task : {"cancel", "complete"}, on : Runs]
  /\ stream \in [Streams -> [state : {"idle", "open", "checking", "ended", "broken"},
                             run : Runs \cup {"none"}, cursor : Nat]]
  /\ calls \in 0..CallBound /\ restarts \in 0..RestartBound
  /\ cutOff \subseteq Runs

Settled(t) == turn[t].pc \in {"idle", "done", "dead"}

\* No turn and no handler is at work on the run.
Quiet(k) ==
  /\ \A t \in Turns : turn[t].run = k => Settled(t)
  /\ loop.on # k

Published(k, type) == \E i \in DOMAIN bus[k] : bus[k][i] = type

\* However turns that share a run, cancellations and completions interleave, a run
\* left with a terminal status has published the event that announces it: nothing
\* that follows its events waits for an outcome the store already shows.  Only a
\* restart or a failing write between the two steps keeps the event back.
OutcomeAnnounced ==
  \A k \in Runs \ cutOff : Quiet(k) =>
    /\ row[k] = "completed" => Published(k, "RunStop")
    /\ row[k] = "failed" => Published(k, "RunFailed")
    /\ row[k] = "cancelled" => Published(k, "RunCancelled")

TurnEvents == {"IntentClassified", "answer"}

\* The comment in dispatch: repeating a dispatch writes no second RunStart, across
\* restarts too; and unless a turn of the run died, RunStart precedes whatever the
\* turns of the run publish, however many share it.
StartedOnce ==
  \A k \in Runs : \A i \in DOMAIN bus[k] :
    /\ bus[k][i] = "RunStart" => \A j \in 1..(i - 1) : bus[k][j] # "RunStart"
    /\ bus[k][i] \in TurnEvents /\ (\A t \in Turns : turn[t].run = k => turn[t].pc # "dead")
       => \E j \in 1..(i - 1) : bus[k][j] = "RunStart"

HoldsOldCopy(t) == turn[t].pc \in {"starting", "saving", "announcing", "compiling"}

\* A run's terminal status goes back to running only through a turn that still
\* carries the copy it was dispatched with, before the record is read again.
OutcomeStays ==
  [][\A k \in Runs :
       (/\ row[k] \in TerminalStatuses
        /\ \A t \in Turns : turn[t].run = k => ~HoldsOldCopy(t))
       => row'[k] \in TerminalStatuses]_vars

\* A turn that had a tool to use settles its run, whatever it raises on the way.
TurnsSettle ==
  \A t \in Turns : turn[t].pc = "planning"
    ~> turn[t].run \in Runs /\ row[turn[t].run] \in TerminalStatuses
=============================================================================
