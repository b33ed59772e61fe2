--------------------------- MODULE AgentWorkbench ---------------------------
(***************************************************************************)
(* What the browser shows of a run: the Agent Runtime, the Control BFF     *)
(* that turns its stream into server-sent events (runs/[runId]/route.ts),  *)
(* and the workbench page (agent-stream-client.ts, stream-reducer.ts,      *)
(* AgentStreamingWorkbench.tsx), which reconnects, queues what it received *)
(* and folds the queue into the message it shows.                          *)
(*                                                                         *)
(* The page follows one run over one connection at a time, the stream      *)
(* Conn.  Heartbeats of an idle stream repeat the cursor and are ignored   *)
(* by the page; they are left out.                                         *)
(***************************************************************************)
EXTENDS AgentRuntime, FiniteSetsExt

CONSTANTS
  Run,          \* the run the page follows
  Conn,         \* its stream
  Retries,      \* reconnections of one streamAgentRun call (5 in the code)
  UserActs,     \* what the user may do, out of {"stop", "reload"}
  BreakBound    \* bound: connections that break

ASSUME WorkbenchAssumption ==
  /\ Run \in Conversations
  /\ Streams = {Conn}
  /\ Retries \in Nat /\ BreakBound \in Nat

VARIABLES
  page,     \* the streamAgentRun call and the function around it
  wire,     \* frames between the BFF and the page
  queue,    \* pendingEventsRef: events received and not yet reduced
  view,     \* the message's run state
  active,   \* whether the message is the active one
  saved,    \* whether sessionStorage names the run
  breaks    \* connections that broke so far

pageVars == <<page, wire, queue, view, active, saved, breaks>>
wbVars == <<vars, pageVars>>

TerminalViews == {"completed", "error", "cancelled"}

\* projectAgentEvent: internal and unknown events become heartbeats.
Projected(type) ==
  CASE type = "RunStart" -> "run.started"
    [] type = "IntentClassified" -> "phase.changed"
    [] type = "answer" -> "response.completed"
    [] type = "RunStop" -> "run.completed"
    [] type = "RunFailed" -> "error"
    [] OTHER -> "heartbeat"

\* fromGrpcRuntimeEvent, then projectAgentEvent: an event keeps its sequence.
Converted(seq, type) == [seq |-> seq, type |-> Projected(type)]

\* Mutants: internal events are not forwarded; positions count within the connection.
FramesUnknownDropped(history, from, to) ==
  SelectSeq([i \in 1..(to - from) |->
               Converted(from + i, history[from + i])],
            LAMBDA f : f.type # "heartbeat")
FramesRenumbered(history, from, to) ==
  [i \in 1..(to - from) |-> Converted(i, history[from + i])]

\* The frames of the events after position `from` up to `to`.
Frames(history, from, to) ==
  [i \in 1..(to - from) |-> Converted(from + i, history[from + i])]

IsTerminal(f) == f.type \in {"run.completed", "run.cancelled", "error"}

-----------------------------------------------------------------------------
(***************************************************************************)
(* The reducer.                                                            *)
(***************************************************************************)
NewView == [status |-> "queued", last |-> 0, pending |-> {}, answered |-> FALSE,
            shown |-> <<>>]

\* The status an event brings.
StatusOf(type, status) ==
  CASE type = "run.completed" -> "completed"
    [] type = "error" -> "error"
    [] type = "run.started" -> "queued"
    [] type = "phase.changed" -> "planning"
    [] OTHER -> status

\* Mutant: a phase of the run is shown whatever its status was.
StatusAfterAny(status, type) ==
  IF status \in TerminalViews /\ type # "phase.changed" THEN status
  ELSE StatusOf(type, status)

\* applyAgentStreamEvent's status: a terminal one is kept.
StatusAfter(status, type) ==
  IF status \in TerminalViews THEN status ELSE StatusOf(type, status)

Applied(v, f) ==
  [v EXCEPT !.status = StatusAfter(v.status, f.type),
            !.last = f.seq,
            !.pending = @ \ {f},
            !.answered = @ \/ (/\ f.type = "response.completed"
                               /\ v.status \notin TerminalViews \ {"completed"}),
            !.shown = Append(@, f.type)]

\* The events buffered once `incoming` arrived: the first of each sequence counts.
Buffered(v, incoming) ==
  v.pending \cup
    {incoming[i] : i \in {j \in DOMAIN incoming :
       /\ incoming[j].seq > v.last
       /\ \A f \in v.pending : f.seq # incoming[j].seq
       /\ \A h \in 1..(j - 1) : incoming[h].seq # incoming[j].seq}}

\* One turn of the reducer's loop: the buffered event after the last one, if any.
Advanced(v) ==
  LET next == {f \in v.pending : f.seq = v.last + 1}
  IN IF next = {} THEN {v} ELSE {Applied(v, f) : f \in next}

\* reduceAgentStreamEvents: apply what continues the last sequence, keep the rest.
Reduced(v, incoming) ==
  LET buffered == Buffered(v, incoming)
      after[n \in Nat] == IF n = 0 THEN {[v EXCEPT !.pending = buffered]}
                          ELSE UNION {Advanced(w) : w \in after[n - 1]}
  IN CHOOSE w \in after[Cardinality(buffered)] : TRUE

\* flushEvents: without an active message the events are lost.
Flushed == IF active THEN Reduced(view, queue) ELSE view

-----------------------------------------------------------------------------
(***************************************************************************)
(* The connection.                                                         *)
(***************************************************************************)
\* Mutant: a lost connection is shown whatever the message's status was.
ReconnectingAlways(v) == [v EXCEPT !.status = "reconnecting"]

\* onConnectionState("reconnecting"): runMessage guards the outcome, resume does not.
Reconnecting(v) ==
  IF page.mode = "sent" /\ v.status \in TerminalViews THEN v
  ELSE [v EXCEPT !.status = "reconnecting"]

\* The turn was accepted: runMessage stores the run and follows it.
Accepted ==
  /\ page.pc = "idle"
  /\ \E t \in Turns : turn[t].run = Run /\ turn[t].pc \notin
       {"idle", "starting", "saving", "announcing", "dead"}
  /\ page' = [page EXCEPT !.pc = "connecting"]
  /\ view' = NewView
  /\ active' = TRUE /\ saved' = TRUE
  /\ UNCHANGED <<vars, wire, queue, breaks>>

\* fetch: the request names the last sequence received.
Connect ==
  /\ page.pc = "connecting"
  /\ OpenStream(Conn, Run, page.last)
  /\ page' = [page EXCEPT !.pc = "reading"]
  /\ view' = IF page.attempt > 0 THEN Reconnecting(view) ELSE view
  /\ UNCHANGED <<wire, queue, active, saved, breaks>>

\* A poll of StreamRunEvents, projected and sent on by the BFF.
Forward ==
  /\ SendEvents(Conn)
  /\ wire' = wire \o Frames(bus[Run], stream[Conn].cursor,
                            IF stream[Conn].cursor < Len(bus[Run])
                            THEN Len(bus[Run]) ELSE stream[Conn].cursor)
  /\ UNCHANGED <<page, queue, view, active, saved, breaks>>

\* AgentSseParser: the frames whose end has arrived; the rest of a frame waits for it,
\* and is dropped if the response ends.
Parsed(n) == SubSeq(wire, 1, n)

\* reader.read: a chunk of frames arrives, is counted and queued.
Deliver ==
  /\ page.pc = "reading"
  /\ \E n \in 1..Len(wire) :
       LET events == Parsed(n)
       IN /\ page' = [page EXCEPT
                        !.last = Max({page.last} \cup {events[i].seq : i \in 1..n}),
                        !.terminal = @ \/ \E i \in 1..n : IsTerminal(events[i])]
          /\ queue' = queue \o events
          /\ wire' = SubSeq(wire, n + 1, Len(wire))
  /\ UNCHANGED <<vars, view, active, saved, breaks>>

\* The catch clause of streamAgentRun, and after the last attempt its caller's.
Caught ==
  IF page.attempt < Retries
  THEN /\ page' = [page EXCEPT !.pc = "connecting", !.attempt = @ + 1]
       /\ view' = Reconnecting(view)
       /\ UNCHANGED <<queue, saved>>
  ELSE /\ page' = [page EXCEPT !.pc = "threw"]
       /\ IF page.mode = "sent"
          THEN /\ view' = [Flushed EXCEPT !.status = "error"]
               /\ queue' = <<>>
               /\ saved' = FALSE
          ELSE UNCHANGED <<view, queue, saved>>

\* Mutant: a response that was closed counts as a stream that was followed.
DoneWhenClosed ==
  /\ page.pc = "reading"
  /\ wire = <<>>
  /\ stream[Conn].state \in {"ended", "broken"}
  /\ page' = [page EXCEPT !.pc = "returned"]
  /\ view' = Flushed
  /\ queue' = <<>>
  /\ saved' = FALSE
  /\ UNCHANGED <<vars, wire, active, breaks>>

\* The BFF closed the response and everything before was read.
Done ==
  /\ page.pc = "reading"
  /\ wire = <<>>
  /\ stream[Conn].state \in {"ended", "broken"}
  /\ IF page.terminal
     THEN /\ page' = [page EXCEPT !.pc = "returned"]
          /\ view' = Flushed
          /\ queue' = <<>>
          /\ saved' = FALSE
     ELSE Caught
  /\ UNCHANGED <<vars, wire, active, breaks>>

\* flushEvents on its timer.
Flush ==
  /\ queue # <<>>
  /\ view' = Flushed
  /\ queue' = <<>>
  /\ UNCHANGED <<vars, page, wire, active, saved, breaks>>

\* shouldReleaseActiveMessage: an outcome is shown and drainStreamingText has painted
\* the text received, which takes the timer some more ticks.
Releasable == view.status \in TerminalViews

\* The paint timer releases the active message.
Release ==
  /\ active /\ Releasable
  /\ active' = FALSE
  /\ UNCHANGED <<vars, page, wire, queue, view, saved, breaks>>

Hangup == stream' = [stream EXCEPT ![Conn].state =
                       IF @ \in {"open", "checking"} THEN "broken" ELSE @]

\* The connection between page and BFF breaks; what was on the wire is lost.
Break ==
  /\ page.pc = "reading"
  /\ breaks < BreakBound
  /\ breaks' = breaks + 1
  /\ Hangup
  /\ wire' = <<>>
  /\ Caught
  /\ UNCHANGED <<row, bus, turn, loop, calls, restarts, cutOff, active>>

\* The BFF's catch clause: an error after the last sequence it forwarded.
ErrorFrame == [seq |-> stream[Conn].cursor + 1, type |-> "error"]

\* The gRPC stream fails while the BFF reads it.
StreamFails ==
  /\ page.pc = "reading"
  /\ stream[Conn].state \in {"open", "checking"}
  /\ breaks < BreakBound
  /\ breaks' = breaks + 1
  /\ Hangup
  /\ wire' = Append(wire, ErrorFrame)
  /\ UNCHANGED <<row, bus, turn, loop, calls, restarts, cutOff, page, queue, view, active, saved>>

\* The Agent Runtime restarts: the stream the BFF iterates over throws.
RuntimeRestart ==
  /\ Restart
  /\ wire' = IF page.pc = "reading" /\ stream[Conn].state \in {"open", "checking"}
             THEN Append(wire, ErrorFrame) ELSE wire
  /\ UNCHANGED <<page, queue, view, active, saved, breaks>>

-----------------------------------------------------------------------------
(***************************************************************************)
(* The user.                                                               *)
(***************************************************************************)
\* stopRun aborts the stream; the queue is flushed once no message is active.
StopRun ==
  /\ "stop" \in UserActs
  /\ page.pc \in {"connecting", "reading"}
  /\ active
  /\ page' = [page EXCEPT !.pc = "stopped"]
  /\ view' = [view EXCEPT !.status = "cancelled"]
  /\ active' = FALSE /\ saved' = FALSE
  /\ queue' = <<>> /\ wire' = <<>>
  /\ Hangup
  /\ UNCHANGED <<row, bus, turn, loop, calls, restarts, cutOff, breaks>>

\* loadAgentRun: the snapshot carries no events, so the message starts as a new one
\* whatever the run's status.
LoadedRun == NewView

\* The page is loaded again: a saved run is followed from its first event.
ReloadPage ==
  /\ "reload" \in UserActs
  /\ page.mode = "sent"
  /\ saved
  /\ page' = [mode |-> "resumed", pc |-> "connecting", attempt |-> 0, last |-> 0,
              terminal |-> FALSE]
  /\ view' = LoadedRun
  /\ active' = TRUE
  /\ queue' = <<>> /\ wire' = <<>>
  /\ Hangup
  /\ UNCHANGED <<row, bus, turn, loop, calls, restarts, cutOff, saved, breaks>>

-----------------------------------------------------------------------------
WbInit ==
  /\ Init
  /\ page = [mode |-> "sent", pc |-> "idle", attempt |-> 0, last |-> 0, terminal |-> FALSE]
  /\ wire = <<>> /\ queue = <<>>
  /\ view = NewView
  /\ active = FALSE /\ saved = FALSE
  /\ breaks = 0

RuntimeStep == TurnNext /\ UNCHANGED pageVars
EndStream == CheckStatus(Conn) /\ UNCHANGED pageVars

WbNext ==
  \/ RuntimeStep \/ RuntimeRestart
  \/ Accepted \/ Connect \/ Forward \/ EndStream \/ Deliver \/ Done
  \/ Flush \/ Release
  \/ Break \/ StreamFails
  \/ StopRun \/ ReloadPage

WbSpec == WbInit /\ [][WbNext]_wbVars

\* Threads run and the calls they wait for return or raise, a handler is finished by
\* the loop, an open stream polls, the page sends its requests and reads what was not
\* lost, and its timer fires.
WbFairness ==
  /\ \A t \in Turns : WF_wbVars((Prepare(t) \/ Execute(t)) /\ UNCHANGED pageVars)
  /\ WF_wbVars((CancelPublish \/ CompletePublish) /\ UNCHANGED pageVars)
  /\ WF_wbVars(Forward \/ EndStream)
  /\ WF_wbVars(Connect \/ Deliver \/ Done)
  /\ WF_wbVars(Flush)

WbFairSpec == WbSpec /\ WbFairness

-----------------------------------------------------------------------------
\* Through queueing, reconnections from any position, a restart of the gateway and a
\* page reload, the n-th event the page shows is the run's n-th event, or the error
\* the BFF put there when it lost the stream.
ShownAtItsPlace ==
  /\ view.last = Len(view.shown)
  /\ \A i \in DOMAIN view.shown :
       \/ view.shown[i] = "error"
       \/ i <= Len(bus[Run]) /\ view.shown[i] = Projected(bus[Run][i])

\* The comment at the end of the BFF's projection: no later event waits behind a
\* missing sequence number.  The reducer's buffer is empty after every flush, and what
\* it has shown is everything up to the last number.
NothingWaits == view.pending = {} /\ view.last = Len(view.shown)

\* Once the stream of a message that was sent has returned, was given up or stopped,
\* the message shows an outcome: the composer is never left waiting for one.
OutcomeShown ==
  page.mode = "sent" /\ page.pc \in {"returned", "threw", "stopped"}
    => view.status \in TerminalViews

\* However the connection breaks and is taken up again, and whatever turns share the
\* run, a sent message that shows an outcome keeps showing one.
OutcomeKept ==
  [][page.mode = "sent" /\ page'.mode = "sent" /\ view.status \in TerminalViews
       => view'.status \in TerminalViews]_wbVars

\* A user who waits sees an outcome once the run is settled for good: StreamRunEvents
\* may end before the final event is published, but not for ever.
UserSeesOutcome ==
  (/\ page.pc \in {"connecting", "reading"}
   /\ row[Run] \in TerminalStatuses
   /\ \A t \in Turns : turn[t].run = Run => ~HoldsOldCopy(t))
    ~> view.status \in TerminalViews

\* Queues, polls and reconnections come down to this: the page shows more and more of the
\* run, each event at its place (ShownAtItsPlace follows), and takes back nothing that was read until it is loaded again.
Reading == INSTANCE RunShown WITH
  events <- bus[Run], shown <- view.shown,
  loads <- IF page.mode = "resumed" THEN 1 ELSE 0

ImplementsReading == Reading!Spec
=============================================================================
