------------------------- MODULE AgentRuntimeProofs -------------------------
(***************************************************************************)
(* Proofs about AgentRuntime for every value of its constants: types, the  *)
(* one RunStart before the events of a run, the announcement of a run's    *)
(* outcome and its persistence.                                            *)
(***************************************************************************)
EXTENDS AgentRuntime, SequenceTheorems, TLAPS

(***************************************************************************)
(* The inductive invariant.                                                *)
(*                                                                         *)
(* StartedOnce needs to know who may publish RunStart: the one turn that   *)
(* stored its run and is still "starting", with which no other turn shares *)
(* the run yet, because it holds the event loop (over gRPC) or is the only *)
(* turn of its run (a coordinator's).                                      *)
(*                                                                         *)
(* OutcomeAnnounced is about runs at rest.  While turns and handlers are   *)
(* at work, the outcome a record shows, and the one any turn's copy could  *)
(* bring back, has its event published or somebody about to publish it.    *)
(***************************************************************************)
Begun(t) == turn[t].pc # "idle"

TurnState ==
  [pc : PcLabels, run : Runs \cup {"none"}, copy : Statuses \cup {"none"},
   rounds : 0..MaxRounds]

Handlers ==
  {Free} \cup [task : {"prepare"}, on : Turns] \cup [task : {"cancel", "complete"}, on : Runs]

StreamState ==
  [state : {"idle", "open", "checking", "ended", "broken"}, run : Runs \cup {"none"},
   cursor : Nat]

\* A turn that has begun has a stored run and a copy of its record, and it plans at
\* most MaxRounds times.
TurnOK(t) ==
  /\ Begun(t) => turn[t].run \in Runs /\ Stored(turn[t].run) /\ turn[t].copy \in Statuses
  /\ turn[t].pc \in {"idle", "starting", "saving", "announcing", "compiling", "reloading"}
       => turn[t].rounds = 0
  /\ turn[t].pc = "planning" => turn[t].rounds < MaxRounds

Typed ==
  /\ row \in [Runs -> Statuses \cup {"absent"}]
  /\ bus \in [Runs -> Seq(EventTypes)]
  /\ turn \in [Turns -> TurnState]
  /\ \A t \in Turns : TurnOK(t)
  /\ loop \in Handlers
  /\ stream \in [Streams -> StreamState]
  /\ calls \in 0..CallBound /\ restarts \in 0..RestartBound
  /\ cutOff \subseteq Runs

\* The event loop is the turn's while it prepares over gRPC.
LoopHeld ==
  \A t \in Turns :
    turn[t].pc \in {"starting", "saving", "announcing"} /\ turn[t].run \in Conversations
      => loop = [task |-> "prepare", on |-> t]

\* The handler that saved run k has yet to publish its event.
Handled(k) == loop.task \in {"cancel", "complete"} /\ loop.on = k

\* A run that is not stored has no turn, no handler and no event.
UnstoredUntouched ==
  \A k \in Runs : ~Stored(k) =>
    /\ bus[k] = <<>> /\ ~Handled(k)
    /\ \A t \in Turns : Begun(t) => turn[t].run # k

\* A turn that has yet to publish RunStart is alone with its run.
StarterAlone ==
  \A t \in Turns : turn[t].pc = "starting" =>
    /\ ~Published(turn[t].run, "RunStart")
    /\ \A u \in Turns : Begun(u) /\ turn[u].run = turn[t].run => u = t

Died(k) == \E t \in Turns : turn[t].run = k /\ turn[t].pc = "dead"

\* Otherwise RunStart is out, unless a turn of the run died.
StartOut ==
  \A k \in Runs :
    \/ ~Stored(k) \/ Died(k) \/ Published(k, "RunStart")
    \/ \E t \in Turns : turn[t].run = k /\ turn[t].pc = "starting"

\* The outcome `status` of run k is announced, or somebody is about to announce it.
TurnAt(k, pc) == \E t \in Turns : turn[t].run = k /\ turn[t].pc = pc

HandlerAt(k, task) == loop.task = task /\ loop.on = k

Announced(k, status) ==
  /\ status = "completed" =>
       Published(k, "RunStop") \/ TurnAt(k, "stopping") \/ HandlerAt(k, "complete")
  /\ status = "failed" => Published(k, "RunFailed") \/ TurnAt(k, "reporting")
  /\ status = "cancelled" => Published(k, "RunCancelled") \/ HandlerAt(k, "cancel")

OutcomesBacked ==
  \A k \in Runs \ cutOff :
    /\ Announced(k, row[k])
    /\ \A t \in Turns : Begun(t) /\ turn[t].run = k => Announced(k, turn[t].copy)

IInv ==
  /\ Typed
  /\ LoopHeld /\ UnstoredUntouched /\ StarterAlone /\ StartOut /\ StartedOnce
  /\ OutcomesBacked

-----------------------------------------------------------------------------
(***************************************************************************)
(* The bus.                                                                *)
(***************************************************************************)
\* Publishing adds one event behind those of its run.
LEMMA PublishEffect ==
  ASSUME Typed, NEW k \in Runs, NEW type \in EventTypes, Publish(k, type)
  PROVE  /\ bus' \in [Runs -> Seq(EventTypes)]
         /\ \A q \in Runs : q # k => bus'[q] = bus[q]
         /\ Len(bus'[k]) = Len(bus[k]) + 1 /\ Len(bus[k]) \in Nat
         /\ \A i \in 1..Len(bus[k]) : bus'[k][i] = bus[k][i]
         /\ bus'[k][Len(bus[k]) + 1] = type
<1>1. bus \in [Runs -> Seq(EventTypes)] /\ bus[k] \in Seq(EventTypes)
  BY DEF Typed
<1>2. bus' = [bus EXCEPT ![k] = Append(bus[k], type)]
  BY DEF Publish
<1>3. /\ Append(bus[k], type) \in Seq(EventTypes)
      /\ Len(Append(bus[k], type)) = Len(bus[k]) + 1
      /\ \A i \in 1..Len(bus[k]) : Append(bus[k], type)[i] = bus[k][i]
      /\ Append(bus[k], type)[Len(bus[k]) + 1] = type
  BY <1>1, AppendProperties
<1>4. bus'[k] = Append(bus[k], type)
  BY <1>1, <1>2
<1>5. QED
  BY <1>1, <1>2, <1>3, <1>4, LenProperties

\* What is published stays published, and only the new event comes to it.
LEMMA PublishedAfter ==
  ASSUME Typed, NEW k \in Runs, NEW type \in EventTypes, Publish(k, type)
  PROVE  \A q \in Runs : \A other :
           Published(q, other)' <=> Published(q, other) \/ (q = k /\ other = type)
<1>1. \A q \in Runs : DOMAIN bus[q] = 1..Len(bus[q]) /\ DOMAIN bus'[q] = 1..Len(bus'[q])
  BY PublishEffect, LenProperties DEF Typed
<1>2. ASSUME NEW other
      PROVE  Published(k, other)' <=> Published(k, other) \/ other = type
  <2> DEFINE n == Len(bus[k])
  <2>1. /\ n \in Nat /\ DOMAIN bus[k] = 1..n /\ DOMAIN bus'[k] = 1..(n + 1)
        /\ \A i \in 1..n : bus'[k][i] = bus[k][i]
        /\ bus'[k][n + 1] = type
    BY <1>1, PublishEffect
  <2> HIDE DEF n
  <2>2. (\E i \in 1..(n + 1) : bus'[k][i] = other)
           <=> (\E i \in 1..n : bus[k][i] = other) \/ other = type
    BY <2>1
  <2>3. QED
    BY <2>1, <2>2 DEF Published
<1>3. ASSUME NEW q \in Runs, q # k
      PROVE  \A other : Published(q, other)' <=> Published(q, other)
  <2>1. bus'[q] = bus[q]
    BY <1>3, PublishEffect
  <2>2. QED
    BY <2>1 DEF Published
<1>4. QED
  BY <1>2, <1>3

\* StartedOnce when an event is added: RunStart must be the first, and the events
\* of a turn need one before them.
LEMMA StartedOnceAfter ==
  ASSUME Typed, StartedOnce, NEW k \in Runs, NEW type \in EventTypes, Publish(k, type),
         \A q \in Runs : Died(q) => Died(q)',
         type = "RunStart" => ~Published(k, "RunStart"),
         type \in TurnEvents => Published(k, "RunStart") \/ Died(k)'
  PROVE  StartedOnce'
<1>1. \A q \in Runs : DOMAIN bus[q] = 1..Len(bus[q]) /\ DOMAIN bus'[q] = 1..Len(bus'[q])
  BY PublishEffect, LenProperties DEF Typed
<1>2. SUFFICES ASSUME NEW q \in Runs, NEW i \in DOMAIN bus'[q]
      PROVE  /\ bus'[q][i] = "RunStart" => \A j \in 1..(i - 1) : bus'[q][j] # "RunStart"
             /\ bus'[q][i] \in TurnEvents /\ ~Died(q)'
                => \E j \in 1..(i - 1) : bus'[q][j] = "RunStart"
  BY DEF StartedOnce, Died
<1>3. \A h \in DOMAIN bus[q] :
        /\ bus[q][h] = "RunStart" => \A j \in 1..(h - 1) : bus[q][j] # "RunStart"
        /\ bus[q][h] \in TurnEvents /\ ~Died(q)
             => \E j \in 1..(h - 1) : bus[q][j] = "RunStart"
  BY DEF StartedOnce, Died
<1>4. CASE q # k
  BY <1>3, <1>4, PublishEffect
<1>5. CASE q = k /\ i <= Len(bus[k])
  <2>1. i \in DOMAIN bus[k] /\ \A j \in 1..i : bus'[k][j] = bus[k][j]
    BY <1>1, <1>2, <1>5, PublishEffect
  <2>2. /\ bus[k][i] = "RunStart" => \A j \in 1..(i - 1) : bus[k][j] # "RunStart"
        /\ bus[k][i] \in TurnEvents /\ ~Died(k) => \E j \in 1..(i - 1) : bus[k][j] = "RunStart"
    BY <1>3, <1>5, <2>1
  <2>3. bus'[k][i] = bus[k][i] /\ \A j \in 1..(i - 1) : bus'[k][j] = bus[k][j]
    BY <2>1, <1>1
  <2>4. Died(k) => Died(k)'
    OBVIOUS
  <2>5. QED
    BY <1>5, <2>2, <2>3, <2>4
<1>6. CASE q = k /\ i = Len(bus[k]) + 1
  <2>1. bus'[k][i] = type /\ \A j \in 1..(i - 1) : bus'[k][j] = bus[k][j]
    BY <1>6, PublishEffect
  <2>2. Published(k, "RunStart") <=> \E j \in 1..(i - 1) : bus'[k][j] = "RunStart"
    <3>1. DOMAIN bus[k] = 1..(i - 1)
      BY <1>1, <1>6, PublishEffect
    <3>2. QED
      BY <2>1, <3>1 DEF Published
  <2>3. QED
    BY <2>1, <2>2, <1>6
<1>7. QED
  BY <1>1, <1>2, <1>4, <1>5, <1>6, PublishEffect

\* A step that publishes nothing keeps StartedOnce, as no turn comes back from the dead.
LEMMA StartedOnceKept ==
  ASSUME StartedOnce, UNCHANGED bus, \A q \in Runs : Died(q) => Died(q)'
  PROVE  StartedOnce'
  BY DEF StartedOnce, Died

-----------------------------------------------------------------------------
(***************************************************************************)
(* Types.                                                                  *)
(***************************************************************************)
\* They imply the types of the specification.
LEMMA TypedIsTypeOK == Typed => TypeOK
  BY DEF Typed, TypeOK, TurnOK, TurnState, Begun, Handlers, StreamState

\* A step of one turn that forgets no run.
LEMMA TurnChanges ==
  ASSUME Typed, NEW t \in Turns, NEW new \in TurnState,
         turn' = [turn EXCEPT ![t] = new],
         \A k \in Runs : Stored(k) => Stored(k)',
         TurnOK(t)'
  PROVE  turn' \in [Turns -> TurnState] /\ \A u \in Turns : TurnOK(u)'
<1>1. turn \in [Turns -> TurnState] /\ \A u \in Turns : TurnOK(u)
  BY DEF Typed
<1>2. turn' \in [Turns -> TurnState] /\ \A u \in Turns : u # t => turn'[u] = turn[u]
  BY <1>1
<1>3. ASSUME NEW u \in Turns, u # t
      PROVE  TurnOK(u)'
  BY <1>1, <1>2, <1>3 DEF TurnOK, Begun
<1>4. QED
  BY <1>2, <1>3

\* A turn that only goes to another place.
LEMMA StepTypes ==
  ASSUME Typed, NEW t \in Turns, Begun(t),
         NEW pc \in PcLabels \ {"idle", "planning"}, Step(t, pc),
         pc \in {"starting", "saving", "announcing", "compiling", "reloading"} =>
           turn[t].pc \in {"idle", "starting", "saving", "announcing", "compiling"},
         \A k \in Runs : Stored(k) => Stored(k)'
  PROVE  turn' \in [Turns -> TurnState] /\ \A u \in Turns : TurnOK(u)'
<1> DEFINE new == [turn[t] EXCEPT !.pc = pc]
<1>1. turn \in [Turns -> TurnState] /\ turn[t] \in TurnState /\ TurnOK(t)
  BY DEF Typed
<1>2. /\ new \in TurnState /\ new.pc = pc /\ new.run = turn[t].run
      /\ new.copy = turn[t].copy /\ new.rounds = turn[t].rounds
  BY <1>1 DEF TurnState
<1>3. turn' = [turn EXCEPT ![t] = new] /\ turn'[t] = new
  BY <1>1 DEF Step
<1> HIDE DEF new
<1>4. TurnOK(t)'
  BY <1>1, <1>2, <1>3 DEF TurnOK, Begun
<1>5. QED
  BY <1>2, <1>3, <1>4, TurnChanges

\* Preparing keeps the types.
LEMMA PrepareTypes ==
  ASSUME Typed, NEW t \in Turns,
         (\E k \in Runs : Dispatch(t, k)) \/ Prepare(t)
  PROVE  Typed'
<1>1. /\ turn \in [Turns -> TurnState] /\ turn[t] \in TurnState /\ TurnOK(t)
      /\ row \in [Runs -> Statuses \cup {"absent"}]
  BY DEF Typed
<1>2. ASSUME NEW k \in Runs, Dispatch(t, k)
      PROVE  Typed'
  <2>1. loop' \in Handlers
    <3>1. loop' = loop \/ loop' = [task |-> "prepare", on |-> t]
      BY <1>2 DEF Dispatch, Take
    <3>2. loop \in Handlers
      BY DEF Typed
    <3>3. QED
      BY <3>1, <3>2 DEF Handlers
  <2>2. row' \in [Runs -> Statuses \cup {"absent"}] /\ \A q \in Runs : Stored(q) => Stored(q)'
    BY <1>1, <1>2 DEF Dispatch, Statuses, Stored
  <2>3. PICK pc \in {"starting", "saving"}, copy \in Statuses :
          turn' = [turn EXCEPT ![t] = [@ EXCEPT !.pc = pc, !.run = k, !.copy = copy]]
    BY <1>1, <1>2 DEF Dispatch, Stored, Statuses
  <2> DEFINE new == [turn[t] EXCEPT !.pc = pc, !.run = k, !.copy = copy]
  <2>4. turn' = [turn EXCEPT ![t] = new] /\ turn'[t] = new
    BY <1>1, <2>3
  <2>5. new \in TurnState /\ new.pc # "planning" /\ new.rounds = 0
    BY <1>1, <1>2 DEF TurnState, PcLabels, TurnOK, Dispatch
  <2>6. new.run = k /\ new.copy \in Statuses
    BY <1>1 DEF TurnState
  <2>7. Stored(k)'
    BY <1>1, <1>2 DEF Dispatch, Stored
  <2> HIDE DEF new
  <2>8. TurnOK(t)'
    BY <2>4, <2>5, <2>6, <2>7 DEF TurnOK
  <2>9. QED
    BY <1>2, <2>1, <2>2, <2>4, <2>5, <2>8, TurnChanges DEF Dispatch, Typed
<1>3. ASSUME PublishStart(t) \/ SaveContext(t) \/ Announce(t) \/ PrepareRaises(t)
      PROVE  Typed'
  <2>1. turn[t].pc \in {"starting", "saving", "announcing"}
    BY <1>3 DEF PublishStart, SaveContext, Announce, PrepareRaises
  <2>2. PICK pc \in {"saving", "announcing", "compiling", "dead"} : Step(t, pc)
    BY <1>3 DEF PublishStart, SaveContext, Announce, PrepareRaises
  <2>3. bus' \in [Runs -> Seq(EventTypes)]
    <3>1. {"RunStart", "IntentClassified"} \subseteq EventTypes /\ turn[t].run \in Runs
      BY <1>1, <2>1 DEF EventTypes, TurnOK, Begun
    <3>2. \/ bus' = bus
          \/ Publish(turn[t].run, "RunStart") \/ Publish(turn[t].run, "IntentClassified")
      BY <1>3 DEF PublishStart, SaveContext, Announce, PrepareRaises
    <3>3. QED
      BY <3>1, <3>2, PublishEffect DEF Typed
  <2>4. /\ row' \in [Runs -> Statuses \cup {"absent"}]
        /\ \A k \in Runs : Stored(k) => Stored(k)'
    <3>1. \/ row' = row
          \/ row' = [row EXCEPT ![turn[t].run] = turn[t].copy]
      BY <1>3 DEF PublishStart, SaveContext, Announce, PrepareRaises
    <3>2. turn[t].copy \in Statuses
      BY <1>1, <2>1 DEF TurnOK, Begun
    <3>3. QED
      BY <1>1, <3>1, <3>2 DEF Stored, Statuses, TerminalStatuses
  <2>5. turn' \in [Turns -> TurnState] /\ \A u \in Turns : TurnOK(u)'
    BY <2>1, <2>2, <2>4, StepTypes DEF PcLabels, Begun
  <2>6. /\ loop' \in Handlers
        /\ UNCHANGED <<stream, calls, restarts, cutOff>>
    BY <1>3 DEF PublishStart, SaveContext, Announce, PrepareRaises, Handlers, Typed
  <2>7. QED
    BY <2>3, <2>4, <2>5, <2>6 DEF Typed
<1>4. QED
  BY <1>2, <1>3 DEF Prepare

\* Executing keeps the types.
LEMMA ExecuteTypes ==
  ASSUME Typed, NEW t \in Turns, Execute(t)
  PROVE  Typed'
<1>1. /\ turn \in [Turns -> TurnState] /\ turn[t] \in TurnState /\ TurnOK(t)
      /\ row \in [Runs -> Statuses \cup {"absent"}]
  BY DEF Typed
<1>2. Begun(t) /\ UNCHANGED <<loop, stream, calls, restarts, cutOff>>
  BY DEF Execute, Compile, Reload, PlanRound, CallTools, Summarize, Complete, Stop, Close,
         TurnRaises, Fail, Report, Begun
<1>3. turn[t].run \in Runs /\ Stored(turn[t].run) /\ turn[t].copy \in Statuses
  BY <1>1, <1>2 DEF TurnOK
<1>4. bus' \in [Runs -> Seq(EventTypes)]
  <2>1. {"answer", "RunStop", "RunFailed"} \subseteq EventTypes
    BY DEF EventTypes
  <2>2. bus' = bus \/ \E type \in {"answer", "RunStop", "RunFailed"} : Publish(turn[t].run, type)
    BY DEF Execute, Compile, Reload, PlanRound, CallTools, Summarize, Complete, Stop, Close,
           TurnRaises, Fail, Report
  <2>3. QED
    BY <1>3, <2>1, <2>2, PublishEffect DEF Typed
<1>5. /\ row' \in [Runs -> Statuses \cup {"absent"}]
      /\ \A k \in Runs : Stored(k) => Stored(k)'
  <2>1. row' = row \/ \E status \in Statuses : row' = [row EXCEPT ![turn[t].run] = status]
    BY <1>3 DEF Execute, Compile, Reload, PlanRound, CallTools, Summarize, Complete, Stop,
           Close, TurnRaises, Fail, Report, Statuses, TerminalStatuses
  <2>2. QED
    BY <1>1, <2>1 DEF Stored, Statuses, TerminalStatuses
<1>6. turn' \in [Turns -> TurnState] /\ \A u \in Turns : TurnOK(u)'
  <2>1. CASE Reload(t)
    <3>1. PICK pc \in {"planning", "closing"} :
            turn' = [turn EXCEPT ![t] = [@ EXCEPT !.pc = pc, !.copy = row[turn[t].run]]]
      BY <2>1 DEF Reload
    <3> DEFINE new == [turn[t] EXCEPT !.pc = pc, !.copy = row[turn[t].run]]
    <3>2. row[turn[t].run] \in Statuses
      BY <1>1, <1>3 DEF Stored
    <3>3. new \in TurnState /\ new.pc = pc /\ new.run = turn[t].run /\ new.copy \in Statuses
      BY <1>1, <3>2 DEF TurnState, PcLabels
    <3>4. new.rounds = 0 /\ 0 < MaxRounds
      BY <1>1, <2>1, RuntimeAssumption DEF TurnOK, Reload, TurnState
    <3>5. turn' = [turn EXCEPT ![t] = new] /\ turn'[t] = new
      BY <1>1, <3>1
    <3> HIDE DEF new
    <3>6. TurnOK(t)'
      BY <1>3, <1>5, <3>3, <3>4, <3>5 DEF TurnOK
    <3>7. QED
      BY <1>5, <3>3, <3>5, <3>6, TurnChanges
  <2>2. CASE PlanRound(t)
    <3>1. PICK pc \in {"calling", "summarizing"} :
            turn' = [turn EXCEPT ![t].pc = pc, ![t].rounds = @ + 1]
      BY <2>2 DEF PlanRound
    <3> DEFINE new == [turn[t] EXCEPT !.pc = pc, !.rounds = turn[t].rounds + 1]
    <3>2. turn[t].rounds + 1 \in 0..MaxRounds
      BY <1>1, <2>2, RuntimeAssumption DEF TurnOK, PlanRound, TurnState
    <3>3. new \in TurnState /\ new.pc = pc /\ new.run = turn[t].run /\ new.copy \in Statuses
      BY <1>1, <1>3, <3>2 DEF TurnState, PcLabels
    <3>4. turn' = [turn EXCEPT ![t] = new]
      BY <1>1, <3>1 DEF TurnState
    <3> HIDE DEF new
    <3>5. turn'[t] = new
      BY <1>1, <3>4
    <3>6. TurnOK(t)'
      BY <1>3, <1>5, <3>3, <3>5 DEF TurnOK
    <3>7. QED
      BY <1>5, <3>3, <3>4, <3>6, TurnChanges
  <2>3. CASE CallTools(t)
    <3>1. CASE turn[t].rounds < MaxRounds
      <4> DEFINE new == [turn[t] EXCEPT !.pc = "planning"]
      <4>1. turn' = [turn EXCEPT ![t] = new] /\ turn'[t] = new
        BY <1>1, <2>3, <3>1 DEF CallTools, Step
      <4>2. /\ new \in TurnState /\ new.pc = "planning" /\ new.run = turn[t].run
            /\ new.copy = turn[t].copy /\ new.rounds = turn[t].rounds
        BY <1>1 DEF TurnState, PcLabels
      <4> HIDE DEF new
      <4>3. TurnOK(t)'
        BY <1>3, <1>5, <3>1, <4>1, <4>2 DEF TurnOK
      <4>4. QED
        BY <1>5, <4>1, <4>2, <4>3, TurnChanges
    <3>2. CASE ~(turn[t].rounds < MaxRounds)
      BY <1>2, <1>5, <2>3, <3>2, StepTypes DEF CallTools, PcLabels
    <3>3. QED
      BY <3>1, <3>2
  <2>4. CASE Compile(t)
    BY <1>2, <1>5, <2>4, StepTypes DEF Compile, PcLabels
  <2>5. ASSUME NEW pc \in {"completing", "stopping", "closing", "done", "failing", "reporting", "dead"},
               Step(t, pc)
        PROVE  turn' \in [Turns -> TurnState] /\ \A u \in Turns : TurnOK(u)'
    BY <1>2, <1>5, <2>5, StepTypes DEF PcLabels
  <2>6. QED
    BY <2>1, <2>2, <2>3, <2>4, <2>5 DEF Execute, Summarize, Complete, Stop, Close,
           TurnRaises, Fail, Report
<1>7. QED
  BY <1>2, <1>4, <1>5, <1>6 DEF Typed

\* A step that leaves the turns alone and forgets no run.
LEMMA TurnsLeft ==
  ASSUME Typed, UNCHANGED turn, \A k \in Runs : Stored(k) => Stored(k)'
  PROVE  turn' \in [Turns -> TurnState] /\ \A u \in Turns : TurnOK(u)'
  BY DEF Typed, TurnOK, Begun

\* A handler's calls keep the types.
LEMMA HttpTypes ==
  ASSUME Typed, Http
  PROVE  Typed'
<1>1. ASSUME NEW k \in Runs, NEW task \in {"cancel", "complete"},
             NEW status \in TerminalStatuses, HttpSave(k, task, status)
      PROVE  Typed'
  <2>1. /\ row' \in [Runs -> Statuses \cup {"absent"}]
        /\ \A q \in Runs : Stored(q) => Stored(q)'
    BY <1>1 DEF HttpSave, Typed, Statuses, TerminalStatuses, Stored
  <2>2. loop' \in Handlers /\ calls' \in 0..CallBound
    BY <1>1, RuntimeAssumption DEF HttpSave, Typed, Handlers
  <2>3. UNCHANGED <<bus, turn, stream, restarts, cutOff>>
    BY <1>1 DEF HttpSave
  <2>4. QED
    BY <2>1, <2>2, <2>3, TurnsLeft DEF Typed
<1>2. ASSUME NEW task \in {"cancel", "complete"}, NEW type \in {"RunCancelled", "RunStop"},
             HttpPublish(task, type)
      PROVE  Typed'
  <2>1. loop.on \in Runs /\ type \in EventTypes
    BY <1>2 DEF HttpPublish, Typed, Handlers, Free, EventTypes
  <2>2. bus' \in [Runs -> Seq(EventTypes)]
    BY <1>2, <2>1, PublishEffect DEF HttpPublish
  <2>3. loop' \in Handlers /\ UNCHANGED <<row, turn, stream, calls, restarts, cutOff>>
    BY <1>2 DEF HttpPublish, Handlers
  <2>4. QED
    BY <2>2, <2>3, TurnsLeft DEF Typed, Stored
<1>3. CASE HttpRaises
  <2>1. cutOff' \subseteq Runs /\ loop' \in Handlers
    BY <1>3 DEF HttpRaises, Typed, Handlers, Free
  <2>2. UNCHANGED <<row, bus, turn, stream, calls, restarts>>
    BY <1>3 DEF HttpRaises
  <2>3. QED
    BY <2>1, <2>2, TurnsLeft DEF Typed, Stored
<1>4. QED
  BY <1>1, <1>2, <1>3 DEF Http, CancelRun, CompleteRun, CancelPublish, CompletePublish,
     TerminalStatuses

\* A restart keeps the types.
LEMMA RestartTypes ==
  ASSUME Typed, Restart
  PROVE  Typed'
<1>1. ASSUME NEW t \in Turns
      PROVE  turn'[t] \in TurnState /\ TurnOK(t)'
  <2>1. /\ turn[t] \in TurnState /\ TurnOK(t)
        /\ turn'[t] = turn[t] \/ (Begun(t) /\ turn'[t] = [turn[t] EXCEPT !.pc = "dead"])
    BY DEF Typed, Restart, Begun
  <2>2. UNCHANGED row
    BY DEF Restart
  <2>3. QED
    BY <2>1, <2>2 DEF TurnState, PcLabels, TurnOK, Begun, Stored
<1>2. turn' \in [Turns -> TurnState]
  BY <1>1 DEF Restart
<1>3. stream' \in [Streams -> StreamState]
  BY DEF Restart, Typed, StreamState
<1>4. restarts' \in 0..RestartBound /\ cutOff' \subseteq Runs /\ loop' \in Handlers
  BY RuntimeAssumption DEF Restart, Typed, Handlers
<1>5. UNCHANGED <<row, bus, calls>>
  BY DEF Restart
<1>6. QED
  BY <1>1, <1>2, <1>3, <1>4, <1>5 DEF Typed

-----------------------------------------------------------------------------
(***************************************************************************)
(* RunStart.                                                               *)
(***************************************************************************)
StartInv == LoopHeld /\ UnstoredUntouched /\ StarterAlone /\ StartOut /\ StartedOnce

\* A turn that is dispatched finds no other turn starting the same run.
LEMMA DispatchStart ==
  ASSUME Typed, StartInv, NEW t \in Turns, NEW k \in Runs, Dispatch(t, k)
  PROVE  StartInv'
<1>1. PICK pc \in {"starting", "saving"} :
        /\ turn'[t].pc = pc /\ turn'[t].run = k
        /\ pc = "starting" <=> ~Stored(k)
  <2>1. turn \in [Turns -> TurnState] /\ turn[t] \in TurnState
    BY DEF Typed
  <2>2. \A pc, copy : LET new == [turn[t] EXCEPT !.pc = pc, !.run = k, !.copy = copy]
                     IN new.pc = pc /\ new.run = k
    BY <2>1 DEF TurnState
  <2>3. CASE Stored(k)
    <3>1. turn'[t] = [turn[t] EXCEPT !.pc = "saving", !.run = k, !.copy = row[k]]
      BY <2>1, <2>3 DEF Dispatch
    <3>2. QED
      BY <2>2, <2>3, <3>1
  <2>4. CASE ~Stored(k)
    <3>1. turn'[t] = [turn[t] EXCEPT !.pc = "starting", !.run = k, !.copy = "running"]
      BY <2>1, <2>4 DEF Dispatch
    <3>2. QED
      BY <2>2, <2>4, <3>1
  <2>5. QED
    BY <2>3, <2>4
<1>2. \A u \in Turns : u # t => turn'[u] = turn[u]
  BY DEF Dispatch, Typed
<1>3. ~Begun(t) /\ bus' = bus /\ UNCHANGED <<stream, cutOff>>
  BY DEF Dispatch, Begun
<1>4. Stored(k)' /\ \A q \in Runs : q # k => (Stored(q)' <=> Stored(q))
  BY DEF Dispatch, Stored, Typed, TerminalStatuses
<1>5. ASSUME NEW u \in Turns, turn[u].pc = "starting"
      PROVE  turn[u].run # k
  <2>1. CASE k \in Conversations
    <3>1. loop = Free
      BY <2>1 DEF Dispatch, Take
    <3>2. QED
      BY <1>5, <2>1, <3>1 DEF StartInv, LoopHeld, Free
  <2>2. CASE k \notin Conversations
    BY <2>2 DEF Dispatch, Take
  <2>3. QED
    BY <2>1, <2>2
<1>6. \A u \in Turns : Begun(u)' <=> u = t \/ Begun(u)
  BY <1>1, <1>2 DEF Begun
<1>7. LoopHeld'
  <2>1. CASE k \in Conversations
    <3>1. loop = Free /\ loop' = [task |-> "prepare", on |-> t]
      BY <2>1 DEF Dispatch, Take
    <3>2. QED
      BY <1>1, <1>2, <3>1 DEF StartInv, LoopHeld, Free
  <2>2. CASE k \notin Conversations
    <3>1. loop' = loop
      BY <2>2 DEF Dispatch, Take
    <3>2. QED
      BY <1>1, <1>2, <2>2, <3>1 DEF StartInv, LoopHeld
  <2>3. QED
    BY <2>1, <2>2
<1>8. UnstoredUntouched'
  <2>1. \A q \in Runs : Handled(q)' => Handled(q)
    BY DEF Dispatch, Take, Handled
  <2>2. QED
    BY <1>1, <1>2, <1>3, <1>4, <1>6, <2>1 DEF StartInv, UnstoredUntouched
<1>9. StarterAlone'
  <2>1. ASSUME NEW u \in Turns, turn'[u].pc = "starting", u = t
        PROVE  /\ ~Published(turn[u].run, "RunStart")'
               /\ \A w \in Turns : Begun(w)' /\ turn'[w].run = turn'[u].run => w = u
    <3>1. ~Stored(k) /\ turn'[u].run = k
      BY <1>1, <2>1
    <3>2. bus[k] = <<>> /\ \A w \in Turns : Begun(w) => turn[w].run # k
      BY <3>1 DEF StartInv, UnstoredUntouched
    <3>3. ~Published(turn[u].run, "RunStart")'
      BY <1>3, <3>1, <3>2 DEF Published
    <3>4. QED
      BY <1>2, <1>6, <2>1, <3>1, <3>2, <3>3
  <2>2. ASSUME NEW u \in Turns, turn'[u].pc = "starting", u # t
        PROVE  /\ ~Published(turn[u].run, "RunStart")'
               /\ \A w \in Turns : Begun(w)' /\ turn'[w].run = turn'[u].run => w = u
    <3>1. turn'[u] = turn[u] /\ turn[u].run # k
      BY <1>2, <1>5, <2>2
    <3>2. /\ ~Published(turn[u].run, "RunStart")
          /\ \A w \in Turns : Begun(w) /\ turn[w].run = turn[u].run => w = u
      BY <2>2, <3>1 DEF StartInv, StarterAlone
    <3>3. ~Published(turn[u].run, "RunStart")'
      BY <1>3, <3>1, <3>2 DEF Published
    <3>4. QED
      BY <1>1, <1>2, <1>6, <3>1, <3>2, <3>3
  <2>3. QED
    BY <2>1, <2>2 DEF StarterAlone, Begun
<1>10. \A q \in Runs : Died(q) => Died(q)'
  BY <1>2, <1>3 DEF Died, Begun
<1>11. StartOut'
  BY <1>1, <1>2, <1>3, <1>4, <1>10 DEF StartInv, StartOut, Published, Begun
<1>12. StartedOnce'
  BY <1>3, <1>10, StartedOnceKept DEF StartInv
<1>13. QED
  BY <1>7, <1>8, <1>9, <1>11, <1>12 DEF StartInv

\* A turn that goes on: it leaves "starting" by publishing RunStart or by dying, and
\* publishes for no run but its own.
LEMMA MoveStart ==
  ASSUME Typed, StartInv, NEW t \in Turns, Begun(t), turn[t].pc # "dead",
         turn'[t].run = turn[t].run, turn'[t].pc \notin {"idle", "starting"},
         \A u \in Turns : u # t => turn'[u] = turn[u],
         \A q \in Runs : Stored(q)' <=> Stored(q),
         loop' \in {loop, Free},
         \/ UNCHANGED bus
         \/ \E type \in EventTypes :
              /\ Publish(turn[t].run, type)
              /\ type = "RunStart" <=> turn[t].pc = "starting",
         turn[t].pc = "starting" => turn'[t].pc = "dead" \/ Publish(turn[t].run, "RunStart")
  PROVE  UnstoredUntouched' /\ StarterAlone' /\ StartOut' /\ StartedOnce'
<1> DEFINE k == turn[t].run
<1>1. k \in Runs /\ Stored(k)
  BY DEF Typed, TurnOK
<1>2. \A u \in Turns : Begun(u)' <=> Begun(u)
  BY DEF Begun
<1>3. /\ \A q \in Runs : q # k => bus'[q] = bus[q]
      /\ \A q \in Runs : \A type : Published(q, type) => Published(q, type)'
      /\ \A q \in Runs : \A type : q # k => (Published(q, type)' <=> Published(q, type))
  <2>1. CASE UNCHANGED bus
    BY <2>1 DEF Published
  <2>2. CASE \E type \in EventTypes : Publish(k, type)
    BY <1>1, <2>2, PublishEffect, PublishedAfter
  <2>3. QED
    BY <2>1, <2>2
<1>4. \A q \in Runs : Died(q) => Died(q)'
  BY DEF Died
<1>5. UnstoredUntouched'
  <2>1. \A q \in Runs : Handled(q)' => Handled(q)
    BY DEF Handled, Free
  <2>2. QED
    BY <1>1, <1>2, <1>3, <2>1 DEF StartInv, UnstoredUntouched
<1>6. StarterAlone'
  <2>1. ASSUME NEW u \in Turns, turn'[u].pc = "starting"
        PROVE  /\ ~Published(turn[u].run, "RunStart")'
               /\ \A w \in Turns : Begun(w)' /\ turn'[w].run = turn'[u].run => w = u
    <3>1. u # t /\ turn'[u] = turn[u]
      BY <2>1
    <3>2. /\ ~Published(turn[u].run, "RunStart")
          /\ \A w \in Turns : Begun(w) /\ turn[w].run = turn[u].run => w = u
          /\ turn[u].run \in Runs
      BY <2>1, <3>1 DEF StartInv, StarterAlone, Typed, TurnOK, Begun
    <3>3. turn[u].run # k
      BY <3>1, <3>2
    <3>4. ~Published(turn[u].run, "RunStart")'
      BY <1>3, <3>1, <3>2, <3>3
    <3>5. QED
      BY <1>2, <3>1, <3>2, <3>4
  <2>2. QED
    BY <2>1 DEF StarterAlone, Begun
<1>7. turn[t].pc = "starting" => Died(k)' \/ Published(k, "RunStart")'
  <2>1. ASSUME Publish(k, "RunStart") PROVE Published(k, "RunStart")'
    BY <1>1, <2>1, PublishedAfter DEF EventTypes
  <2>2. QED
    BY <2>1 DEF Died
<1>8. StartOut'
  <2>1. ASSUME NEW q \in Runs, Stored(q)', ~Died(q)', ~Published(q, "RunStart")'
        PROVE  \E u \in Turns : turn'[u].run = q /\ turn'[u].pc = "starting"
    <3>1. Stored(q) /\ ~Died(q) /\ ~Published(q, "RunStart")
      BY <1>3, <1>4, <2>1
    <3>2. PICK u \in Turns : turn[u].run = q /\ turn[u].pc = "starting"
      BY <3>1 DEF StartInv, StartOut
    <3>3. u # t
      BY <1>7, <2>1, <3>2
    <3>4. QED
      BY <3>2, <3>3
  <2>2. QED
    BY <2>1 DEF StartOut
<1>9. StartedOnce'
  <2>1. CASE UNCHANGED bus
    BY <1>4, <2>1, StartedOnceKept DEF StartInv
  <2>2. ASSUME NEW type \in EventTypes, Publish(k, type),
               type = "RunStart" <=> turn[t].pc = "starting"
        PROVE  StartedOnce'
    <3>1. type = "RunStart" => ~Published(k, "RunStart")
      BY <2>2 DEF StartInv, StarterAlone
    <3>2. type # "RunStart" => Published(k, "RunStart") \/ Died(k)'
      <4>1. ASSUME NEW u \in Turns, turn[u].run = k, turn[u].pc = "starting"
            PROVE  type = "RunStart"
        BY <2>2, <4>1 DEF StartInv, StarterAlone
      <4>2. QED
        BY <1>1, <1>4, <4>1 DEF StartInv, StartOut
    <3>3. QED
      BY <1>1, <1>4, <2>2, <3>1, <3>2, StartedOnceAfter DEF StartInv, TurnEvents
  <2>3. QED
    BY <2>1, <2>2
<1>10. QED
  BY <1>5, <1>6, <1>8, <1>9

\* Preparing publishes RunStart before anything else of the turn's run.
LEMMA PrepareStart ==
  ASSUME Typed, StartInv, NEW t \in Turns, Prepare(t)
  PROVE  StartInv'
<1>1. /\ turn \in [Turns -> TurnState] /\ turn[t] \in TurnState
      /\ turn[t].pc \in {"starting", "saving", "announcing"} /\ Preparing(t)
  BY DEF Typed, Prepare, PublishStart, SaveContext, Announce, PrepareRaises
<1>2. Begun(t) /\ turn[t].run \in Runs /\ Stored(turn[t].run) /\ turn[t].copy \in Statuses
  BY <1>1 DEF Begun, Typed, TurnOK
<1>3. PICK pc \in {"saving", "announcing", "compiling", "dead"} : Step(t, pc)
  BY DEF Prepare, PublishStart, SaveContext, Announce, PrepareRaises
<1>4. /\ turn'[t].pc = pc /\ turn'[t].run = turn[t].run
      /\ \A u \in Turns : u # t => turn'[u] = turn[u]
  BY <1>1, <1>3 DEF Step, TurnState
<1>5. \A q \in Runs : Stored(q)' <=> Stored(q)
  BY <1>2 DEF Prepare, PublishStart, SaveContext, Announce, PrepareRaises, Typed, Stored,
     Statuses, TerminalStatuses
<1>6. \/ UNCHANGED bus
      \/ \E type \in EventTypes :
           /\ Publish(turn[t].run, type)
           /\ type = "RunStart" <=> turn[t].pc = "starting"
  BY DEF Prepare, PublishStart, SaveContext, Announce, PrepareRaises, EventTypes
<1>7. turn[t].pc = "starting" => turn'[t].pc = "dead" \/ Publish(turn[t].run, "RunStart")
  <2>1. CASE PrepareRaises(t)
    BY <1>1, <2>1 DEF PrepareRaises, Step, TurnState
  <2>2. QED
    BY <2>1 DEF Prepare, PublishStart, SaveContext, Announce
<1>8. UnstoredUntouched' /\ StarterAlone' /\ StartOut' /\ StartedOnce'
  <2>1. loop' \in {loop, Free}
    BY DEF Prepare, PublishStart, SaveContext, Announce, PrepareRaises
  <2>2. QED
    BY <1>1, <1>2, <1>4, <1>5, <1>6, <1>7, <2>1, MoveStart
<1>9. LoopHeld'
  <2>1. CASE turn[t].run \in Conversations
    <3>1. loop = [task |-> "prepare", on |-> t]
      BY <1>1, <2>1 DEF StartInv, LoopHeld
    <3>2. \A u \in Turns : u # t =>
            ~(turn[u].pc \in {"starting", "saving", "announcing"} /\ turn[u].run \in Conversations)
      BY <3>1 DEF StartInv, LoopHeld
    <3>3. pc \in {"saving", "announcing"} => loop' = loop
      <4>1. CASE PublishStart(t) \/ SaveContext(t)
        BY <4>1 DEF PublishStart, SaveContext
      <4>2. CASE Announce(t) \/ PrepareRaises(t)
        BY <1>1, <1>4, <4>2 DEF Announce, PrepareRaises, Step, TurnState
      <4>3. QED
        BY <4>1, <4>2 DEF Prepare
    <3>4. QED
      BY <1>4, <3>1, <3>2, <3>3 DEF LoopHeld
  <2>2. CASE turn[t].run \notin Conversations
    <3>1. loop' = loop
      BY <2>2 DEF Prepare, PublishStart, SaveContext, Announce, PrepareRaises
    <3>2. QED
      BY <1>4, <2>2, <3>1 DEF StartInv, LoopHeld
  <2>3. QED
    BY <2>1, <2>2
<1>10. QED
  BY <1>8, <1>9 DEF StartInv

\* What an executing turn does to itself and to the store.
LEMMA ExecuteEffect ==
  ASSUME Typed, NEW t \in Turns, Execute(t)
  PROVE  /\ turn[t].pc \in {"compiling", "reloading", "planning", "calling", "summarizing",
                            "completing", "stopping", "closing", "failing", "reporting"}
         /\ Begun(t) /\ turn[t].run \in Runs /\ Stored(turn[t].run) /\ turn[t].copy \in Statuses
         /\ turn'[t].run = turn[t].run
         /\ turn'[t].pc \notin {"idle", "starting", "saving", "announcing", "compiling"}
         /\ \A u \in Turns : u # t => turn'[u] = turn[u]
         /\ \A q \in Runs : Stored(q)' <=> Stored(q)
         /\ UNCHANGED <<loop, stream, calls, restarts, cutOff>>
<1>1. /\ turn[t].pc \in {"compiling", "reloading", "planning", "calling", "summarizing",
                         "completing", "stopping", "closing", "failing", "reporting"}
      /\ UNCHANGED <<loop, stream, calls, restarts, cutOff>>
  BY DEF Execute, Compile, Reload, PlanRound, CallTools, Summarize, Complete, Stop, Close,
         TurnRaises, Fail, Report
<1>2. Begun(t) /\ turn[t].run \in Runs /\ Stored(turn[t].run) /\ turn[t].copy \in Statuses
  BY <1>1 DEF Begun, Typed, TurnOK
<1>3. turn \in [Turns -> TurnState] /\ turn[t] \in TurnState
  BY DEF Typed
<1>4. ASSUME NEW pc \in PcLabels, Step(t, pc)
      PROVE  /\ turn'[t].run = turn[t].run /\ turn'[t].pc = pc
             /\ \A u \in Turns : u # t => turn'[u] = turn[u]
  BY <1>3, <1>4 DEF Step, TurnState
<1>5. /\ turn'[t].run = turn[t].run
      /\ turn'[t].pc \notin {"idle", "starting", "saving", "announcing", "compiling"}
      /\ \A u \in Turns : u # t => turn'[u] = turn[u]
  <2>1. CASE Reload(t)
    BY <1>3, <2>1 DEF Reload, TurnState
  <2>2. CASE PlanRound(t)
    BY <1>3, <2>2 DEF PlanRound, TurnState
  <2>3. ASSUME NEW pc \in {"reloading", "planning", "summarizing", "completing", "stopping",
                           "closing", "done", "failing", "reporting", "dead"}, Step(t, pc)
        PROVE  /\ turn'[t].run = turn[t].run
               /\ turn'[t].pc \notin {"idle", "starting", "saving", "announcing", "compiling"}
               /\ \A u \in Turns : u # t => turn'[u] = turn[u]
    BY <1>4, <2>3 DEF PcLabels
  <2>4. QED
    BY <2>1, <2>2, <2>3 DEF Execute, Compile, CallTools, Summarize, Complete, Stop, Close,
       TurnRaises, Fail, Report
<1>6. \A q \in Runs : Stored(q)' <=> Stored(q)
  BY <1>2 DEF Execute, Compile, Reload, PlanRound, CallTools, Summarize, Complete, Stop,
     Close, TurnRaises, Fail, Report, Typed, Stored, Statuses, TerminalStatuses
<1>7. QED
  BY <1>1, <1>2, <1>5, <1>6

\* An executing turn publishes no RunStart.
LEMMA ExecuteStart ==
  ASSUME Typed, StartInv, NEW t \in Turns, Execute(t)
  PROVE  StartInv'
<1>1. \/ UNCHANGED bus
      \/ \E type \in EventTypes : Publish(turn[t].run, type) /\ type # "RunStart"
  BY DEF Execute, Compile, Reload, PlanRound, CallTools, Summarize, Complete, Stop, Close,
         TurnRaises, Fail, Report, EventTypes
<1>2. UnstoredUntouched' /\ StarterAlone' /\ StartOut' /\ StartedOnce'
  BY <1>1, ExecuteEffect, MoveStart
<1>3. LoopHeld'
  BY ExecuteEffect DEF StartInv, LoopHeld
<1>4. QED
  BY <1>2, <1>3 DEF StartInv

\* Neither do the handlers, which save and publish for stored runs only.
LEMMA HttpStart ==
  ASSUME Typed, StartInv, Http
  PROVE  StartInv'
<1>1. /\ UNCHANGED turn
      /\ \A q \in Runs : Stored(q)' <=> Stored(q)
      /\ loop.task # "prepare"
  BY DEF Http, CancelRun, CompleteRun, CancelPublish, CompletePublish, HttpSave, HttpPublish,
         HttpRaises, Typed, Stored, Free
<1>2. \/ UNCHANGED bus
      \/ \E type \in {"RunCancelled", "RunStop"} : loop.on \in Runs /\ Publish(loop.on, type)
  <2>1. loop.task \in {"cancel", "complete"} => loop.on \in Runs
    BY DEF Typed, Handlers, Free
  <2>2. QED
    BY <2>1 DEF Http, CancelRun, CompleteRun, CancelPublish, CompletePublish, HttpSave,
                HttpPublish, HttpRaises
<1>3. /\ \A q \in Runs : Published(q, "RunStart")' <=> Published(q, "RunStart")
      /\ StartedOnce'
  <2>1. \A q \in Runs : Died(q)' <=> Died(q)
    BY <1>1 DEF Died
  <2>2. CASE UNCHANGED bus
    BY <2>1, <2>2, StartedOnceKept DEF StartInv, Published
  <2>3. ASSUME NEW type \in {"RunCancelled", "RunStop"}, loop.on \in Runs,
               Publish(loop.on, type)
        PROVE  /\ \A q \in Runs : Published(q, "RunStart")' <=> Published(q, "RunStart")
               /\ StartedOnce'
    BY <2>1, <2>3, PublishedAfter, StartedOnceAfter DEF StartInv, EventTypes, TurnEvents
  <2>4. QED
    BY <1>2, <2>2, <2>3
<1>4. LoopHeld'
  BY <1>1 DEF StartInv, LoopHeld
<1>5. StarterAlone'
  <2>1. \A u \in Turns : turn[u].pc = "starting" => turn[u].run \in Runs
    BY DEF Typed, TurnOK, Begun
  <2>2. QED
    BY <1>1, <1>3, <2>1 DEF StartInv, StarterAlone, Begun
<1>6. StartOut'
  BY <1>1, <1>3 DEF StartInv, StartOut, Died
<1>7. UnstoredUntouched'
  <2>1. ASSUME NEW q \in Runs, ~Stored(q)
        PROVE  bus'[q] = bus[q] /\ ~Handled(q)'
    <3>1. ~Handled(q)
      BY <2>1 DEF StartInv, UnstoredUntouched
    <3>2. CASE \E k \in Runs : CancelRun(k) \/ CompleteRun(k)
      BY <2>1, <3>2 DEF CancelRun, CompleteRun, HttpSave, Handled
    <3>3. ASSUME NEW task \in {"cancel", "complete"}, NEW type \in {"RunCancelled", "RunStop"},
                 HttpPublish(task, type)
          PROVE  bus'[q] = bus[q] /\ ~Handled(q)'
      <4>1. loop.on \in Runs /\ loop.on # q /\ type \in EventTypes
        BY <3>1, <3>3 DEF HttpPublish, Typed, Handlers, Free, Handled, EventTypes
      <4>2. QED
        BY <3>3, <4>1, PublishEffect DEF HttpPublish, Handled, Free
    <3>4. CASE HttpRaises
      BY <3>4 DEF HttpRaises, Handled, Free
    <3>5. QED
      BY <3>2, <3>3, <3>4 DEF Http, CancelPublish, CompletePublish
  <2>2. QED
    BY <1>1, <2>1 DEF StartInv, UnstoredUntouched, Begun
<1>8. QED
  BY <1>3, <1>4, <1>5, <1>6, <1>7 DEF StartInv

\* A turn that was cut off publishes nothing more.
LEMMA RestartStart ==
  ASSUME Typed, StartInv, Restart
  PROVE  StartInv'
<1>1. \A u \in Turns :
        /\ turn'[u].run = turn[u].run
        /\ turn'[u].pc = "dead" \/ (turn'[u] = turn[u] /\ turn[u].pc \in {"idle", "done"})
        /\ turn[u].pc = "starting" => turn'[u].pc = "dead"
        /\ turn[u].pc = "dead" => turn'[u].pc = "dead"
        /\ Begun(u)' <=> Begun(u)
  BY DEF Restart, Typed, TurnState, Begun
<1>2. UNCHANGED <<row, bus>>
  BY DEF Restart
<1>3. \A q \in Runs : Died(q) => Died(q)'
  BY <1>1 DEF Died
<1>4. LoopHeld' /\ StarterAlone'
  BY <1>1 DEF LoopHeld, StarterAlone
<1>5. UnstoredUntouched'
  <2>1. \A q \in Runs : ~Handled(q)'
    BY DEF Restart, Handled, Free
  <2>2. QED
    BY <1>1, <1>2, <2>1 DEF StartInv, UnstoredUntouched, Stored
<1>6. StartOut'
  BY <1>1, <1>2, <1>3 DEF StartInv, StartOut, Stored, Published, Died
<1>7. StartedOnce'
  BY <1>2, <1>3, StartedOnceKept DEF StartInv
<1>8. QED
  BY <1>4, <1>5, <1>6, <1>7 DEF StartInv

-----------------------------------------------------------------------------
(***************************************************************************)
(* Outcomes.                                                               *)
(***************************************************************************)
\* Announced is kept by a step in which whoever was about to publish an outcome's
\* event still is, or has published it.
LEMMA AnnouncedKept ==
  ASSUME NEW k \in Runs,
         \A type : Published(k, type) => Published(k, type)',
         TurnAt(k, "stopping") => TurnAt(k, "stopping")' \/ Published(k, "RunStop")',
         TurnAt(k, "reporting") => TurnAt(k, "reporting")' \/ Published(k, "RunFailed")',
         HandlerAt(k, "complete") => HandlerAt(k, "complete")' \/ Published(k, "RunStop")',
         HandlerAt(k, "cancel") => HandlerAt(k, "cancel")' \/ Published(k, "RunCancelled")',
         NEW status, Announced(k, status)
  PROVE  Announced(k, status)'
  BY DEF Announced

\* OutcomesBacked is kept by a step that keeps Announced, writes to the store a copy
\* or an announced status, and gives the turns no copy but the stored status.
LEMMA BackedKept ==
  ASSUME OutcomesBacked, cutOff \subseteq cutOff',
         \A k \in Runs \ cutOff' : \A status : Announced(k, status) => Announced(k, status)',
         \A k \in Runs \ cutOff' :
           \/ row'[k] = row[k] \/ Announced(k, row[k])'
           \/ \E t \in Turns : Begun(t) /\ turn[t].run = k /\ row'[k] = turn[t].copy,
         \A t \in Turns : Begun(t)' =>
           \/ Begun(t) /\ turn'[t].run = turn[t].run /\ turn'[t].copy = turn[t].copy
           \/ turn'[t].copy \in {"running", row[turn'[t].run]}
  PROVE  OutcomesBacked'
<1> SUFFICES ASSUME NEW k \in Runs \ cutOff'
    PROVE  /\ Announced(k, row[k])'
           /\ \A t \in Turns : Begun(t)' /\ turn'[t].run = k => Announced(k, turn[t].copy)'
  BY DEF OutcomesBacked, Begun
<1>1. \A status : status = row[k] => Announced(k, status)'
  BY DEF OutcomesBacked
<1>2. \A t \in Turns : \A status :
        Begun(t) /\ turn[t].run = k /\ status = turn[t].copy => Announced(k, status)'
  BY DEF OutcomesBacked
<1>3. Announced(k, row[k])'
  BY <1>1, <1>2 DEF Announced
<1>4. ASSUME NEW t \in Turns, Begun(t)', turn'[t].run = k
      PROVE  Announced(k, turn[t].copy)'
  <2>1. turn'[t].copy = "running" => Announced(k, turn[t].copy)'
    BY DEF Announced
  <2>2. turn'[t].copy = row[k] => Announced(k, turn[t].copy)'
    BY <1>1 DEF Announced
  <2>3. Begun(t) /\ turn[t].run = k /\ turn'[t].copy = turn[t].copy => Announced(k, turn[t].copy)'
    BY <1>2 DEF Announced
  <2>4. QED
    BY <1>4, <2>1, <2>2, <2>3
<1>5. QED
  BY <1>3, <1>4 DEF Begun

\* Dispatching a turn gives it the stored status.
LEMMA DispatchBacked ==
  ASSUME Typed, StartInv, OutcomesBacked, NEW t \in Turns, NEW k \in Runs, Dispatch(t, k)
  PROVE  OutcomesBacked'
<1>1. /\ turn'[t].run = k /\ turn'[t].pc \notin {"stopping", "reporting"}
      /\ turn'[t].copy \in {"running", row[k]}
  <2>1. turn \in [Turns -> TurnState] /\ turn[t] \in TurnState
    BY DEF Typed
  <2>2. PICK pc \in {"starting", "saving"}, copy \in {"running", row[k]} :
          turn' = [turn EXCEPT ![t] = [@ EXCEPT !.pc = pc, !.run = k, !.copy = copy]]
    BY DEF Dispatch
  <2>3. QED
    BY <2>1, <2>2 DEF TurnState
<1>2. ~Begun(t) /\ turn[t].pc = "idle" /\ \A u \in Turns : u # t => turn'[u] = turn[u]
  BY DEF Dispatch, Typed, Begun
<1>3. bus' = bus /\ cutOff' = cutOff
  BY DEF Dispatch
<1>4. \A q \in Runs : row'[q] = row[q] \/ (q = k /\ row'[q] = "running")
  BY DEF Dispatch, Typed
<1>5. \A q \in Runs, task \in {"cancel", "complete"} : HandlerAt(q, task) => HandlerAt(q, task)'
  BY DEF Dispatch, Take, HandlerAt, Free
<1>6. ASSUME NEW q \in Runs, NEW status, Announced(q, status)
      PROVE  Announced(q, status)'
  <2>1. \A pc \in {"stopping", "reporting"} : TurnAt(q, pc) => TurnAt(q, pc)'
    BY <1>2 DEF TurnAt
  <2>2. QED
    BY <1>3, <1>5, <1>6, <2>1, AnnouncedKept DEF Published
<1>7. \A q \in Runs : row'[q] = row[q] \/ Announced(q, row[q])'
  BY <1>4 DEF Announced
<1>8. QED
  BY <1>1, <1>2, <1>3, <1>6, <1>7, BackedKept DEF Begun

\* A turn that goes on keeps what is announced: it leaves "stopping" by publishing
\* RunStop and "reporting" by publishing RunFailed.
LEMMA MoveAnnounced ==
  ASSUME Typed, NEW t \in Turns, Begun(t),
         turn'[t].run = turn[t].run,
         \A u \in Turns : u # t => turn'[u] = turn[u],
         UNCHANGED bus \/ \E type \in EventTypes : Publish(turn[t].run, type),
         turn[t].pc = "stopping" => Publish(turn[t].run, "RunStop"),
         turn[t].pc = "reporting" => Publish(turn[t].run, "RunFailed"),
         \A q \in Runs, task \in {"cancel", "complete"} :
           HandlerAt(q, task) => HandlerAt(q, task)',
         NEW q \in Runs, NEW status, Announced(q, status)
  PROVE  Announced(q, status)'
<1>1. turn[t].run \in Runs
  BY DEF Typed, TurnOK
<1>2. \A type : Published(q, type) => Published(q, type)'
  <2>1. CASE UNCHANGED bus
    BY <2>1 DEF Published
  <2>2. CASE \E type \in EventTypes : Publish(turn[t].run, type)
    BY <1>1, <2>2, PublishedAfter
  <2>3. QED
    BY <2>1, <2>2
<1>3. TurnAt(q, "stopping") => TurnAt(q, "stopping")' \/ Published(q, "RunStop")'
  <2>1. turn[t].run = q /\ turn[t].pc = "stopping" => Published(q, "RunStop")'
    BY PublishedAfter DEF EventTypes
  <2>2. QED
    BY <2>1 DEF TurnAt
<1>4. TurnAt(q, "reporting") => TurnAt(q, "reporting")' \/ Published(q, "RunFailed")'
  <2>1. turn[t].run = q /\ turn[t].pc = "reporting" => Published(q, "RunFailed")'
    BY PublishedAfter DEF EventTypes
  <2>2. QED
    BY <2>1 DEF TurnAt
<1>5. QED
  BY <1>2, <1>3, <1>4, AnnouncedKept

\* Preparing may write back the copy of the turn.
LEMMA PrepareBacked ==
  ASSUME Typed, StartInv, OutcomesBacked, NEW t \in Turns, Prepare(t)
  PROVE  OutcomesBacked'
<1>1. /\ turn \in [Turns -> TurnState] /\ turn[t] \in TurnState
      /\ turn[t].pc \in {"starting", "saving", "announcing"} /\ Preparing(t)
      /\ UNCHANGED cutOff
  BY DEF Typed, Prepare, PublishStart, SaveContext, Announce, PrepareRaises
<1>2. Begun(t) /\ turn[t].run \in Runs
  BY <1>1 DEF Begun, Typed, TurnOK
<1>3. PICK pc \in {"saving", "announcing", "compiling", "dead"} : Step(t, pc)
  BY DEF Prepare, PublishStart, SaveContext, Announce, PrepareRaises
<1>4. /\ turn'[t].pc = pc /\ turn'[t].run = turn[t].run /\ turn'[t].copy = turn[t].copy
      /\ \A u \in Turns : u # t => turn'[u] = turn[u]
  BY <1>1, <1>3 DEF Step, TurnState
<1>5. UNCHANGED bus \/ \E type \in EventTypes : Publish(turn[t].run, type)
  BY DEF Prepare, PublishStart, SaveContext, Announce, PrepareRaises, EventTypes
<1>6. \A q \in Runs, task \in {"cancel", "complete"} : HandlerAt(q, task) => HandlerAt(q, task)'
  <2>1. loop' = loop \/ loop = [task |-> "prepare", on |-> t]
    BY <1>1 DEF Prepare, PublishStart, SaveContext, Announce, PrepareRaises, Preparing
  <2>2. QED
    BY <2>1 DEF HandlerAt
<1>7. \A q \in Runs : \A status : Announced(q, status) => Announced(q, status)'
  BY <1>1, <1>2, <1>4, <1>5, <1>6, MoveAnnounced
<1>8. \A q \in Runs : row'[q] = row[q] \/ (q = turn[t].run /\ row'[q] = turn[t].copy)
  BY DEF Prepare, PublishStart, SaveContext, Announce, PrepareRaises, Typed
<1>9. QED
  BY <1>1, <1>2, <1>4, <1>7, <1>8, BackedKept DEF Begun

\* Executing writes back the turn's copy, or an outcome it then announces itself.
LEMMA ExecuteBacked ==
  ASSUME Typed, OutcomesBacked, NEW t \in Turns, Execute(t)
  PROVE  OutcomesBacked'
<1> DEFINE k == turn[t].run
<1>1. /\ Begun(t) /\ k \in Runs /\ turn'[t].run = k
      /\ \A u \in Turns : u # t => turn'[u] = turn[u]
      /\ UNCHANGED <<loop, cutOff>>
      /\ turn[t] \in TurnState /\ turn \in [Turns -> TurnState]
  BY ExecuteEffect DEF Typed
<1>2. UNCHANGED bus \/ \E type \in EventTypes : Publish(k, type)
  BY DEF Execute, Compile, Reload, PlanRound, CallTools, Summarize, Complete, Stop, Close,
         TurnRaises, Fail, Report, EventTypes
<1>3. /\ turn[t].pc = "stopping" => Publish(k, "RunStop")
      /\ turn[t].pc = "reporting" => Publish(k, "RunFailed")
  BY DEF Execute, Compile, Reload, PlanRound, CallTools, Summarize, Complete, Stop, Close,
         TurnRaises, Fail, Report
<1>4. \A q \in Runs : \A status : Announced(q, status) => Announced(q, status)'
  <2>1. \A q \in Runs, task \in {"cancel", "complete"} :
          HandlerAt(q, task) => HandlerAt(q, task)'
    BY <1>1 DEF HandlerAt
  <2>2. QED
    BY <1>1, <1>2, <1>3, <2>1, MoveAnnounced
<1>5. turn'[t].copy \in {turn[t].copy, row[k]}
  <2>1. ASSUME NEW pc, Step(t, pc)
        PROVE  turn'[t].copy = turn[t].copy
    BY <1>1, <2>1 DEF Step, TurnState
  <2>2. CASE Reload(t)
    BY <1>1, <2>2 DEF Reload, TurnState
  <2>3. CASE PlanRound(t)
    BY <1>1, <2>3 DEF PlanRound, TurnState
  <2>4. QED
    BY <2>1, <2>2, <2>3 DEF Execute, Compile, CallTools, Summarize, Complete, Stop, Close,
       TurnRaises, Fail, Report
<1>6. \A q \in Runs :
        \/ row'[q] = row[q]
        \/ q = k /\ row'[q] = turn[t].copy
        \/ Announced(q, row[q])'
  <2>1. CASE Complete(t)
    <3>1. turn'[t].pc = "stopping"
      BY <1>1, <2>1 DEF Complete, Step, TurnState
    <3>2. \A q \in Runs : row'[q] = row[q] \/ (q = k /\ row'[q] = "completed")
      BY <2>1 DEF Complete, Typed
    <3>3. QED
      BY <1>1, <3>1, <3>2 DEF Announced, TurnAt
  <2>2. CASE Fail(t)
    <3>1. CASE row' = [row EXCEPT ![k] = "failed"] /\ Step(t, "reporting")
      <4>1. turn'[t].pc = "reporting"
        BY <1>1, <3>1 DEF Step, TurnState
      <4>2. \A q \in Runs : row'[q] = row[q] \/ (q = k /\ row'[q] = "failed")
        BY <3>1 DEF Typed
      <4>3. QED
        BY <1>1, <4>1, <4>2 DEF Announced, TurnAt
    <3>2. CASE UNCHANGED row
      BY <3>2
    <3>3. QED
      BY <2>2, <3>1, <3>2 DEF Fail
  <2>3. CASE Compile(t)
    BY <2>3 DEF Compile, Typed
  <2>4. CASE UNCHANGED row
    BY <2>4
  <2>5. QED
    BY <2>1, <2>2, <2>3, <2>4 DEF Execute, Reload, PlanRound, CallTools, Summarize, Stop,
       Close, TurnRaises, Report
<1>7. \A u \in Turns : Begun(u)' =>
        \/ Begun(u) /\ turn'[u].run = turn[u].run /\ turn'[u].copy = turn[u].copy
        \/ turn'[u].copy \in {"running", row[turn'[u].run]}
  BY <1>1, <1>5 DEF Begun
<1>8. \A q \in Runs \ cutOff' :
        \/ row'[q] = row[q] \/ Announced(q, row[q])'
        \/ \E u \in Turns : Begun(u) /\ turn[u].run = q /\ row'[q] = turn[u].copy
  BY <1>1, <1>6
<1>9. QED
  BY <1>1, <1>4, <1>7, <1>8, BackedKept

\* A handler announces what it saved, or the run counts as cut off.
LEMMA HttpBacked ==
  ASSUME Typed, OutcomesBacked, Http
  PROVE  OutcomesBacked'
<1>1. UNCHANGED turn
  BY DEF Http, CancelRun, CompleteRun, CancelPublish, CompletePublish, HttpSave, HttpPublish,
         HttpRaises
<1>2. \A q \in Runs : \A pc : TurnAt(q, pc) => TurnAt(q, pc)'
  BY <1>1 DEF TurnAt
<1>3. ASSUME NEW k \in Runs,
             NEW task \in {"cancel", "complete"}, NEW status \in {"cancelled", "completed"},
             status = "cancelled" <=> task = "cancel", HttpSave(k, task, status)
      PROVE  OutcomesBacked'
  <2>1. \A q, other : other \in {"cancel", "complete"} => ~HandlerAt(q, other)
    BY <1>3 DEF HttpSave, HandlerAt, Free
  <2>2. UNCHANGED <<bus, cutOff>> /\ \A q \in Runs : row'[q] = row[q] \/ (q = k /\ row'[q] = status)
    BY <1>3 DEF HttpSave, Typed
  <2>3. \A q \in Runs : \A s : Announced(q, s) => Announced(q, s)'
    BY <1>2, <2>1, <2>2, AnnouncedKept DEF Published
  <2>4. HandlerAt(k, task)'
    BY <1>3 DEF HttpSave, HandlerAt
  <2>5. \A q \in Runs : row'[q] = row[q] \/ Announced(q, row[q])'
    BY <1>3, <2>2, <2>4 DEF Announced
  <2>6. QED
    BY <1>1, <2>2, <2>3, <2>5, BackedKept DEF Begun
<1>4. ASSUME NEW task \in {"cancel", "complete"}, NEW type \in {"RunCancelled", "RunStop"},
             type = "RunCancelled" <=> task = "cancel", HttpPublish(task, type)
      PROVE  OutcomesBacked'
  <2>1. loop.on \in Runs /\ type \in EventTypes /\ Publish(loop.on, type) /\ loop.task = task
    BY <1>4 DEF HttpPublish, Typed, Handlers, Free, EventTypes
  <2>2. /\ \A q \in Runs : q = loop.on => Published(q, type)'
        /\ \A q \in Runs : \A other : Published(q, other) => Published(q, other)'
    BY <2>1, PublishedAfter
  <2>3. UNCHANGED <<row, cutOff>>
    BY <1>4 DEF HttpPublish
  <2>4. \A q \in Runs : \A s : Announced(q, s) => Announced(q, s)'
    <3>1. \A q \in Runs :
            /\ HandlerAt(q, "complete") => Published(q, "RunStop")'
            /\ HandlerAt(q, "cancel") => Published(q, "RunCancelled")'
      BY <1>4, <2>1, <2>2 DEF HandlerAt
    <3>2. QED
      BY <1>2, <2>2, <3>1, AnnouncedKept
  <2>5. QED
    BY <1>1, <2>3, <2>4, BackedKept DEF Begun
<1>5. CASE HttpRaises
  <2>1. UNCHANGED <<row, bus>> /\ cutOff' = cutOff \cup {loop.on}
    BY <1>5 DEF HttpRaises
  <2>2. \A q \in Runs \ cutOff' : \A s : Announced(q, s) => Announced(q, s)'
    <3>1. \A q \in Runs \ cutOff' : \A task : ~HandlerAt(q, task)
      BY <2>1 DEF HandlerAt
    <3>2. QED
      BY <1>2, <2>1, <3>1, AnnouncedKept DEF Published
  <2>3. QED
    BY <1>1, <2>1, <2>2, BackedKept DEF Begun
<1>6. QED
  BY <1>3, <1>4, <1>5 DEF Http, CancelRun, CompleteRun, CancelPublish, CompletePublish

\* A restart counts the runs as cut off whose outcome somebody was about to announce.
LEMMA RestartBacked ==
  ASSUME Typed, OutcomesBacked, Restart
  PROVE  OutcomesBacked'
<1>1. UNCHANGED <<row, bus>> /\ cutOff \subseteq cutOff'
  BY DEF Restart
<1>2. \A t \in Turns :
        Begun(t)' => Begun(t) /\ turn'[t].run = turn[t].run /\ turn'[t].copy = turn[t].copy
  BY DEF Restart, Typed, TurnState, Begun
<1>3. \A q \in Runs \ cutOff' : \A s : Announced(q, s) => Announced(q, s)'
  <2>1. \A q \in Runs \ cutOff' :
          /\ \A task : ~HandlerAt(q, task)
          /\ ~TurnAt(q, "stopping") /\ ~TurnAt(q, "reporting")
    BY DEF Restart, HandlerAt, TurnAt
  <2>2. QED
    BY <1>1, <2>1, AnnouncedKept DEF Published
<1>4. QED
  BY <1>1, <1>2, <1>3, BackedKept

-----------------------------------------------------------------------------
(***************************************************************************)
(* The theorems.                                                           *)
(***************************************************************************)
LEMMA IInvInit == Init => IInv
<1> SUFFICES ASSUME Init PROVE IInv
  OBVIOUS
<1>1. Typed
  BY RuntimeAssumption DEF Init, Typed, Statuses, TurnState, TurnOK, Handlers, StreamState,
     Idle, NoStream, PcLabels, Begun
<1>2. /\ \A t \in Turns : turn[t].pc = "idle"
      /\ \A k \in Runs : row[k] = "absent" /\ bus[k] = <<>>
      /\ loop = Free
  BY DEF Init, Idle
<1>3. LoopHeld /\ UnstoredUntouched /\ StarterAlone /\ StartOut /\ StartedOnce
  BY <1>2 DEF LoopHeld, UnstoredUntouched, StarterAlone, StartOut, StartedOnce, Begun, Handled,
     Free, Stored
<1>4. OutcomesBacked
  BY <1>2 DEF OutcomesBacked, Announced, Begun
<1>5. QED
  BY <1>1, <1>3, <1>4 DEF IInv

\* The steps of turns and handlers, which the module of the streams' client takes too.
LEMMA TurnNextKeeps ==
  ASSUME IInv, TurnNext
  PROVE  IInv'
<1>1. Typed /\ StartInv /\ OutcomesBacked
  BY DEF IInv, StartInv
<1>2. ASSUME NEW t \in Turns, NEW k \in Runs, Dispatch(t, k)
      PROVE  IInv'
  BY <1>1, <1>2, PrepareTypes, DispatchStart, DispatchBacked DEF IInv, StartInv
<1>3. ASSUME NEW t \in Turns, Prepare(t)
      PROVE  IInv'
  BY <1>1, <1>3, PrepareTypes, PrepareStart, PrepareBacked DEF IInv, StartInv
<1>4. ASSUME NEW t \in Turns, Execute(t)
      PROVE  IInv'
  BY <1>1, <1>4, ExecuteTypes, ExecuteStart, ExecuteBacked DEF IInv, StartInv
<1>5. CASE Http
  BY <1>1, <1>5, HttpTypes, HttpStart, HttpBacked DEF IInv, StartInv
<1>6. QED
  BY <1>2, <1>3, <1>4, <1>5 DEF TurnNext

LEMMA RestartKeeps ==
  ASSUME IInv, Restart
  PROVE  IInv'
<1>1. Typed /\ StartInv /\ OutcomesBacked
  BY DEF IInv, StartInv
<1>2. QED
  BY <1>1, RestartTypes, RestartStart, RestartBacked DEF IInv, StartInv

\* A step that leaves all but the streams alone.
LEMMA StreamsAside ==
  ASSUME IInv, UNCHANGED <<row, bus, turn, loop, calls, restarts, cutOff>>,
         stream' \in [Streams -> StreamState]
  PROVE  IInv'
<1>1. Typed'
  BY TurnsLeft DEF IInv, Typed, Stored
<1>2. LoopHeld' /\ UnstoredUntouched' /\ StarterAlone' /\ StartOut' /\ StartedOnce'
  BY DEF IInv, LoopHeld, UnstoredUntouched, StarterAlone, StartOut, StartedOnce, Stored, Begun,
         Handled, Published, Died
<1>3. OutcomesBacked'
  BY DEF IInv, OutcomesBacked, Announced, TurnAt, HandlerAt, Published, Begun
<1>4. QED
  BY <1>1, <1>2, <1>3 DEF IInv

\* What the invariant says of the runs at rest.
LEMMA BackedIsAnnounced == IInv => OutcomeAnnounced
<1> SUFFICES ASSUME IInv, NEW k \in Runs \ cutOff, Quiet(k)
    PROVE  /\ row[k] = "completed" => Published(k, "RunStop")
           /\ row[k] = "failed" => Published(k, "RunFailed")
           /\ row[k] = "cancelled" => Published(k, "RunCancelled")
  BY DEF OutcomeAnnounced
<1>1. ~TurnAt(k, "stopping") /\ ~TurnAt(k, "reporting")
  BY DEF Quiet, TurnAt, Settled
<1>2. \A task : ~HandlerAt(k, task)
  BY DEF Quiet, HandlerAt
<1>3. QED
  BY <1>1, <1>2 DEF IInv, OutcomesBacked, Announced

\* c continues the events of b.
Grows(b, c) == Len(b) <= Len(c) /\ \A i \in 1..Len(b) : c[i] = b[i]

\* Events are only added.
LEMMA BusGrows ==
  ASSUME Typed, TurnNext \/ Restart, NEW k \in Runs
  PROVE  Grows(bus[k], bus'[k])
<1>1. bus[k] \in Seq(EventTypes) /\ Len(bus[k]) \in Nat
  BY LenProperties DEF Typed
<1>2. ASSUME NEW q \in Runs, NEW type \in EventTypes, Publish(q, type)
      PROVE  Grows(bus[k], bus'[k])
  <2>1. CASE k = q
    <3>1. /\ Len(bus'[k]) = Len(bus[k]) + 1
          /\ \A i \in 1..Len(bus[k]) : bus'[k][i] = bus[k][i]
      BY <1>2, <2>1, PublishEffect
    <3>2. QED
      BY <1>1, <3>1 DEF Grows
  <2>2. CASE k # q
    <3>1. bus'[k] = bus[k]
      BY <1>2, <2>2, PublishEffect
    <3>2. QED
      BY <1>1, <3>1 DEF Grows
  <2>3. QED
    BY <2>1, <2>2
<1>3. CASE UNCHANGED bus
  BY <1>1, <1>3 DEF Grows
<1>4. ASSUME NEW t \in Turns, (\E q \in Runs : Dispatch(t, q)) \/ Prepare(t) \/ Execute(t)
      PROVE  Grows(bus[k], bus'[k])
  <2>1. UNCHANGED bus \/ (Begun(t) /\ \E type \in EventTypes : Publish(turn[t].run, type))
    BY <1>4 DEF Dispatch, Prepare, PublishStart, SaveContext, Announce, PrepareRaises, Execute,
       Compile, Reload, PlanRound, CallTools, Summarize, Complete, Stop, Close, TurnRaises,
       Fail, Report, EventTypes, Begun
  <2>2. Begun(t) => turn[t].run \in Runs
    BY DEF Typed, TurnOK
  <2>3. QED
    BY <1>2, <1>3, <2>1, <2>2
<1>5. CASE Http
  <2>1. loop.task \in {"cancel", "complete"} => loop.on \in Runs
    BY DEF Typed, Handlers, Free
  <2>2. UNCHANGED bus \/ \E type \in EventTypes : loop.on \in Runs /\ Publish(loop.on, type)
    BY <1>5, <2>1 DEF Http, CancelRun, CompleteRun, CancelPublish, CompletePublish, HttpSave,
       HttpPublish, HttpRaises, EventTypes
  <2>3. QED
    BY <1>2, <1>3, <2>2
<1>6. QED
  BY <1>3, <1>4, <1>5 DEF TurnNext, Restart

\* The invariant is inductive.
THEOREM RuntimeInvariance == Spec => []IInv
<1>1. ASSUME IInv, UNCHANGED vars
      PROVE  IInv'
  BY <1>1, StreamsAside DEF vars, IInv, Typed
<1>2. IInv /\ [Next]_vars => IInv'
  BY <1>1, TurnNextKeeps, RestartKeeps DEF Next
<1>3. QED
  BY <1>2, IInvInit, PTL DEF Spec

\* Every variable keeps its type; a turn that has begun has a stored run, and plans at
\* most MaxRounds times.
THEOREM RuntimeTypes == Spec => []TypeOK
<1>1. IInv => TypeOK
  BY TypedIsTypeOK DEF IInv
<1>2. QED
  BY <1>1, RuntimeInvariance, PTL

\* However many turns share a run, over any number of restarts, RunStart is published
\* once, and before whatever the run's turns publish unless one of them died.
THEOREM RunStartsOnce == Spec => []StartedOnce
<1>1. IInv => StartedOnce
  BY DEF IInv
<1>2. QED
  BY <1>1, RuntimeInvariance, PTL

\* A run at rest with a terminal status has published the event that announces it,
\* unless a restart or a failing write came between the two.
THEOREM OutcomesAnnounced == Spec => []OutcomeAnnounced
<1>1. QED
  BY BackedIsAnnounced, RuntimeInvariance, PTL

\* Only a turn that still carries the copy it was dispatched with can bring a run back
\* from a terminal status.
LEMMA OutcomeStaysStep ==
  ASSUME Typed, [Next]_vars, NEW k \in Runs, row[k] \in TerminalStatuses,
         \A t \in Turns : turn[t].run = k => ~HoldsOldCopy(t)
  PROVE  row'[k] \in TerminalStatuses
<1>1. ASSUME NEW t \in Turns, NEW q \in Runs, Dispatch(t, q)
      PROVE  row'[k] \in TerminalStatuses
  BY <1>1 DEF Dispatch, Typed, Stored, TerminalStatuses
<1>2. ASSUME NEW t \in Turns, Prepare(t)
      PROVE  row'[k] \in TerminalStatuses
  BY <1>2 DEF Prepare, PublishStart, SaveContext, Announce, PrepareRaises, HoldsOldCopy, Typed
<1>3. ASSUME NEW t \in Turns, Execute(t)
      PROVE  row'[k] \in TerminalStatuses
  BY <1>3 DEF Execute, Compile, Reload, PlanRound, CallTools, Summarize, Complete, Stop,
     Close, TurnRaises, Fail, Report, HoldsOldCopy, Typed, TerminalStatuses
<1>4. CASE Http
  BY <1>4 DEF Http, CancelRun, CompleteRun, CancelPublish, CompletePublish, HttpSave,
     HttpPublish, HttpRaises, Typed, TerminalStatuses
<1>5. CASE Restart \/ UNCHANGED vars
  BY <1>5 DEF Restart, vars
<1>6. QED
  BY <1>1, <1>2, <1>3, <1>4, <1>5 DEF Next, TurnNext

\* However turns share a run and requests cancel and complete it, its terminal status is
\* lost only to a turn that still writes the copy it was dispatched with.
THEOREM OutcomesStay == Spec => OutcomeStays
<1>1. IInv /\ [Next]_vars =>
        [\A k \in Runs :
           (/\ row[k] \in TerminalStatuses
            /\ \A t \in Turns : turn[t].run = k => ~HoldsOldCopy(t))
           => row'[k] \in TerminalStatuses]_vars
  BY OutcomeStaysStep DEF IInv
<1>2. QED
  BY <1>1, RuntimeInvariance, PTL DEF Spec, OutcomeStays
=============================================================================
