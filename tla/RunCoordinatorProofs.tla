------------------------ MODULE RunCoordinatorProofs ------------------------
(***************************************************************************)
(* Proofs about RunCoordinator for every value of its constants, along     *)
(* four inductive invariants: IInv (types, the well-formed log, final      *)
(* outcomes); LogsAt, what the end of a log says of its run and thread     *)
(* (late events, canonical answers, the abstract life cycle); HeardOK,     *)
(* what browsers have received (streams); Keyed, OneAlive and Recorded,    *)
(* which run answers a message and that it is stored.                      *)
(***************************************************************************)
EXTENDS RunCoordinator, IterationTheorems, SequenceTheorems, FiniteSetTheorems, TLAPS

(***************************************************************************)
(* The inductive invariant.  TypeOK and LogWellFormed are not inductive by *)
(* themselves: what a thread is about to append must be an event other     *)
(* than run.started, and the run a start_run call hands to the executor    *)
(* must be a run without a thread.  OutcomeIsFinal needs that a run whose  *)
(* outcome is final has no thread with an append ahead of it.              *)
(***************************************************************************)
TurnEvs == Evs \ {StartedEv, FailedEv, CancelledEv}

\* A thread past its check holds the event to append; run.completed comes last.
HoldsEvent(r) ==
  /\ worker[r].todo \in Seq(TurnEvs)
  /\ \A i \in 1..Len(worker[r].todo) :
       worker[r].todo[i] = CompletedEv => i = Len(worker[r].todo)
  /\ worker[r].pc \in {"appending", "delivering"} => worker[r].todo # <<>>
  /\ worker[r].pc = "appending" => worker[r].todo[1] # CompletedEv

TodoOK == \A r \in RunIds : HoldsEvent(r)

\* The call the loop is in the middle of created a run that has no thread yet.
RequestOK ==
  req.step # "idle" =>
    /\ req.run \in RunIds
    /\ req.run < nextRun
    /\ worker[req.run].pc = "idle"

\* Neither a record nor a thread exists for an id not handed out yet.
FreshUnused ==
  \A r \in RunIds : r >= nextRun => ~Stored(r) /\ worker[r].pc = "idle"

\* The executor queue holds each submitted run once.
QueueOK ==
  /\ \A i \in 1..Len(queue) : worker[queue[i]].pc = "queued"
  /\ \A i, j \in 1..Len(queue) : queue[i] = queue[j] => i = j

\* A completed or failed run has no append ahead of it, but for the error of a store
\* that raised after it had written the completion.
RestsIfFinal(r) ==
  runs[r].status \in {"completed", "failed"} =>
    \/ worker[r].pc \in {"done", "dead"}
    \/ worker[r].pc = "projecting" /\ worker[r].todo = <<>>
    \/ StoreRaises /\ runs[r].status = "completed" /\ worker[r].pc \in {"failing", "reporting"}

FinalRests == \A r \in RunIds : RestsIfFinal(r)

IInv ==
  TypeOK /\ LogWellFormed /\ TodoOK /\ RequestOK /\ FreshUnused /\ QueueOK /\ FinalRests

-----------------------------------------------------------------------------
(***************************************************************************)
(* Events.                                                                 *)
(***************************************************************************)
\* The only event of type run.started is StartedEv, and an event that sets the
\* status of a run carries a run status.
LEMMA EvFacts ==
  ASSUME NEW ev \in Evs
  PROVE  /\ ev.type = "run.started" <=> ev = StartedEv
         /\ SetsStatus(ev) => ev.status \in RunStatuses
  BY DEF Evs, ToolEvs, Ev, StartedEv, PlanningEv, ExecutingEv, CancelledEv, FailedEv,
         RespStartedEv, DeltaEv, RespCompletedEv, CompletedEv, ToolStartedEv,
         ToolCompletedEv, SceneEv, SetsStatus, RunStatuses, TERMINAL_RUN_STATUSES

\* The events the handlers and threads append are events, and only start_run's
\* is the run.started event.
LEMMA EvConstants ==
  /\ {StartedEv, PlanningEv, ExecutingEv, CancelledEv, FailedEv, RespStartedEv,
      DeltaEv, RespCompletedEv, CompletedEv, SceneEv} \cup ToolEvs \subseteq Evs
  /\ StartedEv \notin {PlanningEv, ExecutingEv, CancelledEv, FailedEv, RespStartedEv,
                       DeltaEv, RespCompletedEv, CompletedEv, SceneEv} \cup ToolEvs
  BY DEF Evs, ToolEvs, Ev, StartedEv, PlanningEv, ExecutingEv, CancelledEv, FailedEv,
         RespStartedEv, DeltaEv, RespCompletedEv, CompletedEv, ToolStartedEv,
         ToolCompletedEv, SceneEv

(***************************************************************************)
(* Trimming a log that start_run began.                                    *)
(***************************************************************************)
\* Past max_events a log that begins with its only run.started event keeps that
\* event and its latest max_events - 1 events.
LEMMA TrimmedShape ==
  ASSUME NEW log \in Seq(Event), Len(log) = MaxEvents + 1,
         log[1].ev = StartedEv,
         \A i \in 2..Len(log) : log[i].ev # StartedEv
  PROVE  /\ Trimmed(log) \in Seq(Event)
         /\ Len(Trimmed(log)) = MaxEvents
         /\ Trimmed(log)[1] = log[1]
         /\ \A i \in 2..MaxEvents : Trimmed(log)[i] = log[i + 1]
<1> DEFINE started == {i \in DOMAIN log : log[i].ev.type = "run.started"}
           first == CHOOSE i \in started : \A j \in started : i <= j
           rest == SubSeq(log, 2, Len(log))
           tail == SubSeq(rest, 2, Len(rest))
<1>1. MaxEvents \in Nat /\ MaxEvents >= 2
  BY CoordinatorAssumption
<1>2. DOMAIN log = 1..(MaxEvents + 1) /\ \A i \in 1..(MaxEvents + 1) : log[i] \in Event
  BY <1>1, LenProperties, ElementOfSeq
<1>3. started = {1}
  <2>1. \A i \in DOMAIN log : log[i].ev \in Evs
    BY <1>2 DEF Event
  <2>2. \A i \in DOMAIN log : i \in started <=> log[i].ev = StartedEv
    BY <2>1, EvFacts
  <2>3. QED
    BY <2>2, <1>1, <1>2
<1>4. first = 1
  BY <1>3
<1>5. /\ rest \in Seq(Event) /\ Len(rest) = MaxEvents
      /\ \A i \in 1..MaxEvents : rest[i] = log[i + 1]
  <2> HIDE DEF rest
  <2>1. \A i \in 2..Len(log) : log[i] \in Event
    BY <1>1, <1>2
  <2>2. /\ SubSeq(log, 2, Len(log)) \in Seq(Event)
        /\ Len(SubSeq(log, 2, Len(log))) = IF 2 <= Len(log) THEN Len(log) - 2 + 1 ELSE 0
        /\ \A i \in 1..(Len(log) - 2 + 1) : SubSeq(log, 2, Len(log))[i] = log[2 + i - 1]
    BY <2>1, <1>1, SubSeqProperties
  <2>3. QED
    BY <2>2, <1>1 DEF rest
<1>6. Without(log, first) = rest
  <2>1. SubSeq(log, 1, 0) = <<>>
    BY SubSeqEmpty
  <2>2. Without(log, 1) = <<>> \o SubSeq(log, 2, Len(log))
    BY <2>1 DEF Without
  <2>3. Without(log, 1) = rest
    <3> HIDE DEF first
    <3>1. QED
      BY <2>2, <1>5, ConcatEmptySeq
  <2>4. QED
    BY <2>3, <1>4
<1>7. /\ tail \in Seq(Event) /\ Len(tail) = MaxEvents - 1
      /\ \A i \in 1..(MaxEvents - 1) : tail[i] = log[i + 2]
  <2> HIDE DEF rest, tail
  <2>1. \A i \in 2..Len(rest) : rest[i] \in Event
    BY <1>1, <1>5, ElementOfSeq
  <2>2. /\ SubSeq(rest, 2, Len(rest)) \in Seq(Event)
        /\ Len(SubSeq(rest, 2, Len(rest))) = IF 2 <= Len(rest) THEN Len(rest) - 2 + 1 ELSE 0
        /\ \A i \in 1..(Len(rest) - 2 + 1) : SubSeq(rest, 2, Len(rest))[i] = rest[2 + i - 1]
    BY <2>1, <1>1, <1>5, SubSeqProperties
  <2>3. QED
    BY <2>2, <1>1, <1>5 DEF tail
<1>8. LastN(rest, MaxEvents - 1) = tail
  <2>1. Len(rest) - (MaxEvents - 1) + 1 = 2
    BY <1>1, <1>5
  <2>2. QED
    BY <2>1 DEF LastN
<1>9. Trimmed(log) = <<log[1]>> \o tail
  <2>1. Trimmed(log) =
          IF Len(log) <= MaxEvents THEN log
          ELSE IF started = {} THEN LastN(log, MaxEvents)
          ELSE <<log[first]>> \o LastN(Without(log, first), MaxEvents - 1)
    BY Zenon DEF Trimmed
  <2> HIDE DEF started, first, rest, tail
  <2>2. ~(Len(log) <= MaxEvents) /\ started # {}
    BY <1>1, <1>3
  <2>3. QED
    BY <2>1, <2>2, <1>4, <1>6, <1>8
<1>10. <<log[1]>> \in Seq(Event) /\ Len(<<log[1]>>) = 1 /\ <<log[1]>>[1] = log[1]
  BY <1>1, <1>2
<1>11. QED
  <2> HIDE DEF tail
  <2>1. /\ <<log[1]>> \o tail \in Seq(Event)
        /\ Len(<<log[1]>> \o tail) = 1 + Len(tail)
        /\ \A i \in 1..(1 + Len(tail)) :
             (<<log[1]>> \o tail)[i] = IF i <= 1 THEN <<log[1]>>[i] ELSE tail[i - 1]
    BY <1>7, <1>10, ConcatProperties
  <2>2. \A i \in 2..MaxEvents : tail[i - 1] = log[i + 1]
    BY <1>7, <1>1
  <2>3. QED
    BY <1>1, <1>7, <1>9, <1>10, <2>1, <2>2

(***************************************************************************)
(* Appending to a run record.                                              *)
(***************************************************************************)
\* Appending any event but run.started keeps a record a record with a
\* well-formed log, and touches only its events and its status.
LEMMA AppendKeepsRecord ==
  ASSUME NEW record \in Record, WellFormedLog(record.events),
         NEW ev \in Evs, ev # StartedEv
  PROVE  /\ AppendLocked(record, ev) \in Record
         /\ WellFormedLog(AppendLocked(record, ev).events)
         /\ AppendLocked(record, ev).status =
              IF SetsStatus(ev) THEN ev.status ELSE record.status
<1> DEFINE old == record.events
           new == [ev |-> ev, sequence |-> LastSequence(old) + 1]
           log == Append(old, new)
<1>1. MaxEvents \in Nat /\ MaxEvents >= 2
  BY CoordinatorAssumption
<1>2. old \in Seq(Event) /\ Len(old) \in 1..MaxEvents /\ old # <<>>
  BY <1>1 DEF Record, WellFormedLog
<1>3. /\ LastSequence(old) = old[Len(old)].sequence
      /\ new \in Event /\ new.sequence = old[Len(old)].sequence + 1 /\ new.ev = ev
  <2>1. old[Len(old)] \in Event
    BY <1>1, <1>2, ElementOfSeq
  <2>2. QED
    BY <2>1, <1>2 DEF LastSequence, Event
<1>4. /\ log \in Seq(Event) /\ Len(log) = Len(old) + 1
      /\ \A i \in 1..Len(old) : log[i] = old[i]
      /\ log[Len(old) + 1] = new
  <2> HIDE DEF new, old
  <2>1. QED
    BY <1>2, <1>3, AppendProperties
<1>5. \A i \in 1..Len(log) : log[i] \in Event
  <2> HIDE DEF log
  <2>1. QED
    BY <1>4, ElementOfSeq
<1>6. /\ log[1] = [ev |-> StartedEv, sequence |-> 1]
      /\ \A i \in 2..Len(log) : /\ log[i].ev # StartedEv
                                /\ log[i].sequence > log[i - 1].sequence
      /\ \A i \in 3..Len(log) : log[i].sequence = log[i - 1].sequence + 1
  <2> HIDE DEF new, log
  <2>1. WellFormedLog(old)
    OBVIOUS
  <2>2. \A i \in 1..Len(old) : log[i].sequence \in Nat
    BY <1>4, <1>5 DEF Event
  <2> HIDE DEF old
  <2>3. log[1] = [ev |-> StartedEv, sequence |-> 1]
    BY <2>1, <1>2, <1>4 DEF WellFormedLog
  <2>4. ASSUME NEW i \in 2..Len(log)
        PROVE  /\ log[i].ev # StartedEv
               /\ log[i].sequence > log[i - 1].sequence
               /\ i >= 3 => log[i].sequence = log[i - 1].sequence + 1
    <3>1. CASE i <= Len(old)
      BY <3>1, <2>1, <1>1, <1>2, <1>4 DEF WellFormedLog
    <3>2. CASE i = Len(old) + 1
      BY <3>2, <2>2, <1>1, <1>2, <1>3, <1>4
    <3>3. QED
      BY <3>1, <3>2, <1>1, <1>2, <1>4
  <2>5. QED
    BY <2>3, <2>4
<1>7. Trimmed(log) \in Seq(Event) /\ WellFormedLog(Trimmed(log))
  <2> HIDE DEF log, old, new
  <2>1. CASE Len(log) <= MaxEvents
    <3>1. Trimmed(log) = log
      BY <2>1 DEF Trimmed
    <3>2. QED
      BY <3>1, <2>1, <1>1, <1>2, <1>4, <1>6 DEF WellFormedLog
  <2>2. CASE Len(log) = MaxEvents + 1
    <3> DEFINE kept == Trimmed(log)
    <3>1. /\ kept \in Seq(Event) /\ Len(kept) = MaxEvents
          /\ kept[1] = log[1]
          /\ \A i \in 2..MaxEvents : kept[i] = log[i + 1]
      <4>1. log \in Seq(Event) /\ log[1].ev = StartedEv
        BY <1>4, <1>6
      <4>2. \A i \in 2..Len(log) : log[i].ev # StartedEv
        BY <1>6
      <4>3. QED
        BY <4>1, <4>2, <2>2, TrimmedShape
    <3> HIDE DEF kept
    <3>2. \A i \in 1..Len(log) : log[i].sequence \in Nat
      BY <1>5 DEF Event
    <3>3. ASSUME NEW i \in 2..MaxEvents
          PROVE  /\ kept[i].ev # StartedEv
                 /\ kept[i].sequence > kept[i - 1].sequence
                 /\ i >= 3 => kept[i].sequence = kept[i - 1].sequence + 1
      <4>1. CASE i = 2
        <5>1. kept[2] = log[3] /\ kept[1] = log[1]
          BY <3>1, <1>1
        <5>2. log[3].sequence > log[2].sequence /\ log[2].sequence > log[1].sequence
          BY <2>2, <1>1, <1>6
        <5>3. log[3].ev # StartedEv
          BY <2>2, <1>1, <1>6
        <5>4. QED
          BY <4>1, <5>1, <5>2, <5>3, <3>2, <2>2, <1>1
      <4>2. CASE i >= 3
        <5>1. kept[i] = log[i + 1] /\ kept[i - 1] = log[i]
          BY <4>2, <3>1, <1>1
        <5>2. /\ log[i + 1].ev # StartedEv
              /\ log[i + 1].sequence = log[(i + 1) - 1].sequence + 1
              /\ log[i + 1].sequence > log[(i + 1) - 1].sequence
          BY <4>2, <2>2, <1>1, <1>6
        <5>3. QED
          BY <4>2, <5>1, <5>2
      <4>3. QED
        BY <4>1, <4>2, <1>1
    <3>4. WellFormedLog(kept)
      BY <3>1, <3>3, <1>1, <1>6 DEF WellFormedLog
    <3>5. QED
      BY <3>1, <3>4 DEF kept
  <2>3. QED
    BY <2>1, <2>2, <1>1, <1>2, <1>4
<1>8. AppendLocked(record, ev) =
        [record EXCEPT !.events = Trimmed(log),
                       !.status = IF SetsStatus(ev) THEN ev.status ELSE record.status]
  BY DEF AppendLocked
<1>9. (IF SetsStatus(ev) THEN ev.status ELSE record.status) \in RunStatuses
  BY EvFacts DEF Record
<1>10. QED
  <2> HIDE DEF log, old, new
  <2>1. QED
    BY <1>7, <1>8, <1>9 DEF Record

\* The record start_run saves.
LEMMA NewRecord ==
  ASSUME NEW s \in SessionIds, NEW m \in Messages
  PROVE  LET fresh == [status |-> "queued", session |-> s, message |-> m,
                       cancelRequested |-> FALSE, events |-> <<>>]
         IN /\ AppendLocked(fresh, StartedEv) \in Record
            /\ WellFormedLog(AppendLocked(fresh, StartedEv).events)
            /\ AppendLocked(fresh, StartedEv).status = "queued"
            /\ AppendLocked(fresh, StartedEv).events = <<[ev |-> StartedEv, sequence |-> 1]>>
<1> DEFINE fresh == [status |-> "queued", session |-> s, message |-> m,
                     cancelRequested |-> FALSE, events |-> <<>>]
           first == [ev |-> StartedEv, sequence |-> 1]
<1>1. MaxEvents \in Nat /\ MaxEvents >= 2
  BY CoordinatorAssumption
<1>2. StartedEv \in Evs
  BY EvConstants
<1>3. SetsStatus(StartedEv) /\ StartedEv.status = "queued"
  BY DEF SetsStatus, StartedEv, Ev
<1>4. LastSequence(<<>>) = 0
  BY DEF LastSequence
<1>5. Append(<<>>, first) = <<first>> /\ Len(<<first>>) = 1 /\ <<first>>[1] = first
  OBVIOUS
<1>6. Trimmed(<<first>>) = <<first>>
  BY <1>1, <1>5 DEF Trimmed
<1>7. AppendLocked(fresh, StartedEv) = [fresh EXCEPT !.events = <<first>>, !.status = "queued"]
  <2>1. AppendLocked(fresh, StartedEv) =
          [fresh EXCEPT
             !.events = Trimmed(Append(fresh.events,
                          [ev |-> StartedEv, sequence |-> LastSequence(fresh.events) + 1])),
             !.status = IF SetsStatus(StartedEv) THEN StartedEv.status ELSE fresh.status]
    BY DEF AppendLocked
  <2>2. fresh.events = <<>>
    OBVIOUS
  <2>3. [ev |-> StartedEv, sequence |-> LastSequence(fresh.events) + 1] = first
    BY <1>4, <2>2
  <2>4. Trimmed(Append(fresh.events,
          [ev |-> StartedEv, sequence |-> LastSequence(fresh.events) + 1])) = <<first>>
    BY <2>2, <2>3, <1>5, <1>6
  <2> HIDE DEF fresh, first
  <2>5. QED
    BY <2>1, <2>4, <1>3
<1>8. <<first>> \in Seq(Event)
  BY <1>2 DEF Event
<1>9. WellFormedLog(<<first>>)
  BY <1>1, <1>5 DEF WellFormedLog
<1>10. QED
  BY <1>7, <1>8, <1>9 DEF Record, RunStatuses

(***************************************************************************)
(* The inductive invariant is preserved.                                   *)
(***************************************************************************)
\* What the provers need to know of the events a turn appends.
LEMMA TurnEvFacts ==
  /\ TurnEvs \subseteq Evs
  /\ {ExecutingEv, RespStartedEv, DeltaEv, RespCompletedEv, CompletedEv, SceneEv}
       \cup ToolEvs \subseteq TurnEvs
  /\ CompletedEv \notin {ExecutingEv, RespStartedEv, DeltaEv, RespCompletedEv, SceneEv}
                          \cup ToolEvs
  /\ \A ev \in TurnEvs \ {CompletedEv} :
       SetsStatus(ev) => ev.status \notin {"completed", "failed"}
  /\ PlanningEv \in Evs /\ FailedEv \in Evs /\ CancelledEv \in Evs
  /\ StartedEv \notin {PlanningEv, FailedEv, CancelledEv} /\ StartedEv \notin TurnEvs
  /\ PlanningEv.status = "planning" /\ SetsStatus(PlanningEv)
  /\ CancelledEv.status = "cancelled" /\ SetsStatus(CancelledEv)
  BY DEF TurnEvs, Evs, ToolEvs, Ev, StartedEv, PlanningEv, ExecutingEv, CancelledEv,
         FailedEv, RespStartedEv, DeltaEv, RespCompletedEv, CompletedEv, ToolStartedEv,
         ToolCompletedEv, SceneEv, SetsStatus

\* What a turn projects ends with the answer and run.completed.
LEMMA ProjectionEnds ==
  ASSUME NEW responding \in BOOLEAN, NEW events \in Projected(responding)
  PROVE  LET n == Len(events)
         IN /\ events \in Seq(TurnEvs) /\ n \in Nat /\ n >= 2
            /\ events[n] = CompletedEv /\ events[n - 1] = RespCompletedEv
            /\ \A i \in 1..(n - 1) : events[i] \in {SceneEv, RespStartedEv, DeltaEv, RespCompletedEv}
<1> DEFINE Early == {SceneEv, RespStartedEv, DeltaEv}
           last == Conclusion
<1>1. PICK scene \in {<<>>, <<SceneEv>>, <<SceneEv, SceneEv>>},
           answer \in {<<>>, <<RespStartedEv>>, <<RespStartedEv, DeltaEv>>} :
             events = scene \o answer \o last
  <2>1. PICK scene \in Scenes, answer \in Answers(responding) :
               events = scene \o answer \o last
    BY DEF Projected
  <2>2. QED
    BY <2>1 DEF Scenes, Answers
<1>2. scene \in Seq(Early) /\ answer \in Seq(Early)
  <2>1. RespStartedEv \in Early /\ DeltaEv \in Early /\ SceneEv \in Early
    OBVIOUS
  <2> HIDE DEF Early
  <2>2. /\ <<>> \in Seq(Early) /\ <<SceneEv>> \in Seq(Early)
        /\ <<RespStartedEv>> \in Seq(Early) /\ <<RespStartedEv, DeltaEv>> \in Seq(Early)
        /\ <<SceneEv, SceneEv>> \in Seq(Early)
    BY <2>1
  <2>3. QED
    BY <2>2
<1> DEFINE lead == scene \o answer
<1>3. lead \in Seq(Early)
  <2> HIDE DEF Early
  <2>1. QED
    BY <1>2, ConcatProperties
<1>4. Early \subseteq TurnEvs
  BY TurnEvFacts
<1> HIDE DEF Early
<1>5. /\ lead \in Seq(TurnEvs) /\ Len(lead) \in Nat
      /\ \A i \in 1..Len(lead) : lead[i] \in Early
  <2> HIDE DEF lead
  <2>1. QED
    BY <1>3, <1>4, SeqMonotonic, ElementOfSeq, LenProperties
<1>6. /\ last \in Seq(TurnEvs) /\ Len(last) = 2
      /\ last[1] = RespCompletedEv /\ last[2] = CompletedEv
  BY TurnEvFacts DEF Conclusion
<1> DEFINE m == Len(lead)
<1>7. /\ events \in Seq(TurnEvs) /\ Len(events) = m + 2
      /\ \A i \in 1..(m + 2) : events[i] = IF i <= m THEN lead[i] ELSE last[i - m]
  <2> HIDE DEF lead, last
  <2>1. /\ lead \o last \in Seq(TurnEvs)
        /\ Len(lead \o last) = m + Len(last)
        /\ \A i \in 1..(m + Len(last)) :
             (lead \o last)[i] = IF i <= m THEN lead[i] ELSE last[i - m]
    BY <1>5, <1>6, ConcatProperties
  <2>2. events = lead \o last
    BY <1>1 DEF lead
  <2>3. QED
    BY <2>1, <2>2, <1>6
<1> HIDE DEF lead, last, m
<1>8. m \in Nat /\ m + 2 - m = 2 /\ m + 1 - m = 1
  BY <1>5 DEF m
<1>9. events[m + 2] = CompletedEv /\ events[m + 1] = RespCompletedEv
  <2>1. m + 2 \in 1..(m + 2) /\ m + 1 \in 1..(m + 2) /\ ~(m + 2 <= m) /\ ~(m + 1 <= m)
    BY <1>8
  <2>2. QED
    BY <1>6, <1>7, <1>8, <2>1
<1>10. ASSUME NEW i \in 1..(m + 1)
       PROVE  events[i] \in {SceneEv, RespStartedEv, DeltaEv, RespCompletedEv}
  <2>1. CASE i = m + 1
    BY <1>9, <2>1
  <2>2. CASE i # m + 1
    <3>1. i \in 1..m /\ i \in 1..(m + 2) /\ i <= m
      BY <1>8, <2>2
    <3>2. events[i] = lead[i] /\ lead[i] \in Early
      BY <1>5, <1>7, <3>1 DEF m
    <3>3. QED
      BY <3>2 DEF Early
  <2>3. QED
    BY <2>1, <2>2
<1>11. Len(events) \in Nat /\ Len(events) >= 2 /\ Len(events) - 1 = m + 1
  BY <1>7, <1>8
<1>12. QED
  BY <1>7, <1>9, <1>10, <1>11

\* So run.completed comes last and nowhere else.
LEMMA ProjectedFacts ==
  ASSUME NEW responding \in BOOLEAN, NEW events \in Projected(responding)
  PROVE  /\ events \in Seq(TurnEvs)
         /\ \A i \in 1..Len(events) : events[i] = CompletedEv => i = Len(events)
<1>1. /\ events \in Seq(TurnEvs) /\ Len(events) \in Nat
      /\ \A i \in 1..(Len(events) - 1) : events[i] \in {SceneEv, RespStartedEv, DeltaEv, RespCompletedEv}
  BY ProjectionEnds
<1>2. CompletedEv \notin {SceneEv, RespStartedEv, DeltaEv, RespCompletedEv}
  BY TurnEvFacts
<1>3. ASSUME NEW i \in 1..Len(events), events[i] = CompletedEv
      PROVE  i = Len(events)
  <2>1. i # Len(events) => i \in 1..(Len(events) - 1)
    BY <1>1
  <2>2. QED
    BY <1>1, <1>2, <1>3, <2>1
<1>4. QED
  BY <1>1, <1>3

\* A stored run has a record and a well-formed log.
LEMMA StoredIsRecord ==
  ASSUME TypeOK, LogWellFormed, NEW r \in RunIds, Stored(r)
  PROVE  runs[r] \in Record /\ WellFormedLog(runs[r].events)
  BY DEF TypeOK, LogWellFormed, Stored, NoRecord

PCs == {"idle", "queued", "emitting", "appending", "projecting", "delivering",
        "failing", "reporting", "done", "dead"}

\* An append of a thread: its run keeps a well-formed log or is gone, and no other
\* run or thread changes.
LEMMA AppendEventFacts ==
  ASSUME TypeOK, LogWellFormed, NEW r \in RunIds, NEW ev \in Evs, ev # StartedEv,
         NEW found \in WorkerState, NEW missing \in PCs,
         AppendEvent(r, ev, found, missing)
  PROVE  /\ runs' \in [RunIds -> Record \cup {NoRecord}]
         /\ LogWellFormed'
         /\ \A q \in RunIds : Stored(q)' <=> Stored(q)
         /\ \A q \in RunIds \ {r} : runs'[q] = runs[q] /\ worker'[q] = worker[q]
         /\ worker' \in [RunIds -> WorkerState]
         /\ \/ /\ Stored(r)
               /\ \/ worker'[r] = found
                  \/ StoreRaises /\ worker'[r] = [worker[r] EXCEPT !.pc = missing]
               /\ runs'[r].status = IF SetsStatus(ev) THEN ev.status ELSE runs[r].status
            \/ /\ ~Stored(r) \/ StoreRaises
               /\ worker'[r] = [worker[r] EXCEPT !.pc = missing]
               /\ runs'[r] = runs[r]
<1> DEFINE lost == [worker[r] EXCEPT !.pc = missing]
<1>0. lost \in WorkerState /\ worker \in [RunIds -> WorkerState]
  <2>1. worker[r] \in WorkerState
    BY DEF TypeOK
  <2>2. QED
    BY <2>1 DEF WorkerState, PCs, TypeOK
<1> HIDE DEF lost
<1>1. CASE /\ Stored(r)
           /\ runs' = [runs EXCEPT ![r] = AppendLocked(@, ev)]
           /\ \/ worker' = [worker EXCEPT ![r] = found]
              \/ StoreRaises /\ worker' = [worker EXCEPT ![r] = lost]
  <2>1. runs[r] \in Record /\ WellFormedLog(runs[r].events)
    BY <1>1, StoredIsRecord
  <2>2. /\ AppendLocked(runs[r], ev) \in Record
        /\ WellFormedLog(AppendLocked(runs[r], ev).events)
        /\ AppendLocked(runs[r], ev).status = IF SetsStatus(ev) THEN ev.status ELSE runs[r].status
    BY <2>1, AppendKeepsRecord
  <2>3. AppendLocked(runs[r], ev).status # "absent"
    BY <2>2 DEF Record, RunStatuses, TERMINAL_RUN_STATUSES
  <2>4. /\ runs'[r] = AppendLocked(runs[r], ev)
        /\ \A q \in RunIds \ {r} : runs'[q] = runs[q]
        /\ runs' \in [RunIds -> Record \cup {NoRecord}]
    BY <1>1, <2>2 DEF TypeOK
  <2>5. LogWellFormed'
    BY <2>2, <2>4 DEF LogWellFormed, Stored
  <2>6. /\ worker' \in [RunIds -> WorkerState]
        /\ worker'[r] = found \/ (StoreRaises /\ worker'[r] = lost)
        /\ \A q \in RunIds \ {r} : worker'[q] = worker[q]
    BY <1>0, <1>1
  <2>7. \A q \in RunIds : Stored(q)' <=> Stored(q)
    BY <1>1, <2>3, <2>4 DEF Stored
  <2>8. QED
    BY <1>1, <2>2, <2>4, <2>5, <2>6, <2>7 DEF lost
<1>2. CASE /\ ~Stored(r) \/ StoreRaises
           /\ worker' = [worker EXCEPT ![r] = lost]
           /\ UNCHANGED runs
  <2>1. LogWellFormed' /\ \A q \in RunIds : Stored(q)' <=> Stored(q)
    BY <1>2 DEF LogWellFormed, Stored
  <2>2. /\ worker' \in [RunIds -> WorkerState] /\ worker'[r] = lost
        /\ \A q \in RunIds \ {r} : worker'[q] = worker[q]
    BY <1>0, <1>2
  <2>3. QED
    BY <1>2, <2>1, <2>2 DEF TypeOK, lost
<1>3. QED
  BY <1>1, <1>2 DEF AppendEvent, lost

(***************************************************************************)
(* Initially, and through every action.                                    *)
(***************************************************************************)
\* A fresh process satisfies the invariant.
LEMMA InitIInv == Init => IInv
<1> SUFFICES ASSUME Init PROVE IInv
  OBVIOUS
<1>1. \A r \in RunIds : runs[r] = NoRecord /\ worker[r] = IdleWorker
  BY DEF Init
<1>2. IdleWorker \in WorkerState
  <2>1. <<>> \in Seq(Evs) /\ 0 \in 0..EmitBound
    BY EmptySeq, CoordinatorAssumption
  <2>2. QED
    BY <2>1 DEF IdleWorker, WorkerState
<1>3. NoStream \in StreamState
  BY CoordinatorAssumption DEF NoStream, StreamState
<1>4. TypeOK
  BY <1>2, <1>3, CoordinatorAssumption
  DEF Init, TypeOK, NoRequest
<1>5. LogWellFormed /\ FinalRests
  BY <1>1 DEF LogWellFormed, FinalRests, RestsIfFinal, Stored, NoRecord
<1>6. TodoOK
  <2>1. \A r \in RunIds : worker[r].todo = <<>> /\ worker[r].pc = "idle"
    BY <1>1 DEF IdleWorker
  <2>2. <<>> \in Seq(TurnEvs) /\ Len(<<>>) = 0
    BY EmptySeq
  <2>3. ASSUME NEW r \in RunIds
        PROVE  /\ worker[r].todo \in Seq(TurnEvs)
               /\ \A i \in 1..Len(worker[r].todo) :
                    worker[r].todo[i] = CompletedEv => i = Len(worker[r].todo)
               /\ worker[r].pc \notin {"appending", "delivering"}
    <3>1. worker[r].todo \in Seq(TurnEvs) /\ Len(worker[r].todo) = 0
      BY <2>1, <2>2
    <3>2. worker[r].pc \notin {"appending", "delivering"}
      BY <2>1
    <3>3. QED
      BY <3>1, <3>2
  <2>4. QED
    BY <2>3 DEF TodoOK, HoldsEvent
<1>7. RequestOK /\ FreshUnused /\ QueueOK
  BY <1>1 DEF Init, RequestOK, FreshUnused, QueueOK, NoRequest, IdleWorker, Stored, NoRecord
<1>8. QED
  BY <1>4, <1>5, <1>6, <1>7 DEF IInv

\* Actions that leave runs and threads alone.
LEMMA QuietStep ==
  ASSUME IInv, TypeOK', RequestOK', UNCHANGED <<runs, worker, queue>>, nextRun' = nextRun
  PROVE  IInv'
  BY DEF IInv, LogWellFormed, TodoOK, HoldsEvent, FreshUnused, QueueOK, FinalRests, RestsIfFinal, Stored

\* create_session touches only the sessions.
LEMMA CreateSessionIInv == IInv /\ CreateSession => IInv'
<1> SUFFICES ASSUME IInv, CreateSession PROVE IInv'
  OBVIOUS
<1>1. sessions' \subseteq SessionIds /\ nextSession' \in 1..(SessionBound + 1)
  <2>1. Kept(sessions \cup {nextSession}, MaxSessions) \subseteq sessions \cup {nextSession}
    BY DEF Kept
  <2>2. nextSession \in SessionIds /\ nextSession + 1 \in 1..(SessionBound + 1)
    BY CoordinatorAssumption DEF CreateSession, IInv, TypeOK, SessionIds
  <2>3. sessions \subseteq SessionIds
    BY DEF IInv, TypeOK
  <2>4. QED
    BY <2>1, <2>2, <2>3 DEF CreateSession
<1>2. TypeOK'
  BY <1>1 DEF CreateSession, IInv, TypeOK
<1>3. QED
  BY <1>2, QuietStep DEF CreateSession, RequestOK, IInv

\* start_run up to save_run: a fresh record under a fresh id.
LEMMA StartRunIInv ==
  ASSUME NEW s \in SessionIds, NEW m \in Messages, IInv, StartRun(s, m)
  PROVE  IInv'
<1> DEFINE fresh == [status |-> "queued", session |-> s, message |-> m,
                     cancelRequested |-> FALSE, events |-> <<>>]
           new == AppendLocked(fresh, StartedEv)
<1>1. /\ new \in Record /\ WellFormedLog(new.events) /\ new.status = "queued"
  BY NewRecord
<1> HIDE DEF new, fresh
<1>2. nextRun \in RunIds /\ nextRun' = nextRun + 1 /\ nextRun' \in 1..(RunBound + 1)
  BY CoordinatorAssumption DEF StartRun, NewRun, IInv, TypeOK, RunIds
<1>3. \A q \in RunIds : \/ q = nextRun /\ runs'[q] = new
                        \/ q # nextRun /\ runs'[q] = runs[q]
                        \/ q # nextRun /\ runs'[q] = NoRecord
  BY DEF StartRun, NewRun, new, fresh
<1>4. runs' = [q \in RunIds |-> runs'[q]]
  BY DEF StartRun, NewRun
<1>5. runs' \in [RunIds -> Record \cup {NoRecord}]
  <2>1. \A q \in RunIds : runs'[q] \in Record \cup {NoRecord}
    BY <1>1, <1>3 DEF IInv, TypeOK
  <2>2. QED
    BY <2>1, <1>4
<1>6. TypeOK'
  <2>1. req' \in [step : {"idle", "saved", "mapped"}, run : 0..RunBound]
    BY <1>2, CoordinatorAssumption DEF StartRun, NewRun, RunIds
  <2>2. UNCHANGED <<sessions, nextSession, clientRuns, queue, worker, stream, restarts>>
    BY DEF StartRun, NewRun
  <2>3. QED
    BY <2>1, <2>2, <1>2, <1>5 DEF IInv, TypeOK
<1>7. LogWellFormed'
  BY <1>1, <1>3 DEF IInv, LogWellFormed, Stored, NoRecord
<1>8. UNCHANGED <<worker, queue>>
  BY DEF StartRun, NewRun
<1>9. TodoOK' /\ QueueOK'
  BY <1>8 DEF IInv, TodoOK, HoldsEvent, QueueOK
<1>10. FinalRests'
  BY <1>1, <1>3, <1>8 DEF IInv, FinalRests, RestsIfFinal, NoRecord
<1>11. FreshUnused'
  BY <1>2, <1>3, <1>8 DEF IInv, TypeOK, FreshUnused, Stored, NoRecord, RunIds
<1>12. RequestOK'
  BY <1>2, <1>8 DEF StartRun, NewRun, IInv, TypeOK, RequestOK, FreshUnused, RunIds
<1>13. QED
  BY <1>6, <1>7, <1>9, <1>10, <1>11, <1>12 DEF IInv

\* start_run's save_client_run touches only the idempotency key.
LEMMA SaveClientRunIInv == IInv /\ SaveClientRun => IInv'
<1> SUFFICES ASSUME IInv, SaveClientRun PROVE IInv'
  OBVIOUS
<1>1. req' \in [step : {"idle", "saved", "mapped"}, run : 0..RunBound]
  BY DEF SaveClientRun, IInv, TypeOK
<1>2. clientRuns' \in [SessionIds \X Messages -> 0..RunBound]
  BY DEF SaveClientRun, IInv, TypeOK
<1>3. TypeOK'
  BY <1>1, <1>2 DEF SaveClientRun, IInv, TypeOK
<1>4. RequestOK'
  BY DEF SaveClientRun, IInv, TypeOK, RequestOK
<1>5. QED
  BY <1>3, <1>4, QuietStep DEF SaveClientRun

\* Submitting hands a run without a thread to the queue.
LEMMA SubmitIInv == IInv /\ Submit => IInv'
<1> SUFFICES ASSUME IInv, Submit PROVE IInv'
  OBVIOUS
<1>1. /\ req.run \in RunIds /\ req.run < nextRun /\ worker[req.run].pc = "idle"
  BY DEF Submit, IInv, RequestOK
<1>2. /\ worker' = [worker EXCEPT ![req.run].pc = "queued"]
      /\ queue' = Append(queue, req.run) /\ req' = NoRequest
      /\ UNCHANGED <<runs, nextRun, sessions, nextSession, clientRuns, stream, restarts>>
  BY DEF Submit, storeVars
<1>3. /\ worker' \in [RunIds -> WorkerState]
      /\ \A q \in RunIds : worker'[q].todo = worker[q].todo
      /\ \A q \in RunIds \ {req.run} : worker'[q] = worker[q]
      /\ worker'[req.run].pc = "queued"
  <2>1. worker \in [RunIds -> WorkerState] /\ worker[req.run] \in WorkerState
    BY <1>1 DEF IInv, TypeOK
  <2>2. /\ [worker[req.run] EXCEPT !.pc = "queued"] \in WorkerState
        /\ [worker[req.run] EXCEPT !.pc = "queued"].todo = worker[req.run].todo
        /\ [worker[req.run] EXCEPT !.pc = "queued"].pc = "queued"
    BY <2>1 DEF WorkerState
  <2>3. worker' = [worker EXCEPT ![req.run] = [worker[req.run] EXCEPT !.pc = "queued"]]
    BY <1>2
  <2>4. QED
    BY <1>1, <2>1, <2>2, <2>3
<1>4. queue \in Seq(RunIds) /\ \A i \in 1..Len(queue) : queue[i] \in RunIds
  BY ElementOfSeq DEF IInv, TypeOK
<1>5. /\ queue' \in Seq(RunIds) /\ Len(queue') = Len(queue) + 1
      /\ \A i \in 1..Len(queue) : queue'[i] = queue[i]
      /\ queue'[Len(queue) + 1] = req.run
  BY <1>1, <1>2, <1>4, AppendProperties
<1>6. TypeOK'
  <2>1. req' \in [step : {"idle", "saved", "mapped"}, run : 0..RunBound]
    BY <1>2, CoordinatorAssumption DEF NoRequest
  <2>2. QED
    BY <2>1, <1>2, <1>3, <1>5 DEF IInv, TypeOK
<1>7. QueueOK'
  <2>1. Len(queue) \in Nat
    BY <1>4, LenProperties
  <2>2. \A i \in 1..Len(queue) : worker[queue[i]].pc = "queued" /\ queue[i] # req.run
    BY <1>1 DEF IInv, QueueOK
  <2>3. \A i \in 1..Len(queue') : worker'[queue'[i]].pc = "queued"
    <3>1. ASSUME NEW i \in 1..Len(queue')
          PROVE  worker'[queue'[i]].pc = "queued"
      <4>1. CASE i = Len(queue) + 1
        BY <4>1, <1>3, <1>5
      <4>2. CASE i \in 1..Len(queue)
        BY <4>2, <2>2, <1>3, <1>4, <1>5
      <4>3. QED
        BY <4>1, <4>2, <2>1, <1>5
    <3>2. QED
      BY <3>1
  <2>4. \A i, j \in 1..Len(queue') : queue'[i] = queue'[j] => i = j
    BY <2>1, <2>2, <1>5 DEF IInv, QueueOK
  <2>5. QED
    BY <2>3, <2>4 DEF QueueOK
<1>8. LogWellFormed'
  BY <1>2 DEF IInv, LogWellFormed, Stored
<1>9. TodoOK'
  BY <1>3 DEF IInv, TodoOK, HoldsEvent
<1>10. RequestOK'
  BY <1>2 DEF RequestOK, NoRequest
<1>11. FreshUnused'
  BY <1>1, <1>2, <1>3 DEF IInv, TypeOK, FreshUnused, Stored, RunIds
<1>12. FinalRests'
  BY <1>1, <1>2, <1>3 DEF IInv, FinalRests, RestsIfFinal
<1>13. QED
  BY <1>6, <1>7, <1>8, <1>9, <1>10, <1>11, <1>12 DEF IInv

\* A start_run that raises leaves a run without a thread for good.
LEMMA StartRaisesIInv == IInv /\ StartRaises => IInv'
<1> SUFFICES ASSUME IInv, StartRaises PROVE IInv'
  OBVIOUS
<1> DEFINE dead == [worker[req.run] EXCEPT !.pc = "dead"]
<1>1. /\ req.run \in RunIds /\ req.run < nextRun /\ worker[req.run].pc = "idle"
  BY DEF StartRaises, IInv, RequestOK
<1>2. /\ worker' = [worker EXCEPT ![req.run] = dead] /\ req' = NoRequest
      /\ UNCHANGED <<queue, runs, nextRun, sessions, nextSession, clientRuns, stream, restarts>>
  BY DEF StartRaises, storeVars
<1>3. worker \in [RunIds -> WorkerState] /\ worker[req.run] \in WorkerState
  BY <1>1 DEF IInv, TypeOK
<1>4. dead \in WorkerState /\ dead.todo = worker[req.run].todo /\ dead.pc = "dead"
  BY <1>3 DEF WorkerState
<1> HIDE DEF dead
<1>5. /\ worker' \in [RunIds -> WorkerState]
      /\ \A q \in RunIds : worker'[q].todo = worker[q].todo
      /\ \A q \in RunIds \ {req.run} : worker'[q] = worker[q]
      /\ worker'[req.run].pc = "dead"
  BY <1>1, <1>2, <1>3, <1>4
<1>6. TypeOK'
  <2>1. req' \in [step : {"idle", "saved", "mapped"}, run : 0..RunBound]
    BY <1>2, CoordinatorAssumption DEF NoRequest
  <2>2. QED
    BY <2>1, <1>2, <1>5 DEF IInv, TypeOK
<1>7. QueueOK'
  <2>1. \A i \in 1..Len(queue) : queue[i] \in RunIds /\ queue[i] # req.run
    BY <1>1, ElementOfSeq DEF IInv, TypeOK, QueueOK
  <2>2. QED
    BY <2>1, <1>2, <1>5 DEF IInv, QueueOK
<1>8. LogWellFormed'
  BY <1>2 DEF IInv, LogWellFormed, Stored
<1>9. TodoOK'
  BY <1>5 DEF IInv, TodoOK, HoldsEvent
<1>10. RequestOK'
  BY <1>2 DEF RequestOK, NoRequest
<1>11. FreshUnused'
  BY <1>1, <1>2, <1>5 DEF IInv, TypeOK, FreshUnused, Stored, RunIds
<1>12. FinalRests'
  BY <1>1, <1>2, <1>5 DEF IInv, FinalRests, RestsIfFinal
<1>13. QED
  BY <1>6, <1>7, <1>8, <1>9, <1>10, <1>11, <1>12 DEF IInv

\* A cancellation appends run.cancelled to a stored run that is not terminal.
LEMMA CancelIInv ==
  ASSUME NEW r \in RunIds, IInv, Cancel(r)
  PROVE  IInv'
<1> DEFINE old == [runs[r] EXCEPT !.cancelRequested = TRUE]
           new == AppendLocked(old, CancelledEv)
<1>1. runs[r] \in Record /\ WellFormedLog(runs[r].events)
  BY StoredIsRecord DEF Cancel, IInv
<1>2. old \in Record /\ old.events = runs[r].events
  BY <1>1 DEF Record
<1>3. new \in Record /\ WellFormedLog(new.events) /\ new.status = "cancelled"
  <2> HIDE DEF old
  <2>1. QED
    BY <1>1, <1>2, AppendKeepsRecord, TurnEvFacts
<1> HIDE DEF old, new
<1>4. runs' = [runs EXCEPT ![r] = new]
  BY DEF Cancel, old, new
<1>5. UNCHANGED <<sessions, nextSession, nextRun, clientRuns, req, queue, worker, stream, restarts>>
  BY DEF Cancel, storeVars
<1>6. /\ runs' \in [RunIds -> Record \cup {NoRecord}] /\ runs'[r] = new
      /\ \A q \in RunIds \ {r} : runs'[q] = runs[q]
  BY <1>3, <1>4 DEF IInv, TypeOK
<1>7. TypeOK'
  BY <1>5, <1>6 DEF IInv, TypeOK
<1>8. LogWellFormed' /\ FinalRests'
  BY <1>3, <1>5, <1>6 DEF IInv, LogWellFormed, FinalRests, RestsIfFinal, Stored
<1>9. TodoOK' /\ QueueOK' /\ RequestOK'
  BY <1>5 DEF IInv, TodoOK, HoldsEvent, QueueOK, RequestOK
<1>10. FreshUnused'
  BY <1>5, <1>6 DEF IInv, FreshUnused, Stored, Cancel
<1>11. QED
  BY <1>7, <1>8, <1>9, <1>10 DEF IInv

(***************************************************************************)
(* Steps of a turn.                                                        *)
(***************************************************************************)
\* A step of one thread that is past the queue: what is left to show is that the
\* thread holds what it needs and rests if its run's outcome is final.
LEMMA ThreadStep ==
  ASSUME IInv, NEW r \in RunIds,
         worker[r].pc \notin {"idle", "queued"},
         UNCHANGED <<storeVars, req, queue, stream, restarts>>,
         runs' \in [RunIds -> Record \cup {NoRecord}], LogWellFormed',
         \A q \in RunIds : Stored(q)' <=> Stored(q),
         \A q \in RunIds \ {r} : runs'[q] = runs[q] /\ worker'[q] = worker[q],
         worker' \in [RunIds -> WorkerState],
         HoldsEvent(r)', RestsIfFinal(r)'
  PROVE  IInv'
<1>1. TypeOK'
  BY DEF IInv, TypeOK, storeVars
<1>2. TodoOK' /\ FinalRests'
  BY DEF IInv, TodoOK, FinalRests, HoldsEvent, RestsIfFinal
<1>3. RequestOK'
  BY DEF IInv, RequestOK, storeVars
<1>4. r < nextRun
  BY DEF IInv, TypeOK, FreshUnused, RunIds
<1>5. FreshUnused'
  BY <1>4 DEF IInv, FreshUnused, storeVars, RunIds, TypeOK
<1>6. QueueOK'
  <2>1. \A i \in 1..Len(queue) : queue[i] \in RunIds /\ queue[i] # r
    BY ElementOfSeq DEF IInv, TypeOK, QueueOK
  <2>2. QED
    BY <2>1 DEF IInv, QueueOK
<1>7. QED
  BY <1>1, <1>2, <1>3, <1>5, <1>6 DEF IInv

\* The same for a step that leaves every run alone.
LEMMA ThreadOnlyStep ==
  ASSUME IInv, NEW r \in RunIds, NEW thread \in WorkerState,
         worker[r].pc \notin {"idle", "queued"},
         UNCHANGED <<storeVars, runs, req, queue, stream, restarts>>,
         worker' = [worker EXCEPT ![r] = thread],
         HoldsEvent(r)', RestsIfFinal(r)'
  PROVE  IInv'
<1>1. /\ worker' \in [RunIds -> WorkerState]
      /\ \A q \in RunIds \ {r} : runs'[q] = runs[q] /\ worker'[q] = worker[q]
  BY DEF IInv, TypeOK
<1>2. runs' \in [RunIds -> Record \cup {NoRecord}]
  BY DEF IInv, TypeOK
<1>3. LogWellFormed' /\ \A q \in RunIds : Stored(q)' <=> Stored(q)
  BY DEF IInv, LogWellFormed, Stored
<1>4. QED
  BY <1>1, <1>2, <1>3, ThreadStep

\* Changing only the position of a thread to one where it appends nothing of its
\* own, while its run's outcome is open.
LEMMA PositionStep ==
  ASSUME IInv, NEW r \in RunIds, NEW pc \in PCs,
         worker[r].pc \notin {"idle", "queued"},
         UNCHANGED <<storeVars, runs, req, queue, stream, restarts>>,
         Step(r, pc),
         pc # "appending",
         pc = "delivering" => worker[r].todo # <<>>,
         \/ pc \in {"done", "dead"}
         \/ runs[r].status \notin {"completed", "failed"}
         \/ StoreRaises /\ runs[r].status = "completed" /\ pc = "reporting"
  PROVE  IInv'
<1> DEFINE thread == [worker[r] EXCEPT !.pc = pc]
<1>1. worker[r] \in WorkerState
  BY DEF IInv, TypeOK
<1>2. thread \in WorkerState /\ thread.pc = pc /\ thread.todo = worker[r].todo
  BY <1>1 DEF WorkerState, PCs
<1>3. worker' = [worker EXCEPT ![r] = thread] /\ worker'[r] = thread
  BY <1>1, <1>2 DEF Step, IInv, TypeOK
<1> HIDE DEF thread
<1>4. HoldsEvent(r)'
  BY <1>2, <1>3 DEF IInv, TodoOK, HoldsEvent
<1>5. RestsIfFinal(r)'
  BY <1>2, <1>3 DEF RestsIfFinal, StoreRaises
<1>6. QED
  BY <1>2, <1>3, <1>4, <1>5, ThreadOnlyStep

\* What a thread before or inside an append knows about its run.
LEMMA OutcomeOpen ==
  ASSUME IInv, NEW r \in RunIds,
         worker[r].pc \notin {"done", "dead", "projecting", "failing", "reporting"}
  PROVE  runs[r].status \notin {"completed", "failed"}
  BY DEF IInv, FinalRests, RestsIfFinal

\* And in the except clause.
LEMMA FailingOpen ==
  ASSUME IInv, NEW r \in RunIds, worker[r].pc \in {"failing", "reporting"}
  PROVE  /\ runs[r].status # "failed"
         /\ runs[r].status = "completed" => StoreRaises
  BY DEF IInv, FinalRests, RestsIfFinal

\* A thread takes the oldest job and appends its planning phase.
LEMMA PlanIInv ==
  ASSUME NEW r \in RunIds, IInv, Plan(r)
  PROVE  IInv'
<1> DEFINE found == [worker[r] EXCEPT !.pc = "emitting"]
<1>1. /\ queue \in Seq(RunIds) /\ queue # <<>> /\ r = queue[1] /\ Len(queue) \in Nat \ {0}
      /\ \A i \in 1..Len(queue) : queue[i] \in RunIds
  BY EmptySeq, ElementOfSeq DEF Plan, IInv, TypeOK
<1>2. worker[r].pc = "queued"
  BY <1>1 DEF IInv, QueueOK
<1>3. worker[r] \in WorkerState
  BY DEF IInv, TypeOK
<1>4. found \in WorkerState /\ found.pc = "emitting" /\ found.todo = worker[r].todo
  BY <1>3 DEF WorkerState
<1>5. AppendEvent(r, PlanningEv, found, "dead")
  BY DEF Plan
<1> HIDE DEF found
<1>6. /\ runs' \in [RunIds -> Record \cup {NoRecord}]
      /\ LogWellFormed'
      /\ \A q \in RunIds : Stored(q)' <=> Stored(q)
      /\ \A q \in RunIds \ {r} : runs'[q] = runs[q] /\ worker'[q] = worker[q]
      /\ worker' \in [RunIds -> WorkerState]
      /\ \/ worker'[r] = found /\ runs'[r].status = "planning"
         \/ worker'[r] = [worker[r] EXCEPT !.pc = "dead"]
  <2>1. TypeOK /\ LogWellFormed /\ "dead" \in PCs
    BY DEF IInv, PCs
  <2>2. PlanningEv \in Evs /\ PlanningEv # StartedEv
    BY TurnEvFacts
  <2>3. PlanningEv.status = "planning" /\ SetsStatus(PlanningEv)
    BY TurnEvFacts
  <2>4. QED
    BY <2>1, <2>2, <2>3, <1>4, <1>5, AppendEventFacts
<1>7. /\ worker'[r].todo = worker[r].todo
      /\ worker'[r].pc \in {"emitting", "dead"}
      /\ worker'[r].pc = "emitting" => runs'[r].status = "planning"
  BY <1>3, <1>4, <1>6 DEF WorkerState
<1>8. /\ queue' = Tail(queue) /\ queue' \in Seq(RunIds)
      /\ Len(queue') = Len(queue) - 1
      /\ \A i \in 1..Len(queue') : queue'[i] = queue[i + 1]
  BY <1>1, HeadTailProperties DEF Plan
<1>9. UNCHANGED <<sessions, nextSession, nextRun, clientRuns, req, stream, restarts>>
  BY DEF Plan, storeVars
<1>10. TypeOK'
  BY <1>6, <1>8, <1>9 DEF IInv, TypeOK
<1>11. QueueOK'
  <2>1. \A i \in 1..Len(queue') : queue'[i] \in RunIds \ {r}
    BY <1>1, <1>8 DEF IInv, QueueOK
  <2>2. \A i \in 1..Len(queue') : worker'[queue'[i]].pc = "queued"
    BY <2>1, <1>1, <1>6, <1>8 DEF IInv, QueueOK
  <2>3. \A i, j \in 1..Len(queue') : queue'[i] = queue'[j] => i = j
    BY <1>1, <1>8 DEF IInv, QueueOK
  <2>4. QED
    BY <2>2, <2>3 DEF QueueOK
<1>12. TodoOK'
  BY <1>6, <1>7 DEF IInv, TodoOK, HoldsEvent
<1>13. FinalRests'
  BY <1>6, <1>7 DEF IInv, FinalRests, RestsIfFinal
<1>14. RequestOK'
  BY <1>2, <1>6, <1>9 DEF IInv, RequestOK
<1>15. r < nextRun
  BY <1>2 DEF IInv, TypeOK, FreshUnused, RunIds
<1>16. FreshUnused'
  BY <1>6, <1>9, <1>15 DEF IInv, TypeOK, FreshUnused, RunIds
<1>17. QED
  BY <1>6, <1>10, <1>11, <1>12, <1>13, <1>14, <1>16 DEF IInv

\* emit looks at the cancellation and keeps the event to append.
LEMMA EmitCheckIInv ==
  ASSUME NEW r \in RunIds, NEW ev \in Evs, IInv, EmitCheck(r, ev)
  PROVE  IInv'
<1> DEFINE suppressed == CancelRequested(r)
           thread == [worker[r] EXCEPT !.emits = @ + 1,
                        !.responding = @ \/ ev = RespStartedEv,
                        !.todo = IF suppressed THEN <<>> ELSE <<ev>>,
                        !.pc = IF suppressed THEN "emitting" ELSE "appending"]
<1>1. worker[r] \in WorkerState /\ worker[r].pc = "emitting"
  BY DEF EmitCheck, IInv, TypeOK
<1>2. ev \in TurnEvs /\ ev # CompletedEv
  BY TurnEvFacts DEF EmitCheck, Emitted
<1>3. worker[r].emits + 1 \in 0..EmitBound
  BY <1>1, CoordinatorAssumption DEF EmitCheck, WorkerState
<1>4. <<>> \in Seq(TurnEvs) /\ <<ev>> \in Seq(TurnEvs) /\ <<>> \in Seq(Evs) /\ <<ev>> \in Seq(Evs)
  BY <1>2
<1>5. thread \in WorkerState
  BY <1>1, <1>3, <1>4 DEF WorkerState
<1>6. worker' = [worker EXCEPT ![r] = thread] /\ worker'[r] = thread
  BY <1>1 DEF EmitCheck, IInv, TypeOK
<1>7. /\ thread.todo = IF suppressed THEN <<>> ELSE <<ev>>
      /\ thread.pc = IF suppressed THEN "emitting" ELSE "appending"
  BY <1>1 DEF WorkerState
<1> HIDE DEF thread, suppressed
<1>8. HoldsEvent(r)'
  <2>1. CASE suppressed
    <3>1. worker'[r].todo \in Seq(TurnEvs) /\ Len(worker'[r].todo) = 0 /\ worker'[r].pc = "emitting"
      BY <2>1, <1>4, <1>6, <1>7, EmptySeq
    <3>2. QED
      BY <3>1 DEF HoldsEvent
  <2>2. CASE ~suppressed
    <3>1. worker'[r].todo = <<ev>> /\ worker'[r].pc = "appending"
      BY <2>2, <1>6, <1>7
    <3>2. Len(<<ev>>) = 1 /\ <<ev>>[1] = ev /\ <<ev>> # <<>>
      OBVIOUS
    <3>3. QED
      BY <3>1, <3>2, <1>2, <1>4 DEF HoldsEvent
  <2>3. QED
    BY <2>1, <2>2
<1>9. RestsIfFinal(r)'
  BY <1>1, OutcomeOpen DEF RestsIfFinal, EmitCheck
<1>10. UNCHANGED <<storeVars, runs, req, queue, stream, restarts>>
  BY DEF EmitCheck
<1>11. QED
  BY <1>1, <1>5, <1>6, <1>8, <1>9, <1>10, ThreadOnlyStep

\* emit appends the event it holds.
LEMMA EmitAppendIInv ==
  ASSUME NEW r \in RunIds, IInv, EmitAppend(r)
  PROVE  IInv'
<1> DEFINE ev == Head(worker[r].todo)
           found == [worker[r] EXCEPT !.pc = "emitting", !.todo = <<>>]
<1>1. worker[r] \in WorkerState /\ worker[r].pc = "appending"
  BY DEF EmitAppend, IInv, TypeOK
<1>2. worker[r].todo \in Seq(TurnEvs) /\ worker[r].todo # <<>> /\ worker[r].todo[1] # CompletedEv
  BY <1>1 DEF IInv, TodoOK, HoldsEvent
<1>3. ev \in TurnEvs /\ ev # CompletedEv
  BY <1>2, HeadTailProperties
<1>4. found \in WorkerState /\ found.pc = "emitting" /\ found.todo = <<>>
  <2>1. <<>> \in Seq(Evs)
    BY EmptySeq
  <2>2. QED
    BY <2>1, <1>1 DEF WorkerState
<1>5. AppendEvent(r, ev, found, "failing")
  BY DEF EmitAppend
<1> HIDE DEF ev, found
<1>6. ev \in Evs /\ ev # StartedEv
  BY <1>3, TurnEvFacts
<1>7. /\ runs' \in [RunIds -> Record \cup {NoRecord}]
      /\ LogWellFormed'
      /\ \A q \in RunIds : Stored(q)' <=> Stored(q)
      /\ \A q \in RunIds \ {r} : runs'[q] = runs[q] /\ worker'[q] = worker[q]
      /\ worker' \in [RunIds -> WorkerState]
      /\ worker'[r] = found \/ worker'[r] = [worker[r] EXCEPT !.pc = "failing"]
      /\ \/ runs'[r].status = IF SetsStatus(ev) THEN ev.status ELSE runs[r].status
         \/ runs'[r] = runs[r]
  <2>1. TypeOK /\ LogWellFormed /\ "failing" \in PCs
    BY DEF IInv, PCs
  <2>2. QED
    BY <2>1, <1>4, <1>5, <1>6, AppendEventFacts
<1>8. runs'[r].status \notin {"completed", "failed"}
  BY <1>1, <1>3, <1>7, OutcomeOpen, TurnEvFacts
<1>9. HoldsEvent(r)'
  <2>1. CASE worker'[r] = found
    <3>1. worker'[r].todo \in Seq(TurnEvs) /\ Len(worker'[r].todo) = 0 /\ worker'[r].pc = "emitting"
      BY <2>1, <1>4, EmptySeq
    <3>2. QED
      BY <3>1 DEF HoldsEvent
  <2>2. CASE worker'[r] = [worker[r] EXCEPT !.pc = "failing"]
    <3>1. worker'[r].todo = worker[r].todo /\ worker'[r].pc = "failing"
      BY <2>2, <1>1 DEF WorkerState
    <3>2. QED
      BY <3>1 DEF HoldsEvent, IInv, TodoOK
  <2>3. QED
    BY <2>1, <2>2, <1>7
<1>10. RestsIfFinal(r)'
  BY <1>8 DEF RestsIfFinal
<1>11. UNCHANGED <<storeVars, req, queue, stream, restarts>>
  BY DEF EmitAppend
<1>12. QED
  BY <1>1, <1>7, <1>9, <1>10, <1>11, ThreadStep

\* The turn returns its projected events.
LEMMA TurnReturnsIInv ==
  ASSUME NEW r \in RunIds, NEW events \in Projected(worker[r].responding),
         IInv, TurnReturns(r, events)
  PROVE  IInv'
<1> DEFINE thread == [worker[r] EXCEPT !.pc = "projecting", !.todo = events]
<1>1. worker[r] \in WorkerState /\ worker[r].pc = "emitting"
  BY DEF TurnReturns, IInv, TypeOK
<1>2. worker[r].responding \in BOOLEAN
  BY <1>1 DEF WorkerState
<1>3. /\ events \in Seq(TurnEvs)
      /\ \A i \in 1..Len(events) : events[i] = CompletedEv => i = Len(events)
  BY <1>2, ProjectedFacts
<1>4. events \in Seq(Evs)
  BY <1>3, SeqMonotonic, TurnEvFacts
<1>5. thread \in WorkerState /\ thread.pc = "projecting" /\ thread.todo = events
  BY <1>1, <1>4 DEF WorkerState
<1>6. worker' = [worker EXCEPT ![r] = thread] /\ worker'[r] = thread
  BY <1>1 DEF TurnReturns, IInv, TypeOK
<1> HIDE DEF thread
<1>7. HoldsEvent(r)'
  BY <1>3, <1>5, <1>6 DEF HoldsEvent
<1>8. RestsIfFinal(r)'
  BY <1>1, OutcomeOpen DEF RestsIfFinal, TurnReturns
<1>9. UNCHANGED <<storeVars, runs, req, queue, stream, restarts>>
  BY DEF TurnReturns
<1>10. QED
  BY <1>1, <1>5, <1>6, <1>7, <1>8, <1>9, ThreadOnlyStep

\* The turn raises.
LEMMA TurnRaisesIInv ==
  ASSUME NEW r \in RunIds, IInv, TurnRaises(r)
  PROVE  IInv'
  BY OutcomeOpen, PositionStep DEF TurnRaises, PCs

\* The store raises at a check.
LEMMA CheckRaisesIInv ==
  ASSUME NEW r \in RunIds, IInv, CheckRaises(r)
  PROVE  IInv'
<1>1. worker[r].pc \in {"projecting", "failing"}
      /\ UNCHANGED <<storeVars, runs, req, queue, stream, restarts>>
  BY DEF CheckRaises
<1>2. CASE worker[r].pc = "projecting" /\ worker[r].todo # <<>> /\ Step(r, "failing")
  <2>1. runs[r].status \notin {"completed", "failed"}
    BY <1>2 DEF IInv, FinalRests, RestsIfFinal
  <2>2. QED
    BY <1>1, <1>2, <2>1, PositionStep DEF PCs
<1>3. CASE Step(r, "dead")
  BY <1>1, <1>3, PositionStep DEF PCs
<1>4. QED
  BY <1>2, <1>3 DEF CheckRaises

\* The projection loop looks at the cancellation.
LEMMA ProjectCheckIInv ==
  ASSUME NEW r \in RunIds, IInv, ProjectCheck(r)
  PROVE  IInv'
<1> DEFINE pc == IF worker[r].todo = <<>> \/ CancelRequested(r) THEN "done" ELSE "delivering"
<1>1. worker[r].pc = "projecting" /\ Step(r, pc)
  BY DEF ProjectCheck
<1>2. UNCHANGED <<storeVars, runs, req, queue, stream, restarts>>
  BY DEF ProjectCheck
<1>3. pc \in {"done", "delivering"} /\ (pc = "delivering" => worker[r].todo # <<>>)
  OBVIOUS
<1>4. pc = "done" \/ runs[r].status \notin {"completed", "failed"}
  BY <1>1 DEF IInv, FinalRests, RestsIfFinal
<1> HIDE DEF pc
<1>5. QED
  BY <1>1, <1>2, <1>3, <1>4, PositionStep DEF PCs

LEMMA CompletedSets == CompletedEv.status = "completed" /\ SetsStatus(CompletedEv)
BY DEF CompletedEv, Ev, SetsStatus

\* The projection loop appends its next event; run.completed is the last.
LEMMA ProjectAppendIInv ==
  ASSUME NEW r \in RunIds, IInv, ProjectAppend(r)
  PROVE  IInv'
<1> DEFINE todo == worker[r].todo
           ev == Head(todo)
           found == [worker[r] EXCEPT !.pc = "projecting", !.todo = Tail(@)]
<1>1. worker[r] \in WorkerState /\ worker[r].pc = "delivering"
  BY DEF ProjectAppend, IInv, TypeOK
<1>2. /\ todo \in Seq(TurnEvs) /\ todo # <<>> /\ todo \in Seq(Evs)
      /\ \A i \in 1..Len(todo) : todo[i] = CompletedEv => i = Len(todo)
  BY <1>1 DEF IInv, TodoOK, HoldsEvent, WorkerState
<1>3. /\ ev = todo[1] /\ Len(todo) \in Nat \ {0}
      /\ Tail(todo) \in Seq(TurnEvs) /\ Tail(todo) \in Seq(Evs)
      /\ Len(Tail(todo)) = Len(todo) - 1
      /\ \A i \in 1..Len(Tail(todo)) : Tail(todo)[i] = todo[i + 1]
  <2> HIDE DEF todo
  <2>1. QED
    BY <1>2, HeadTailProperties, EmptySeq
<1>4. found \in WorkerState /\ found.pc = "projecting" /\ found.todo = Tail(todo)
  BY <1>1, <1>3 DEF WorkerState
<1>5. AppendEvent(r, ev, found, "failing")
  BY DEF ProjectAppend
<1>6. ev \in TurnEvs /\ ev \in Evs /\ ev # StartedEv
  BY <1>2, <1>3, ElementOfSeq, TurnEvFacts
<1> HIDE DEF found, ev
<1>7. /\ runs' \in [RunIds -> Record \cup {NoRecord}]
      /\ LogWellFormed'
      /\ \A q \in RunIds : Stored(q)' <=> Stored(q)
      /\ \A q \in RunIds \ {r} : runs'[q] = runs[q] /\ worker'[q] = worker[q]
      /\ worker' \in [RunIds -> WorkerState]
      /\ worker'[r] = found \/ worker'[r] = [worker[r] EXCEPT !.pc = "failing"]
      /\ \/ /\ runs'[r].status = IF SetsStatus(ev) THEN ev.status ELSE runs[r].status
            /\ StoreRaises \/ worker'[r] = found
         \/ /\ runs'[r] = runs[r]
            /\ worker'[r] = [worker[r] EXCEPT !.pc = "failing"]
  <2>1. TypeOK /\ LogWellFormed /\ "failing" \in PCs
    BY DEF IInv, PCs
  <2>2. QED
    BY <2>1, <1>4, <1>5, <1>6, AppendEventFacts
<1>8. HoldsEvent(r)'
  <2>1. CASE worker'[r] = found
    <3>1. worker'[r].todo = Tail(todo) /\ worker'[r].pc = "projecting"
      BY <2>1, <1>4
    <3>2. \A i \in 1..Len(Tail(todo)) : Tail(todo)[i] = CompletedEv => i = Len(Tail(todo))
      BY <1>2, <1>3
    <3>3. QED
      BY <3>1, <3>2, <1>3 DEF HoldsEvent
  <2>2. CASE worker'[r] = [worker[r] EXCEPT !.pc = "failing"]
    <3>1. worker'[r].todo = worker[r].todo /\ worker'[r].pc = "failing"
      BY <2>2, <1>1 DEF WorkerState
    <3>2. QED
      BY <3>1 DEF HoldsEvent, IInv, TodoOK
  <2>3. QED
    BY <2>1, <2>2, <1>7
<1>9. RestsIfFinal(r)'
  <2>1. runs[r].status \notin {"completed", "failed"}
    BY <1>1, OutcomeOpen
  <2>2. CASE ev = CompletedEv
    <3>1. Len(Tail(todo)) = 0
      <4> HIDE DEF todo
      <4>1. 1 = Len(todo)
        <5>1. todo[1] = CompletedEv /\ 1 \in 1..Len(todo)
          BY <2>2, <1>3
        <5>2. QED
          BY <5>1, <1>2
      <4>2. QED
        BY <4>1, <1>3
    <3>2. Tail(todo) = <<>>
      BY <3>1, <1>3, EmptySeq
    <3>3. CASE worker'[r] = found
      BY <3>2, <3>3, <1>4 DEF RestsIfFinal
    <3>4. CASE worker'[r] = [worker[r] EXCEPT !.pc = "failing"] /\ worker'[r] # found
      <4>1. worker'[r].pc = "failing"
        BY <3>4, <1>1 DEF WorkerState
      <4>2. (runs'[r].status = "completed" /\ StoreRaises) \/ runs'[r] = runs[r]
        BY <3>4, <2>2, <1>7, CompletedSets
      <4>3. QED
        BY <4>1, <4>2, <2>1 DEF RestsIfFinal, StoreRaises
    <3>5. QED
      BY <3>3, <3>4, <1>7
  <2>3. CASE ev # CompletedEv
    BY <2>1, <2>3, <1>6, <1>7, TurnEvFacts DEF RestsIfFinal
  <2>4. QED
    BY <2>2, <2>3
<1>10. UNCHANGED <<storeVars, req, queue, stream, restarts>>
  BY DEF ProjectAppend
<1>11. QED
  BY <1>1, <1>7, <1>8, <1>9, <1>10, ThreadStep

\* The except clause looks at the cancellation.
LEMMA FailCheckIInv ==
  ASSUME NEW r \in RunIds, IInv, FailCheck(r)
  PROVE  IInv'
<1> DEFINE pc == IF CancelRequested(r) THEN "done" ELSE "reporting"
<1>1. worker[r].pc = "failing" /\ Step(r, pc)
  BY DEF FailCheck
<1>2. UNCHANGED <<storeVars, runs, req, queue, stream, restarts>>
  BY DEF FailCheck
<1>3. pc \in {"done", "reporting"}
  OBVIOUS
<1>4. runs[r].status # "failed" /\ (runs[r].status = "completed" => StoreRaises)
  BY <1>1, FailingOpen
<1> HIDE DEF pc
<1>5. QED
  BY <1>1, <1>2, <1>3, <1>4, PositionStep DEF PCs

\* The except clause appends the error.
LEMMA FailAppendIInv ==
  ASSUME NEW r \in RunIds, IInv, FailAppend(r)
  PROVE  IInv'
<1> DEFINE found == [worker[r] EXCEPT !.pc = "done"]
<1>1. worker[r] \in WorkerState /\ worker[r].pc = "reporting"
  BY DEF FailAppend, IInv, TypeOK
<1>2. found \in WorkerState /\ found.pc = "done" /\ found.todo = worker[r].todo
  BY <1>1 DEF WorkerState
<1>3. AppendEvent(r, FailedEv, found, "dead")
  BY DEF FailAppend
<1> HIDE DEF found
<1>4. /\ runs' \in [RunIds -> Record \cup {NoRecord}]
      /\ LogWellFormed'
      /\ \A q \in RunIds : Stored(q)' <=> Stored(q)
      /\ \A q \in RunIds \ {r} : runs'[q] = runs[q] /\ worker'[q] = worker[q]
      /\ worker' \in [RunIds -> WorkerState]
      /\ worker'[r] = found \/ worker'[r] = [worker[r] EXCEPT !.pc = "dead"]
  <2>1. FailedEv \in Evs /\ FailedEv # StartedEv
    BY TurnEvFacts
  <2>2. "dead" \in PCs /\ TypeOK /\ LogWellFormed
    BY DEF PCs, IInv
  <2>3. QED
    BY <2>1, <2>2, <1>2, <1>3, AppendEventFacts
<1>5. worker'[r].todo = worker[r].todo /\ worker'[r].pc \in {"done", "dead"}
  BY <1>1, <1>2, <1>4 DEF WorkerState
<1>6. HoldsEvent(r)' /\ RestsIfFinal(r)'
  BY <1>5 DEF HoldsEvent, RestsIfFinal, IInv, TodoOK
<1>7. UNCHANGED <<storeVars, req, queue, stream, restarts>>
  BY DEF FailAppend
<1>8. QED
  BY <1>1, <1>4, <1>6, <1>7, ThreadStep

(***************************************************************************)
(* Steps of a stream, and the steps that take things away.                 *)
(***************************************************************************)
\* A stream step changes one connection and nothing else.
LEMMA ConnectionStep ==
  ASSUME IInv, NEW c \in Clients, NEW conn \in StreamState,
         stream' = [stream EXCEPT ![c] = conn],
         UNCHANGED <<storeVars, runs, req, queue, worker, restarts>>
  PROVE  IInv'
<1>1. TypeOK'
  BY DEF IInv, TypeOK, storeVars
<1>2. RequestOK'
  BY DEF IInv, RequestOK, storeVars
<1>3. QED
  BY <1>1, <1>2, QuietStep DEF storeVars

\* The fresh events of a well-typed log are a sequence of events.
LEMMA FreshIsLog ==
  ASSUME NEW events \in Seq(Event), NEW cursor \in Nat
  PROVE  Fresh(events, cursor) \in Seq(Event)
<1> DEFINE old == {i \in DOMAIN events : events[i].sequence <= cursor}
           sent == Cardinality(old)
<1>1. Len(events) \in Nat /\ DOMAIN events = 1..Len(events)
  BY LenProperties
<1>2. IsFiniteSet(1..Len(events)) /\ old \subseteq 1..Len(events)
  <2>1. IsFiniteSet(1..Len(events))
    BY <1>1, FS_Interval
  <2>2. QED
    BY <2>1, <1>1
<1>3. sent \in Nat
  BY <1>2, FS_Subset, FS_CardinalityType
<1> HIDE DEF sent, old
<1>4. \A i \in (sent + 1)..Len(events) : events[i] \in Event
  BY <1>1, <1>3, ElementOfSeq
<1>5. SubSeq(events, sent + 1, Len(events)) \in Seq(Event)
  BY <1>1, <1>3, <1>4, SubSeqProperties
<1>6. QED
  BY <1>5 DEF Fresh, sent, old

\* Receiving a prefix of the fresh events keeps a connection well typed.
LEMMA ReceivedIsConnection ==
  ASSUME NEW conn \in StreamState, NEW fresh \in Seq(Event), NEW n \in 0..Len(fresh)
  PROVE  Received(conn, fresh, n) \in StreamState
<1>1. Len(fresh) \in Nat
  BY LenProperties
<1>2. \A i \in 1..Len(fresh) : fresh[i] \in Event /\ fresh[i].sequence \in Nat
  <2>1. \A i \in 1..Len(fresh) : fresh[i] \in Event
    BY ElementOfSeq
  <2>2. QED
    BY <2>1 DEF Event
<1>3. SubSeq(fresh, 1, n) \in Seq(Event)
  BY <1>1, <1>2, SubSeqProperties
<1>4. conn.seen \o SubSeq(fresh, 1, n) \in Seq(Event)
  BY <1>3, ConcatProperties DEF StreamState
<1>5. (IF n = 0 THEN conn.cursor ELSE fresh[n].sequence) \in Nat
  BY <1>1, <1>2 DEF StreamState
<1> DEFINE seen == conn.seen \o SubSeq(fresh, 1, n)
           cursor == IF n = 0 THEN conn.cursor ELSE fresh[n].sequence
<1>6. Received(conn, fresh, n) = [conn EXCEPT !.seen = seen, !.cursor = cursor]
  BY DEF Received
<1> HIDE DEF seen, cursor
<1>7. seen \in Seq(Event) /\ cursor \in Nat
  BY <1>4, <1>5 DEF seen, cursor
<1>8. QED
  BY <1>6, <1>7 DEF StreamState

\* Polling, completely or up to a broken connection, keeps the invariant.
LEMMA StreamStepIInv ==
  ASSUME NEW c \in Clients, IInv, StreamStep(c)
  PROVE  IInv'
<1>1. stream[c] \in StreamState /\ stream[c].cursor \in Nat /\ stream[c].seen \in Seq(Event)
  BY DEF IInv, TypeOK, StreamState
<1>2. UNCHANGED <<storeVars, runs, req, queue, worker, restarts>>
  BY DEF StreamStep, OpenStream, Poll, BreakStream, LoseStream, ResumeStream
<1>3. ASSUME NEW r \in RunIds, OpenStream(c, r)
      PROVE  IInv'
  <2> DEFINE conn == [stream[c] EXCEPT !.state = "open", !.run = r]
  <2>1. conn \in StreamState
    <3>1. r \in 0..RunBound /\ r # 0
      BY CoordinatorAssumption DEF RunIds
    <3>2. QED
      BY <3>1, <1>1 DEF StreamState
  <2>2. stream' = [stream EXCEPT ![c] = conn]
    BY <1>3 DEF OpenStream, IInv, TypeOK
  <2> HIDE DEF conn
  <2>3. QED
    BY <2>1, <2>2, <1>2, ConnectionStep
<1> DEFINE record == runs[stream[c].run]
           fresh == Fresh(record.events, stream[c].cursor)
<1>4. ASSUME Stored(stream[c].run), stream[c].run \in RunIds
      PROVE  fresh \in Seq(Event)
  <2>1. record.events \in Seq(Event)
    BY <1>4, StoredIsRecord DEF IInv, Record
  <2>2. QED
    BY <2>1, <1>1, FreshIsLog
<1>5. ASSUME stream[c].state # "idle", Stored(stream[c].run), NEW n \in 0..Len(fresh),
             NEW conn \in StreamState, conn = Received(stream[c], fresh, n)
      PROVE  /\ conn.breaks = stream[c].breaks
             /\ conn.run = stream[c].run /\ conn.run # 0
  BY <1>1, <1>5 DEF Received, StreamState
<1>6. CASE Poll(c)
  <2> DEFINE got == Received(stream[c], fresh, Len(fresh))
  <2>1. stream[c].state = "open" /\ Stored(stream[c].run) /\ stream[c].run \in RunIds
    BY <1>1, <1>6 DEF Poll, StreamState, RunIds
  <2>2. fresh \in Seq(Event) /\ Len(fresh) \in 0..Len(fresh)
    <3>1. fresh \in Seq(Event)
      BY <1>4, <2>1
    <3>2. QED
      BY <3>1, LenProperties
  <2>3. got \in StreamState
    BY <1>1, <2>2, ReceivedIsConnection
  <2>4. PICK state \in {"open", "ended"} :
          stream' = [stream EXCEPT ![c] = [got EXCEPT !.state = state]]
    BY <1>6, <1>1 DEF Poll, IInv, TypeOK
  <2>5. got.run # 0
    BY <2>1, <2>2, <2>3, <1>5
  <2> HIDE DEF got
  <2>6. [got EXCEPT !.state = state] \in StreamState
    BY <2>3, <2>5 DEF StreamState
  <2>7. QED
    BY <2>4, <2>6, <1>2, ConnectionStep
<1>7. CASE BreakStream(c)
  <2>1. stream[c].state = "open" /\ Stored(stream[c].run) /\ stream[c].run \in RunIds
    BY <1>1, <1>7 DEF BreakStream, StreamState, RunIds
  <2>2. fresh \in Seq(Event)
    BY <1>4, <2>1
  <2>3. PICK n \in 0..Len(fresh) :
          stream' = [stream EXCEPT ![c] =
            [Received(stream[c], fresh, n) EXCEPT !.state = "broken", !.breaks = @ + 1]]
    BY <1>7, <1>1 DEF BreakStream, IInv, TypeOK
  <2> DEFINE got == Received(stream[c], fresh, n)
  <2>4. got \in StreamState
    BY <1>1, <2>2, ReceivedIsConnection
  <2>5. got.run # 0 /\ got.breaks = stream[c].breaks
    BY <2>1, <2>4, <1>5
  <2>6. got.breaks + 1 \in 0..BreakBound
    <3>1. stream[c].breaks \in 0..BreakBound
      BY <1>1 DEF StreamState
    <3>2. stream[c].breaks < BreakBound
      BY <1>7 DEF BreakStream
    <3>3. QED
      BY <3>1, <3>2, <2>5, CoordinatorAssumption
  <2> HIDE DEF got
  <2>7. [got EXCEPT !.state = "broken", !.breaks = @ + 1] \in StreamState
    BY <2>4, <2>5, <2>6 DEF StreamState
  <2>8. stream' = [stream EXCEPT ![c] = [got EXCEPT !.state = "broken", !.breaks = @ + 1]]
    BY <2>3 DEF got
  <2>9. QED
    BY <2>7, <2>8, <1>2, ConnectionStep
<1>8. CASE LoseStream(c)
  <2> DEFINE conn == [stream[c] EXCEPT !.state = "lost"]
  <2>1. conn \in StreamState
    BY <1>1, <1>8 DEF LoseStream, StreamState
  <2>2. stream' = [stream EXCEPT ![c] = conn]
    BY <1>8 DEF LoseStream, IInv, TypeOK
  <2> HIDE DEF conn
  <2>3. QED
    BY <2>1, <2>2, <1>2, ConnectionStep
<1>9. CASE ResumeStream(c)
  <2> DEFINE conn == [stream[c] EXCEPT !.state = "open",
                                       !.cursor = LastSequence(stream[c].seen)]
  <2>1. LastSequence(stream[c].seen) \in Nat
    <3>1. CASE stream[c].seen = <<>>
      BY <3>1 DEF LastSequence
    <3>2. CASE stream[c].seen # <<>>
      <4>1. Len(stream[c].seen) \in 1..Len(stream[c].seen)
        BY <1>1, <3>2, LenProperties, EmptySeq
      <4>2. stream[c].seen[Len(stream[c].seen)] \in Event
        BY <4>1, <1>1, ElementOfSeq
      <4>3. QED
        BY <4>2, <3>2 DEF LastSequence, Event
    <3>3. QED
      BY <3>1, <3>2
  <2>2. conn \in StreamState
    BY <2>1, <1>1, <1>9 DEF ResumeStream, StreamState
  <2>3. stream' = [stream EXCEPT ![c] = conn]
    BY <1>9 DEF ResumeStream, IInv, TypeOK
  <2> HIDE DEF conn
  <2>4. QED
    BY <2>2, <2>3, <1>2, ConnectionStep
<1>10. QED
  BY <1>3, <1>6, <1>7, <1>8, <1>9 DEF StreamStep

\* A restart ends every thread and empties the queue.
LEMMA RestartIInv == IInv /\ Restart => IInv'
<1> SUFFICES ASSUME IInv, Restart PROVE IInv'
  OBVIOUS
<1>1. /\ req' = NoRequest /\ queue' = <<>> /\ UNCHANGED <<nextSession, nextRun>>
      /\ restarts' \in 0..RestartBound
  <2>1. /\ req' = NoRequest /\ queue' = <<>> /\ UNCHANGED <<nextSession, nextRun>>
        /\ restarts < RestartBound /\ restarts' = restarts + 1
    BY DEF Restart
  <2>2. restarts \in 0..RestartBound /\ RestartBound \in Nat
    BY CoordinatorAssumption DEF IInv, TypeOK
  <2>3. QED
    BY <2>1, <2>2
<1>2. ASSUME NEW r \in RunIds
      PROVE  /\ worker'[r] \in WorkerState
             /\ worker'[r].todo = worker[r].todo
             /\ worker'[r].pc = "dead" \/ (worker'[r] = worker[r] /\ r >= nextRun)
             /\ r >= nextRun => worker'[r] = worker[r]
  <2>1. worker[r] \in WorkerState
    BY DEF IInv, TypeOK
  <2>2. worker'[r] = IF r < nextRun THEN [worker[r] EXCEPT !.pc = "dead"] ELSE worker[r]
    BY DEF Restart
  <2>3. QED
    <3>1. r \in Int /\ nextRun \in Int
      BY CoordinatorAssumption DEF RunIds, IInv, TypeOK
    <3>2. [worker[r] EXCEPT !.pc = "dead"] \in WorkerState
      BY <2>1 DEF WorkerState
    <3>3. CASE r < nextRun
      BY <2>1, <2>2, <3>1, <3>2, <3>3 DEF WorkerState
    <3>4. CASE ~(r < nextRun)
      BY <2>1, <2>2, <3>1, <3>4
    <3>5. QED
      BY <3>3, <3>4
<1>3. worker' \in [RunIds -> WorkerState]
  BY <1>2 DEF Restart
<1>4. ASSUME NEW c \in Clients
      PROVE  stream'[c] \in StreamState
  <2>1. stream[c] \in StreamState
    BY DEF IInv, TypeOK
  <2>2. stream'[c] = IF stream[c].state = "open"
                     THEN [stream[c] EXCEPT !.state = "broken"] ELSE stream[c]
    BY DEF Restart
  <2>3. QED
    BY <2>1, <2>2 DEF StreamState
<1>5. stream' \in [Clients -> StreamState]
  BY <1>4 DEF Restart
<1>6. /\ sessions' \subseteq SessionIds
      /\ runs' \in [RunIds -> Record \cup {NoRecord}]
      /\ clientRuns' \in [SessionIds \X Messages -> 0..RunBound]
      /\ \A r \in RunIds : runs'[r] = runs[r] \/ runs'[r] = NoRecord
  <2>1. /\ sessions \subseteq SessionIds
        /\ runs \in [RunIds -> Record \cup {NoRecord}]
        /\ clientRuns \in [SessionIds \X Messages -> 0..RunBound]
    BY DEF IInv, TypeOK
  <2>2. CASE StoreKind = "memory"
    <3>1. /\ sessions' = {} /\ runs' = [r \in RunIds |-> NoRecord]
          /\ clientRuns' = [key \in SessionIds \X Messages |-> 0]
      BY <2>2 DEF Restart
    <3>2. 0 \in 0..RunBound
      BY CoordinatorAssumption
    <3>3. clientRuns' \in [SessionIds \X Messages -> 0..RunBound]
      BY <3>1, <3>2
    <3>4. QED
      BY <3>1, <3>3
  <2>3. CASE StoreKind # "memory"
    BY <2>1, <2>3 DEF Restart
  <2>4. QED
    BY <2>2, <2>3
<1>7. TypeOK'
  BY <1>1, <1>3, <1>5, <1>6, CoordinatorAssumption, EmptySeq DEF IInv, TypeOK, NoRequest
<1>8. LogWellFormed'
  BY <1>6 DEF IInv, LogWellFormed, Stored, NoRecord
<1>9. TodoOK'
  BY <1>2 DEF IInv, TodoOK, HoldsEvent
<1>10. RequestOK' /\ QueueOK'
  BY <1>1, EmptySeq DEF RequestOK, QueueOK, NoRequest
<1>11. FreshUnused'
  BY <1>1, <1>2, <1>6 DEF IInv, FreshUnused, Stored, NoRecord
<1>12. FinalRests'
  BY <1>2, <1>6 DEF IInv, FinalRests, RestsIfFinal, FreshUnused, Stored, NoRecord
<1>13. QED
  BY <1>7, <1>8, <1>9, <1>10, <1>11, <1>12 DEF IInv

\* Expiry forgets sessions, finished runs and message keys.
LEMMA ExpireIInv == IInv /\ Expire => IInv'
<1> SUFFICES ASSUME IInv, Expire PROVE IInv'
  OBVIOUS
<1>1. ASSUME NEW s \in SessionIds, ExpireSession(s)
      PROVE  IInv'
  <2>1. UNCHANGED <<nextSession, runs, nextRun, clientRuns, req, queue, worker, stream, restarts>>
    BY <1>1 DEF ExpireSession
  <2>2. TypeOK' /\ RequestOK'
    BY <1>1, <2>1 DEF ExpireSession, IInv, TypeOK, RequestOK
  <2>3. QED
    BY <2>1, <2>2, QuietStep
<1>2. ASSUME NEW s \in SessionIds, NEW m \in Messages, ExpireClientRun(s, m)
      PROVE  IInv'
  <2>1. UNCHANGED <<sessions, nextSession, runs, nextRun, req, queue, worker, stream, restarts>>
    BY <1>2 DEF ExpireClientRun
  <2>2. clientRuns' \in [SessionIds \X Messages -> 0..RunBound]
    BY <1>2, CoordinatorAssumption DEF ExpireClientRun, IInv, TypeOK
  <2>3. TypeOK' /\ RequestOK'
    BY <2>1, <2>2 DEF IInv, TypeOK, RequestOK
  <2>4. QED
    BY <2>1, <2>3, QuietStep
<1>3. ASSUME NEW r \in RunIds, ExpireRun(r)
      PROVE  IInv'
  <2>1. UNCHANGED <<sessions, nextSession, nextRun, clientRuns, req, queue, worker, stream, restarts>>
    BY <1>3 DEF ExpireRun, storeVars
  <2>2. /\ runs' \in [RunIds -> Record \cup {NoRecord}]
        /\ \A q \in RunIds : runs'[q] = runs[q] \/ runs'[q] = NoRecord
    BY <1>3 DEF ExpireRun, IInv, TypeOK
  <2>3. TypeOK'
    BY <2>1, <2>2 DEF IInv, TypeOK
  <2>4. LogWellFormed' /\ FreshUnused' /\ FinalRests'
    BY <2>1, <2>2 DEF IInv, LogWellFormed, FreshUnused, FinalRests, RestsIfFinal, Stored, NoRecord
  <2>5. TodoOK' /\ RequestOK' /\ QueueOK'
    BY <2>1 DEF IInv, TodoOK, HoldsEvent, RequestOK, QueueOK
  <2>6. QED
    BY <2>3, <2>4, <2>5 DEF IInv
<1>4. QED
  BY <1>1, <1>2, <1>3 DEF Expire

\* A step of a run's own thread.
LEMMA TurnStepIInv ==
  ASSUME NEW r \in RunIds, IInv, TurnStep(r)
  PROVE  IInv'
  BY PlanIInv, EmitCheckIInv, EmitAppendIInv, TurnReturnsIInv, TurnRaisesIInv,
     ProjectCheckIInv, ProjectAppendIInv, FailCheckIInv, FailAppendIInv, CheckRaisesIInv
     DEF TurnStep

\* Nothing changes in a stuttering step.
LEMMA StutterIInv == IInv /\ UNCHANGED vars => IInv'
<1> SUFFICES ASSUME IInv, UNCHANGED vars PROVE IInv'
  OBVIOUS
<1>1. TypeOK' /\ RequestOK' /\ UNCHANGED <<runs, worker, queue, nextRun>>
  BY DEF vars, IInv, TypeOK, RequestOK
<1>2. QED
  BY <1>1, QuietStep

\* Every step of the coordinator preserves the inductive invariant.
LEMMA NextIInv == IInv /\ [Next]_vars => IInv'
<1> SUFFICES ASSUME IInv, [Next]_vars PROVE IInv'
  OBVIOUS
<1>1. CASE CreateSession
  BY <1>1, CreateSessionIInv
<1>2. ASSUME NEW s \in SessionIds, NEW m \in Messages, StartRun(s, m)
      PROVE  IInv'
  BY <1>2, StartRunIInv
<1>3. CASE SaveClientRun
  BY <1>3, SaveClientRunIInv
<1>4. CASE Submit \/ StartRaises
  BY <1>4, SubmitIInv, StartRaisesIInv
<1>5. ASSUME NEW r \in RunIds, Cancel(r) \/ TurnStep(r)
      PROVE  IInv'
  BY <1>5, CancelIInv, TurnStepIInv
<1>6. ASSUME NEW c \in Clients, StreamStep(c)
      PROVE  IInv'
  BY <1>6, StreamStepIInv
<1>7. CASE Restart
  BY <1>7, RestartIInv
<1>8. CASE Expire
  BY <1>8, ExpireIInv
<1>9. CASE UNCHANGED vars
  BY <1>9, StutterIInv
<1>10. QED
  BY <1>1, <1>2, <1>3, <1>4, <1>5, <1>6, <1>7, <1>8, <1>9 DEF Next

-----------------------------------------------------------------------------
(***************************************************************************)
(* Theorems of the specification.                                          *)
(***************************************************************************)
\* The strengthened invariant holds in every reachable state.
THEOREM Invariance == Spec => []IInv
<1>1. Init => IInv
  BY InitIInv
<1>2. IInv /\ [Next]_vars => IInv'
  BY NextIInv
<1>3. QED
  BY <1>1, <1>2, PTL DEF Spec

\* Types: no interleaving of requests, threads, streams, restarts and expiry
\* gives a run a status or an event that is none.
THEOREM TypeCorrect == Spec => []TypeOK
<1>1. IInv => TypeOK
  BY DEF IInv
<1>2. QED
  BY <1>1, Invariance, PTL

\* Every stored log begins with run.started, stays within max_events and has
\* consecutive sequence numbers behind its head, however it was trimmed.
THEOREM LogsWellFormed == Spec => []LogWellFormed
<1>1. IInv => LogWellFormed
  BY DEF IInv
<1>2. QED
  BY <1>1, Invariance, PTL

\* What an append does to the statuses: the appending thread's run was not failed, and
\* completed only before a store that raises.
LEMMA AppendKeepsOutcomes ==
  ASSUME IInv, NEW r \in RunIds, NEW ev, NEW found, NEW missing,
         AppendEvent(r, ev, found, missing),
         runs[r].status # "failed", runs[r].status = "completed" => StoreRaises,
         NEW q \in RunIds, \/ runs[q].status = "failed"
                           \/ ~StoreRaises /\ runs[q].status = "completed"
  PROVE  runs'[q] = runs[q]
  BY DEF AppendEvent, IInv, TypeOK

\* No step reopens a failed run, nor a completed one unless the store raises.
LEMMA StepKeepsOutcomes ==
  ASSUME IInv, [Next]_vars,
         NEW q \in RunIds, \/ runs[q].status = "failed"
                           \/ ~StoreRaises /\ runs[q].status = "completed"
  PROVE  runs'[q].status \in {runs[q].status, "absent"}
<1>1. ASSUME NEW s \in SessionIds, NEW m \in Messages, StartRun(s, m)
      PROVE  runs'[q].status \in {runs[q].status, "absent"}
  <2>1. q # nextRun
    BY DEF IInv, FreshUnused, Stored, TypeOK, RunIds
  <2>2. runs'[q] = runs[q] \/ runs'[q] = NoRecord
    BY <2>1, <1>1 DEF StartRun, NewRun
  <2>3. QED
    BY <2>2 DEF NoRecord
<1>2. ASSUME NEW r \in RunIds, Cancel(r)
      PROVE  runs'[q] = runs[q]
  BY <1>2 DEF Cancel, TERMINAL_RUN_STATUSES, IInv, TypeOK
<1>3. ASSUME NEW r \in RunIds, TurnStep(r)
      PROVE  runs'[q] = runs[q]
  <2>1. CASE Plan(r)
    <3>1. queue # <<>> /\ queue \in Seq(RunIds) /\ Head(queue) = r
      BY <2>1 DEF Plan, IInv, TypeOK
    <3>2. 1 \in 1..Len(queue) /\ queue[1] = r
      BY <3>1, EmptySeq, LenProperties, HeadTailProperties
    <3>3. worker[r].pc = "queued"
      BY <3>2 DEF IInv, QueueOK
    <3>4. QED
      BY <2>1, <3>3, OutcomeOpen, AppendKeepsOutcomes DEF Plan
  <2>2. CASE EmitAppend(r)
    BY <2>2, OutcomeOpen, AppendKeepsOutcomes DEF EmitAppend
  <2>3. CASE ProjectAppend(r)
    BY <2>3, OutcomeOpen, AppendKeepsOutcomes DEF ProjectAppend
  <2>4. CASE FailAppend(r)
    BY <2>4, FailingOpen, AppendKeepsOutcomes DEF FailAppend
  <2>5. QED
    BY <1>3, <2>1, <2>2, <2>3, <2>4
    DEF TurnStep, EmitCheck, TurnReturns, TurnRaises, ProjectCheck, FailCheck, CheckRaises
<1>4. ASSUME NEW c \in Clients, StreamStep(c)
      PROVE  runs' = runs
  BY <1>4 DEF StreamStep, OpenStream, Poll, BreakStream, LoseStream, ResumeStream
<1>5. CASE Restart
  BY <1>5 DEF Restart, NoRecord
<1>6. CASE Expire
  <2>1. \/ runs' = runs
        \/ \E r \in RunIds : runs' = [runs EXCEPT ![r] = NoRecord]
    BY <1>6 DEF Expire, ExpireSession, ExpireRun, ExpireClientRun
  <2>2. NoRecord.status = "absent"
    BY DEF NoRecord
  <2>3. QED
    BY <2>1, <2>2 DEF IInv, TypeOK
<1>7. CASE CreateSession \/ SaveClientRun \/ StartRaises \/ Submit \/ UNCHANGED vars
  BY <1>7 DEF CreateSession, SaveClientRun, StartRaises, Submit, vars
<1>8. QED
  BY <1>1, <1>2, <1>3, <1>4, <1>5, <1>6, <1>7 DEF Next

\* A failed run keeps its outcome for as long as it is stored, in any store; a completed
\* one in the memory store.  In the others the completion may be written by a save_run
\* that raises, and the except clause puts the error over it (agent_run_coordinator.py).
THEOREM OutcomesFinal ==
  Spec => /\ FailureIsFinal
          /\ StoreKind = "memory" => OutcomeIsFinal
<1>1. IInv /\ [Next]_vars =>
        [\A r \in RunIds : runs[r].status = "failed" =>
           runs'[r].status \in {"failed", "absent"}]_vars
  BY StepKeepsOutcomes
<1>2. ASSUME StoreKind = "memory"
      PROVE  IInv /\ [Next]_vars =>
               [\A r \in RunIds : runs[r].status \in {"completed", "failed"} =>
                  runs'[r].status \in {runs[r].status, "absent"}]_vars
  BY <1>2, StepKeepsOutcomes DEF StoreRaises
<1>3. Spec => FailureIsFinal
  BY <1>1, Invariance, PTL DEF Spec, FailureIsFinal
<1>4. ASSUME StoreKind = "memory" PROVE Spec => OutcomeIsFinal
  BY <1>2, <1>4, Invariance, PTL DEF Spec, OutcomeIsFinal
<1>5. QED
  BY <1>3, <1>4
-----------------------------------------------------------------------------
(***************************************************************************)
(* A second invariant, relative to the first: what the end of a run's log  *)
(* says of its status, its thread and its cancellations.  `rec` is the     *)
(* record of a run and w its thread.  The positions it names survive       *)
(* trimming from max_events 4 on.                                          *)
(***************************************************************************)
End(rec) == Len(rec.events)

\* The event k places before the last of the log.
Back(rec, k) == rec.events[End(rec) - k].ev

CancelEvents(events) == {i \in DOMAIN events : events[i].ev = CancelledEv}

\* A thread that will append, whatever becomes of the run meanwhile.
Committed(w) == w.pc \in {"idle", "queued", "appending", "delivering", "reporting"}

\* The last event shows in the status, and a failure is the last event.
LastShown(rec) ==
  /\ SetsStatus(Back(rec, 0)) => rec.status = Back(rec, 0).status
  /\ rec.status = "failed" => Back(rec, 0) = FailedEv

\* Without a cancellation no event of one; with one, what may still be appended.
CancelBudget(rec, w) ==
  LET cancels == Cardinality(CancelEvents(rec.events))
  IN /\ ~rec.cancelRequested => CancelEvents(rec.events) = {} /\ rec.status # "cancelled"
     /\ rec.cancelRequested =>
          /\ Cardinality(LateEvents(rec.events)) <= 1 /\ cancels <= 2
          /\ Committed(w) => /\ LateEvents(rec.events) = {} /\ Back(rec, 0) = CancelledEv
                             /\ rec.status = "cancelled"
          /\ Committed(w) \/ rec.status \notin TERMINAL_RUN_STATUSES => cancels <= 1

\* A cancelled run ends in its cancellation, in that and a late event, or in both and
\* a second cancellation.
CancelShown(rec) ==
  rec.cancelRequested =>
    \/ LateEvents(rec.events) = {} /\ Back(rec, 0) = CancelledEv
    \/ End(rec) >= 3 /\ Back(rec, 1) = CancelledEv /\ Back(rec, 0) # CancelledEv
    \/ End(rec) >= 4 /\ Back(rec, 2) = CancelledEv /\ Back(rec, 1) # CancelledEv
       /\ Back(rec, 0) = CancelledEv

\* A thread emits only once it is planned, and what it projects ends with the answer
\* and run.completed.
ThreadAt(w) ==
  LET n == Len(w.todo)
  IN /\ w.pc \in {"idle", "queued"} => w.emits = 0
     /\ w.emits = 0 => ~w.responding
     /\ w.pc \in {"projecting", "delivering"} =>
          /\ n >= 1 => w.todo[n] = CompletedEv
          /\ n >= 2 => w.todo[n - 1] = RespCompletedEv
          /\ \A i \in 1..(n - 1) : w.todo[i] \in {SceneEv, RespStartedEv, DeltaEv, RespCompletedEv}

\* The answer is in the log once run.completed alone is left.
AnswerLogged(rec, w) ==
  w.pc \in {"projecting", "delivering"} /\ Len(w.todo) = 1 =>
    \/ End(rec) >= 2 /\ Back(rec, 0) = RespCompletedEv
    \/ End(rec) >= 3 /\ Back(rec, 1) = RespCompletedEv /\ Back(rec, 0) = CancelledEv

AnswerShown(rec) ==
  rec.status = "completed" =>
    /\ End(rec) >= 3 /\ Back(rec, 0) = CompletedEv
    /\ \/ Back(rec, 1) = RespCompletedEv
       \/ End(rec) >= 4 /\ Back(rec, 1) = CancelledEv /\ Back(rec, 2) = RespCompletedEv

\* Until it is cancelled the status follows the thread.
StatusAt(rec, w) ==
  LET reached == IF w.responding THEN "streaming" ELSE "executing"
  IN ~rec.cancelRequested =>
       /\ w.pc \in {"idle", "queued"} => rec.status = "queued"
       /\ w.pc = "emitting" => rec.status = IF w.emits = 0 THEN "planning" ELSE reached
       /\ w.pc = "appending" =>
            \/ w.todo[1] = ExecutingEv /\ w.emits = 1 /\ ~w.responding /\ rec.status = "planning"
            \/ w.todo[1] \in ToolEvs /\ w.emits > 1 /\ rec.status = reached
            \/ w.todo[1] = RespStartedEv /\ w.emits > 1 /\ w.responding /\ rec.status = "executing"
            \/ w.todo[1] = DeltaEv /\ w.emits > 1 /\ w.responding /\ rec.status = "streaming"
       /\ w.pc \in {"projecting", "delivering"} =>
            \/ rec.status \in {"executing", "streaming"}
            \/ w.todo = <<>> /\ rec.status = "completed"
       /\ w.pc \in {"failing", "reporting"} =>
            \/ rec.status \in {"queued", "planning", "executing", "streaming"}
            \/ StoreRaises /\ rec.status = "completed"

LogOf(rec, w) ==
  /\ ThreadAt(w)
  /\ rec.status # "absent" =>
       /\ LastShown(rec) /\ CancelBudget(rec, w) /\ StatusAt(rec, w)
       /\ MaxEvents >= 4 => CancelShown(rec) /\ AnswerLogged(rec, w) /\ AnswerShown(rec)

LogsAt == \A r \in RunIds : LogOf(runs[r], worker[r])

-----------------------------------------------------------------------------
(***************************************************************************)
(* And what a browser has received of a run.                               *)
(***************************************************************************)
Increasing(events) == \A i, j \in 1..Len(events) : i < j => events[i].sequence < events[j].sequence

Listed(e, events) == \E i \in 1..Len(events) : events[i] = e

\* Every event of the log up to the last one received was received.
Covers(seen, log) ==
  /\ LastSequence(seen) <= LastSequence(log)
  /\ \A i \in 1..Len(log) : log[i].sequence <= LastSequence(seen) => Listed(log[i], seen)

InOrder(conn) ==
  /\ conn.state = "idle" => conn.seen = <<>> /\ conn.cursor = 0
  /\ conn.state = "open" => conn.cursor = LastSequence(conn.seen)
  /\ Increasing(conn.seen)

HeardOK ==
  \A c \in Clients :
    /\ InOrder(stream[c])
    /\ stream[c].state # "idle" =>
         /\ stream[c].run < nextRun
         /\ Stored(stream[c].run) => Covers(stream[c].seen, runs[stream[c].run].events)

-----------------------------------------------------------------------------
(***************************************************************************)
(* And which run answers a message.                                        *)
(***************************************************************************)
SameMessage(q, r) ==
  runs[q].session = runs[r].session /\ runs[q].message = runs[r].message

\* Its thread has not come to rest.
Alive(r) == worker[r].pc \notin {"done", "dead"}

\* A run that is alive is the one its message key names, once that is saved; Postgres
\* finds it by the message itself.
Keyed ==
  \A r \in RunIds : Stored(r) /\ Alive(r) /\ StoreKind # "postgres" =>
    \/ clientRuns[<<runs[r].session, runs[r].message>>] = r
    \/ req.step = "saved" /\ req.run = r

OneAlive ==
  \A q, r \in RunIds :
    Stored(q) /\ Stored(r) /\ SameMessage(q, r) /\ (StoreKind = "postgres" \/ (Alive(q) /\ Alive(r)))
      => q = r

(***************************************************************************)
(* What an append makes of a log: all of it, or all but its second event,  *)
(* and the new event.                                                      *)
(***************************************************************************)
LEMMA AppendedLog ==
  ASSUME NEW record \in Record, WellFormedLog(record.events), NEW ev \in Evs, ev # StartedEv
  PROVE  LET old == record.events
             kept == AppendLocked(record, ev).events
         IN /\ old \in Seq(Event) /\ Len(old) \in 1..MaxEvents
            /\ kept \in Seq(Event) /\ Len(kept) \in 2..MaxEvents
            /\ kept[1] = old[1]
            /\ kept[Len(kept)].ev = ev
            /\ kept[Len(kept)].sequence = LastSequence(old) + 1
            /\ \E d \in 0..1 :
                 /\ Len(kept) = Len(old) + 1 - d
                 /\ d = 1 => Len(old) = MaxEvents
                 /\ \A i \in 2..(Len(kept) - 1) : kept[i] = old[i + d]
<1> DEFINE old == record.events
           new == [ev |-> ev, sequence |-> LastSequence(old) + 1]
           log == Append(old, new)
           kept == Trimmed(log)
<1>1. MaxEvents \in Nat /\ MaxEvents >= 2
  BY CoordinatorAssumption
<1>2. old \in Seq(Event) /\ Len(old) \in 1..MaxEvents /\ old # <<>>
  BY <1>1 DEF Record, WellFormedLog
<1>3. new \in Event /\ new.ev = ev /\ new.sequence = LastSequence(old) + 1
  <2>1. old[Len(old)] \in Event
    BY <1>1, <1>2, ElementOfSeq
  <2>2. QED
    BY <2>1, <1>2 DEF LastSequence, Event
<1>4. /\ log \in Seq(Event) /\ Len(log) = Len(old) + 1
      /\ \A i \in 1..Len(old) : log[i] = old[i]
      /\ log[Len(old) + 1] = new
  <2> HIDE DEF new, old
  <2>1. QED
    BY <1>2, <1>3, AppendProperties
<1>5. log[1].ev = StartedEv /\ \A i \in 2..Len(log) : log[i].ev # StartedEv
  <2>1. old[1].ev = StartedEv /\ \A i \in 2..Len(old) : old[i].ev # StartedEv
    BY DEF WellFormedLog
  <2> HIDE DEF old, log, new
  <2>2. QED
    BY <1>1, <1>2, <1>3, <1>4, <2>1
<1>6. AppendLocked(record, ev).events = kept
  BY DEF AppendLocked, Record
<1> HIDE DEF old, log, new, kept
<1>7. CASE Len(log) <= MaxEvents
  <2>1. kept = log
    BY <1>7 DEF Trimmed, kept
  <2>2. /\ kept \in Seq(Event) /\ Len(kept) = Len(old) + 1 /\ Len(kept) \in 2..MaxEvents
        /\ kept[1] = old[1] /\ kept[Len(kept)] = new
        /\ \A i \in 2..(Len(kept) - 1) : kept[i] = old[i]
    BY <1>1, <1>2, <1>4, <1>7, <2>1
  <2>3. 0 \in 0..1 /\ Len(kept) = Len(old) + 1 - 0 /\ 0 # 1
        /\ \A i \in 2..(Len(kept) - 1) : kept[i] = old[i + 0]
    BY <1>2, <2>2
  <2>4. QED
    BY <1>2, <1>3, <1>6, <2>2, <2>3 DEF old
<1>8. CASE Len(log) = MaxEvents + 1
  <2>1. /\ kept \in Seq(Event) /\ Len(kept) = MaxEvents /\ kept[1] = log[1]
        /\ \A i \in 2..MaxEvents : kept[i] = log[i + 1]
    BY <1>4, <1>5, <1>8, TrimmedShape DEF kept
  <2>2. /\ Len(old) = MaxEvents /\ kept[1] = old[1] /\ kept[Len(kept)] = new
        /\ Len(kept) \in 2..MaxEvents
    BY <1>1, <1>2, <1>4, <1>8, <2>1
  <2>3. \A i \in 2..(Len(kept) - 1) : kept[i] = old[i + 1]
    BY <1>1, <1>4, <2>1, <2>2
  <2>4. 1 \in 0..1 /\ Len(kept) = Len(old) + 1 - 1
    BY <1>1, <2>1, <2>2
  <2>5. QED
    BY <1>2, <1>3, <1>6, <2>1, <2>2, <2>3, <2>4 DEF old
<1>9. Len(log) <= MaxEvents \/ Len(log) = MaxEvents + 1
  <2>1. Len(log) = Len(old) + 1 /\ Len(old) \in 1..MaxEvents /\ MaxEvents \in Nat
    BY <1>1, <1>2, <1>4
  <2>2. QED
    BY <2>1
<1>10. QED
  BY <1>7, <1>8, <1>9

\* The last events of the log an append leaves.
LEMMA AppendedEnd ==
  ASSUME NEW record \in Record, WellFormedLog(record.events), NEW ev \in Evs, ev # StartedEv
  PROVE  LET old == record.events
             kept == AppendLocked(record, ev).events
         IN /\ Len(old) \in 1..MaxEvents /\ Len(kept) \in 2..MaxEvents
            /\ Len(kept) = Len(old) + 1 \/ (Len(kept) = MaxEvents /\ Len(old) = MaxEvents)
            /\ kept[Len(kept)].ev = ev
            /\ \A k \in 1..(Len(kept) - 2) : kept[Len(kept) - k] = old[Len(old) + 1 - k]
            /\ \A i \in DOMAIN kept : i = Len(kept) \/ \E j \in DOMAIN old : kept[i] = old[j]
<1> DEFINE old == record.events
           kept == AppendLocked(record, ev).events
<1>1. /\ old \in Seq(Event) /\ Len(old) \in 1..MaxEvents
      /\ kept \in Seq(Event) /\ Len(kept) \in 2..MaxEvents
      /\ kept[1] = old[1] /\ kept[Len(kept)].ev = ev
  BY AppendedLog
<1>2. PICK d \in 0..1 :
        /\ Len(kept) = Len(old) + 1 - d
        /\ d = 1 => Len(old) = MaxEvents
        /\ \A i \in 2..(Len(kept) - 1) : kept[i] = old[i + d]
  BY AppendedLog
<1> HIDE DEF old, kept
<1>3. MaxEvents \in Nat /\ DOMAIN kept = 1..Len(kept) /\ DOMAIN old = 1..Len(old)
  BY <1>1, CoordinatorAssumption, LenProperties
<1> DEFINE m == Len(kept)
           n == Len(old)
<1>4. /\ MaxEvents \in Nat /\ n \in 1..MaxEvents /\ m \in 2..MaxEvents
      /\ m = n + 1 - d /\ (d = 1 => n = MaxEvents) /\ d \in 0..1
  BY <1>1, <1>2, <1>3
<1> HIDE DEF m, n
<1>8. m = n + 1 \/ (m = MaxEvents /\ n = MaxEvents)
  BY <1>4
<1>5. ASSUME NEW k \in 1..(Len(kept) - 2)
      PROVE  kept[Len(kept) - k] = old[Len(old) + 1 - k]
  <2>1. k \in 1..(m - 2)
    BY DEF m
  <2>2. m - k \in 2..(m - 1) /\ m - k + d = n + 1 - k
    BY <1>4, <2>1
  <2>3. \A i \in 2..(m - 1) : kept[i] = old[i + d]
    BY <1>2 DEF m
  <2>4. kept[m - k] = old[m - k + d]
    BY <2>2, <2>3
  <2>5. QED
    BY <2>2, <2>4 DEF m, n
<1>6. ASSUME NEW i \in DOMAIN kept
      PROVE  i = Len(kept) \/ \E j \in DOMAIN old : kept[i] = old[j]
  <2>1. CASE i = 1
    BY <1>1, <1>3, <2>1
  <2>2. CASE i \in 2..(Len(kept) - 1)
    <3>1. i \in 2..(m - 1)
      BY <2>2 DEF m
    <3>2. i + d \in 1..n
      BY <1>4, <3>1
    <3>3. i + d \in DOMAIN old
      BY <1>3, <3>2 DEF n
    <3>4. QED
      BY <1>2, <2>2, <3>3
  <2>3. CASE i = Len(kept)
    BY <2>3
  <2>4. QED
    BY <1>1, <1>3, <2>1, <2>2, <2>3
<1>7. QED
  BY <1>1, <1>5, <1>6, <1>8 DEF old, kept, m, n

\* A set of positions of the kept log that come from T in the old one has no more of them.
LEMMA Reindexed ==
  ASSUME NEW n \in Nat, NEW d \in 0..1, NEW S \in SUBSET (1..n), NEW T \in SUBSET Nat,
         IsFiniteSet(T), \A i \in S : IF i = 1 THEN 1 \in T ELSE i + d \in T
  PROVE  IsFiniteSet(S) /\ Cardinality(S) <= Cardinality(T)
<1> DEFINE f == [i \in S |-> IF i = 1 THEN 1 ELSE i + d]
<1>1. f \in [S -> T]
  OBVIOUS
<1>2. ASSUME NEW a \in S, NEW b \in S, f[a] = f[b] PROVE a = b
  <2>1. /\ a \in 1..n /\ b \in 1..n /\ d \in 0..1
        /\ (IF a = 1 THEN 1 ELSE a + d) = (IF b = 1 THEN 1 ELSE b + d)
    BY <1>2
  <2>2. QED
    BY <2>1
<1>3. f \in Injection(S, T)
  <2> HIDE DEF f
  <2>1. DOMAIN f = S /\ \A a, b \in S : f[a] = f[b] => a = b
    BY <1>1, <1>2
  <2>2. QED
    BY <1>1, <2>1, Zenon DEF Injection, IsInjective
<1>4. QED
  BY <1>3, FS_Injection

\* Cancellations in the log an append leaves.
LEMMA AppendedCancels ==
  ASSUME NEW record \in Record, WellFormedLog(record.events), NEW ev \in Evs, ev # StartedEv
  PROVE  LET old == CancelEvents(record.events)
             now == CancelEvents(AppendLocked(record, ev).events)
         IN /\ IsFiniteSet(old) /\ IsFiniteSet(now)
            /\ Cardinality(now) <= Cardinality(old) + 1
            /\ ev # CancelledEv => Cardinality(now) <= Cardinality(old)
<1> DEFINE log == record.events
           kept == AppendLocked(record, ev).events
           n == Len(kept)
           moved == CancelEvents(kept) \ {n}
<1>1. /\ log \in Seq(Event) /\ Len(log) \in 1..MaxEvents
      /\ kept \in Seq(Event) /\ n \in 2..MaxEvents
      /\ kept[1] = log[1] /\ kept[n].ev = ev
  BY AppendedLog
<1>2. PICK d \in 0..1 :
        /\ n = Len(log) + 1 - d
        /\ \A i \in 2..(n - 1) : kept[i] = log[i + d]
  BY AppendedLog
<1> HIDE DEF log, kept
<1>3. /\ MaxEvents \in Nat /\ n \in Nat /\ DOMAIN kept = 1..n /\ DOMAIN log = 1..Len(log)
  BY <1>1, CoordinatorAssumption, LenProperties
<1>4. CancelEvents(log) \subseteq 1..Len(log) /\ CancelEvents(kept) \subseteq 1..n
  BY <1>3 DEF CancelEvents
<1>5. IsFiniteSet(1..Len(log)) /\ IsFiniteSet(1..n)
  BY <1>1, <1>3, FS_Interval
<1>6. IsFiniteSet(CancelEvents(log)) /\ IsFiniteSet(CancelEvents(kept))
  BY <1>4, <1>5, FS_Subset
<1>7. moved \in SUBSET (1..n) /\ CancelEvents(log) \in SUBSET Nat
  BY <1>1, <1>4
<1>8. ASSUME NEW i \in moved
      PROVE  IF i = 1 THEN 1 \in CancelEvents(log) ELSE i + d \in CancelEvents(log)
  <2>1. i \in 1..(n - 1) /\ kept[i].ev = CancelledEv
    BY <1>3, <1>4 DEF CancelEvents
  <2>2. CASE i = 1
    BY <1>1, <1>3, <2>1, <2>2 DEF CancelEvents
  <2>3. CASE i # 1
    <3>1. i \in 2..(n - 1) /\ i + d \in 1..Len(log)
      BY <1>1, <1>2, <1>3, <2>1, <2>3
    <3>2. QED
      BY <1>2, <1>3, <2>1, <2>3, <3>1 DEF CancelEvents
  <2>4. QED
    BY <2>2, <2>3
<1>9. IsFiniteSet(moved) /\ Cardinality(moved) <= Cardinality(CancelEvents(log))
  BY <1>3, <1>6, <1>7, <1>8, Reindexed
<1>10. /\ Cardinality(CancelEvents(kept)) \in Nat /\ Cardinality(moved) \in Nat
       /\ Cardinality(CancelEvents(log)) \in Nat
  BY <1>6, <1>9, FS_CardinalityType
<1>11. Cardinality(CancelEvents(kept)) <= Cardinality(moved) + 1
  <2>1. Cardinality(moved) = IF n \in CancelEvents(kept) THEN Cardinality(CancelEvents(kept)) - 1
                             ELSE Cardinality(CancelEvents(kept))
    BY <1>6, FS_RemoveElement
  <2>2. QED
    BY <1>10, <2>1
<1>12. ev # CancelledEv => CancelEvents(kept) = moved
  BY <1>1 DEF CancelEvents
<1>13. Cardinality(CancelEvents(kept)) <= Cardinality(CancelEvents(log)) + 1
  BY <1>9, <1>10, <1>11
<1>14. ev # CancelledEv => Cardinality(CancelEvents(kept)) <= Cardinality(CancelEvents(log))
  BY <1>9, <1>12
<1>15. QED
  BY <1>6, <1>13, <1>14 DEF log, kept

\* Late events in the log an append leaves: none without a cancellation in the old log,
\* none more with one appended, at most the appended one if there were none.
LEMMA AppendedLate ==
  ASSUME NEW record \in Record, WellFormedLog(record.events), NEW ev \in Evs, ev # StartedEv
  PROVE  LET log == record.events
             kept == AppendLocked(record, ev).events
         IN /\ CancelEvents(log) = {} => LateEvents(kept) = {}
            /\ ev = CancelledEv => Cardinality(LateEvents(kept)) <= Cardinality(LateEvents(log))
            /\ LateEvents(log) = {} => /\ Cardinality(LateEvents(kept)) <= 1
                                       /\ ev = CancelledEv => LateEvents(kept) = {}
<1> DEFINE log == record.events
           kept == AppendLocked(record, ev).events
           n == Len(kept)
           moved == LateEvents(kept) \ {n}
<1>1. /\ log \in Seq(Event) /\ Len(log) \in 1..MaxEvents
      /\ kept \in Seq(Event) /\ n \in 2..MaxEvents
      /\ kept[1] = log[1] /\ kept[n].ev = ev
  BY AppendedLog
<1>2. PICK d \in 0..1 :
        /\ n = Len(log) + 1 - d
        /\ \A i \in 2..(n - 1) : kept[i] = log[i + d]
  BY AppendedLog
<1>3. log[1].ev = StartedEv
  BY DEF WellFormedLog
<1> HIDE DEF log, kept
<1>4. /\ MaxEvents \in Nat /\ n \in Nat /\ DOMAIN kept = 1..n /\ DOMAIN log = 1..Len(log)
  BY <1>1, CoordinatorAssumption, LenProperties
<1>5. LateEvents(log) \subseteq 1..Len(log) /\ LateEvents(kept) \subseteq 1..n
  BY <1>4 DEF LateEvents
<1>6. IsFiniteSet(1..Len(log)) /\ IsFiniteSet(1..n)
  BY <1>1, <1>4, FS_Interval
<1>7. IsFiniteSet(LateEvents(log)) /\ IsFiniteSet(LateEvents(kept))
  BY <1>5, <1>6, FS_Subset
<1>8. StartedEv # CancelledEv
  BY EvConstants
<1>9. ASSUME NEW i \in LateEvents(kept)
      PROVE  /\ \E j \in CancelEvents(log) : TRUE
             /\ i # n => i \in 2..(n - 1) /\ i + d \in LateEvents(log)
  <2>1. i \in 1..n /\ WorkerEvent(kept[i])
    BY <1>4 DEF LateEvents
  <2>2. PICK j \in 1..(i - 1) : kept[j].ev = CancelledEv
    BY DEF LateEvents
  <2>3. j \in 2..(n - 1) /\ j + d \in 1..Len(log)
    <3>1. j # 1
      BY <1>1, <1>3, <1>8, <2>2
    <3>2. j \in 1..(n - 1) /\ n = Len(log) + 1 - d /\ d \in 0..1 /\ Len(log) \in Nat
      BY <1>1, <1>2, <1>4, <2>1, <2>2
    <3>3. QED
      BY <3>1, <3>2
  <2>4. log[j + d].ev = CancelledEv
    BY <1>2, <2>2, <2>3
  <2>5. j + d \in CancelEvents(log)
    BY <1>4, <2>3, <2>4 DEF CancelEvents
  <2>6. ASSUME i # n
        PROVE  i \in 2..(n - 1) /\ i + d \in LateEvents(log)
    <3>1. i \in 2..(n - 1) /\ i + d \in 1..Len(log) /\ j + d \in 1..((i + d) - 1)
      <4>1. i \in 1..n /\ j \in 1..(i - 1) /\ j \in 2..(n - 1) /\ d \in 0..1 /\ n \in Nat
        BY <1>4, <2>1, <2>2, <2>3
      <4>2. n = Len(log) + 1 - d /\ Len(log) \in Nat
        BY <1>1, <1>2, <1>4
      <4>3. QED
        BY <4>1, <4>2, <2>6
    <3>2. kept[i] = log[i + d]
      BY <1>2, <3>1
    <3>3. QED
      BY <1>4, <2>1, <2>4, <3>1, <3>2 DEF LateEvents
  <2>7. QED
    BY <2>5, <2>6
<1>10. CancelEvents(log) = {} => LateEvents(kept) = {}
  BY <1>9
<1>11. IsFiniteSet(moved) /\ Cardinality(moved) <= Cardinality(LateEvents(log))
  <2>1. moved \in SUBSET (1..n) /\ LateEvents(log) \in SUBSET Nat
    BY <1>1, <1>5
  <2>2. \A i \in moved : IF i = 1 THEN 1 \in LateEvents(log) ELSE i + d \in LateEvents(log)
    BY <1>9
  <2>3. QED
    BY <1>4, <1>7, <2>1, <2>2, Reindexed
<1>12. ev = CancelledEv => LateEvents(kept) = moved
  BY <1>1 DEF LateEvents, WorkerEvent
<1>13. ASSUME LateEvents(log) = {}
       PROVE  Cardinality(LateEvents(kept)) <= 1 /\ (ev = CancelledEv => LateEvents(kept) = {})
  <2>1. moved = {}
    BY <1>9, <1>13
  <2>2. {n} \in SUBSET {n} /\ LateEvents(kept) \in SUBSET {n}
    BY <2>1
  <2>3. IsFiniteSet({n}) /\ Cardinality({n}) = 1
    BY FS_Singleton
  <2>4. QED
    BY <1>12, <2>1, <2>2, <2>3, FS_Subset
<1>14. QED
  BY <1>10, <1>11, <1>12, <1>13 DEF log, kept

-----------------------------------------------------------------------------
(***************************************************************************)
(* What a step does to one run and its thread, whoever takes it.           *)
(***************************************************************************)
Unmoved(q) == runs'[q] = runs[q] /\ worker'[q] = worker[q]

FreshRun(s, m) == [status |-> "queued", session |-> s, message |-> m,
                   cancelRequested |-> FALSE, events |-> <<>>]

Begins(q) ==
  /\ q = nextRun /\ ~Stored(q) /\ worker'[q] = worker[q] /\ worker[q].pc = "idle"
  /\ \E s \in SessionIds, m \in Messages : runs'[q] = AppendLocked(FreshRun(s, m), StartedEv)

\* Evicted, expired or lost in a restart; outside memory only a run at rest expires.
Vanishes(q) ==
  /\ runs'[q] = NoRecord
  /\ StoreKind = "memory" \/ worker[q].pc \in {"done", "dead"}
  /\ worker'[q] = worker[q] \/ worker'[q] = [worker[q] EXCEPT !.pc = "dead"]

\* The process dies under the thread, or what it asks of the store raises outside the try
\* block.
Dies(q) == runs'[q] = runs[q] /\ worker'[q] = [worker[q] EXCEPT !.pc = "dead"]

Queues(q) ==
  /\ req.step # "idle" /\ q = req.run
  /\ runs'[q] = runs[q] /\ worker[q].pc = "idle"
  /\ worker'[q] = [worker[q] EXCEPT !.pc = "queued"]

IsCancelled(q) ==
  /\ Stored(q) /\ runs[q].status \notin TERMINAL_RUN_STATUSES
  /\ runs'[q] = AppendLocked([runs[q] EXCEPT !.cancelRequested = TRUE], CancelledEv)
  /\ worker'[q] = worker[q]

Writer(q, pc) == Stored(q) /\ worker[q].pc = pc

Writes(q, pc, ev, found) ==
  /\ Writer(q, pc)
  /\ runs'[q] = AppendLocked(runs[q], ev) /\ worker'[q] = found

\* The four appends of a turn.
Appends(q) ==
  \/ Writes(q, "queued", PlanningEv, [worker[q] EXCEPT !.pc = "emitting"])
  \/ Writes(q, "appending", Head(worker[q].todo), [worker[q] EXCEPT !.pc = "emitting", !.todo = <<>>])
  \/ Writes(q, "delivering", Head(worker[q].todo),
            [worker[q] EXCEPT !.pc = "projecting", !.todo = Tail(@)])
  \/ Writes(q, "reporting", FailedEv, [worker[q] EXCEPT !.pc = "done"])

\* An append that the store made before it raised.
Strays(q, pc, ev, missing) ==
  StoreRaises /\ Writes(q, pc, ev, [worker[q] EXCEPT !.pc = missing])

AppendStrays(q) ==
  \/ Strays(q, "queued", PlanningEv, "dead")
  \/ Strays(q, "appending", Head(worker[q].todo), "failing")
  \/ Strays(q, "delivering", Head(worker[q].todo), "failing")
  \/ Strays(q, "reporting", FailedEv, "dead")

\* An append inside the try block finds its run gone, or the store raises before it.
Misses(q) ==
  /\ ~Stored(q) \/ StoreRaises
  /\ runs'[q] = runs[q] /\ worker[q].pc \in {"appending", "delivering"}
  /\ worker'[q] = [worker[q] EXCEPT !.pc = "failing"]

\* Its thread checks, or its runtime returns or raises.
Thinks(q) ==
  /\ runs'[q] = runs[q]
  /\ \/ \E ev \in Evs : EmitCheck(q, ev)
     \/ \E events \in Projected(worker[q].responding) : TurnReturns(q, events)
     \/ TurnRaises(q) \/ ProjectCheck(q) \/ FailCheck(q) \/ CheckRaises(q)

RunStep(q) ==
  \/ Unmoved(q) \/ Begins(q) \/ Vanishes(q) \/ Dies(q) \/ Queues(q) \/ IsCancelled(q)
  \/ Appends(q) \/ AppendStrays(q) \/ Misses(q) \/ Thinks(q)

\* A step of another run's thread leaves a run and its thread alone; a step of its own
\* is one of the four appends, which the store may make and raise, a miss or a check.
LEMMA ThreadRunStep ==
  ASSUME IInv, NEW r \in RunIds, TurnStep(r), NEW q \in RunIds
  PROVE  RunStep(q)
<1>1. /\ runs \in [RunIds -> Record \cup {NoRecord}]
      /\ worker \in [RunIds -> WorkerState]
  BY DEF IInv, TypeOK
<1>2. ASSUME NEW ev, NEW found, NEW missing, AppendEvent(r, ev, found, missing), q # r
      PROVE  Unmoved(q)
  BY <1>1, <1>2 DEF AppendEvent, Unmoved
<1>3. ASSUME NEW ev, NEW found, NEW missing, AppendEvent(r, ev, found, missing)
      PROVE  \/ Writes(r, worker[r].pc, ev, found)
             \/ Strays(r, worker[r].pc, ev, missing)
             \/ /\ ~Stored(r) \/ StoreRaises
                /\ runs'[r] = runs[r] /\ worker'[r] = [worker[r] EXCEPT !.pc = missing]
  BY <1>1, <1>3 DEF AppendEvent, Writes, Writer, Strays
<1>4. CASE Plan(r)
  <2>1. queue # <<>> /\ queue \in Seq(RunIds) /\ Head(queue) = r
    BY <1>4 DEF Plan, IInv, TypeOK
  <2>2. 1 \in 1..Len(queue) /\ queue[1] = r
    BY <2>1, EmptySeq, LenProperties, HeadTailProperties
  <2>3. worker[r].pc = "queued"
    BY <2>2 DEF IInv, QueueOK
  <2> DEFINE found == [worker[r] EXCEPT !.pc = "emitting"]
  <2>4. AppendEvent(r, PlanningEv, found, "dead")
    BY <1>4 DEF Plan
  <2> HIDE DEF found
  <2>5. CASE q # r
    <3>1. Unmoved(q)
      BY <1>2, <2>4, <2>5
    <3>2. QED
      BY <3>1 DEF RunStep
  <2>6. CASE q = r
    <3>1. \/ Writes(r, "queued", PlanningEv, found)
          \/ Strays(r, "queued", PlanningEv, "dead")
          \/ /\ ~Stored(r) \/ StoreRaises
             /\ runs'[r] = runs[r] /\ worker'[r] = [worker[r] EXCEPT !.pc = "dead"]
      BY <1>3, <2>3, <2>4
    <3>2. Writes(r, "queued", PlanningEv, found) => Appends(r)
      BY DEF Appends, found
    <3>3. QED
      BY <2>6, <3>1, <3>2 DEF RunStep, Dies, AppendStrays
  <2>7. QED
    BY <2>5, <2>6
<1>5. CASE EmitAppend(r)
  <2> DEFINE found == [worker[r] EXCEPT !.pc = "emitting", !.todo = <<>>]
  <2>1. worker[r].pc = "appending" /\ AppendEvent(r, Head(worker[r].todo), found, "failing")
    BY <1>5 DEF EmitAppend
  <2> HIDE DEF found
  <2>2. CASE q # r
    <3>1. Unmoved(q)
      BY <1>2, <2>1, <2>2
    <3>2. QED
      BY <3>1 DEF RunStep
  <2>3. CASE q = r
    <3>1. \/ Writes(r, "appending", Head(worker[r].todo), found)
          \/ Strays(r, "appending", Head(worker[r].todo), "failing")
          \/ /\ ~Stored(r) \/ StoreRaises
             /\ runs'[r] = runs[r] /\ worker'[r] = [worker[r] EXCEPT !.pc = "failing"]
      BY <1>3, <2>1
    <3>2. Writes(r, "appending", Head(worker[r].todo), found) => Appends(r)
      BY DEF Appends, found
    <3>3. QED
      BY <2>1, <2>3, <3>1, <3>2 DEF RunStep, Misses, AppendStrays
  <2>4. QED
    BY <2>2, <2>3
<1>6. CASE ProjectAppend(r)
  <2> DEFINE found == [worker[r] EXCEPT !.pc = "projecting", !.todo = Tail(@)]
  <2>1. worker[r].pc = "delivering" /\ AppendEvent(r, Head(worker[r].todo), found, "failing")
    BY <1>6 DEF ProjectAppend
  <2> HIDE DEF found
  <2>2. CASE q # r
    <3>1. Unmoved(q)
      BY <1>2, <2>1, <2>2
    <3>2. QED
      BY <3>1 DEF RunStep
  <2>3. CASE q = r
    <3>1. \/ Writes(r, "delivering", Head(worker[r].todo), found)
          \/ Strays(r, "delivering", Head(worker[r].todo), "failing")
          \/ /\ ~Stored(r) \/ StoreRaises
             /\ runs'[r] = runs[r] /\ worker'[r] = [worker[r] EXCEPT !.pc = "failing"]
      BY <1>3, <2>1
    <3>2. Writes(r, "delivering", Head(worker[r].todo), found) => Appends(r)
      BY DEF Appends, found
    <3>3. QED
      BY <2>1, <2>3, <3>1, <3>2 DEF RunStep, Misses, AppendStrays
  <2>4. QED
    BY <2>2, <2>3
<1>7. CASE FailAppend(r)
  <2> DEFINE found == [worker[r] EXCEPT !.pc = "done"]
  <2>1. worker[r].pc = "reporting" /\ AppendEvent(r, FailedEv, found, "dead")
    BY <1>7 DEF FailAppend
  <2> HIDE DEF found
  <2>2. CASE q # r
    <3>1. Unmoved(q)
      BY <1>2, <2>1, <2>2
    <3>2. QED
      BY <3>1 DEF RunStep
  <2>3. CASE q = r
    <3>1. \/ Writes(r, "reporting", FailedEv, found)
          \/ Strays(r, "reporting", FailedEv, "dead")
          \/ /\ ~Stored(r) \/ StoreRaises
             /\ runs'[r] = runs[r] /\ worker'[r] = [worker[r] EXCEPT !.pc = "dead"]
      BY <1>3, <2>1
    <3>2. Writes(r, "reporting", FailedEv, found) => Appends(r)
      BY DEF Appends, found
    <3>3. QED
      BY <2>1, <2>3, <3>1, <3>2 DEF RunStep, Dies, AppendStrays
  <2>4. QED
    BY <2>2, <2>3
<1>8. CASE \/ \E ev \in Evs : EmitCheck(r, ev)
           \/ \E events \in Projected(worker[r].responding) : TurnReturns(r, events)
           \/ TurnRaises(r) \/ ProjectCheck(r) \/ FailCheck(r) \/ CheckRaises(r)
  <2>1. runs' = runs
    <3>1. CheckRaises(r) => runs' = runs
      BY DEF CheckRaises
    <3>2. QED
      BY <1>8, <3>1 DEF EmitCheck, TurnReturns, TurnRaises, ProjectCheck, FailCheck
  <2>2. CASE q = r
    BY <1>8, <2>1, <2>2 DEF RunStep, Thinks
  <2>3. CASE q # r
    <3>1. worker'[q] = worker[q]
      <4>1. CheckRaises(r) => worker'[q] = worker[q]
        BY <1>1, <2>3 DEF CheckRaises, Step
      <4>2. QED
        BY <1>1, <1>8, <2>3, <4>1
        DEF EmitCheck, TurnReturns, TurnRaises, ProjectCheck, FailCheck, Step
    <3>2. QED
      BY <2>1, <3>1 DEF RunStep, Unmoved
  <2>4. QED
    BY <2>2, <2>3
<1>9. QED
  BY <1>4, <1>5, <1>6, <1>7, <1>8 DEF TurnStep

\* Every step of the coordinator, seen from one run.
LEMMA RunSteps ==
  ASSUME IInv, [Next]_vars, NEW q \in RunIds
  PROVE  RunStep(q)
<1>1. /\ runs \in [RunIds -> Record \cup {NoRecord}]
      /\ worker \in [RunIds -> WorkerState]
  BY DEF IInv, TypeOK
<1>2. CASE CreateSession \/ SaveClientRun \/ UNCHANGED vars
  BY <1>2 DEF CreateSession, SaveClientRun, vars, RunStep, Unmoved
<1>3. ASSUME NEW s \in SessionIds, NEW m \in Messages, StartRun(s, m)
      PROVE  RunStep(q)
  <2>1. worker' = worker
    BY <1>3 DEF StartRun, NewRun
  <2>2. runs'[q] = IF q = nextRun THEN AppendLocked(FreshRun(s, m), StartedEv)
                   ELSE IF q \in Kept({x \in RunIds : Stored(x)} \cup {nextRun}, MaxRuns) THEN runs[q]
                   ELSE NoRecord
    BY <1>3 DEF StartRun, NewRun, FreshRun
  <2>3. q = nextRun => ~Stored(q) /\ worker[q].pc = "idle"
    BY DEF IInv, FreshUnused, TypeOK, RunIds
  <2>4. CASE q = nextRun
    <3>1. Begins(q)
      BY <2>1, <2>2, <2>3, <2>4 DEF Begins
    <3>2. QED
      BY <3>1 DEF RunStep
  <2>5. CASE q # nextRun /\ (StoreKind = "memory" \/ runs'[q] = runs[q])
    <3>1. Unmoved(q) \/ Vanishes(q)
      BY <2>1, <2>2, <2>5 DEF Unmoved, Vanishes
    <3>2. QED
      BY <3>1 DEF RunStep
  <2>6. StoreKind = "memory" \/ runs'[q] = runs[q] \/ q = nextRun
    <3>1. StoreKind # "memory" /\ Stored(q) =>
            q \in Kept({x \in RunIds : Stored(x)} \cup {nextRun}, MaxRuns)
      BY DEF Kept
    <3>2. ~Stored(q) => runs[q] = NoRecord
      BY <1>1 DEF Stored, Record, RunStatuses, TERMINAL_RUN_STATUSES
    <3>3. QED
      BY <2>2, <3>1, <3>2
  <2>7. QED
    BY <2>4, <2>5, <2>6
<1>4. CASE Submit
  <2>1. /\ req.run \in RunIds /\ worker[req.run].pc = "idle" /\ req.step # "idle"
        /\ worker' = [worker EXCEPT ![req.run].pc = "queued"] /\ runs' = runs
    BY <1>4 DEF Submit, IInv, RequestOK
  <2>2. QED
    BY <1>1, <2>1 DEF RunStep, Queues, Unmoved
<1>11. CASE StartRaises
  <2>1. worker' = [worker EXCEPT ![req.run].pc = "dead"] /\ runs' = runs
    BY <1>11 DEF StartRaises
  <2>2. QED
    BY <1>1, <2>1 DEF RunStep, Dies, Unmoved
<1>5. ASSUME NEW r \in RunIds, Cancel(r)
      PROVE  RunStep(q)
  <2>1. /\ Stored(r) /\ runs[r].status \notin TERMINAL_RUN_STATUSES /\ worker' = worker
        /\ runs' = [runs EXCEPT ![r] =
                      AppendLocked([runs[r] EXCEPT !.cancelRequested = TRUE], CancelledEv)]
    BY <1>1, <1>5 DEF Cancel
  <2>2. q = r => IsCancelled(q)
    BY <1>1, <2>1 DEF IsCancelled
  <2>3. q # r => Unmoved(q)
    BY <1>1, <2>1 DEF Unmoved
  <2>4. QED
    BY <2>2, <2>3 DEF RunStep
<1>6. ASSUME NEW r \in RunIds, TurnStep(r)
      PROVE  RunStep(q)
  BY <1>6, ThreadRunStep
<1>7. ASSUME NEW c \in Clients, StreamStep(c)
      PROVE  RunStep(q)
  <2>1. Unmoved(q)
    BY <1>7 DEF StreamStep, OpenStream, Poll, BreakStream, LoseStream, ResumeStream, Unmoved
  <2>2. QED
    BY <2>1 DEF RunStep
<1>8. CASE Restart
  <2>1. worker'[q] = worker[q] \/ worker'[q] = [worker[q] EXCEPT !.pc = "dead"]
    BY <1>8 DEF Restart
  <2>2. runs'[q] = runs[q] \/ (StoreKind = "memory" /\ runs'[q] = NoRecord)
    BY <1>8 DEF Restart
  <2>3. QED
    BY <2>1, <2>2 DEF RunStep, Unmoved, Vanishes, Dies
<1>9. CASE Expire
  <2>1. /\ worker' = worker
        /\ \/ runs' = runs
           \/ \E r \in RunIds : /\ worker[r].pc \in {"done", "dead"}
                               /\ runs' = [runs EXCEPT ![r] = NoRecord]
    BY <1>9 DEF Expire, ExpireSession, ExpireRun, ExpireClientRun
  <2>2. Unmoved(q) \/ Vanishes(q)
    BY <1>1, <2>1 DEF Unmoved, Vanishes
  <2>3. QED
    BY <2>2 DEF RunStep
<1>10. QED
  BY <1>2, <1>3, <1>4, <1>5, <1>6, <1>7, <1>8, <1>9, <1>11 DEF Next

-----------------------------------------------------------------------------
(***************************************************************************)
(* The second invariant through the steps of one run.                      *)
(***************************************************************************)
\* The events differ, and which of them set the status.
LEMMA EvKinds ==
  /\ CancelledEv \notin {StartedEv, PlanningEv, ExecutingEv, FailedEv, RespStartedEv, DeltaEv,
                         RespCompletedEv, CompletedEv, SceneEv} \cup ToolEvs
  /\ CompletedEv \notin {StartedEv, PlanningEv, ExecutingEv, FailedEv, RespStartedEv, DeltaEv,
                         RespCompletedEv, SceneEv} \cup ToolEvs
  /\ \A ev \in {StartedEv, PlanningEv, ExecutingEv, CancelledEv, FailedEv, RespStartedEv, DeltaEv,
                RespCompletedEv, CompletedEv} : SetsStatus(ev)
  /\ \A ev \in ToolEvs \cup {SceneEv} : ~SetsStatus(ev)
  /\ StartedEv.status = "queued" /\ PlanningEv.status = "planning"
  /\ ExecutingEv.status = "executing" /\ CancelledEv.status = "cancelled"
  /\ FailedEv.status = "failed" /\ CompletedEv.status = "completed"
  /\ \A ev \in {RespStartedEv, DeltaEv, RespCompletedEv} : ev.status = "streaming"
  BY DEF ToolEvs, Ev, StartedEv, PlanningEv, ExecutingEv, CancelledEv, FailedEv, RespStartedEv,
         DeltaEv, RespCompletedEv, CompletedEv, ToolStartedEv, ToolCompletedEv, SceneEv, SetsStatus

\* Only run.cancelled shows "cancelled" and only run.completed shows "completed".
LEMMA StatusOfEvent ==
  ASSUME NEW ev \in Evs, SetsStatus(ev)
  PROVE  /\ ev.status = "cancelled" <=> ev = CancelledEv
         /\ ev.status = "completed" <=> ev = CompletedEv
         /\ ev.status = "failed" <=> ev = FailedEv
  BY DEF Evs, ToolEvs, Ev, StartedEv, PlanningEv, ExecutingEv, CancelledEv, FailedEv,
         RespStartedEv, DeltaEv, RespCompletedEv, CompletedEv, ToolStartedEv,
         ToolCompletedEv, SceneEv, SetsStatus

\* The record an append leaves, from its end.
LEMMA AppendedRecord ==
  ASSUME NEW rec \in Record, WellFormedLog(rec.events), NEW ev \in Evs, ev # StartedEv
  PROVE  LET new == AppendLocked(rec, ev)
         IN /\ new \in Record /\ WellFormedLog(new.events)
            /\ new.session = rec.session /\ new.message = rec.message
            /\ new.cancelRequested = rec.cancelRequested
            /\ new.status = IF SetsStatus(ev) THEN ev.status ELSE rec.status
            /\ End(rec) \in 1..MaxEvents /\ End(new) \in 2..MaxEvents
            /\ Back(new, 0) = ev
            /\ rec.status # "failed" => LastShown(new)
            /\ MaxEvents >= 4 /\ End(rec) >= 2 => End(new) >= 3 /\ Back(new, 1) = Back(rec, 0)
            /\ MaxEvents >= 4 /\ End(rec) >= 3 => End(new) >= 4 /\ Back(new, 2) = Back(rec, 1)
<1> DEFINE new == AppendLocked(rec, ev)
           m == End(new)
           n == End(rec)
<1>1. /\ new \in Record /\ WellFormedLog(new.events)
      /\ new.status = IF SetsStatus(ev) THEN ev.status ELSE rec.status
  BY AppendKeepsRecord
<1>2. /\ new.session = rec.session /\ new.message = rec.message
      /\ new.cancelRequested = rec.cancelRequested
  BY DEF AppendLocked, Record
<1>3. /\ n \in 1..MaxEvents /\ m \in 2..MaxEvents
      /\ m = n + 1 \/ (m = MaxEvents /\ n = MaxEvents)
      /\ new.events[m].ev = ev
      /\ \A k \in 1..(m - 2) : new.events[m - k] = rec.events[n + 1 - k]
  BY AppendedEnd DEF End
<1>4. MaxEvents \in Nat
  BY CoordinatorAssumption
<1> HIDE DEF new, m, n
<1>5. m - 0 = m /\ n + 1 - 1 = n - 0 /\ n + 1 - 2 = n - 1
  BY <1>3, <1>4
<1>6. Back(new, 0) = ev
  BY <1>3, <1>5 DEF Back, m
<1>7. rec.status # "failed" => LastShown(new)
  BY <1>1, <1>6, StatusOfEvent DEF LastShown
<1>8. ASSUME MaxEvents >= 4, n >= 2
      PROVE  m >= 3 /\ Back(new, 1) = Back(rec, 0)
  <2>1. m >= 3 /\ 1 \in 1..(m - 2)
    BY <1>3, <1>4, <1>8
  <2>2. QED
    BY <1>3, <1>5, <2>1 DEF Back, m, n
<1>9. ASSUME MaxEvents >= 4, n >= 3
      PROVE  m >= 4 /\ Back(new, 2) = Back(rec, 1)
  <2>1. m >= 4 /\ 2 \in 1..(m - 2)
    BY <1>3, <1>4, <1>9
  <2>2. QED
    BY <1>3, <1>5, <2>1 DEF Back, m, n
<1>10. QED
  BY <1>1, <1>2, <1>3, <1>6, <1>7, <1>8, <1>9 DEF new, m, n

\* A log that ends in an event other than run.started holds two at least.
LEMMA EndsPastStart ==
  ASSUME NEW rec \in Record, WellFormedLog(rec.events), Back(rec, 0) # StartedEv
  PROVE  End(rec) >= 2
<1>1. End(rec) \in 1..MaxEvents /\ rec.events[1].ev = StartedEv /\ MaxEvents \in Nat
  BY CoordinatorAssumption DEF WellFormedLog, End
<1>2. End(rec) # 1
  <2>1. End(rec) = 1 => End(rec) - 0 = 1
    OBVIOUS
  <2>2. QED
    BY <1>1, <2>1 DEF Back
<1>3. QED
  BY <1>1, <1>2

\* A run that begins.
LEMMA BegunLog ==
  ASSUME NEW s \in SessionIds, NEW m \in Messages, NEW w \in WorkerState, w.pc = "idle", ThreadAt(w)
  PROVE  LogOf(AppendLocked(FreshRun(s, m), StartedEv), w)
<1> DEFINE new == AppendLocked(FreshRun(s, m), StartedEv)
<1>1. /\ new.status = "queued" /\ new.cancelRequested = FALSE
      /\ Len(new.events) = 1 /\ new.events[1] = [ev |-> StartedEv, sequence |-> 1]
      /\ new.events \in Seq(Event)
  <2>1. new \in Record /\ new.status = "queued" /\ new.events = <<[ev |-> StartedEv, sequence |-> 1]>>
    BY NewRecord DEF FreshRun
  <2>2. new.cancelRequested = FALSE
    BY DEF AppendLocked, FreshRun
  <2> HIDE DEF new
  <2>3. new.events \in Seq(Event)
    BY <2>1 DEF Record
  <2>4. Len(new.events) = 1 /\ new.events[1] = [ev |-> StartedEv, sequence |-> 1]
    BY <2>1
  <2>5. QED
    BY <2>1, <2>2, <2>3, <2>4
<1> HIDE DEF new
<1>2. Back(new, 0) = StartedEv /\ End(new) = 1
  BY <1>1 DEF Back, End
<1>3. LastShown(new)
  BY <1>1, <1>2, EvKinds DEF LastShown
<1>4. CancelEvents(new.events) = {}
  BY <1>1, EvKinds, LenProperties DEF CancelEvents
<1>5. CancelBudget(new, w)
  BY <1>1, <1>4 DEF CancelBudget
<1>6. StatusAt(new, w) /\ CancelShown(new) /\ AnswerLogged(new, w) /\ AnswerShown(new)
  BY <1>1 DEF StatusAt, CancelShown, AnswerLogged, AnswerShown
<1>7. QED
  BY <1>3, <1>5, <1>6 DEF LogOf, new

\* A run the user cancels.
LEMMA CancelledLog ==
  ASSUME NEW rec \in Record, WellFormedLog(rec.events), NEW w \in WorkerState, LogOf(rec, w),
         rec.status \notin TERMINAL_RUN_STATUSES
  PROVE  LogOf(AppendLocked([rec EXCEPT !.cancelRequested = TRUE], CancelledEv), w)
<1> DEFINE old == [rec EXCEPT !.cancelRequested = TRUE]
           new == AppendLocked(old, CancelledEv)
<1>1. /\ old \in Record /\ old.events = rec.events /\ old.cancelRequested = TRUE
      /\ old.status = rec.status
  BY DEF Record
<1> HIDE DEF old
<1>2. CancelledEv \in Evs /\ CancelledEv # StartedEv
  BY EvConstants
<1>3. End(old) = End(rec) /\ Back(old, 0) = Back(rec, 0) /\ Back(old, 1) = Back(rec, 1)
  BY <1>1 DEF End, Back
<1>4. /\ new.cancelRequested = TRUE /\ new.status = "cancelled"
      /\ Back(new, 0) = CancelledEv /\ LastShown(new)
      /\ MaxEvents >= 4 /\ End(rec) >= 2 => End(new) >= 3 /\ Back(new, 1) = Back(rec, 0)
      /\ MaxEvents >= 4 /\ End(rec) >= 3 => End(new) >= 4 /\ Back(new, 2) = Back(rec, 1)
  BY <1>1, <1>2, <1>3, EvKinds, AppendedRecord DEF TERMINAL_RUN_STATUSES
<1>5. /\ Cardinality(CancelEvents(new.events)) <= Cardinality(CancelEvents(rec.events)) + 1
      /\ IsFiniteSet(CancelEvents(rec.events)) /\ IsFiniteSet(CancelEvents(new.events))
      /\ CancelEvents(rec.events) = {} => LateEvents(new.events) = {}
      /\ Cardinality(LateEvents(new.events)) <= Cardinality(LateEvents(rec.events))
      /\ LateEvents(rec.events) = {} => LateEvents(new.events) = {}
  BY <1>1, <1>2, AppendedCancels, AppendedLate
<1> HIDE DEF new
<1>6. ThreadAt(w) /\ LastShown(rec) /\ CancelBudget(rec, w)
  BY DEF LogOf, Record, RunStatuses, TERMINAL_RUN_STATUSES
<1>7. Back(rec, 0) # CancelledEv
  BY <1>6, EvKinds DEF LastShown, TERMINAL_RUN_STATUSES
<1>8. ASSUME ~rec.cancelRequested
      PROVE  CancelBudget(new, w) /\ CancelShown(new)
  <2>1. CancelEvents(rec.events) = {}
    BY <1>6, <1>8 DEF CancelBudget
  <2>2. LateEvents(new.events) = {} /\ Cardinality(CancelEvents(new.events)) <= 1
    BY <1>5, <2>1, FS_EmptySet
  <2>3. Cardinality(LateEvents(new.events)) = 0
    BY <2>2, FS_EmptySet
  <2>4. Cardinality(CancelEvents(new.events)) \in Nat
    BY <1>5, FS_CardinalityType
  <2>5. CancelBudget(new, w)
    BY <1>4, <2>2, <2>3, <2>4 DEF CancelBudget
  <2>6. CancelShown(new)
    BY <1>4, <2>2 DEF CancelShown
  <2>7. QED
    BY <2>5, <2>6
<1>9. ASSUME rec.cancelRequested
      PROVE  CancelBudget(new, w) /\ (MaxEvents >= 4 => CancelShown(new))
  <2>1. /\ Cardinality(LateEvents(rec.events)) <= 1 /\ Cardinality(CancelEvents(rec.events)) <= 1
        /\ ~Committed(w)
    BY <1>6, <1>9 DEF CancelBudget, TERMINAL_RUN_STATUSES
  <2>2. IsFiniteSet(LateEvents(rec.events)) /\ IsFiniteSet(LateEvents(new.events))
    <3>1. ASSUME NEW log, log \in Seq(Event) PROVE IsFiniteSet(LateEvents(log))
      <4>1. DOMAIN log = 1..Len(log) /\ Len(log) \in Int
        BY <3>1, LenProperties
      <4>2. IsFiniteSet(1..Len(log))
        BY <4>1, FS_Interval
      <4>3. LateEvents(log) \in SUBSET (1..Len(log))
        BY <4>1 DEF LateEvents
      <4>4. QED
        BY <4>2, <4>3, FS_Subset
    <3>2. new \in Record
      BY <1>1, <1>2, AppendKeepsRecord DEF new
    <3>3. QED
      BY <3>1, <3>2 DEF Record
  <2>3. /\ Cardinality(LateEvents(rec.events)) \in Nat /\ Cardinality(LateEvents(new.events)) \in Nat
        /\ Cardinality(CancelEvents(rec.events)) \in Nat /\ Cardinality(CancelEvents(new.events)) \in Nat
    BY <1>5, <2>2, FS_CardinalityType
  <2>4. Cardinality(LateEvents(new.events)) <= 1 /\ Cardinality(CancelEvents(new.events)) <= 2
    BY <1>5, <2>1, <2>3
  <2>5. CancelBudget(new, w)
    BY <1>4, <2>1, <2>4 DEF CancelBudget, TERMINAL_RUN_STATUSES
  <2>6. ASSUME MaxEvents >= 4 PROVE CancelShown(new)
    <3>1. End(rec) >= 3 /\ Back(rec, 1) = CancelledEv
      BY <1>7, <1>9, <2>6 DEF LogOf, CancelShown, Record, RunStatuses, TERMINAL_RUN_STATUSES
    <3>2. End(rec) \in Nat
      BY LenProperties DEF Record, End
    <3>3. QED
      BY <1>4, <1>7, <2>6, <3>1, <3>2 DEF CancelShown
  <2>7. QED
    BY <2>5, <2>6
<1>10. ASSUME MaxEvents >= 4 PROVE AnswerLogged(new, w)
  <2>1. SUFFICES ASSUME w.pc \in {"projecting", "delivering"}, Len(w.todo) = 1
                 PROVE  End(new) >= 3 /\ Back(new, 1) = RespCompletedEv /\ Back(new, 0) = CancelledEv
    BY DEF AnswerLogged
  <2>2. End(rec) >= 2 /\ Back(rec, 0) = RespCompletedEv
    BY <1>7, <1>10, <2>1 DEF LogOf, AnswerLogged, Record, RunStatuses, TERMINAL_RUN_STATUSES
  <2>3. QED
    BY <1>4, <1>10, <2>2
<1>11. StatusAt(new, w) /\ AnswerShown(new)
  BY <1>4 DEF StatusAt, AnswerShown
<1>12. QED
  BY <1>4, <1>6, <1>8, <1>9, <1>10, <1>11 DEF LogOf, new, old

\* A run its thread appends to: the thread was past its check, and is not after it.
LEMMA WrittenLog ==
  ASSUME NEW rec \in Record, WellFormedLog(rec.events), NEW w \in WorkerState, LogOf(rec, w),
         Committed(w), rec.status # "failed",
         NEW ev \in Evs, ev \notin {StartedEv, CancelledEv},
         NEW w2 \in WorkerState, ~Committed(w2)
  PROVE  LET new == AppendLocked(rec, ev)
         IN /\ LastShown(new) /\ CancelBudget(new, w2)
            /\ MaxEvents >= 4 => CancelShown(new)
<1> DEFINE new == AppendLocked(rec, ev)
<1>1. /\ new.cancelRequested = rec.cancelRequested
      /\ new.status = IF SetsStatus(ev) THEN ev.status ELSE rec.status
      /\ Back(new, 0) = ev /\ LastShown(new)
      /\ MaxEvents >= 4 /\ End(rec) >= 2 => End(new) >= 3 /\ Back(new, 1) = Back(rec, 0)
  BY AppendedRecord
<1>2. /\ IsFiniteSet(CancelEvents(rec.events)) /\ IsFiniteSet(CancelEvents(new.events))
      /\ Cardinality(CancelEvents(new.events)) <= Cardinality(CancelEvents(rec.events))
      /\ LateEvents(rec.events) = {} => Cardinality(LateEvents(new.events)) <= 1
  BY AppendedCancels, AppendedLate
<1> HIDE DEF new
<1>3. LastShown(rec) /\ CancelBudget(rec, w)
  BY DEF LogOf, Record, RunStatuses, TERMINAL_RUN_STATUSES
<1>4. ASSUME ~rec.cancelRequested
      PROVE  CancelBudget(new, w2) /\ CancelShown(new)
  <2>1. CancelEvents(rec.events) = {} /\ rec.status # "cancelled"
    BY <1>3, <1>4 DEF CancelBudget
  <2>2. Cardinality(CancelEvents(new.events)) <= 0 /\ Cardinality(CancelEvents(new.events)) \in Nat
    BY <1>2, <2>1, FS_EmptySet, FS_CardinalityType
  <2>3. Cardinality(CancelEvents(new.events)) = 0
    BY <2>2
  <2>4. CancelEvents(new.events) = {}
    BY <1>2, <2>3, FS_EmptySet
  <2>5. new.status # "cancelled"
    BY <1>1, <2>1, StatusOfEvent
  <2>6. QED
    BY <1>1, <1>4, <2>4, <2>5 DEF CancelBudget, CancelShown
<1>5. ASSUME rec.cancelRequested
      PROVE  CancelBudget(new, w2) /\ (MaxEvents >= 4 => CancelShown(new))
  <2>1. /\ LateEvents(rec.events) = {} /\ Back(rec, 0) = CancelledEv
        /\ Cardinality(CancelEvents(rec.events)) <= 1
    BY <1>3, <1>5 DEF CancelBudget
  <2>2. /\ Cardinality(CancelEvents(rec.events)) \in Nat
        /\ Cardinality(CancelEvents(new.events)) \in Nat
    BY <1>2, FS_CardinalityType
  <2>3. Cardinality(CancelEvents(new.events)) <= 1 /\ Cardinality(CancelEvents(new.events)) <= 2
    BY <1>2, <2>1, <2>2
  <2>4. CancelBudget(new, w2)
    BY <1>1, <1>2, <1>5, <2>1, <2>3 DEF CancelBudget
  <2>5. End(rec) >= 2
    BY <2>1, EvKinds, EndsPastStart
  <2>6. MaxEvents >= 4 => CancelShown(new)
    BY <1>1, <2>1, <2>5 DEF CancelShown
  <2>7. QED
    BY <2>4, <2>6
<1>6. QED
  BY <1>1, <1>4, <1>5 DEF new

\* What holds of a run a thread is about to append to.  It has no outcome, except that
\* the error may be put over a completion whose write raised.
LEMMA WritingRun ==
  ASSUME IInv, NEW q \in RunIds, LogOf(runs[q], worker[q]), NEW pc, Writer(q, pc),
         pc \in {"queued", "appending", "delivering", "reporting"}
  PROVE  /\ runs[q] \in Record /\ WellFormedLog(runs[q].events)
         /\ worker[q] \in WorkerState /\ worker[q].pc = pc /\ Committed(worker[q])
         /\ worker[q].todo \in Seq(TurnEvs) /\ HoldsEvent(q)
         /\ runs[q].status # "failed" /\ (pc # "reporting" => runs[q].status # "completed")
         /\ ThreadAt(worker[q]) /\ StatusAt(runs[q], worker[q])
         /\ MaxEvents >= 4 => AnswerLogged(runs[q], worker[q])
<1>1. Stored(q) /\ worker[q].pc = pc
  BY DEF Writer
<1>2. runs[q] \in Record /\ WellFormedLog(runs[q].events)
  BY <1>1, StoredIsRecord DEF IInv
<1>3. worker[q] \in WorkerState /\ HoldsEvent(q) /\ worker[q].todo \in Seq(TurnEvs)
  BY DEF IInv, TypeOK, TodoOK, HoldsEvent
<1>4. runs[q].status # "failed" /\ (pc # "reporting" => runs[q].status # "completed")
  BY <1>1, OutcomeOpen, FailingOpen
<1>5. QED
  BY <1>1, <1>2, <1>3, <1>4 DEF LogOf, Stored, Committed

\* The planning phase.
LEMMA PlannedLog ==
  ASSUME IInv, NEW q \in RunIds, LogOf(runs[q], worker[q]),
         Writer(q, "queued")
  PROVE  LogOf(AppendLocked(runs[q], PlanningEv), [worker[q] EXCEPT !.pc = "emitting"])
<1> DEFINE rec == runs[q]
           w == worker[q]
           w2 == [w EXCEPT !.pc = "emitting"]
           new == AppendLocked(rec, PlanningEv)
<1>1. /\ rec \in Record /\ WellFormedLog(rec.events) /\ w \in WorkerState /\ w.pc = "queued"
      /\ Committed(w) /\ rec.status \notin {"completed", "failed"} /\ ThreadAt(w)
  BY WritingRun
<1>2. PlanningEv \in Evs /\ PlanningEv \notin {StartedEv, CancelledEv}
  BY EvConstants, EvKinds
<1>3. w2 \in WorkerState /\ w2.pc = "emitting" /\ w2.emits = w.emits /\ w2.responding = w.responding
  BY <1>1 DEF WorkerState
<1> HIDE DEF rec, w2
<1>4. new.status = "planning"
  BY <1>1, <1>2, AppendedRecord, EvKinds
<1> HIDE DEF w
<1>5. LastShown(new) /\ CancelBudget(new, w2) /\ (MaxEvents >= 4 => CancelShown(new))
  <2>1. LogOf(rec, w) /\ ~Committed(w2)
    BY <1>3 DEF rec, w, Committed
  <2>2. QED
    BY <1>1, <1>2, <1>3, <2>1, WrittenLog
<1> HIDE DEF new
<1>6. ThreadAt(w2)
  BY <1>1, <1>3 DEF ThreadAt
<1>7. StatusAt(new, w2) /\ AnswerLogged(new, w2) /\ AnswerShown(new)
  BY <1>1, <1>3, <1>4 DEF StatusAt, AnswerLogged, AnswerShown, ThreadAt
<1>8. QED
  BY <1>5, <1>6, <1>7 DEF LogOf, rec, w, w2, new

\* An emit that passed its check.
LEMMA EmittedLog ==
  ASSUME IInv, NEW q \in RunIds, LogOf(runs[q], worker[q]),
         Writer(q, "appending")
  PROVE  LogOf(AppendLocked(runs[q], Head(worker[q].todo)),
               [worker[q] EXCEPT !.pc = "emitting", !.todo = <<>>])
<1> DEFINE rec == runs[q]
           w == worker[q]
           w2 == [w EXCEPT !.pc = "emitting", !.todo = <<>>]
           ev == Head(w.todo)
           new == AppendLocked(rec, ev)
<1>1. /\ rec \in Record /\ WellFormedLog(rec.events) /\ w \in WorkerState /\ w.pc = "appending"
      /\ Committed(w) /\ rec.status \notin {"completed", "failed"} /\ ThreadAt(w)
      /\ w.todo \in Seq(TurnEvs) /\ HoldsEvent(q) /\ StatusAt(rec, w)
  BY WritingRun
<1>2. w2 \in WorkerState /\ w2.pc = "emitting" /\ w2.emits = w.emits /\ w2.responding = w.responding
  BY <1>1, EmptySeq DEF WorkerState
<1>3. ev = w.todo[1] /\ ev \in TurnEvs /\ ev # CompletedEv
  <2>1. w.todo # <<>> /\ w.todo[1] # CompletedEv
    BY <1>1 DEF HoldsEvent
  <2>2. QED
    BY <1>1, <2>1, HeadTailProperties, EmptySeq
<1>4. ev \in Evs /\ ev \notin {StartedEv, CancelledEv, FailedEv}
  BY <1>3 DEF TurnEvs
<1> HIDE DEF rec, w2, ev
<1>5. /\ new.status = IF SetsStatus(ev) THEN ev.status ELSE rec.status
      /\ new.cancelRequested = rec.cancelRequested
  BY <1>1, <1>4, AppendedRecord
<1> HIDE DEF w
<1>6. LastShown(new) /\ CancelBudget(new, w2) /\ (MaxEvents >= 4 => CancelShown(new))
  <2>1. LogOf(rec, w) /\ ~Committed(w2)
    BY <1>2 DEF rec, w, Committed
  <2>2. QED
    BY <1>1, <1>2, <1>4, <2>1, WrittenLog
<1> HIDE DEF new
<1>7. ThreadAt(w2)
  BY <1>1, <1>2 DEF ThreadAt
<1>8. StatusAt(new, w2)
  <2>1. SUFFICES ASSUME ~rec.cancelRequested
                 PROVE  new.status = IF w2.emits = 0 THEN "planning"
                                     ELSE IF w2.responding THEN "streaming" ELSE "executing"
    BY <1>2, <1>5 DEF StatusAt
  <2>2. \/ ev = ExecutingEv /\ w.emits = 1 /\ ~w.responding /\ rec.status = "planning"
        \/ ev \in ToolEvs /\ w.emits > 1 /\ rec.status = IF w.responding THEN "streaming" ELSE "executing"
        \/ ev = RespStartedEv /\ w.emits > 1 /\ w.responding /\ rec.status = "executing"
        \/ ev = DeltaEv /\ w.emits > 1 /\ w.responding /\ rec.status = "streaming"
    BY <1>1, <1>3, <2>1 DEF StatusAt
  <2>3. w.emits \in Int
    BY <1>1 DEF WorkerState
  <2>4. QED
    BY <1>2, <1>5, <2>2, <2>3, EvKinds
<1>9. AnswerLogged(new, w2)
  BY <1>2 DEF AnswerLogged
<1>10. new.status # "completed"
  BY <1>1, <1>3, <1>4, <1>5, StatusOfEvent
<1>11. QED
  BY <1>6, <1>7, <1>8, <1>9, <1>10 DEF LogOf, AnswerShown, rec, w, w2, ev, new

\* A projected event that passed its check.
LEMMA ProjectedLog ==
  ASSUME IInv, NEW q \in RunIds, LogOf(runs[q], worker[q]),
         Writer(q, "delivering")
  PROVE  LogOf(AppendLocked(runs[q], Head(worker[q].todo)),
               [worker[q] EXCEPT !.pc = "projecting", !.todo = Tail(@)])
<1> DEFINE rec == runs[q]
           w == worker[q]
           w2 == [w EXCEPT !.pc = "projecting", !.todo = Tail(@)]
           ev == Head(w.todo)
           new == AppendLocked(rec, ev)
           n == Len(w.todo)
<1>1. /\ rec \in Record /\ WellFormedLog(rec.events) /\ w \in WorkerState /\ w.pc = "delivering"
      /\ Committed(w) /\ rec.status \notin {"completed", "failed"} /\ ThreadAt(w)
      /\ w.todo \in Seq(TurnEvs) /\ HoldsEvent(q) /\ StatusAt(rec, w)
      /\ MaxEvents >= 4 => AnswerLogged(rec, w)
  BY WritingRun
<1>2. /\ ev = w.todo[1] /\ ev \in TurnEvs /\ n \in Nat \ {0}
      /\ Tail(w.todo) \in Seq(TurnEvs) /\ Len(Tail(w.todo)) = n - 1
      /\ \A i \in 1..(n - 1) : Tail(w.todo)[i] = w.todo[i + 1]
  <2>1. w.todo # <<>>
    BY <1>1 DEF HoldsEvent
  <2>2. QED
    BY <1>1, <2>1, HeadTailProperties, EmptySeq
<1>3. /\ w2 \in WorkerState /\ w2.pc = "projecting" /\ w2.emits = w.emits
      /\ w2.responding = w.responding /\ w2.todo = Tail(w.todo)
  <2>1. Tail(w.todo) \in Seq(Evs)
    BY <1>2, ElementOfSeq, EvConstants DEF TurnEvs
  <2>2. QED
    BY <1>1, <2>1 DEF WorkerState
<1>4. ev \in Evs /\ ev \notin {StartedEv, CancelledEv, FailedEv}
  BY <1>2 DEF TurnEvs
<1> HIDE DEF rec, w2, ev
<1>5. /\ new.status = IF SetsStatus(ev) THEN ev.status ELSE rec.status
      /\ new.cancelRequested = rec.cancelRequested
      /\ Back(new, 0) = ev /\ End(new) \in 2..MaxEvents
      /\ MaxEvents >= 4 /\ End(rec) >= 2 => End(new) >= 3 /\ Back(new, 1) = Back(rec, 0)
      /\ MaxEvents >= 4 /\ End(rec) >= 3 => End(new) >= 4 /\ Back(new, 2) = Back(rec, 1)
  BY <1>1, <1>4, AppendedRecord
<1> HIDE DEF w
<1>6. LastShown(new) /\ CancelBudget(new, w2) /\ (MaxEvents >= 4 => CancelShown(new))
  <2>1. LogOf(rec, w) /\ ~Committed(w2)
    BY <1>3 DEF rec, w, Committed
  <2>2. QED
    BY <1>1, <1>3, <1>4, <2>1, WrittenLog
<1> HIDE DEF new, n
<1>7. /\ n >= 1 => w.todo[n] = CompletedEv
      /\ n >= 2 => w.todo[n - 1] = RespCompletedEv
      /\ \A i \in 1..(n - 1) : w.todo[i] \in {SceneEv, RespStartedEv, DeltaEv, RespCompletedEv}
  BY <1>1 DEF ThreadAt, n
<1>8. Len(w2.todo) = n - 1 /\ \A i \in 1..(n - 1) : w2.todo[i] = w.todo[i + 1]
  BY <1>2, <1>3
<1>9. ThreadAt(w2)
  <2>6. n \in Nat \ {0}
    BY <1>2
  <2>1. n - 1 >= 1 => w2.todo[n - 1] = CompletedEv
    <3>1. n - 1 >= 1 => n - 1 \in 1..(n - 1) /\ n - 1 + 1 = n /\ n >= 1
      BY <2>6
    <3>2. QED
      BY <1>7, <1>8, <3>1
  <2>2. n - 1 >= 2 => w2.todo[n - 1 - 1] = RespCompletedEv
    <3>1. n - 1 >= 2 => n - 1 - 1 \in 1..(n - 1) /\ n - 1 - 1 + 1 = n - 1 /\ n >= 2
      BY <2>6
    <3>2. QED
      BY <1>7, <1>8, <3>1
  <2>3. \A i \in 1..(n - 1 - 1) : w2.todo[i] \in {SceneEv, RespStartedEv, DeltaEv, RespCompletedEv}
    <3>1. \A i \in 1..(n - 1 - 1) : i \in 1..(n - 1) /\ i + 1 \in 1..(n - 1)
      BY <2>6
    <3>2. QED
      BY <1>7, <1>8, <3>1
  <2>4. w2.emits = 0 => ~w2.responding
    BY <1>1, <1>3 DEF ThreadAt
  <2>5. QED
    BY <1>3, <1>8, <2>1, <2>2, <2>3, <2>4 DEF ThreadAt
<1>10. \/ n = 1 /\ ev = CompletedEv
       \/ n >= 2 /\ ev \in {SceneEv, RespStartedEv, DeltaEv, RespCompletedEv}
          /\ (n = 2 => ev = RespCompletedEv)
  BY <1>2, <1>7
<1>11. StatusAt(new, w2)
  <2>1. SUFFICES ASSUME ~rec.cancelRequested
                 PROVE  \/ new.status \in {"executing", "streaming"}
                        \/ w2.todo = <<>> /\ new.status = "completed"
    BY <1>3, <1>5 DEF StatusAt
  <2>2. w.todo # <<>>
    BY <1>1 DEF HoldsEvent, w
  <2>3. rec.status \in {"executing", "streaming"}
    BY <1>1, <2>1, <2>2 DEF StatusAt
  <2>4. CASE n = 1
    <3>1. Len(w2.todo) = 0 /\ w2.todo \in Seq(TurnEvs)
      BY <1>2, <1>3, <1>8, <2>4
    <3>2. w2.todo = <<>>
      BY <3>1, EmptySeq
    <3>3. QED
      BY <1>5, <1>10, <2>4, <3>2, EvKinds
  <2>5. CASE n # 1
    BY <1>5, <1>10, <2>3, <2>5, EvKinds
  <2>6. QED
    BY <2>4, <2>5
<1>12. ASSUME MaxEvents >= 4 PROVE AnswerLogged(new, w2)
  <2>1. SUFFICES ASSUME n - 1 = 1 PROVE End(new) >= 2 /\ Back(new, 0) = RespCompletedEv
    BY <1>8 DEF AnswerLogged
  <2>2. n = 2
    BY <1>2, <2>1
  <2>3. QED
    BY <1>5, <1>10, <2>2, CoordinatorAssumption
<1>13. ASSUME MaxEvents >= 4 PROVE AnswerShown(new)
  <2>1. SUFFICES ASSUME new.status = "completed"
                 PROVE  /\ End(new) >= 3 /\ Back(new, 0) = CompletedEv
                        /\ \/ Back(new, 1) = RespCompletedEv
                           \/ /\ End(new) >= 4 /\ Back(new, 1) = CancelledEv
                              /\ Back(new, 2) = RespCompletedEv
    BY DEF AnswerShown
  <2>2. ev = CompletedEv
    BY <1>1, <1>4, <1>5, <2>1, StatusOfEvent
  <2>3. n = 1
    BY <1>10, <2>2, EvKinds
  <2>4. \/ End(rec) >= 2 /\ Back(rec, 0) = RespCompletedEv
        \/ End(rec) >= 3 /\ Back(rec, 1) = RespCompletedEv /\ Back(rec, 0) = CancelledEv
    BY <1>1, <1>13, <2>3 DEF AnswerLogged, n
  <2>5. End(rec) \in Int
    BY <1>1, LenProperties DEF Record, End
  <2>6. QED
    BY <1>5, <1>13, <2>2, <2>4, <2>5
<1>14. QED
  BY <1>6, <1>9, <1>11, <1>12, <1>13 DEF LogOf, rec, w, w2, ev, new

\* The error event of a turn that raised.
LEMMA FailedLog ==
  ASSUME IInv, NEW q \in RunIds, LogOf(runs[q], worker[q]),
         Writer(q, "reporting")
  PROVE  LogOf(AppendLocked(runs[q], FailedEv), [worker[q] EXCEPT !.pc = "done"])
<1> DEFINE rec == runs[q]
           w == worker[q]
           w2 == [w EXCEPT !.pc = "done"]
           new == AppendLocked(rec, FailedEv)
<1>1. /\ rec \in Record /\ WellFormedLog(rec.events) /\ w \in WorkerState /\ w.pc = "reporting"
      /\ Committed(w) /\ rec.status # "failed" /\ ThreadAt(w)
  BY WritingRun
<1>2. FailedEv \in Evs /\ FailedEv \notin {StartedEv, CancelledEv}
  BY EvConstants, EvKinds
<1>3. w2 \in WorkerState /\ w2.pc = "done" /\ w2.emits = w.emits /\ w2.responding = w.responding
  BY <1>1 DEF WorkerState
<1> HIDE DEF rec, w2
<1>4. new.status = "failed"
  BY <1>1, <1>2, AppendedRecord, EvKinds
<1> HIDE DEF w
<1>5. LastShown(new) /\ CancelBudget(new, w2) /\ (MaxEvents >= 4 => CancelShown(new))
  <2>1. LogOf(rec, w) /\ ~Committed(w2)
    BY <1>3 DEF rec, w, Committed
  <2>2. QED
    BY <1>1, <1>2, <1>3, <2>1, WrittenLog
<1> HIDE DEF new
<1>6. ThreadAt(w2)
  BY <1>1, <1>3 DEF ThreadAt
<1>7. StatusAt(new, w2) /\ AnswerLogged(new, w2) /\ AnswerShown(new)
  BY <1>3, <1>4 DEF StatusAt, AnswerLogged, AnswerShown
<1>8. QED
  BY <1>5, <1>6, <1>7 DEF LogOf, rec, w, w2, new

\* Nothing changes for a run, or its thread ends or is handed to the executor.
LEMMA RestingLog ==
  ASSUME NEW rec, NEW w \in WorkerState, LogOf(rec, w)
  PROVE  /\ LogOf(rec, [w EXCEPT !.pc = "dead"])
         /\ w.pc = "idle" => LogOf(rec, [w EXCEPT !.pc = "queued"])
<1> DEFINE dead == [w EXCEPT !.pc = "dead"]
           queued == [w EXCEPT !.pc = "queued"]
<1>1. /\ dead.pc = "dead" /\ dead.emits = w.emits /\ dead.responding = w.responding
      /\ queued.pc = "queued" /\ queued.emits = w.emits /\ queued.responding = w.responding
      /\ queued.todo = w.todo
  BY DEF WorkerState
<1> HIDE DEF dead, queued
<1>2. ThreadAt(w)
  BY DEF LogOf
<1>3. ThreadAt(dead) /\ (w.pc = "idle" => ThreadAt(queued))
  BY <1>1, <1>2 DEF ThreadAt
<1>4. CancelBudget(rec, w) => /\ CancelBudget(rec, dead)
                              /\ w.pc = "idle" => CancelBudget(rec, queued)
  BY <1>1 DEF CancelBudget, Committed
<1>5. /\ StatusAt(rec, dead) /\ AnswerLogged(rec, dead)
      /\ AnswerLogged(rec, queued)
      /\ w.pc = "idle" /\ StatusAt(rec, w) => StatusAt(rec, queued)
  BY <1>1 DEF StatusAt, AnswerLogged
<1>6. QED
  BY <1>3, <1>4, <1>5 DEF LogOf, dead, queued

\* A stored run keeps its record while its thread moves to one that is past no check.
LEMMA MovedLog ==
  ASSUME NEW rec, NEW w \in WorkerState, NEW w2 \in WorkerState, LogOf(rec, w), ThreadAt(w2),
         Committed(w2) => Committed(w) \/ ~rec.cancelRequested,
         rec.status # "absent" => StatusAt(rec, w2),
         rec.status # "absent" /\ MaxEvents >= 4 => AnswerLogged(rec, w2)
  PROVE  LogOf(rec, w2)
<1>1. CancelBudget(rec, w) => CancelBudget(rec, w2)
  BY DEF CancelBudget
<1>2. QED
  BY <1>1 DEF LogOf

\* The append was made and the store raised: the thread ends, or goes to its except clause
\* with what it had written as the last of the log.
LEMMA StrayedLog ==
  ASSUME NEW rec, NEW w \in WorkerState, NEW found \in WorkerState, LogOf(rec, found),
         found.emits = w.emits, found.responding = w.responding,
         NEW missing \in {"failing", "dead"},
         missing = "failing" => StoreRaises /\ found.pc \in {"emitting", "projecting"}
  PROVE  LogOf(rec, [w EXCEPT !.pc = missing])
<1> DEFINE stray == [w EXCEPT !.pc = missing]
<1>1. stray.pc = missing /\ stray.emits = found.emits /\ stray.responding = found.responding
  BY DEF WorkerState
<1> HIDE DEF stray
<1>2. ThreadAt(stray)
  BY <1>1 DEF LogOf, ThreadAt
<1>3. CancelBudget(rec, found) => CancelBudget(rec, stray)
  BY <1>1 DEF CancelBudget, Committed
<1>4. StatusAt(rec, found) => StatusAt(rec, stray)
  BY <1>1 DEF StatusAt
<1>5. AnswerLogged(rec, stray)
  BY <1>1 DEF AnswerLogged
<1>6. QED
  BY <1>2, <1>3, <1>4, <1>5 DEF LogOf, stray

\* A thread looks, or its runtime returns or raises.
LEMMA ThinkingLog ==
  ASSUME IInv, NEW q \in RunIds, LogOf(runs[q], worker[q]), Thinks(q)
  PROVE  LogOf(runs'[q], worker'[q])
<1> DEFINE rec == runs[q]
           w == worker[q]
           w2 == worker'[q]
<1>1. /\ w \in WorkerState /\ HoldsEvent(q) /\ w.todo \in Seq(TurnEvs)
      /\ worker \in [RunIds -> WorkerState]
  BY DEF IInv, TypeOK, TodoOK, HoldsEvent
<1>2. /\ runs'[q] = rec /\ LogOf(rec, w) /\ ThreadAt(w)
      /\ rec.status # "absent" => StatusAt(rec, w)
      /\ rec.status # "absent" /\ MaxEvents >= 4 => AnswerLogged(rec, w)
  BY DEF Thinks, LogOf
<1>3. CancelRequested(q) <=> rec.status # "absent" /\ rec.cancelRequested
  BY DEF CancelRequested, Stored
<1>4. rec.status = "absent" \/ rec.cancelRequested \in BOOLEAN
  BY DEF IInv, TypeOK, Record, NoRecord
<1>5. ASSUME NEW pc \in PCs, w2 = [w EXCEPT !.pc = pc],
             \/ pc = "done"
             \/ w.pc = "emitting" /\ pc = "failing"
             \/ w.pc = "projecting" /\ pc = "delivering" /\ w.todo # <<>> /\ ~CancelRequested(q)
             \/ w.pc = "failing" /\ pc = "reporting" /\ ~CancelRequested(q)
             \/ w.pc = "projecting" /\ pc = "failing" /\ w.todo # <<>>
             \/ w.pc = "failing" /\ pc = "dead"
      PROVE  LogOf(rec, w2)
  <2>1. /\ w2 \in WorkerState /\ w2.pc = pc /\ w2.todo = w.todo /\ w2.emits = w.emits
        /\ w2.responding = w.responding
    BY <1>1, <1>5 DEF WorkerState, PCs
  <2> HIDE DEF rec, w, w2
  <2>2. ThreadAt(w2)
    BY <1>2, <1>5, <2>1 DEF ThreadAt
  <2>3. rec.status # "absent" => StatusAt(rec, w2)
    BY <1>2, <1>5, <2>1 DEF StatusAt
  <2>4. rec.status # "absent" /\ MaxEvents >= 4 => AnswerLogged(rec, w2)
    BY <1>2, <1>5, <2>1 DEF AnswerLogged
  <2>5. Committed(w2) => ~CancelRequested(q)
    BY <1>5, <2>1 DEF Committed
  <2>6. CASE rec.status = "absent"
    BY <1>2, <2>2, <2>6 DEF LogOf
  <2>7. CASE rec.status # "absent"
    BY <1>1, <1>2, <1>3, <2>1, <2>2, <2>3, <2>4, <2>5, <2>7, MovedLog
  <2>8. QED
    BY <2>6, <2>7
<1>6. ASSUME TurnRaises(q) \/ ProjectCheck(q) \/ FailCheck(q) \/ CheckRaises(q)
      PROVE  LogOf(rec, w2)
  <2>1. \E pc \in PCs : w2 = [w EXCEPT !.pc = pc] /\
             (\/ pc = "done"
              \/ w.pc = "emitting" /\ pc = "failing"
              \/ w.pc = "projecting" /\ pc = "delivering" /\ w.todo # <<>> /\ ~CancelRequested(q)
              \/ w.pc = "failing" /\ pc = "reporting" /\ ~CancelRequested(q)
              \/ w.pc = "projecting" /\ pc = "failing" /\ w.todo # <<>>
              \/ w.pc = "failing" /\ pc = "dead")
    <3>1. CASE TurnRaises(q) \/ ProjectCheck(q) \/ FailCheck(q)
      BY <1>1, <3>1 DEF TurnRaises, ProjectCheck, FailCheck, Step, PCs
    <3>2. CASE CheckRaises(q)
      BY <1>1, <3>2 DEF CheckRaises, Step, PCs
    <3>3. QED
      BY <1>6, <3>1, <3>2
  <2>2. QED
    BY <1>5, <2>1
<1>7. ASSUME NEW ev \in Evs, EmitCheck(q, ev)
      PROVE  LogOf(rec, w2)
  <2>1. /\ w.pc = "emitting" /\ w.emits < EmitBound /\ ev \in Emitted(q)
        /\ w2.emits = w.emits + 1
        /\ w2.responding = (w.responding \/ ev = RespStartedEv)
        /\ w2.todo = IF CancelRequested(q) THEN <<>> ELSE <<ev>>
        /\ w2.pc = IF CancelRequested(q) THEN "emitting" ELSE "appending"
    BY <1>1, <1>7 DEF EmitCheck, WorkerState
  <2>2. w2 \in WorkerState
    <3>1. worker' \in [RunIds -> WorkerState]
      BY <1>7, EmitCheckIInv DEF IInv, TypeOK
    <3>2. QED
      BY <3>1
  <2>3. w.emits \in Nat /\ w.responding \in BOOLEAN
    BY <1>1, CoordinatorAssumption DEF WorkerState
  <2>4. \/ w.emits = 0 /\ ev = ExecutingEv
        \/ w.emits # 0 /\ ev \in ToolEvs
        \/ w.emits # 0 /\ w.responding /\ ev = DeltaEv
        \/ w.emits # 0 /\ ~w.responding /\ ev = RespStartedEv
    BY <2>1 DEF Emitted
  <2> HIDE DEF rec, w, w2
  <2>5. ThreadAt(w2)
    BY <2>1, <2>3 DEF ThreadAt
  <2>6. ASSUME rec.status # "absent", ~rec.cancelRequested PROVE StatusAt(rec, w2)
    <3>1. w2.pc = "appending" /\ w2.todo = <<ev>> /\ w2.todo[1] = ev
      BY <1>3, <2>1, <2>6
    <3>2. rec.status = IF w.emits = 0 THEN "planning"
                       ELSE IF w.responding THEN "streaming" ELSE "executing"
      BY <1>2, <2>1, <2>6 DEF StatusAt
    <3>3. w.emits = 0 => ~w.responding
      BY <1>2 DEF ThreadAt
    <3>4. ExecutingEv # RespStartedEv /\ RespStartedEv \notin ToolEvs /\ DeltaEv # RespStartedEv
      BY DEF ExecutingEv, RespStartedEv, DeltaEv, ToolEvs, ToolStartedEv, ToolCompletedEv, Ev
    <3>5. \/ /\ w2.todo[1] = ExecutingEv /\ w2.emits = 1 /\ ~w2.responding /\ rec.status = "planning"
          \/ /\ w2.todo[1] \in ToolEvs /\ w2.emits > 1
             /\ rec.status = IF w2.responding THEN "streaming" ELSE "executing"
          \/ /\ w2.todo[1] = RespStartedEv /\ w2.emits > 1 /\ w2.responding /\ rec.status = "executing"
          \/ /\ w2.todo[1] = DeltaEv /\ w2.emits > 1 /\ w2.responding /\ rec.status = "streaming"
      <4>1. CASE w.emits = 0 /\ ev = ExecutingEv
        BY <2>1, <2>3, <3>1, <3>2, <3>3, <3>4, <4>1
      <4>2. CASE w.emits # 0 /\ ev \in ToolEvs
        BY <2>1, <2>3, <3>1, <3>2, <3>4, <4>2
      <4>3. CASE w.emits # 0 /\ w.responding /\ ev = DeltaEv
        <5>1. w2.responding /\ rec.status = "streaming"
          BY <2>1, <3>2, <4>3, Zenon
        <5>2. w2.emits > 1
          BY <2>1, <2>3, <4>3
        <5>3. QED
          BY <3>1, <4>3, <5>1, <5>2
      <4>4. CASE w.emits # 0 /\ ~w.responding /\ ev = RespStartedEv
        <5>1. w2.responding /\ rec.status = "executing"
          BY <2>1, <3>2, <4>4, Zenon
        <5>2. w2.emits > 1
          BY <2>1, <2>3, <4>4
        <5>3. QED
          BY <3>1, <4>4, <5>1, <5>2
      <4>5. QED
        BY <2>4, <4>1, <4>2, <4>3, <4>4
    <3>6. QED
      BY <3>1, <3>5 DEF StatusAt
  <2>7. rec.status # "absent" => StatusAt(rec, w2)
    BY <2>6 DEF StatusAt
  <2>8. AnswerLogged(rec, w2)
    BY <2>1 DEF AnswerLogged
  <2>9. Committed(w2) => ~CancelRequested(q)
    BY <2>1 DEF Committed
  <2>10. CASE rec.status = "absent"
    BY <1>2, <2>5, <2>10 DEF LogOf
  <2>11. CASE rec.status # "absent"
    BY <1>1, <1>2, <1>3, <2>2, <2>5, <2>7, <2>8, <2>9, <2>11, MovedLog
  <2>12. QED
    BY <2>10, <2>11
<1>8. ASSUME NEW events \in Projected(w.responding), TurnReturns(q, events)
      PROVE  LogOf(rec, w2)
  <2>1. /\ w.pc = "emitting" /\ w.emits > 0
        /\ w2.pc = "projecting" /\ w2.todo = events /\ w2.emits = w.emits
        /\ w2.responding = w.responding
    BY <1>1, <1>8 DEF TurnReturns, WorkerState
  <2>2. w2 \in WorkerState
    <3>1. worker' \in [RunIds -> WorkerState]
      BY <1>8, TurnReturnsIInv DEF IInv, TypeOK
    <3>2. QED
      BY <3>1
  <2>3. w.emits \in Nat /\ w.responding \in BOOLEAN
    BY <1>1, CoordinatorAssumption DEF WorkerState
  <2>4. /\ Len(events) \in Nat /\ Len(events) >= 2
        /\ events[Len(events)] = CompletedEv /\ events[Len(events) - 1] = RespCompletedEv
        /\ \A i \in 1..(Len(events) - 1) :
             events[i] \in {SceneEv, RespStartedEv, DeltaEv, RespCompletedEv}
    BY <2>3, ProjectionEnds
  <2> HIDE DEF rec, w, w2
  <2>5. ThreadAt(w2)
    BY <2>1, <2>3, <2>4 DEF ThreadAt
  <2>6. rec.status # "absent" => StatusAt(rec, w2)
    BY <1>2, <2>1, <2>3 DEF StatusAt
  <2>7. AnswerLogged(rec, w2)
    BY <2>1, <2>4 DEF AnswerLogged
  <2>8. ~Committed(w2)
    BY <2>1 DEF Committed
  <2>9. QED
    BY <1>1, <1>2, <2>2, <2>5, <2>6, <2>7, <2>8, MovedLog
<1>9. LogOf(rec, w2)
  BY <1>6, <1>7, <1>8 DEF Thinks
<1>10. QED
  BY <1>2, <1>9

\* An append the store made before it raised.
LEMMA StrayedStep ==
  ASSUME IInv, NEW q \in RunIds, LogOf(runs[q], worker[q]), AppendStrays(q)
  PROVE  LogOf(runs'[q], worker'[q])
<1> DEFINE w == worker[q]
           todo == w.todo
<1>1. w \in WorkerState /\ worker \in [RunIds -> WorkerState]
  BY DEF IInv, TypeOK
<1>2. CASE Strays(q, "queued", PlanningEv, "dead")
  <2> DEFINE found == [w EXCEPT !.pc = "emitting"]
  <2>1. Writer(q, "queued") /\ runs'[q] = AppendLocked(runs[q], PlanningEv)
        /\ worker'[q] = [w EXCEPT !.pc = "dead"]
    BY <1>2 DEF Strays, Writes
  <2>2. LogOf(runs'[q], found)
    BY <2>1, PlannedLog
  <2>3. found \in WorkerState /\ found.emits = w.emits /\ found.responding = w.responding
    BY <1>1 DEF WorkerState
  <2> HIDE DEF w, found
  <2>4. "dead" \in {"failing", "dead"}
    OBVIOUS
  <2>5. LogOf(runs'[q], [w EXCEPT !.pc = "dead"])
    BY <1>1, <2>1, <2>2, <2>3, <2>4, StrayedLog
  <2>6. QED
    BY <2>1, <2>5
<1>3. CASE Strays(q, "appending", Head(todo), "failing")
  <2> DEFINE found == [w EXCEPT !.pc = "emitting", !.todo = <<>>]
  <2>1. Writer(q, "appending") /\ runs'[q] = AppendLocked(runs[q], Head(todo))
        /\ worker'[q] = [w EXCEPT !.pc = "failing"] /\ StoreRaises
    BY <1>3 DEF Strays, Writes
  <2>2. LogOf(runs'[q], found)
    BY <2>1, EmittedLog
  <2>3. found \in WorkerState /\ found.emits = w.emits /\ found.responding = w.responding
        /\ found.pc = "emitting"
    BY <1>1, EmptySeq DEF WorkerState
  <2> HIDE DEF w, found
  <2>4. "failing" \in {"failing", "dead"}
    OBVIOUS
  <2>5. LogOf(runs'[q], [w EXCEPT !.pc = "failing"])
    BY <1>1, <2>1, <2>2, <2>3, <2>4, StrayedLog
  <2>6. QED
    BY <2>1, <2>5
<1>4. CASE Strays(q, "delivering", Head(todo), "failing")
  <2> DEFINE found == [w EXCEPT !.pc = "projecting", !.todo = Tail(@)]
  <2>1. Writer(q, "delivering") /\ runs'[q] = AppendLocked(runs[q], Head(todo))
        /\ worker'[q] = [w EXCEPT !.pc = "failing"] /\ StoreRaises
    BY <1>4 DEF Strays, Writes
  <2>2. LogOf(runs'[q], found)
    BY <2>1, ProjectedLog
  <2>3. found \in WorkerState /\ found.emits = w.emits /\ found.responding = w.responding
        /\ found.pc = "projecting"
    <3>1. todo \in Seq(Evs) /\ todo # <<>>
      BY <1>1, <2>1 DEF WorkerState, IInv, TodoOK, HoldsEvent, Writer
    <3>2. Tail(todo) \in Seq(Evs)
      BY <3>1, HeadTailProperties
    <3>3. QED
      BY <1>1, <3>2 DEF WorkerState
  <2> HIDE DEF w, found
  <2>4. "failing" \in {"failing", "dead"}
    OBVIOUS
  <2>5. LogOf(runs'[q], [w EXCEPT !.pc = "failing"])
    BY <1>1, <2>1, <2>2, <2>3, <2>4, StrayedLog
  <2>6. QED
    BY <2>1, <2>5
<1>5. CASE Strays(q, "reporting", FailedEv, "dead")
  <2> DEFINE found == [w EXCEPT !.pc = "done"]
  <2>1. Writer(q, "reporting") /\ runs'[q] = AppendLocked(runs[q], FailedEv)
        /\ worker'[q] = [w EXCEPT !.pc = "dead"]
    BY <1>5 DEF Strays, Writes
  <2>2. LogOf(runs'[q], found)
    BY <2>1, FailedLog
  <2>3. found \in WorkerState /\ found.emits = w.emits /\ found.responding = w.responding
    BY <1>1 DEF WorkerState
  <2> HIDE DEF w, found
  <2>4. "dead" \in {"failing", "dead"}
    OBVIOUS
  <2>5. LogOf(runs'[q], [w EXCEPT !.pc = "dead"])
    BY <1>1, <2>1, <2>2, <2>3, <2>4, StrayedLog
  <2>6. QED
    BY <2>1, <2>5
<1>6. QED
  BY <1>2, <1>3, <1>4, <1>5 DEF AppendStrays

\* An append of a stored run the store refused: its thread goes to the except clause.
LEMMA MissedLog ==
  ASSUME IInv, NEW q \in RunIds, LogOf(runs[q], worker[q]), Misses(q), Stored(q)
  PROVE  LogOf(runs'[q], worker'[q])
<1> DEFINE rec == runs[q]
           w == worker[q]
           w2 == [w EXCEPT !.pc = "failing"]
<1>1. /\ w \in WorkerState /\ HoldsEvent(q) /\ rec.status # "absent"
      /\ w.pc \in {"appending", "delivering"} /\ runs'[q] = rec /\ worker'[q] = w2
  BY DEF IInv, TypeOK, TodoOK, Misses, Stored
<1>2. /\ w2 \in WorkerState /\ w2.pc = "failing" /\ w2.emits = w.emits
      /\ w2.responding = w.responding
  BY <1>1 DEF WorkerState
<1>3. w.todo # <<>>
  BY <1>1 DEF HoldsEvent
<1> HIDE DEF rec, w, w2
<1>4. LogOf(rec, w)
  BY DEF rec, w
<1>5. ThreadAt(w2)
  BY <1>1, <1>2, <1>4 DEF LogOf, ThreadAt
<1>6. StatusAt(rec, w2)
  BY <1>1, <1>2, <1>3, <1>4 DEF LogOf, StatusAt
<1>7. AnswerLogged(rec, w2) /\ ~Committed(w2)
  BY <1>2 DEF AnswerLogged, Committed
<1>8. QED
  BY <1>1, <1>2, <1>4, <1>5, <1>6, <1>7, MovedLog

\* A step keeps what the log of every run says.
LEMMA LogsAtStep == IInv /\ LogsAt /\ [Next]_vars => LogsAt'
<1> SUFFICES ASSUME IInv, LogsAt, [Next]_vars, NEW q \in RunIds
             PROVE  LogOf(runs'[q], worker'[q])
  BY DEF LogsAt
<1>1. /\ LogOf(runs[q], worker[q]) /\ worker[q] \in WorkerState
      /\ Stored(q) => runs[q] \in Record /\ WellFormedLog(runs[q].events)
  BY StoredIsRecord DEF LogsAt, IInv, TypeOK
<1>2. CASE Unmoved(q)
  BY <1>1, <1>2 DEF Unmoved
<1>3. CASE Begins(q)
  BY <1>1, <1>3, BegunLog DEF Begins, LogOf
<1>4. CASE Vanishes(q)
  <2>1. ThreadAt(worker'[q])
    BY <1>1, <1>4, RestingLog DEF Vanishes, LogOf
  <2>2. QED
    BY <1>4, <2>1 DEF Vanishes, LogOf, NoRecord
<1>5. CASE Dies(q) \/ Queues(q)
  BY <1>1, <1>5, RestingLog DEF Dies, Queues
<1>6. CASE IsCancelled(q)
  BY <1>1, <1>6, CancelledLog DEF IsCancelled
<1>7. CASE Appends(q)
  BY <1>1, <1>7, PlannedLog, EmittedLog, ProjectedLog, FailedLog DEF Appends, Writes
<1>11. CASE AppendStrays(q)
  BY <1>1, <1>11, StrayedStep
<1>8. CASE Misses(q) /\ Stored(q)
  BY <1>1, <1>8, MissedLog
<1>12. CASE Misses(q) /\ ~Stored(q)
  <2>1. worker'[q] = [worker[q] EXCEPT !.pc = "failing"] /\ runs'[q] = runs[q] /\ ~Stored(q)
    BY <1>12 DEF Misses
  <2>2. /\ worker'[q].pc = "failing" /\ worker'[q].emits = worker[q].emits
        /\ worker'[q].responding = worker[q].responding
    BY <1>1, <2>1 DEF WorkerState
  <2>3. ThreadAt(worker'[q])
    BY <1>1, <2>2 DEF LogOf, ThreadAt
  <2>4. QED
    BY <2>1, <2>3 DEF LogOf, Stored
<1>9. CASE Thinks(q)
  BY <1>1, <1>9, ThinkingLog
<1>10. QED
  BY <1>2, <1>3, <1>4, <1>5, <1>6, <1>7, <1>8, <1>9, <1>11, <1>12, RunSteps DEF RunStep

\* Initially no run is stored and no thread has emitted.
LEMMA LogsAtInit == Init => LogsAt
<1> SUFFICES ASSUME Init, NEW q \in RunIds PROVE LogOf(runs[q], worker[q])
  BY DEF LogsAt
<1>1. runs[q] = NoRecord /\ worker[q] = IdleWorker
  BY DEF Init
<1>2. QED
  BY <1>1 DEF LogOf, ThreadAt, NoRecord, IdleWorker

\* The second invariant holds in every reachable state.
THEOREM LogInvariance == Spec => [](IInv /\ LogsAt)
<1>1. Init => IInv /\ LogsAt
  BY InitIInv, LogsAtInit
<1>2. IInv /\ LogsAt /\ [Next]_vars => (IInv /\ LogsAt)'
  BY NextIInv, LogsAtStep
<1>3. QED
  BY <1>1, <1>2, PTL DEF Spec

\* A cancelled turn adds at most one event, and a run is cancelled at most twice:
\* each check is stale by at most one append.
THEOREM CancelledOnceLate == Spec => []AtMostOneLateEvent
<1>1. IInv /\ LogsAt => AtMostOneLateEvent
  <2> SUFFICES ASSUME IInv, LogsAt, NEW r \in RunIds
               PROVE  /\ Cardinality(LateEvents(runs[r].events)) <= 1
                      /\ Cardinality({i \in DOMAIN runs[r].events :
                                        runs[r].events[i].ev = CancelledEv}) <= 2
    BY DEF AtMostOneLateEvent
  <2>1. CASE ~Stored(r)
    <3>1. runs[r].events = <<>>
      BY <2>1 DEF IInv, TypeOK, Stored, Record, RunStatuses, TERMINAL_RUN_STATUSES, NoRecord
    <3>2. LateEvents(<<>>) = {} /\ CancelEvents(<<>>) = {}
      BY DEF LateEvents, CancelEvents
    <3>3. /\ Cardinality(LateEvents(runs[r].events)) = 0
          /\ Cardinality(CancelEvents(runs[r].events)) = 0
      BY <3>1, <3>2, FS_EmptySet
    <3>4. QED
      BY <3>3 DEF CancelEvents
  <2>2. CASE Stored(r)
    <3>1. /\ CancelBudget(runs[r], worker[r]) /\ runs[r] \in Record
      BY <2>2, StoredIsRecord DEF LogsAt, LogOf, Stored, IInv
    <3>2. CASE runs[r].cancelRequested
      BY <3>1, <3>2 DEF CancelBudget, CancelEvents
    <3>3. CASE ~runs[r].cancelRequested
      <4>1. CancelEvents(runs[r].events) = {}
        BY <3>1, <3>3 DEF CancelBudget
      <4>2. LateEvents(runs[r].events) = {}
        <5>1. runs[r].events \in Seq(Event)
          BY <3>1 DEF Record
        <5>2. \A i \in DOMAIN runs[r].events : \A j \in 1..(i - 1) : j \in DOMAIN runs[r].events
          BY <5>1, LenProperties
        <5>3. QED
          BY <4>1, <5>2 DEF LateEvents, CancelEvents
      <4>3. QED
        BY <4>1, <4>2, FS_EmptySet DEF CancelEvents
    <3>4. QED
      BY <3>2, <3>3
  <2>3. QED
    BY <2>1, <2>2
<1>2. QED
  BY <1>1, LogInvariance, PTL

\* From max_events 4 on (the code's is 2000), a run that shows "completed" carries the
\* canonical answer right before run.completed, whatever was trimmed or cancelled.
THEOREM CompletedAnswers ==
  ASSUME MaxEvents >= 4
  PROVE  Spec => []CompletedCarriesAnswer
<1>1. IInv /\ LogsAt => CompletedCarriesAnswer
  <2> SUFFICES ASSUME IInv, LogsAt, NEW r \in RunIds, runs[r].status = "completed"
               PROVE  LET events == runs[r].events
                          n == Len(events)
                      IN /\ events[n].ev = CompletedEv
                         /\ \/ events[n - 1].ev = RespCompletedEv
                            \/ events[n - 1].ev = CancelledEv /\ events[n - 2].ev = RespCompletedEv
    BY DEF CompletedCarriesAnswer
  <2>1. AnswerShown(runs[r])
    BY DEF LogsAt, LogOf
  <2>2. runs[r] \in Record
    BY DEF IInv, TypeOK, NoRecord
  <2>3. Len(runs[r].events) \in Nat
    BY <2>2, LenProperties DEF Record
  <2>4. Len(runs[r].events) - 0 = Len(runs[r].events)
    BY <2>3
  <2>5. QED
    BY <2>1, <2>4 DEF AnswerShown, Back, End
<1>2. QED
  BY <1>1, LogInvariance, PTL

-----------------------------------------------------------------------------
(***************************************************************************)
(* What a browser has received.                                            *)
(***************************************************************************)
\* The events of a log and its last sequence number.
LEMMA LogFacts ==
  ASSUME NEW log \in Seq(Event)
  PROVE  /\ Len(log) \in Nat /\ DOMAIN log = 1..Len(log)
         /\ \A i \in 1..Len(log) : log[i] \in Event /\ log[i].sequence \in Nat
         /\ LastSequence(log) \in Nat
         /\ Len(log) = 0 => LastSequence(log) = 0
         /\ Len(log) # 0 => LastSequence(log) = log[Len(log)].sequence
<1>1. Len(log) \in Nat /\ DOMAIN log = 1..Len(log)
  BY LenProperties
<1>2. \A i \in 1..Len(log) : log[i] \in Event /\ log[i].sequence \in Nat
  <2>1. \A i \in 1..Len(log) : log[i] \in Event
    BY ElementOfSeq
  <2>2. QED
    BY <2>1 DEF Event
<1>3. Len(log) = 0 <=> log = <<>>
  BY EmptySeq
<1>4. Len(log) # 0 => Len(log) \in 1..Len(log)
  BY <1>1
<1>5. QED
  BY <1>1, <1>2, <1>3, <1>4 DEF LastSequence

\* Sequence numbers that grow from each event to the next grow throughout.
LEMMA GrowsThroughout ==
  ASSUME NEW log \in Seq(Event),
         \A i \in 2..Len(log) : log[i].sequence > log[i - 1].sequence
  PROVE  Increasing(log)
<1> SUFFICES ASSUME NEW i \in 1..Len(log), NEW j \in 1..Len(log), i < j,
                    ~(log[i].sequence < log[j].sequence)
             PROVE  FALSE
  BY DEF Increasing
<1> DEFINE T == {k \in Nat : k \in (i + 1)..Len(log) /\ ~(log[i].sequence < log[k].sequence)}
<1>1. Len(log) \in Nat /\ \A k \in 1..Len(log) : log[k].sequence \in Nat
  BY LogFacts
<1>2. j \in T
  BY <1>1
<1>3. PICK k \in T : \A m \in T : k <= m
  <2>1. T \subseteq Nat /\ T # {}
    BY <1>2
  <2> HIDE DEF T
  <2>2. QED
    BY <2>1, LeastNatural
<1>4. /\ k \in Nat /\ k \in 2..Len(log) /\ k - 1 \in 1..Len(log) /\ k - 1 \in Nat
      /\ ~(log[i].sequence < log[k].sequence)
  BY <1>1
<1>5. log[k].sequence > log[k - 1].sequence
  BY <1>4
<1>6. /\ log[i].sequence \in Nat /\ log[k].sequence \in Nat /\ log[k - 1].sequence \in Nat
      /\ k \in 1..Len(log)
  BY <1>1, <1>4
<1>7. CASE k - 1 = i
  BY <1>4, <1>5, <1>7
<1>8. CASE k - 1 # i
  <2>1. k \in (i + 1)..Len(log) /\ Len(log) \in Nat
    BY <1>1
  <2>2. k - 1 \in Nat /\ k - 1 \in (i + 1)..Len(log) /\ ~(k <= k - 1)
    <3> HIDE DEF T
    <3>1. QED
      BY <1>8, <2>1
  <2>3. k - 1 \notin T
    BY <1>3, <2>2
  <2>4. log[i].sequence < log[k - 1].sequence
    BY <2>2, <2>3
  <2>5. \A a, b, c \in Nat : a < b /\ c > b => a < c
    OBVIOUS
  <2>6. log[i].sequence < log[k].sequence
    <3> HIDE DEF T
    <3>1. QED
      BY <1>5, <1>6, <2>4, <2>5
  <2>7. QED
    BY <1>4, <2>6
<1>9. QED
  BY <1>7, <1>8

\* A growing log's last sequence number is its largest.
LEMMA LastIsLargest ==
  ASSUME NEW log \in Seq(Event), Increasing(log), NEW i \in 1..Len(log)
  PROVE  log[i].sequence <= LastSequence(log)
<1>1. /\ Len(log) \in Nat /\ \A k \in 1..Len(log) : log[k].sequence \in Nat
      /\ Len(log) # 0 => LastSequence(log) = log[Len(log)].sequence
  BY LogFacts
<1>2. Len(log) # 0 /\ Len(log) \in 1..Len(log) /\ (i = Len(log) \/ i < Len(log))
  BY <1>1
<1>3. QED
  BY <1>1, <1>2 DEF Increasing

\* A run's log grows, from sequence number 1.
LEMMA RunLogGrows ==
  ASSUME NEW log \in Seq(Event), WellFormedLog(log)
  PROVE  Increasing(log) /\ \A i \in 1..Len(log) : log[i].sequence >= 1
<1>1. Increasing(log)
  BY GrowsThroughout DEF WellFormedLog
<1>2. Len(log) \in Nat /\ log[1].sequence = 1 /\ \A k \in 1..Len(log) : log[k].sequence \in Nat
  BY LogFacts DEF WellFormedLog
<1>3. ASSUME NEW i \in 1..Len(log)
      PROVE  log[i].sequence >= 1
  <2>1. i = 1 \/ (1 \in 1..Len(log) /\ 1 < i)
    BY <1>2
  <2>2. QED
    BY <1>1, <1>2, <2>1 DEF Increasing
<1>4. QED
  BY <1>1, <1>3

\* A poll sends what lies behind the cursor.
LEMMA FreshIsRest ==
  ASSUME NEW log \in Seq(Event), Increasing(log), NEW cursor \in Nat
  PROVE  \E k \in 0..Len(log) :
           /\ \A i \in 1..k : log[i].sequence <= cursor
           /\ \A i \in (k + 1)..Len(log) : log[i].sequence > cursor
           /\ Fresh(log, cursor) \in Seq(Event)
           /\ Len(Fresh(log, cursor)) = Len(log) - k
           /\ \A i \in 1..(Len(log) - k) : Fresh(log, cursor)[i] = log[k + i]
<1> DEFINE sent == {i \in DOMAIN log : log[i].sequence <= cursor}
           n == Len(log)
           T == {i \in Nat : i \in 1..(n + 1) /\ i \notin sent}
<1>1. n \in Nat /\ DOMAIN log = 1..n /\ \A i \in 1..n : log[i] \in Event /\ log[i].sequence \in Nat
  BY LogFacts
<1>2. PICK first \in T : \A i \in T : first <= i
  <2>1. T \subseteq Nat /\ n + 1 \in T
    BY <1>1
  <2> HIDE DEF T
  <2>2. QED
    BY <2>1, LeastNatural
<1> DEFINE k == first - 1
<1>3. k \in 0..n /\ k \in Nat /\ first = k + 1 /\ first \in 1..(n + 1)
  BY <1>1, <1>2
<1>4. ASSUME NEW i \in 1..k
      PROVE  i \in sent
  <2>1. i \in Nat /\ i \in 1..(n + 1) /\ ~(first <= i)
    BY <1>1, <1>3
  <2>2. QED
    BY <1>2, <2>1
<1>5. ASSUME NEW i \in (k + 1)..n
      PROVE  log[i].sequence > cursor
  <2>1. first \in 1..n /\ i \in 1..n /\ (first = i \/ first < i)
    BY <1>1, <1>3
  <2>2. ~(log[first].sequence <= cursor)
    BY <1>1, <1>2, <2>1
  <2>3. log[first].sequence <= log[i].sequence
    BY <1>1, <2>1 DEF Increasing
  <2>4. QED
    BY <1>1, <2>1, <2>2, <2>3
<1>6. sent = 1..k
  <2>1. ASSUME NEW i \in sent
        PROVE  i \in 1..k
    <3>1. i \in 1..n /\ log[i].sequence <= cursor
      BY <1>1
    <3>2. i \notin (k + 1)..n
      BY <1>1, <1>5, <3>1
    <3>3. QED
      BY <1>1, <1>3, <3>1, <3>2
  <2>2. QED
    BY <1>4, <2>1
<1>7. Cardinality(sent) = k
  <2>1. Cardinality(1..k) = IF 1 > k THEN 0 ELSE k - 1 + 1
    BY <1>3, FS_Interval
  <2> HIDE DEF sent, k
  <2>2. QED
    BY <1>3, <1>6, <2>1
<1>8. Fresh(log, cursor) = SubSeq(log, k + 1, n)
  <2> HIDE DEF k
  <2>1. QED
    BY <1>7 DEF Fresh
<1> HIDE DEF k, n, sent, T
<1>9. /\ SubSeq(log, k + 1, n) \in Seq(Event)
      /\ Len(SubSeq(log, k + 1, n)) = IF k + 1 <= n THEN n - (k + 1) + 1 ELSE 0
      /\ \A i \in 1..(n - (k + 1) + 1) : SubSeq(log, k + 1, n)[i] = log[k + 1 + i - 1]
  <2>1. \A i \in (k + 1)..n : log[i] \in Event
    BY <1>1, <1>3
  <2>2. k + 1 \in Int /\ n \in Int
    BY <1>1, <1>3
  <2>3. QED
    BY <2>1, <2>2, SubSeqProperties
<1>10. /\ Len(SubSeq(log, k + 1, n)) = n - k
       /\ \A i \in 1..(n - k) : SubSeq(log, k + 1, n)[i] = log[k + i]
  <2>1. (IF k + 1 <= n THEN n - (k + 1) + 1 ELSE 0) = n - k /\ n - (k + 1) + 1 = n - k
    BY <1>1, <1>3
  <2>2. \A i \in 1..(n - k) : k + 1 + i - 1 = k + i
    BY <1>1, <1>3
  <2>3. QED
    BY <1>9, <2>1, <2>2
<1>11. \A i \in 1..k : log[i].sequence <= cursor
  BY <1>4 DEF sent
<1>12. QED
  BY <1>3, <1>5, <1>8, <1>9, <1>10, <1>11 DEF n

\* Whatever prefix of a poll arrives, the browser has every event up to its last one.
LEMMA ReceivedCovers ==
  ASSUME NEW conn \in StreamState, InOrder(conn), conn.state = "open",
         NEW log \in Seq(Event), WellFormedLog(log), Covers(conn.seen, log),
         NEW n \in 0..Len(Fresh(log, conn.cursor))
  PROVE  LET got == Received(conn, Fresh(log, conn.cursor), n)
         IN /\ got.run = conn.run
            /\ got.cursor = LastSequence(got.seen)
            /\ Increasing(got.seen)
            /\ Covers(got.seen, log)
<1> DEFINE seen == conn.seen
           cursor == conn.cursor
           fresh == Fresh(log, cursor)
           got == Received(conn, fresh, n)
           part == SubSeq(fresh, 1, n)
           m == Len(seen)
<1>1. /\ seen \in Seq(Event) /\ cursor \in Nat /\ cursor = LastSequence(seen) /\ Increasing(seen)
      /\ LastSequence(seen) <= LastSequence(log)
      /\ \A i \in 1..Len(log) : log[i].sequence <= cursor => Listed(log[i], seen)
  BY DEF StreamState, InOrder, Covers
<1>2. Increasing(log)
  BY RunLogGrows
<1>3. PICK k \in 0..Len(log) :
           /\ \A i \in 1..k : log[i].sequence <= cursor
           /\ \A i \in (k + 1)..Len(log) : log[i].sequence > cursor
           /\ fresh \in Seq(Event)
           /\ Len(fresh) = Len(log) - k
           /\ \A i \in 1..(Len(log) - k) : fresh[i] = log[k + i]
  BY <1>1, <1>2, FreshIsRest
<1>4. /\ Len(log) \in Nat /\ m \in Nat
      /\ \A i \in 1..Len(log) : log[i].sequence \in Nat
      /\ \A i \in 1..m : seen[i].sequence \in Nat /\ seen[i].sequence <= cursor
  BY <1>1, LogFacts, LastIsLargest
<1>5. got.run = conn.run /\ got.seen = seen \o part
      /\ got.cursor = IF n = 0 THEN cursor ELSE fresh[n].sequence
  BY DEF Received, StreamState
<1> HIDE DEF seen, fresh, got, m
<1>6. n \in Nat /\ n <= Len(log) - k /\ k \in Nat /\ k <= Len(log)
  BY <1>3, <1>4 DEF fresh
<1>7. /\ part \in Seq(Event) /\ Len(part) = n
      /\ \A i \in 1..n : part[i] = log[k + i]
  <2>1. \A i \in 1..n : fresh[i] \in Event
    BY <1>3, <1>4, <1>6, LogFacts
  <2>2. /\ part \in Seq(Event) /\ Len(part) = IF 1 <= n THEN n - 1 + 1 ELSE 0
        /\ \A i \in 1..(n - 1 + 1) : part[i] = fresh[1 + i - 1]
    BY <1>6, <2>1, SubSeqProperties
  <2>3. (IF 1 <= n THEN n - 1 + 1 ELSE 0) = n /\ n - 1 + 1 = n /\ \A i \in 1..n : 1 + i - 1 = i
    BY <1>6
  <2>4. \A i \in 1..n : i \in 1..(Len(log) - k)
    BY <1>4, <1>6
  <2>5. QED
    BY <1>3, <2>2, <2>3, <2>4
<1> HIDE DEF part
<1>8. /\ got.seen \in Seq(Event) /\ Len(got.seen) = m + n
      /\ \A i \in 1..m : got.seen[i] = seen[i]
      /\ \A i \in 1..n : got.seen[m + i] = log[k + i]
  <2>1. /\ seen \o part \in Seq(Event) /\ Len(seen \o part) = m + n
        /\ \A i \in 1..(m + n) : (seen \o part)[i] = IF i <= m THEN seen[i] ELSE part[i - m]
    BY <1>1, <1>7, ConcatProperties DEF m
  <2>2. \A i \in 1..m : i \in 1..(m + n) /\ i <= m
    BY <1>4, <1>6
  <2>3. \A i \in 1..n : m + i \in 1..(m + n) /\ ~(m + i <= m) /\ m + i - m = i
    BY <1>4, <1>6
  <2>4. \A i \in 1..m : (seen \o part)[i] = seen[i]
    BY <2>1, <2>2
  <2>5. \A i \in 1..n : (seen \o part)[m + i] = part[i]
    <3> SUFFICES ASSUME NEW i \in 1..n, NEW j, j = m + i
                 PROVE  (seen \o part)[j] = part[i]
      OBVIOUS
    <3>1. j \in 1..(m + n) /\ ~(j <= m) /\ j - m = i
      BY <1>4, <1>6
    <3>2. (seen \o part)[j] = part[j - m]
      BY <2>1, <3>1, Zenon
    <3>3. QED
      BY <3>1, <3>2
  <2>6. QED
    BY <1>5, <1>7, <2>1, <2>4, <2>5
<1>9. \A i \in 1..n : /\ k + i \in 1..Len(log) /\ log[k + i].sequence \in Nat
                      /\ log[k + i].sequence > cursor
  <2>1. \A i \in 1..n : k + i \in 1..Len(log) /\ k + i \in (k + 1)..Len(log)
    BY <1>4, <1>6
  <2>2. QED
    BY <1>3, <1>4, <2>1
<1>10. Increasing(got.seen)
  <2> SUFFICES ASSUME NEW i \in 1..(m + n), NEW j \in 1..(m + n), i < j
               PROVE  got.seen[i].sequence < got.seen[j].sequence
    BY <1>8 DEF Increasing
  <2>1. CASE j <= m
    <3>1. i \in 1..m /\ j \in 1..m
      BY <1>4, <2>1
    <3>2. QED
      BY <1>1, <1>8, <3>1 DEF Increasing, m
  <2>2. CASE i <= m /\ ~(j <= m)
    <3>1. i \in 1..m /\ j - m \in 1..n /\ j = m + (j - m)
      BY <1>4, <1>6, <2>2
    <3>2. got.seen[i].sequence \in Nat /\ got.seen[i].sequence <= cursor
      BY <1>4, <1>8, <3>1
    <3>3. got.seen[j].sequence \in Nat /\ got.seen[j].sequence > cursor
      BY <1>8, <1>9, <3>1
    <3>4. cursor \in Nat /\ \A a, b \in Nat : a <= cursor /\ b > cursor => a < b
      <4>1. cursor \in Nat
        BY <1>1
      <4> HIDE DEF cursor
      <4>2. QED
        BY <4>1
    <3>5. QED
      BY <3>2, <3>3, <3>4
  <2>3. CASE ~(i <= m)
    <3>1. i - m \in 1..n /\ j - m \in 1..n /\ i = m + (i - m) /\ j = m + (j - m)
          /\ k + (i - m) < k + (j - m)
      BY <1>4, <1>6, <2>3
    <3>2. got.seen[i] = log[k + (i - m)] /\ got.seen[j] = log[k + (j - m)]
      BY <1>8, <3>1
    <3>3. QED
      BY <1>2, <1>9, <3>1, <3>2 DEF Increasing
  <2>4. QED
    BY <2>1, <2>2, <2>3
<1>11. CASE n = 0
  <2>1. part = <<>>
    BY <1>7, <1>11, EmptySeq
  <2>2. got.seen = seen
    BY <1>1, <1>5, <2>1, ConcatEmptySeq
  <2>3. QED
    BY <1>1, <1>5, <1>10, <1>11, <2>2 DEF Covers, seen, got, fresh
<1>12. CASE n # 0
  <2>1. n \in 1..n /\ m + n # 0
    BY <1>4, <1>6, <1>12
  <2>2. LastSequence(got.seen) = log[k + n].sequence
    BY <1>8, <2>1, LogFacts
  <2>3. got.cursor = LastSequence(got.seen)
    <3>1. fresh[n] = log[k + n]
      BY <1>3, <1>4, <1>6, <2>1
    <3>2. QED
      BY <1>5, <1>12, <2>2, <3>1
  <2>4. LastSequence(got.seen) <= LastSequence(log)
    BY <1>2, <1>9, <2>1, <2>2, LastIsLargest
  <2>5. ASSUME NEW i \in 1..Len(log), log[i].sequence <= LastSequence(got.seen)
        PROVE  Listed(log[i], got.seen)
    <3>1. i <= k + n
      <4>1. k + n \in 1..Len(log) /\ log[k + n].sequence \in Nat /\ log[i].sequence \in Nat
        BY <1>4, <1>9, <2>1
      <4>2. ~(k + n < i)
        BY <1>2, <2>2, <2>5, <4>1 DEF Increasing
      <4>3. QED
        BY <1>4, <1>6, <4>2
    <3>2. CASE i <= k
      <4>1. Listed(log[i], seen)
        <5>1. i \in 1..k
          BY <1>4, <1>6, <3>2
        <5>2. QED
          BY <1>1, <1>3, <5>1
      <4>2. \A j \in 1..m : j \in 1..(m + n)
        BY <1>4, <1>6
      <4>3. QED
        BY <1>8, <4>1, <4>2 DEF Listed, m
    <3>3. CASE ~(i <= k)
      <4>1. i - k \in 1..n /\ k + (i - k) = i /\ m + (i - k) \in 1..(m + n)
        BY <1>4, <1>6, <3>1, <3>3
      <4>2. got.seen[m + (i - k)] = log[i]
        BY <1>8, <4>1
      <4>3. QED
        BY <1>8, <4>1, <4>2 DEF Listed
    <3>4. QED
      BY <3>2, <3>3
  <2>6. QED
    BY <1>5, <1>10, <2>3, <2>4, <2>5 DEF Covers, seen, got, fresh
<1>13. QED
  BY <1>11, <1>12

\* An append goes behind what any browser has received.
LEMMA AppendCovers ==
  ASSUME NEW record \in Record, WellFormedLog(record.events), NEW ev \in Evs, ev # StartedEv,
         NEW seen \in Seq(Event), Covers(seen, record.events)
  PROVE  Covers(seen, AppendLocked(record, ev).events)
<1> DEFINE old == record.events
           kept == AppendLocked(record, ev).events
<1>1. /\ old \in Seq(Event) /\ kept \in Seq(Event) /\ Len(kept) \in 2..MaxEvents
      /\ kept[Len(kept)].sequence = LastSequence(old) + 1
  BY AppendedLog
<1>2. \A i \in DOMAIN kept : i = Len(kept) \/ \E j \in DOMAIN old : kept[i] = old[j]
  BY AppendedEnd
<1> HIDE DEF old, kept
<1>3. /\ LastSequence(old) \in Nat /\ LastSequence(seen) \in Nat
      /\ LastSequence(kept) = kept[Len(kept)].sequence
      /\ DOMAIN kept = 1..Len(kept) /\ DOMAIN old = 1..Len(old)
  <2>1. Len(kept) # 0
    BY <1>1, CoordinatorAssumption
  <2>2. QED
    BY <1>1, <2>1, LogFacts
<1>4. /\ LastSequence(seen) <= LastSequence(old)
      /\ \A i \in 1..Len(old) : old[i].sequence <= LastSequence(seen) => Listed(old[i], seen)
  BY DEF Covers, old
<1>5. LastSequence(seen) <= LastSequence(kept) /\ ~(kept[Len(kept)].sequence <= LastSequence(seen))
  BY <1>1, <1>3, <1>4
<1>6. ASSUME NEW i \in 1..Len(kept), kept[i].sequence <= LastSequence(seen)
      PROVE  Listed(kept[i], seen)
  <2>1. PICK j \in DOMAIN old : kept[i] = old[j]
    BY <1>2, <1>3, <1>5, <1>6
  <2>2. QED
    BY <1>3, <1>4, <1>6, <2>1
<1>7. QED
  BY <1>5, <1>6 DEF Covers, kept

\* What a step of the connection of browser c leaves: untouched, newly opened, a poll
\* that arrived whole or in part, lost, resumed, or broken by a restart.
LEMMA ConnectionMoves ==
  ASSUME IInv, [Next]_vars, NEW c \in Clients
  PROVE  \/ stream'[c] = stream[c]
         \/ /\ runs' = runs
            /\ \/ \E r \in RunIds : /\ Stored(r) /\ stream[c].state = "idle"
                                    /\ stream'[c] = [stream[c] EXCEPT !.state = "open", !.run = r]
               \/ /\ stream[c].state = "open" /\ Stored(stream[c].run)
                  /\ LET log == runs[stream[c].run].events
                         fresh == Fresh(log, stream[c].cursor)
                     IN \E n \in 0..Len(fresh) :
                          LET got == Received(stream[c], fresh, n)
                          IN \/ stream'[c] = [got EXCEPT !.state = "open"]
                             \/ stream'[c] = [got EXCEPT !.state = "broken", !.breaks = @ + 1]
                             \/ /\ stream'[c] = [got EXCEPT !.state = "ended"]
                                /\ runs[stream[c].run].status \in TERMINAL_RUN_STATUSES
                                /\ got.cursor >= LastSequence(log)
               \/ /\ stream[c].state # "idle" /\ ~Stored(stream[c].run)
                  /\ stream'[c] = [stream[c] EXCEPT !.state = "lost"]
               \/ /\ stream[c].state = "broken"
                  /\ stream'[c] = [stream[c] EXCEPT !.state = "open",
                                                    !.cursor = LastSequence(stream[c].seen)]
         \/ /\ \A r \in RunIds : runs'[r] = runs[r] \/ runs'[r] = NoRecord
            /\ stream[c].state = "open" /\ stream'[c] = [stream[c] EXCEPT !.state = "broken"]
<1>1. stream \in [Clients -> StreamState] /\ stream[c] \in StreamState
  BY DEF IInv, TypeOK
<1>2. ASSUME NEW d \in Clients, StreamStep(d), d # c
      PROVE  stream'[c] = stream[c]
  BY <1>1, <1>2 DEF StreamStep, OpenStream, Poll, BreakStream, LoseStream, ResumeStream
<1>3. ASSUME NEW r \in RunIds, OpenStream(c, r)
      PROVE  /\ runs' = runs /\ Stored(r) /\ stream[c].state = "idle"
             /\ stream'[c] = [stream[c] EXCEPT !.state = "open", !.run = r]
  BY <1>1, <1>3 DEF OpenStream
<1> DEFINE log == runs[stream[c].run].events
           fresh == Fresh(log, stream[c].cursor)
<1>4. ASSUME Poll(c)
      PROVE  /\ runs' = runs /\ stream[c].state = "open" /\ Stored(stream[c].run)
             /\ LET got == Received(stream[c], fresh, Len(fresh))
                IN \/ stream'[c] = [got EXCEPT !.state = "open"]
                   \/ /\ stream'[c] = [got EXCEPT !.state = "ended"]
                      /\ runs[stream[c].run].status \in TERMINAL_RUN_STATUSES
                      /\ got.cursor >= LastSequence(log)
  BY <1>1, <1>4 DEF Poll
<1>5. Poll(c) => Len(fresh) \in 0..Len(fresh)
  <2> SUFFICES ASSUME Poll(c) PROVE Len(fresh) \in 0..Len(fresh)
    OBVIOUS
  <2>1. stream[c].run \in RunIds /\ Stored(stream[c].run) /\ stream[c].cursor \in Nat
    BY <1>1 DEF Poll, StreamState, RunIds
  <2>2. log \in Seq(Event)
    BY <2>1, StoredIsRecord DEF IInv, Record
  <2> HIDE DEF log
  <2>3. fresh \in Seq(Event)
    BY <2>1, <2>2, FreshIsLog
  <2>4. QED
    BY <2>3, LenProperties
<1>6. ASSUME BreakStream(c)
      PROVE  /\ runs' = runs /\ stream[c].state = "open" /\ Stored(stream[c].run)
             /\ \E n \in 0..Len(fresh) :
                  stream'[c] = [Received(stream[c], fresh, n) EXCEPT !.state = "broken", !.breaks = @ + 1]
  BY <1>1, <1>6 DEF BreakStream
<1>7. ASSUME LoseStream(c)
      PROVE  /\ runs' = runs /\ ~Stored(stream[c].run) /\ stream[c].state # "idle"
             /\ stream'[c] = [stream[c] EXCEPT !.state = "lost"]
  BY <1>1, <1>7 DEF LoseStream
<1>8. ASSUME ResumeStream(c)
      PROVE  /\ runs' = runs /\ stream[c].state = "broken"
             /\ stream'[c] = [stream[c] EXCEPT !.state = "open", !.cursor = LastSequence(stream[c].seen)]
  BY <1>1, <1>8 DEF ResumeStream
<1>9. CASE Restart
  <2>1. \A r \in RunIds : runs'[r] = runs[r] \/ runs'[r] = NoRecord
    BY <1>9 DEF Restart
  <2>2. stream'[c] = IF stream[c].state = "open" THEN [stream[c] EXCEPT !.state = "broken"]
                     ELSE stream[c]
    BY <1>9 DEF Restart
  <2>3. QED
    BY <2>1, <2>2
<1>10. CASE \/ CreateSession \/ SaveClientRun \/ StartRaises \/ Submit \/ Expire \/ UNCHANGED vars
            \/ \E s \in SessionIds, m \in Messages : StartRun(s, m)
            \/ \E r \in RunIds : Cancel(r) \/ TurnStep(r)
  BY <1>10 DEF CreateSession, SaveClientRun, StartRaises, Submit, Expire, ExpireSession, ExpireRun,
       ExpireClientRun, vars, StartRun, NewRun, Cancel, TurnStep, Plan, EmitCheck, EmitAppend,
       TurnReturns, TurnRaises, ProjectCheck, ProjectAppend, FailCheck, FailAppend, CheckRaises
<1>11. CASE StreamStep(c)
  <2>1. CASE Poll(c)
    <3> HIDE DEF fresh, log
    <3>1. QED
      BY <1>4, <1>5, <2>1 DEF fresh, log
  <2>2. CASE BreakStream(c)
    BY <1>6, <2>2
  <2>3. QED
    BY <1>3, <1>7, <1>8, <1>11, <2>1, <2>2 DEF StreamStep
<1>12. QED
  BY <1>2, <1>9, <1>10, <1>11 DEF Next

\* A thread appends to a run that is stored.
LEMMA WritesStored ==
  ASSUME NEW r, Appends(r) \/ AppendStrays(r)
  PROVE  /\ Stored(r) /\ worker[r].pc \in {"queued", "appending", "delivering", "reporting"}
         /\ \E ev : runs'[r] = AppendLocked(runs[r], ev)
  BY DEF Appends, AppendStrays, Strays, Writes, Writer

\* A run's record after a step, for the browser that follows it.
LEMMA FollowedRun ==
  ASSUME IInv, [Next]_vars, NEW r \in RunIds, r < nextRun, NEW seen \in Seq(Event),
         Stored(r) => Covers(seen, runs[r].events), Stored(r)'
  PROVE  Covers(seen, runs'[r].events)
<1>1. RunStep(r)
  BY RunSteps
<1>2. ~Begins(r) /\ ~Vanishes(r)
  BY DEF Begins, Vanishes, NoRecord, Stored, IInv, TypeOK, RunIds
<1>3. CASE IsCancelled(r)
  <2>1. runs[r] \in Record /\ WellFormedLog(runs[r].events) /\ Stored(r)
    BY <1>3, StoredIsRecord DEF IsCancelled, IInv
  <2> DEFINE old == [runs[r] EXCEPT !.cancelRequested = TRUE]
  <2>2. old \in Record /\ old.events = runs[r].events
    BY <2>1 DEF Record
  <2>3. runs'[r] = AppendLocked(old, CancelledEv)
    BY <1>3 DEF IsCancelled
  <2> HIDE DEF old
  <2>4. QED
    BY <2>1, <2>2, <2>3, AppendCovers, EvConstants
<1>4. CASE Appends(r) \/ AppendStrays(r)
  <2>1. runs[r] \in Record /\ WellFormedLog(runs[r].events) /\ Stored(r)
    BY <1>4, WritesStored, StoredIsRecord DEF IInv
  <2>2. \E ev \in Evs \ {StartedEv} : runs'[r] = AppendLocked(runs[r], ev)
    <3>1. worker[r].pc \in {"appending", "delivering"} => Head(worker[r].todo) \in Evs \ {StartedEv}
      <4>1. HoldsEvent(r) /\ worker[r].todo \in Seq(TurnEvs)
        BY DEF IInv, TodoOK, HoldsEvent
      <4>2. worker[r].todo # <<>> => Head(worker[r].todo) \in TurnEvs
        BY <4>1, HeadTailProperties
      <4>3. QED
        BY <4>1, <4>2 DEF HoldsEvent, TurnEvs
    <3>2. PlanningEv \in Evs \ {StartedEv} /\ FailedEv \in Evs \ {StartedEv}
      BY EvConstants
    <3>3. \/ runs'[r] = AppendLocked(runs[r], PlanningEv)
          \/ runs'[r] = AppendLocked(runs[r], FailedEv)
          \/ /\ worker[r].pc \in {"appending", "delivering"}
             /\ runs'[r] = AppendLocked(runs[r], Head(worker[r].todo))
      BY <1>4 DEF Appends, AppendStrays, Strays, Writes, Writer
    <3>4. QED
      BY <3>1, <3>2, <3>3
  <2>3. QED
    BY <2>1, <2>2, AppendCovers
<1>5. CASE runs'[r] = runs[r]
  BY <1>5 DEF Stored
<1>6. QED
  BY <1>1, <1>2, <1>3, <1>4, <1>5 DEF RunStep, Unmoved, Dies, Queues, Misses, Thinks

\* Run ids are handed out upwards.
LEMMA NextRunGrows ==
  ASSUME IInv, [Next]_vars
  PROVE  nextRun' = nextRun \/ nextRun' = nextRun + 1
  BY DEF Next, CreateSession, SaveClientRun, StartRaises, Submit, Expire, ExpireSession, ExpireRun,
       ExpireClientRun, vars, storeVars, StartRun, NewRun, Cancel, TurnStep, Plan, EmitCheck, EmitAppend,
       TurnReturns, TurnRaises, ProjectCheck, ProjectAppend, FailCheck, FailAppend, CheckRaises, Restart,
       StreamStep, OpenStream, Poll, BreakStream, LoseStream, ResumeStream

\* No step makes a browser miss, repeat or reorder an event it may still need.
LEMMA HeardStep == IInv /\ HeardOK /\ [Next]_vars => HeardOK'
<1> SUFFICES ASSUME IInv, HeardOK, [Next]_vars, NEW c \in Clients
             PROVE  /\ InOrder(stream'[c])
                    /\ stream'[c].state # "idle" =>
                         /\ stream'[c].run < nextRun'
                         /\ runs'[stream'[c].run].status # "absent" =>
                              Covers(stream'[c].seen, runs'[stream'[c].run].events)
  BY DEF HeardOK, Stored, InOrder, Increasing, Covers, Listed, LastSequence
<1> DEFINE conn == stream[c]
           next == stream'[c]
           run == conn.run
           log == runs[run].events
           Kept2(seen) == runs'[run].status # "absent" => Covers(seen, runs'[run].events)
<1> SUFFICES /\ InOrder(next)
             /\ next.state # "idle" =>
                  /\ next.run < nextRun'
                  /\ runs'[next.run].status # "absent" => Covers(next.seen, runs'[next.run].events)
  OBVIOUS
<1>1. /\ conn \in StreamState /\ conn.seen \in Seq(Event) /\ InOrder(conn)
      /\ conn.state # "idle" => /\ run \in RunIds /\ run < nextRun
                                /\ Stored(run) => Covers(conn.seen, log)
  BY DEF IInv, TypeOK, HeardOK, StreamState, RunIds
<1>2. nextRun \in Nat /\ (nextRun' = nextRun \/ nextRun' = nextRun + 1)
  BY NextRunGrows DEF IInv, TypeOK
<1>3. conn.state # "idle" => run < nextRun'
  <2>1. run \in Int
    BY <1>1 DEF StreamState
  <2> HIDE DEF conn, run
  <2>2. QED
    BY <1>1, <1>2, <2>1
<1>4. conn.state # "idle" => Kept2(conn.seen)
  <2> HIDE DEF conn
  <2> SUFFICES ASSUME NEW r \in RunIds, r = run, conn.state # "idle", runs'[r].status # "absent"
               PROVE  Covers(conn.seen, runs'[r].events)
    BY <1>1
  <2>1. Stored(r)'
    BY DEF Stored
  <2>2. QED
    BY <1>1, <2>1, FollowedRun
<1>5. CASE next = conn
  BY <1>1, <1>3, <1>4, <1>5
<1>6. ASSUME runs' = runs, NEW r \in RunIds, Stored(r), conn.state = "idle",
             next = [conn EXCEPT !.state = "open", !.run = r]
      PROVE  InOrder(next) /\ next.run < nextRun' /\ Covers(next.seen, runs'[next.run].events)
  <2>1. next.run = r /\ next.seen = <<>> /\ next.cursor = 0 /\ next.state = "open"
    BY <1>1, <1>6 DEF StreamState, InOrder
  <2>2. r < nextRun /\ r \in Nat
    BY <1>6 DEF IInv, FreshUnused, TypeOK, RunIds
  <2>3. r < nextRun'
    BY <1>2, <2>2
  <2>4. LastSequence(<<>>) = 0 /\ Increasing(<<>>)
    BY DEF LastSequence, Increasing
  <2>5. WellFormedLog(runs[r].events) /\ runs[r].events \in Seq(Event)
    BY <1>6, StoredIsRecord DEF IInv, Record
  <2>6. \A i \in 1..Len(runs[r].events) : /\ runs[r].events[i].sequence >= 1
                                          /\ runs[r].events[i].sequence \in Nat
    BY <2>5, RunLogGrows, LogFacts
  <2>7. LastSequence(runs[r].events) \in Nat
    BY <2>5, LogFacts
  <2>8. Covers(<<>>, runs[r].events)
    BY <2>4, <2>6, <2>7 DEF Covers
  <2>9. QED
    BY <1>6, <2>1, <2>3, <2>4, <2>8 DEF InOrder
<1>7. ASSUME runs' = runs, conn.state = "open", Stored(run),
             NEW n \in 0..Len(Fresh(log, conn.cursor)),
             LET got == Received(conn, Fresh(log, conn.cursor), n)
             IN \/ next = [got EXCEPT !.state = "open"]
                \/ next = [got EXCEPT !.state = "broken", !.breaks = @ + 1]
                \/ next = [got EXCEPT !.state = "ended"]
      PROVE  InOrder(next) /\ next.run = run /\ Kept2(next.seen)
  <2> DEFINE got == Received(conn, Fresh(log, conn.cursor), n)
  <2>1. log \in Seq(Event) /\ WellFormedLog(log) /\ Covers(conn.seen, log)
    BY <1>1, <1>7, StoredIsRecord DEF IInv, Record
  <2>2. got.run = run /\ got.cursor = LastSequence(got.seen) /\ Increasing(got.seen)
        /\ Covers(got.seen, log)
    <3> HIDE DEF conn, log
    <3>1. QED
      BY <1>1, <1>7, <2>1, ReceivedCovers
  <2>3. got \in [state : {"idle", "open", "broken", "ended", "lost"}, run : 0..RunBound,
                 cursor : {got.cursor}, seen : {got.seen}, breaks : 0..BreakBound]
    BY <1>1 DEF StreamState, Received
  <2> HIDE DEF got
  <2>4. next.run = run /\ next.seen = got.seen /\ next.cursor = got.cursor /\ next.state # "idle"
    BY <1>7, <2>2, <2>3 DEF got
  <2>5. QED
    BY <1>7, <2>2, <2>4 DEF InOrder
<1>8. ASSUME next = [conn EXCEPT !.state = "lost"], runs' = runs, ~Stored(run), conn.state # "idle"
      PROVE  InOrder(next) /\ next.run = run /\ runs'[next.run].status = "absent" 
  BY <1>1, <1>8 DEF InOrder, StreamState, Stored
<1>9. ASSUME \/ /\ conn.state = "broken"
                /\ next = [conn EXCEPT !.state = "open", !.cursor = LastSequence(conn.seen)]
             \/ conn.state = "open" /\ next = [conn EXCEPT !.state = "broken"]
      PROVE  InOrder(next) /\ next.run = run /\ next.seen = conn.seen /\ conn.state # "idle"
  BY <1>1, <1>9 DEF InOrder, StreamState
<1>10. CASE ~Stored(run) /\ conn.state # "idle" /\ next = [conn EXCEPT !.state = "lost"] /\ runs' = runs
  <2> HIDE DEF next, run
  <2>1. QED
    BY <1>3, <1>8, <1>10
<1>11. CASE \/ /\ conn.state = "broken"
               /\ next = [conn EXCEPT !.state = "open", !.cursor = LastSequence(conn.seen)]
            \/ conn.state = "open" /\ next = [conn EXCEPT !.state = "broken"]
  <2> HIDE DEF next, conn, run
  <2>1. QED
    BY <1>3, <1>4, <1>9, <1>11
<1>12. CASE /\ runs' = runs /\ conn.state = "open" /\ Stored(run)
            /\ \E n \in 0..Len(Fresh(log, conn.cursor)) :
                 LET got == Received(conn, Fresh(log, conn.cursor), n)
                 IN \/ next = [got EXCEPT !.state = "open"]
                    \/ next = [got EXCEPT !.state = "broken", !.breaks = @ + 1]
                    \/ next = [got EXCEPT !.state = "ended"]
  <2> HIDE DEF next, conn, run, log
  <2>1. InOrder(next) /\ next.run = run /\ Kept2(next.seen) /\ conn.state # "idle"
    <3> HIDE DEF Kept2
    <3>1. QED
      BY <1>7, <1>12
  <2>2. QED
    BY <1>3, <2>1
<1>13. CASE \E r \in RunIds : /\ runs' = runs /\ Stored(r) /\ conn.state = "idle"
                             /\ next = [conn EXCEPT !.state = "open", !.run = r]
  <2> HIDE DEF next, conn
  <2>1. QED
    BY <1>6, <1>13
<1>14. QED
  BY <1>5, <1>10, <1>11, <1>12, <1>13, ConnectionMoves

LEMMA HeardInit == Init => HeardOK
  BY DEF Init, HeardOK, InOrder, NoStream, Increasing

\* The third invariant: what the browsers have received.
THEOREM HeardInvariance == Spec => [](IInv /\ LogsAt /\ HeardOK)
<1>1. Init => IInv /\ LogsAt /\ HeardOK
  BY InitIInv, LogsAtInit, HeardInit
<1>2. IInv /\ LogsAt /\ HeardOK /\ [Next]_vars => (IInv /\ LogsAt /\ HeardOK)'
  BY NextIInv, LogsAtStep, HeardStep
<1>3. QED
  BY <1>1, <1>2, PTL DEF Spec

\* A browser has received every event still in the log up to its last one, each once
\* and in order.
LEMMA HeardIsExact == IInv /\ HeardOK => SeenExactlyOnce
<1> SUFFICES ASSUME IInv, HeardOK, NEW c \in Clients
             PROVE  LET seen == stream[c].seen
                        r == stream[c].run
                    IN /\ \A i \in 2..Len(seen) : seen[i].sequence > seen[i - 1].sequence
                       /\ (stream[c].state # "idle" /\ Stored(r)) =>
                            \A e \in {runs[r].events[i] : i \in DOMAIN runs[r].events} :
                              e.sequence <= LastSequence(seen) => \E j \in DOMAIN seen : seen[j] = e
  BY DEF SeenExactlyOnce
<1> DEFINE seen == stream[c].seen
           r == stream[c].run
           log == runs[r].events
<1>1. /\ seen \in Seq(Event) /\ Increasing(seen)
      /\ stream[c].state # "idle" /\ Stored(r) => Covers(seen, log) /\ r \in RunIds
  BY DEF IInv, TypeOK, HeardOK, InOrder, StreamState, RunIds
<1>2. \A i \in 2..Len(seen) : seen[i].sequence > seen[i - 1].sequence
  <2> HIDE DEF seen
  <2>1. Len(seen) \in Nat /\ \A i \in 1..Len(seen) : seen[i].sequence \in Nat
    BY <1>1, LogFacts
  <2>2. \A i \in 2..Len(seen) : i \in 1..Len(seen) /\ i - 1 \in 1..Len(seen) /\ i - 1 < i
    BY <2>1
  <2>3. \A i \in 2..Len(seen) : seen[i - 1].sequence < seen[i].sequence
    BY <1>1, <2>2 DEF Increasing
  <2>4. QED
    BY <2>1, <2>2, <2>3
<1>3. ASSUME stream[c].state # "idle", Stored(r), NEW i \in DOMAIN log,
             log[i].sequence <= LastSequence(seen)
      PROVE  \E j \in DOMAIN seen : seen[j] = log[i]
  <2>1. log \in Seq(Event)
    BY <1>1, <1>3, StoredIsRecord DEF IInv, Record
  <2>2. Listed(log[i], seen)
    <3> HIDE DEF seen, log, r
    <3>1. i \in 1..Len(log)
      BY <2>1, LogFacts
    <3>2. QED
      BY <1>1, <1>3, <3>1 DEF Covers
  <2>3. DOMAIN seen = 1..Len(seen)
    BY <1>1, LogFacts
  <2>4. QED
    BY <2>2, <2>3 DEF Listed
<1>4. QED
  BY <1>2, <1>3

\* Whatever the interleaving of appends, trims, disconnections and resumptions: for every
\* max_events, number of browsers and of disconnections.
THEOREM BrowsersMissNothing == Spec => []SeenExactlyOnce
  BY HeardInvariance, HeardIsExact, PTL

-----------------------------------------------------------------------------
(***************************************************************************)
(* A stream the server closes.                                             *)
(***************************************************************************)
Outcomes == {CompletedEv, FailedEv, CancelledEv}

\* The log of a run with a terminal status shows its outcome.
LEMMA OutcomeLogged ==
  ASSUME MaxEvents >= 4, IInv, LogsAt, NEW r \in RunIds, Stored(r),
         runs[r].status \in TERMINAL_RUN_STATUSES
  PROVE  \E i \in 1..Len(runs[r].events) : runs[r].events[i].ev \in Outcomes
<1> DEFINE rec == runs[r]
           n == Len(rec.events)
<1>1. rec \in Record /\ WellFormedLog(rec.events) /\ rec.events \in Seq(Event)
  BY StoredIsRecord DEF IInv, Record
<1>2. /\ LastShown(rec) /\ CancelBudget(rec, worker[r])
      /\ CancelShown(rec) /\ AnswerShown(rec)
  BY DEF LogsAt, LogOf, Stored
<1>3. n \in Nat /\ n >= 1 /\ n \in 1..n /\ n - 0 = n
  BY <1>1, LenProperties DEF WellFormedLog
<1>4. CASE rec.status = "completed"
  BY <1>2, <1>3, <1>4 DEF AnswerShown, Back, End, Outcomes
<1>5. CASE rec.status = "failed"
  BY <1>2, <1>3, <1>5 DEF LastShown, Back, End, Outcomes
<1>6. CASE rec.status = "cancelled"
  <2>1. rec.cancelRequested
    BY <1>2, <1>6 DEF CancelBudget
  <2>2. PICK k \in {0, 1, 2} : n - k >= 1 /\ Back(rec, k) = CancelledEv
    BY <1>2, <1>3, <2>1 DEF CancelShown, End
  <2>3. n - k \in 1..n
    BY <1>3, <2>2
  <2>4. QED
    BY <2>2, <2>3 DEF Back, End, Outcomes
<1>7. QED
  BY <1>4, <1>5, <1>6 DEF TERMINAL_RUN_STATUSES

\* The connection that closes has all of the log behind it.
LEMMA EndedStep ==
  ASSUME MaxEvents >= 4
  PROVE  IInv /\ LogsAt /\ HeardOK /\ HeardOK' /\ EndedSawTerminal /\ [Next]_vars => EndedSawTerminal'
<1> SUFFICES ASSUME IInv, LogsAt, HeardOK, HeardOK', EndedSawTerminal, [Next]_vars, NEW c \in Clients,
                    stream'[c].state = "ended"
             PROVE  \E i \in DOMAIN stream'[c].seen : stream'[c].seen[i].ev \in Outcomes
  BY DEF EndedSawTerminal, Outcomes
<1> DEFINE conn == stream[c]
           next == stream'[c]
           log == runs[conn.run].events
<1> SUFFICES \E i \in DOMAIN next.seen : next.seen[i].ev \in Outcomes
  OBVIOUS
<1>1. conn \in StreamState
  BY DEF IInv, TypeOK
<1>2. CASE next = conn
  BY <1>2 DEF EndedSawTerminal, Outcomes
<1>3. ASSUME runs' = runs, conn.state = "open", Stored(conn.run),
             NEW n \in 0..Len(Fresh(log, conn.cursor)),
             next = [Received(conn, Fresh(log, conn.cursor), n) EXCEPT !.state = "ended"],
             runs[conn.run].status \in TERMINAL_RUN_STATUSES,
             Received(conn, Fresh(log, conn.cursor), n).cursor >= LastSequence(log)
      PROVE  \E i \in DOMAIN next.seen : next.seen[i].ev \in Outcomes
  <2> DEFINE got == Received(conn, Fresh(log, conn.cursor), n)
  <2>1. /\ conn.run \in RunIds /\ log \in Seq(Event) /\ WellFormedLog(log)
        /\ InOrder(conn) /\ Covers(conn.seen, log)
    <3>1. conn.run \in RunIds
      BY <1>1, <1>3 DEF StreamState, RunIds
    <3>2. QED
      BY <1>3, <3>1, StoredIsRecord DEF IInv, Record, HeardOK
  <2>2. got.cursor = LastSequence(got.seen) /\ Covers(got.seen, log)
    <3> HIDE DEF conn, log
    <3>1. QED
      BY <1>1, <1>3, <2>1, ReceivedCovers
  <2>3. next.seen = got.seen
    BY <1>1, <1>3 DEF StreamState, Received
  <2>4. PICK i \in 1..Len(log) : log[i].ev \in Outcomes
    BY <1>3, <2>1, OutcomeLogged
  <2>5. got.seen \in Seq(Event)
    <3>1. Fresh(log, conn.cursor) \in Seq(Event)
      <4> HIDE DEF log
      <4>1. QED
        BY <1>1, <2>1, RunLogGrows, FreshIsRest DEF StreamState
    <3> DEFINE fresh == Fresh(log, conn.cursor)
    <3>2. SubSeq(fresh, 1, n) \in Seq(Event)
      <4> HIDE DEF fresh
      <4>1. \A j \in 1..n : fresh[j] \in Event
        BY <1>3, <3>1, LogFacts DEF fresh
      <4>2. n \in Int
        BY <1>3, <3>1, LenProperties DEF fresh
      <4>3. QED
        BY <4>1, <4>2, SubSeqProperties
    <3>3. got.seen = conn.seen \o SubSeq(fresh, 1, n)
      BY <1>1 DEF Received, StreamState
    <3>4. conn.seen \in Seq(Event)
      BY <1>1 DEF StreamState
    <3>5. QED
      <4> HIDE DEF fresh
      <4>1. conn.seen \o SubSeq(fresh, 1, n) \in Seq(Event)
        BY <3>2, <3>4, ConcatProperties
      <4>2. QED
        BY <3>2, <3>3, <3>4, <4>1, ConcatProperties
  <2>6. Listed(log[i], got.seen)
    <3> HIDE DEF got, log
    <3>1. Increasing(log) /\ log[i].sequence <= LastSequence(log)
      BY <2>1, RunLogGrows, LastIsLargest
    <3>2. log[i].sequence \in Nat /\ LastSequence(log) \in Nat /\ LastSequence(got.seen) \in Nat
      BY <2>1, <2>5, LogFacts
    <3>3. LastSequence(log) <= LastSequence(got.seen)
      BY <1>3, <2>2 DEF got
    <3>4. log[i].sequence <= LastSequence(got.seen)
      BY <3>1, <3>2, <3>3
    <3>5. QED
      BY <2>2, <3>4 DEF Covers
  <2>7. DOMAIN got.seen = 1..Len(got.seen)
    BY <2>5, LogFacts
  <2>8. QED
    <3> HIDE DEF got, log, next
    <3>1. QED
      BY <2>3, <2>4, <2>6, <2>7 DEF Listed
<1>4. next.state # "ended" \/ next = conn \/
        \E n \in 0..Len(Fresh(log, conn.cursor)) :
          /\ runs' = runs /\ conn.state = "open" /\ Stored(conn.run)
          /\ next = [Received(conn, Fresh(log, conn.cursor), n) EXCEPT !.state = "ended"]
          /\ runs[conn.run].status \in TERMINAL_RUN_STATUSES
          /\ Received(conn, Fresh(log, conn.cursor), n).cursor >= LastSequence(log)
  <2>1. \A n \in 0..Len(Fresh(log, conn.cursor)) :
          LET got == Received(conn, Fresh(log, conn.cursor), n)
          IN [got EXCEPT !.state = "open"].state = "open"
             /\ [got EXCEPT !.state = "broken", !.breaks = @ + 1].state = "broken"
    BY <1>1 DEF StreamState, Received
  <2>2. \A r \in RunIds : [conn EXCEPT !.state = "open", !.run = r].state = "open"
    BY <1>1 DEF StreamState
  <2>3. /\ [conn EXCEPT !.state = "lost"].state = "lost"
        /\ [conn EXCEPT !.state = "broken"].state = "broken"
        /\ [conn EXCEPT !.state = "open", !.cursor = LastSequence(conn.seen)].state = "open"
    BY <1>1 DEF StreamState
  <2>4. QED
    BY <2>1, <2>2, <2>3, ConnectionMoves
<1>5. QED
  <2>1. next.state = "ended"
    OBVIOUS
  <2> HIDE DEF next
  <2>2. QED
    BY <1>2, <1>3, <1>4, <2>1

\* From max_events 4 on, a stream the server closes has handed the browser the outcome of
\* the run, besides every event up to it.
THEOREM StreamsAreFaithful ==
  ASSUME MaxEvents >= 4
  PROVE  Spec => []StreamIsFaithful
<1>1. Init => EndedSawTerminal
  BY DEF Init, EndedSawTerminal, NoStream
<1>2. IInv /\ LogsAt /\ HeardOK /\ HeardOK' /\ EndedSawTerminal /\ [Next]_vars => EndedSawTerminal'
  BY EndedStep
<1>3. IInv /\ HeardOK /\ EndedSawTerminal => StreamIsFaithful
  BY HeardIsExact DEF StreamIsFaithful
<1>4. QED
  BY <1>1, <1>2, <1>3, HeardInvariance, PTL DEF Spec

-----------------------------------------------------------------------------
(***************************************************************************)
(* One turn per message.                                                   *)
(***************************************************************************)
\* A run stored after a step that does not create it was stored before it and answers
\* the same message.
LEMMA RunsPersist ==
  ASSUME IInv, IInv', [Next]_vars, NEW r \in RunIds, Stored(r)', r # nextRun \/ nextRun' = nextRun
  PROVE  /\ Stored(r)
         /\ runs'[r].session = runs[r].session /\ runs'[r].message = runs[r].message
<1>1. RunStep(r)
  BY RunSteps
<1>2. ~Begins(r)
  BY DEF Begins, IInv, FreshUnused, TypeOK, RunIds
<1>3. ~Vanishes(r)
  BY DEF Vanishes, NoRecord, Stored
<1>4. CASE Stored(r) /\ runs'[r] # runs[r]
  <2>1. runs[r] \in Record
    BY <1>4, StoredIsRecord DEF IInv
  <2>2. \E ev : \E rec \in Record :
          /\ rec.session = runs[r].session /\ rec.message = runs[r].message
          /\ runs'[r] = AppendLocked(rec, ev)
    <3>1. CASE IsCancelled(r)
      <4>1. [runs[r] EXCEPT !.cancelRequested = TRUE] \in Record
        BY <2>1 DEF Record
      <4>2. QED
        BY <2>1, <3>1, <4>1 DEF IsCancelled, Record
    <3>2. CASE Appends(r) \/ AppendStrays(r)
      BY <2>1, <3>2, WritesStored
    <3>3. QED
      BY <1>1, <1>2, <1>3, <1>4, <3>1, <3>2 DEF RunStep, Unmoved, Dies, Queues, Misses, Thinks
  <2>3. QED
    BY <1>4, <2>2 DEF AppendLocked, Record
<1>5. CASE runs'[r] = runs[r]
  BY <1>5 DEF Stored
<1>6. runs'[r] # runs[r] => Stored(r)
  BY <1>1, <1>2, <1>3, WritesStored DEF RunStep, Unmoved, Dies, Queues, IsCancelled, Misses, Thinks
<1>7. QED
  BY <1>4, <1>5, <1>6

\* Where a thread may look at its run or its runtime return or raise.
LEMMA ThinkingThread ==
  ASSUME NEW r, Thinks(r)
  PROVE  worker[r].pc \in {"emitting", "projecting", "failing"}
<1>1. CASE CheckRaises(r)
  BY <1>1 DEF CheckRaises
<1>2. CASE ~CheckRaises(r)
  BY <1>2 DEF Thinks, EmitCheck, TurnReturns, TurnRaises, ProjectCheck, FailCheck
<1>3. QED
  BY <1>1, <1>2

\* A thread that came to rest stays there.
LEMMA RestsForGood ==
  ASSUME IInv, [Next]_vars, NEW r \in RunIds, Alive(r)'
  PROVE  Alive(r)
<1>1. RunStep(r)
  BY RunSteps
<1>2. worker[r] \in WorkerState
  BY DEF IInv, TypeOK
<1>3. Unmoved(r) \/ Begins(r) \/ IsCancelled(r) => worker'[r].pc = worker[r].pc
  BY DEF Unmoved, Begins, IsCancelled
<1>4. Vanishes(r) \/ Dies(r) => worker'[r].pc \in {worker[r].pc, "dead"}
  BY <1>2 DEF Vanishes, Dies, WorkerState
<1>5. Queues(r) \/ Appends(r) \/ AppendStrays(r) \/ Misses(r) => worker[r].pc \notin {"done", "dead"}
  BY WritesStored DEF Queues, Misses
<1>6. Thinks(r) => worker[r].pc \in {"emitting", "projecting", "failing"}
  BY ThinkingThread
<1>7. QED
  BY <1>1, <1>3, <1>4, <1>5, <1>6 DEF RunStep, Alive

\* How a step touches the message keys.
LEMMA KeySteps ==
  ASSUME [Next]_vars
  PROVE  \/ \E s \in SessionIds, m \in Messages : StartRun(s, m)
         \/ SaveClientRun /\ nextRun' = nextRun
         \/ StartRaises /\ nextRun' = nextRun /\ clientRuns' = clientRuns
         \/ Restart /\ nextRun' = nextRun
         \/ /\ nextRun' = nextRun /\ (req' = req \/ req.step = "mapped")
            /\ \/ clientRuns' = clientRuns
               \/ \E s \in SessionIds, m \in Messages : ExpireClientRun(s, m)
<1>1. CASE \E r \in RunIds : Cancel(r) \/ TurnStep(r)
  <2> SUFFICES nextRun' = nextRun /\ req' = req /\ clientRuns' = clientRuns
    OBVIOUS
  <2>1. PICK r \in RunIds : Cancel(r) \/ TurnStep(r)
    BY <1>1
  <2>2. CASE Cancel(r) \/ Plan(r) \/ TurnRaises(r) \/ \E ev \in Evs : EmitCheck(r, ev)
    BY <2>2 DEF storeVars, Cancel, Plan, TurnRaises, EmitCheck
  <2>3. CASE EmitAppend(r) \/ ProjectAppend(r) \/ FailAppend(r)
    BY <2>3 DEF storeVars, EmitAppend, ProjectAppend, FailAppend
  <2>4. CASE ProjectCheck(r) \/ FailCheck(r)
             \/ \E events \in Projected(worker[r].responding) : TurnReturns(r, events)
    BY <2>4 DEF storeVars, ProjectCheck, FailCheck, TurnReturns
  <2>5. CASE CheckRaises(r)
    BY <2>5 DEF storeVars, CheckRaises
  <2>6. QED
    BY <2>1, <2>2, <2>3, <2>4, <2>5 DEF TurnStep
<1>2. CASE \E c \in Clients : StreamStep(c)
  BY <1>2 DEF storeVars, StreamStep, OpenStream, Poll, BreakStream, LoseStream, ResumeStream
<1>3. CASE CreateSession \/ UNCHANGED vars \/ \E s \in SessionIds : ExpireSession(s)
  BY <1>3 DEF vars, CreateSession, ExpireSession
<1>4. CASE Submit \/ \E r \in RunIds : ExpireRun(r)
  BY <1>4 DEF Submit, ExpireRun, storeVars
<1>5. CASE SaveClientRun \/ StartRaises \/ Restart
  BY <1>5 DEF SaveClientRun, StartRaises, storeVars, Restart
<1>6. CASE \E s \in SessionIds, m \in Messages : ExpireClientRun(s, m)
  <2>1. nextRun' = nextRun /\ req' = req
    BY <1>6 DEF ExpireClientRun
  <2>2. QED
    BY <1>6, <2>1
<1>7. QED
  BY <1>1, <1>2, <1>3, <1>4, <1>5, <1>6 DEF Next, Expire

\* The run start_run creates answers a message no other stored run is alive for.
LEMMA NewAloneForMessage ==
  ASSUME IInv, IInv', Keyed, [Next]_vars, NEW s \in SessionIds, NEW m \in Messages, StartRun(s, m),
         NEW q \in RunIds, q = nextRun, NEW r \in RunIds, Stored(r)', SameMessage(q, r)',
         StoreKind = "postgres" \/ Alive(r)'
  PROVE  r = q
<1> SUFFICES ASSUME r # q PROVE FALSE
  OBVIOUS
<1>1. Stored(r) /\ runs'[r].session = runs[r].session /\ runs'[r].message = runs[r].message
  BY RunsPersist
<1>2. runs'[q] = AppendLocked(FreshRun(s, m), StartedEv)
  BY DEF StartRun, NewRun, FreshRun
<1>3. runs'[q].session = s /\ runs'[q].message = m
  BY <1>2 DEF AppendLocked, FreshRun
<1>4. runs[r].session = s /\ runs[r].message = m
  BY <1>1, <1>3 DEF SameMessage
<1>5. CASE StoreKind = "postgres"
  BY <1>1, <1>4, <1>5 DEF StartRun, ClientRun
<1>6. CASE StoreKind # "postgres" /\ Alive(r)'
  <2>1. Alive(r)
    BY <1>6, RestsForGood
  <2>2. clientRuns[<<s, m>>] = r
    BY <1>1, <1>4, <1>6, <2>1 DEF Keyed, StartRun, LoopFree
  <2>3. r \in ClientRun(s, m)
    BY <1>6, <2>2 DEF ClientRun, RunIds
  <2>4. QED
    BY <1>1, <2>3 DEF StartRun
<1>7. QED
  BY <1>5, <1>6

\* A stored message key of the run that is alive stays.
LEMMA KeyedStep ==
  ASSUME IInv, IInv', Keyed, OneAlive, [Next]_vars
  PROVE  Keyed'
<1> SUFFICES ASSUME NEW r \in RunIds, Stored(r)', Alive(r)', StoreKind # "postgres"
             PROVE  \/ clientRuns'[<<runs'[r].session, runs'[r].message>>] = r
                    \/ req'.step = "saved" /\ req'.run = r
  BY DEF Keyed
<1> DEFINE key == <<runs[r].session, runs[r].message>>
<1>1. Alive(r)
  BY RestsForGood
<1>2. ASSUME r # nextRun \/ nextRun' = nextRun
      PROVE  /\ Stored(r) /\ runs[r] \in Record
             /\ <<runs'[r].session, runs'[r].message>> = key
             /\ clientRuns[key] = r \/ (req.step = "saved" /\ req.run = r)
  <2>1. /\ Stored(r)
        /\ runs'[r].session = runs[r].session /\ runs'[r].message = runs[r].message
    BY <1>2, RunsPersist
  <2>2. runs[r] \in Record
    BY <2>1, StoredIsRecord DEF IInv
  <2>3. clientRuns[key] = r \/ (req.step = "saved" /\ req.run = r)
    BY <1>1, <2>1 DEF Keyed
  <2>4. QED
    BY <2>1, <2>2, <2>3
<1>3. ASSUME NEW s \in SessionIds, NEW m \in Messages, StartRun(s, m)
      PROVE  \/ clientRuns'[<<runs'[r].session, runs'[r].message>>] = r
             \/ req'.step = "saved" /\ req'.run = r
  <2>1. /\ req.step = "idle" /\ req' = [step |-> "saved", run |-> nextRun]
        /\ clientRuns' = clientRuns
    BY <1>3 DEF StartRun, NewRun, LoopFree
  <2>2. QED
    BY <1>2, <2>1
<1>4. CASE SaveClientRun /\ nextRun' = nextRun
  <2>1. /\ clientRuns' = [clientRuns EXCEPT
                            ![<<runs[req.run].session, runs[req.run].message>>] = req.run]
        /\ req.step = "saved" /\ clientRuns \in [SessionIds \X Messages -> 0..RunBound]
        /\ req.run \in RunIds /\ worker[req.run].pc = "idle"
    BY <1>4 DEF SaveClientRun, IInv, TypeOK, RequestOK
  <2>2. key \in SessionIds \X Messages /\ runs[r].session \in SessionIds
    BY <1>2, <1>4 DEF Record
  <2>3. CASE key = <<runs[req.run].session, runs[req.run].message>>
    <3>1. Stored(req.run) /\ Alive(req.run) /\ SameMessage(req.run, r)
      <4>1. runs[req.run].session # 0
        BY <2>2, <2>3 DEF SessionIds
      <4>2. Stored(req.run)
        <5>1. runs[req.run] \in Record \cup {NoRecord} /\ NoRecord.session = 0
          BY <2>1 DEF IInv, TypeOK, NoRecord
        <5>2. runs[req.run] \in Record
          BY <4>1, <5>1
        <5>3. QED
          BY <5>2 DEF Stored, Record, RunStatuses, TERMINAL_RUN_STATUSES
      <4>3. QED
        BY <2>1, <2>3, <4>2 DEF Alive, SameMessage
    <3>2. req.run = r
      BY <1>1, <1>2, <1>4, <2>1, <3>1 DEF OneAlive
    <3>3. QED
      BY <1>2, <1>4, <2>1, <2>2, <2>3, <3>2
  <2>4. CASE key # <<runs[req.run].session, runs[req.run].message>>
    <3>1. req.run # r
      BY <2>4
    <3>2. clientRuns[key] = r /\ <<runs'[r].session, runs'[r].message>> = key
      BY <1>2, <1>4, <3>1
    <3>3. clientRuns'[key] = clientRuns[key]
      <4> HIDE DEF key
      <4>1. QED
        BY <2>1, <2>2, <2>4
    <3>4. QED
      BY <3>2, <3>3
  <2>5. QED
    BY <2>3, <2>4
<1>5. ASSUME Restart, nextRun' = nextRun
      PROVE  FALSE
  <2>1. worker'[r] = IF r < nextRun THEN [worker[r] EXCEPT !.pc = "dead"] ELSE worker[r]
    BY <1>5 DEF Restart
  <2>2. r < nextRun
    BY <1>5 DEF IInv, FreshUnused, TypeOK, RunIds
  <2>3. worker[r] \in WorkerState
    BY DEF IInv, TypeOK
  <2>4. QED
    BY <2>1, <2>2, <2>3 DEF Alive, WorkerState
<1>6. CASE nextRun' = nextRun /\ (req' = req \/ req.step = "mapped") /\ clientRuns' = clientRuns
  BY <1>2, <1>6
<1>9. CASE StartRaises /\ nextRun' = nextRun /\ clientRuns' = clientRuns
  <2>1. worker' = [worker EXCEPT ![req.run].pc = "dead"] /\ req.step # "idle"
    BY <1>9 DEF StartRaises
  <2>2. req.run # r
    BY <2>1 DEF Alive, IInv, TypeOK, WorkerState
  <2>3. QED
    BY <1>2, <1>9, <2>2
<1>7. ASSUME nextRun' = nextRun, req' = req \/ req.step = "mapped",
             NEW s \in SessionIds, NEW m \in Messages, ExpireClientRun(s, m)
      PROVE  \/ clientRuns'[<<runs'[r].session, runs'[r].message>>] = r
             \/ req'.step = "saved" /\ req'.run = r
  <2>1. /\ clientRuns' = [clientRuns EXCEPT ![<<s, m>>] = 0] /\ req' = req
        /\ worker[clientRuns[<<s, m>>]].pc \in {"done", "dead"}
        /\ clientRuns \in [SessionIds \X Messages -> 0..RunBound]
    BY <1>7 DEF ExpireClientRun, IInv, TypeOK
  <2>2. key \in SessionIds \X Messages
    BY <1>2, <1>7 DEF Record
  <2>3. clientRuns[key] = r => key # <<s, m>>
    BY <1>1, <2>1 DEF Alive
  <2>4. clientRuns[key] = r => clientRuns'[key] = r
    <3> HIDE DEF key
    <3>1. QED
      BY <2>1, <2>2, <2>3
  <2>5. QED
    BY <1>2, <1>7, <2>1, <2>4
<1>8. QED
  BY <1>3, <1>4, <1>5, <1>6, <1>7, <1>9, KeySteps

\* No second run comes alive for a message.
LEMMA OneAliveStep ==
  ASSUME IInv, IInv', Keyed, OneAlive, [Next]_vars
  PROVE  OneAlive'
<1> SUFFICES ASSUME NEW q \in RunIds, NEW r \in RunIds, Stored(q)', Stored(r)', SameMessage(q, r)',
                    StoreKind = "postgres" \/ (Alive(q)' /\ Alive(r)'), q # r
             PROVE  FALSE
  BY DEF OneAlive
<1>1. SameMessage(r, q)'
  BY DEF SameMessage
<1>2. CASE nextRun' = nextRun \/ (q # nextRun /\ r # nextRun)
  <2>1. Stored(q) /\ Stored(r) /\ SameMessage(q, r)
    BY <1>2, RunsPersist DEF SameMessage
  <2>2. (Alive(q)' => Alive(q)) /\ (Alive(r)' => Alive(r))
    BY RestsForGood
  <2>3. QED
    BY <2>1, <2>2 DEF OneAlive
<1>3. CASE nextRun' # nextRun /\ (q = nextRun \/ r = nextRun)
  <2>1. PICK s \in SessionIds, m \in Messages : StartRun(s, m)
    BY <1>3, KeySteps
  <2>2. QED
    BY <1>1, <1>3, <2>1, NewAloneForMessage
<1>4. QED
  BY <1>2, <1>3

\* Outside memory a run that start_run or a thread is at work on is stored.
BusyStored == \A r \in RunIds : Busy(r) => Stored(r)

Recorded ==
  /\ req.step # "idle" => Stored(req.run)
  /\ \A r \in RunIds : worker[r].pc \notin {"idle", "done", "dead"} => Stored(r)

\* There only runs at rest are ever dropped.
LEMMA StaysStored ==
  ASSUME IInv, IInv', [Next]_vars, StoreKind # "memory", NEW r \in RunIds, Stored(r),
         worker[r].pc \notin {"done", "dead"}
  PROVE  runs'[r].status # "absent"
<1>1. RunStep(r) /\ ~Vanishes(r) /\ ~Begins(r)
  BY RunSteps DEF Vanishes, Begins
<1>2. runs[r] \in Record
  BY StoredIsRecord DEF IInv
<1>3. CASE runs'[r] = runs[r]
  BY <1>3 DEF Stored
<1>4. CASE \E rec \in Record : \E ev : runs'[r] = AppendLocked(rec, ev)
  <2>1. runs'[r].session \in SessionIds
    BY <1>4 DEF AppendLocked, Record
  <2>2. runs'[r] # NoRecord
    BY <2>1 DEF NoRecord, SessionIds
  <2>3. runs'[r] \in Record
    BY <2>2 DEF IInv, TypeOK
  <2>4. QED
    BY <2>3 DEF Record, RunStatuses, TERMINAL_RUN_STATUSES
<1>5. CASE IsCancelled(r)
  <2>1. [runs[r] EXCEPT !.cancelRequested = TRUE] \in Record
    BY <1>2 DEF Record
  <2>2. QED
    BY <1>4, <1>5, <2>1 DEF IsCancelled
<1>6. CASE Appends(r) \/ AppendStrays(r)
  BY <1>2, <1>4, <1>6, WritesStored
<1>7. QED
  BY <1>1, <1>3, <1>5, <1>6 DEF RunStep, Unmoved, Dies, Queues, Misses, Thinks

LEMMA StepsOfRequest ==
  ASSUME [Next]_vars
  PROVE  \/ \E s \in SessionIds, m \in Messages : StartRun(s, m)
         \/ SaveClientRun \/ Submit \/ Restart \/ StartRaises \/ req' = req
<1>1. CASE \E r \in RunIds : Cancel(r) \/ TurnStep(r)
  <2>1. PICK r \in RunIds : Cancel(r) \/ TurnStep(r)
    BY <1>1
  <2>2. CASE Cancel(r) \/ Plan(r) \/ TurnRaises(r) \/ \E ev \in Evs : EmitCheck(r, ev)
    BY <2>2 DEF Cancel, Plan, TurnRaises, EmitCheck
  <2>3. CASE EmitAppend(r) \/ ProjectAppend(r) \/ FailAppend(r)
    BY <2>3 DEF EmitAppend, ProjectAppend, FailAppend
  <2>4. CASE ProjectCheck(r) \/ FailCheck(r)
             \/ \E events \in Projected(worker[r].responding) : TurnReturns(r, events)
    BY <2>4 DEF ProjectCheck, FailCheck, TurnReturns
  <2>5. CASE CheckRaises(r)
    BY <2>5 DEF CheckRaises
  <2>6. QED
    BY <2>1, <2>2, <2>3, <2>4, <2>5 DEF TurnStep
<1>2. CASE \E c \in Clients : StreamStep(c)
  BY <1>2 DEF StreamStep, OpenStream, Poll, BreakStream, LoseStream, ResumeStream
<1>3. CASE CreateSession \/ UNCHANGED vars \/ Expire
  BY <1>3 DEF vars, CreateSession, Expire, ExpireSession, ExpireRun, ExpireClientRun
<1>4. QED
  BY <1>1, <1>2, <1>3 DEF Next

\* What start_run is in the middle of was created by it.
LEMMA RequestedStep ==
  ASSUME IInv, IInv', Recorded, [Next]_vars, StoreKind # "memory", req'.step # "idle"
  PROVE  runs'[req'.run].status # "absent"
<1>1. ASSUME NEW s \in SessionIds, NEW m \in Messages, StartRun(s, m)
      PROVE  runs'[req'.run].status # "absent"
  <2>1. req'.run = nextRun /\ nextRun \in RunIds
    BY <1>1 DEF StartRun, NewRun, IInv, TypeOK, RunIds
  <2>2. runs'[nextRun] = AppendLocked(FreshRun(s, m), StartedEv)
    BY <1>1, <2>1 DEF StartRun, NewRun, FreshRun
  <2>3. QED
    BY <2>1, <2>2, NewRecord DEF FreshRun
<1>2. ASSUME req.step # "idle", req'.run = req.run
      PROVE  runs'[req'.run].status # "absent"
  <2>1. req.run \in RunIds /\ worker[req.run].pc = "idle" /\ Stored(req.run)
    BY <1>2 DEF IInv, RequestOK, Recorded
  <2>2. QED
    BY <1>2, <2>1, StaysStored
<1>3. CASE SaveClientRun
  BY <1>2, <1>3 DEF SaveClientRun, IInv, TypeOK
<1>4. CASE Submit \/ Restart \/ StartRaises
  BY <1>4 DEF Submit, Restart, StartRaises, NoRequest
<1>5. CASE req' = req
  BY <1>2, <1>5
<1>6. \/ \E s \in SessionIds, m \in Messages : StartRun(s, m)
      \/ SaveClientRun \/ Submit \/ Restart \/ StartRaises \/ req' = req
  BY StepsOfRequest
<1>7. QED
  BY <1>1, <1>3, <1>4, <1>5, <1>6

LEMMA RecordedStep ==
  ASSUME IInv, IInv', Recorded, [Next]_vars, StoreKind # "memory"
  PROVE  Recorded'
<1>1. ASSUME NEW r \in RunIds, worker'[r].pc \notin {"idle", "done", "dead"}
      PROVE  runs'[r].status # "absent"
  <2>1. RunStep(r) /\ worker[r] \in WorkerState
    BY RunSteps DEF IInv, TypeOK
  <2>2. Unmoved(r) \/ IsCancelled(r) => worker[r].pc \notin {"idle", "done", "dead"}
    BY <1>1 DEF Unmoved, IsCancelled
  <2>3. ~Begins(r) /\ ~Vanishes(r) /\ ~Dies(r)
    BY <1>1, <2>1 DEF Begins, Vanishes, Dies, WorkerState
  <2>4. Misses(r) => worker[r].pc \notin {"idle", "done", "dead"}
    BY DEF Misses
  <2>5. Thinks(r) => worker[r].pc \notin {"idle", "done", "dead"}
    BY ThinkingThread
  <2>6. Queues(r) => Stored(r) /\ worker[r].pc = "idle"
    BY DEF Queues, Recorded
  <2>7. Appends(r) \/ AppendStrays(r) => Stored(r) /\ worker[r].pc \notin {"done", "dead"}
    BY WritesStored
  <2>8. Stored(r) /\ worker[r].pc \notin {"done", "dead"}
    BY <2>1, <2>2, <2>3, <2>4, <2>5, <2>6, <2>7 DEF RunStep, Recorded
  <2>9. QED
    BY <2>8, StaysStored
<1>2. QED
  BY <1>1, RequestedStep DEF Recorded, Stored

\* A user's message is never worked on by two threads at once, however a start_run ends and
\* however its keys are lost, as long as the records of the runs at work are not: the
\* memory store may evict those, the others keep them.
THEOREM MessagesAnsweredOnce ==
  ASSUME StoreKind # "memory"
  PROVE  Spec => [](OneTurnPerMessage /\ BusyStored)
<1>1. Init => IInv /\ Keyed /\ OneAlive /\ Recorded
  <2>1. Init => Keyed /\ OneAlive /\ Recorded
    BY DEF Init, Keyed, OneAlive, Recorded, Stored, NoRecord, NoRequest, IdleWorker
  <2>2. QED
    BY <2>1, InitIInv
<1>2. IInv /\ Keyed /\ OneAlive /\ Recorded /\ [Next]_vars => (IInv /\ Keyed /\ OneAlive /\ Recorded)'
  BY NextIInv, KeyedStep, OneAliveStep, RecordedStep
<1>3. OneAlive /\ Recorded => OneTurnPerMessage /\ BusyStored
  BY DEF OneAlive, OneTurnPerMessage, SameMessage, Alive, Busy, Recorded, BusyStored
<1>4. QED
  BY <1>1, <1>2, <1>3, PTL DEF Spec

-----------------------------------------------------------------------------
(***************************************************************************)
(* The status users read follows the abstract life cycle.                  *)
(***************************************************************************)
Late(rec) == LateEvents(rec.events) # {}

\* The moves of one run in RunLifecycle, on its records before and after.
SameLife(old, new) ==
  /\ new.status = old.status /\ new.cancelRequested = old.cancelRequested
  /\ Late(new) = Late(old)

Climbs(before, after) ==
  /\ before \in Lifecycle!Ongoing /\ after \in Lifecycle!Final \cup Lifecycle!Ongoing
  /\ Lifecycle!Rank(after) > Lifecycle!Rank(before)

Advances(old, new) ==
  /\ ~old.cancelRequested /\ Climbs(old.status, new.status)
  /\ new.cancelRequested = old.cancelRequested /\ Late(new) = Late(old)

Cancels(old, new) ==
  /\ old.status \in Lifecycle!Ongoing /\ new.status = "cancelled" /\ new.cancelRequested = TRUE
  /\ Late(new) = Late(old)

WritesLate(old, new) ==
  /\ old.cancelRequested /\ ~Late(old)
  /\ new.status \in Lifecycle!Statuses \ {"queued"} /\ Late(new)
  /\ new.cancelRequested = old.cancelRequested

LEMMA Ranks ==
  /\ Lifecycle!Rank("queued") = 1 /\ Lifecycle!Rank("planning") = 2
  /\ Lifecycle!Rank("executing") = 3 /\ Lifecycle!Rank("streaming") = 4
  /\ Lifecycle!Rank("completed") = 5 /\ Lifecycle!Rank("failed") = 5
  BY DEF Lifecycle!Rank, Lifecycle!Final

\* Without a cancellation nothing is late.
LEMMA NoneLate ==
  ASSUME NEW rec \in Record, CancelEvents(rec.events) = {}
  PROVE  ~Late(rec)
<1>1. rec.events \in Seq(Event)
  BY DEF Record
<1>2. \A i \in DOMAIN rec.events : \A j \in 1..(i - 1) : j \in DOMAIN rec.events
  BY <1>1, LenProperties
<1>3. QED
  BY <1>2 DEF Late, LateEvents, CancelEvents

\* An event that stands behind a cancellation, and is none itself, is late.
LEMMA BehindCancel ==
  ASSUME NEW rec \in Record, WellFormedLog(rec.events), NEW k \in Nat, k + 2 <= End(rec),
         Back(rec, k + 1) = CancelledEv, Back(rec, k) # CancelledEv
  PROVE  Late(rec)
<1> DEFINE log == rec.events
           n == Len(log)
           i == n - k
<1>1. log \in Seq(Event) /\ n \in Nat /\ DOMAIN log = 1..n
  BY LenProperties DEF Record
<1>2. i \in 2..n /\ i \in DOMAIN log /\ i - 1 \in 1..(i - 1) /\ n - (k + 1) = i - 1
  <2> HIDE DEF n, log
  <2>1. n = End(rec)
    BY DEF n, log, End
  <2>2. QED
    BY <1>1, <2>1
<1>3. log[i].ev # StartedEv
  BY <1>2 DEF WellFormedLog
<1>4. log[i].ev # CancelledEv /\ log[i - 1].ev = CancelledEv
  BY <1>2 DEF Back, End
<1> HIDE DEF i
<1>5. i \in LateEvents(log)
  BY <1>2, <1>3, <1>4 DEF LateEvents, WorkerEvent
<1>6. QED
  BY <1>5 DEF Late

\* Until it is cancelled an append of its thread advances a run, or leaves its status.
LEMMA AppendClimbs ==
  ASSUME StoreKind = "memory", IInv, LogsAt, NEW r \in RunIds, Appends(r),
         ~runs[r].cancelRequested
  PROVE  runs'[r].status = runs[r].status \/ Climbs(runs[r].status, runs'[r].status)
<1> DEFINE rec == runs[r]
           w == worker[r]
<1>1. LogOf(rec, w)
  BY DEF LogsAt
<1>2. ASSUME NEW pc \in {"queued", "appending", "delivering", "reporting"},
             NEW ev \in Evs, ev # StartedEv, NEW w2, Writes(r, pc, ev, w2)
      PROVE  /\ w.pc = pc /\ StatusAt(rec, w) /\ ThreadAt(w) /\ HoldsEvent(r)
             /\ w.todo \in Seq(TurnEvs)
             /\ rec.status \notin {"completed", "failed"}
             /\ runs'[r].status = IF SetsStatus(ev) THEN ev.status ELSE rec.status
  <2>1. Writer(r, pc) /\ runs'[r] = AppendLocked(rec, ev)
    BY <1>2 DEF Writes
  <2>2. /\ rec \in Record /\ WellFormedLog(rec.events)
        /\ w.pc = pc /\ StatusAt(rec, w) /\ ThreadAt(w) /\ HoldsEvent(r)
        /\ w.todo \in Seq(TurnEvs) /\ rec.status # "failed"
        /\ pc # "reporting" => rec.status # "completed"
    BY <1>1, <2>1, WritingRun
  <2>3. pc = "reporting" => rec.status # "completed"
    BY <2>2, FailingOpen DEF StoreRaises
  <2>4. runs'[r].status = IF SetsStatus(ev) THEN ev.status ELSE rec.status
    <3> HIDE DEF rec
    <3>1. ev \in Evs /\ ev # StartedEv
      BY <1>2
    <3>2. AppendLocked(rec, ev).status = IF SetsStatus(ev) THEN ev.status ELSE rec.status
      BY <2>2, <3>1, AppendedRecord
    <3>3. QED
      BY <2>1, <3>2
  <2>5. QED
    BY <2>2, <2>3, <2>4
<1>3. CASE Writes(r, "queued", PlanningEv, [w EXCEPT !.pc = "emitting"])
  <2>1. w.pc = "queued" /\ StatusAt(rec, w) /\ runs'[r].status = "planning"
    BY <1>2, <1>3, EvConstants, EvKinds
  <2>2. rec.status = "queued"
    BY <2>1 DEF StatusAt
  <2>3. QED
    BY <2>1, <2>2, Ranks DEF Climbs, Lifecycle!Ongoing, Lifecycle!Final
<1>4. CASE Writes(r, "reporting", FailedEv, [w EXCEPT !.pc = "done"])
  <2>1. w.pc = "reporting" /\ StatusAt(rec, w) /\ runs'[r].status = "failed"
    BY <1>2, <1>4, EvConstants, EvKinds
  <2>2. rec.status \in {"queued", "planning", "executing", "streaming"}
    BY <2>1 DEF StatusAt, StoreRaises
  <2>3. QED
    BY <2>1, <2>2, Ranks DEF Climbs, Lifecycle!Ongoing, Lifecycle!Final
<1>5. CASE w.pc \in {"appending", "delivering"}
  <2> DEFINE ev == Head(w.todo)
  <2>1. ev = w.todo[1] /\ ev \in TurnEvs /\ w.todo # <<>> /\ 1 \in 1..Len(w.todo) /\ w.todo \in Seq(TurnEvs)
    <3>1. w.todo \in Seq(TurnEvs) /\ w.todo # <<>>
      BY <1>5 DEF IInv, TodoOK, HoldsEvent
    <3>2. QED
      BY <3>1, HeadTailProperties, EmptySeq, LenProperties
  <2>2. ev \in Evs /\ ev # StartedEv
    BY <2>1 DEF TurnEvs
  <2>3. \E w2 : Writes(r, w.pc, ev, w2)
    BY <1>5 DEF Appends, Writes, Writer
  <2>4. /\ StatusAt(rec, w) /\ ThreadAt(w)
        /\ rec.status \notin {"completed", "failed"}
        /\ runs'[r].status = IF SetsStatus(ev) THEN ev.status ELSE rec.status
    BY <1>2, <1>5, <2>2, <2>3
  <2>5. CASE w.pc = "appending"
    <3>1. \/ ev = ExecutingEv /\ rec.status = "planning"
          \/ ev \in ToolEvs
          \/ ev = RespStartedEv /\ rec.status = "executing"
          \/ ev = DeltaEv /\ rec.status = "streaming"
      BY <2>1, <2>4, <2>5 DEF StatusAt
    <3> HIDE DEF ev
    <3>2. QED
      BY <2>4, <3>1, EvKinds, Ranks DEF Climbs, Lifecycle!Ongoing, Lifecycle!Final
  <2>6. CASE w.pc = "delivering"
    <3>1. rec.status \in {"executing", "streaming"}
      BY <2>1, <2>4, <2>6 DEF StatusAt
    <3>2. ev \in {SceneEv, RespStartedEv, DeltaEv, RespCompletedEv, CompletedEv}
      <4> DEFINE n == Len(w.todo)
      <4>1. n \in Nat /\ n >= 1
        BY <2>1, LenProperties
      <4>2. CASE n = 1
        BY <2>1, <2>4, <2>6, <4>2 DEF ThreadAt
      <4>3. CASE n # 1
        <5>1. 1 \in 1..(n - 1)
          <6> HIDE DEF n
          <6>1. QED
            BY <4>1, <4>3
        <5>2. QED
          BY <2>1, <2>4, <2>6, <5>1 DEF ThreadAt
      <4>4. QED
        BY <4>2, <4>3
    <3> HIDE DEF ev
    <3>3. runs'[r].status \in {rec.status, "streaming", "completed"}
      BY <2>4, <3>2, EvKinds
    <3>4. QED
      BY <3>1, <3>3, Ranks DEF Climbs, Lifecycle!Ongoing, Lifecycle!Final
  <2>7. QED
    BY <1>5, <2>5, <2>6
<1>6. QED
  BY <1>3, <1>4, <1>5 DEF Appends, Writes, Writer

\* An append of its thread: an advance, no move, or the one late write.
LEMMA AppendLife ==
  ASSUME StoreKind = "memory", MaxEvents >= 4, IInv, LogsAt, NEW r \in RunIds, Appends(r)
  PROVE  \/ SameLife(runs[r], runs'[r]) \/ Advances(runs[r], runs'[r])
         \/ WritesLate(runs[r], runs'[r])
<1> DEFINE rec == runs[r]
           new == runs'[r]
<1>1. rec \in Record /\ WellFormedLog(rec.events)
  BY StoredIsRecord, WritesStored DEF IInv
<1>2. PICK ev \in Evs : ev \notin {StartedEv, CancelledEv} /\ new = AppendLocked(rec, ev)
  <2>1. worker[r].pc \in {"appending", "delivering"} => Head(worker[r].todo) \in TurnEvs
    <3>1. HoldsEvent(r)
      BY DEF IInv, TodoOK
    <3>2. QED
      BY <3>1, HeadTailProperties DEF HoldsEvent
  <2>2. {PlanningEv, FailedEv} \cup TurnEvs \subseteq Evs \ {StartedEv, CancelledEv}
    BY EvConstants, EvKinds DEF TurnEvs
  <2>3. QED
    BY <2>1, <2>2 DEF Appends, Writes, Writer
<1>3. /\ CancelBudget(rec, worker[r]) /\ rec.status # "absent" /\ Committed(worker[r])
      /\ rec.status \in RunStatuses
  BY <1>1, WritesStored DEF LogsAt, LogOf, Stored, Committed, Record
<1> DEFINE made == AppendLocked(rec, ev)
<1>4. /\ made \in Record /\ WellFormedLog(made.events)
      /\ made.cancelRequested = rec.cancelRequested /\ Back(made, 0) = ev
      /\ made.status = IF SetsStatus(ev) THEN ev.status ELSE rec.status
      /\ End(rec) >= 2 => End(made) >= 3 /\ Back(made, 1) = Back(rec, 0)
      /\ CancelEvents(rec.events) = {} => LateEvents(made.events) = {}
  <2> HIDE DEF rec
  <2>1. QED
    BY <1>1, <1>2, AppendedRecord, AppendedLate
<1>5. CASE rec.cancelRequested
  <2>1. LateEvents(rec.events) = {} /\ Back(rec, 0) = CancelledEv /\ rec.status = "cancelled"
    BY <1>3, <1>5 DEF CancelBudget
  <2>2. Back(rec, 0) # StartedEv
    BY <2>1, EvKinds
  <2>3. End(rec) >= 2
    <3> HIDE DEF rec
    <3>1. QED
      BY <1>1, <2>2, EndsPastStart
  <2> HIDE DEF made
  <2>4. Late(made)
    <3>1. End(made) \in Nat
      BY <1>4, LenProperties DEF End, Record
    <3>2. Back(made, 0 + 1) = CancelledEv /\ Back(made, 0) # CancelledEv /\ 0 + 2 <= End(made)
      BY <1>2, <1>4, <2>1, <2>3, <3>1
    <3>3. QED
      BY <1>4, <3>2, BehindCancel
  <2>5. made.status \in Lifecycle!Statuses \ {"queued"}
    <3>1. SetsStatus(ev) => ev.status \in RunStatuses \ {"queued"}
      BY <1>2 DEF Evs, ToolEvs, Ev, StartedEv, PlanningEv, ExecutingEv, CancelledEv, FailedEv,
         RespStartedEv, DeltaEv, RespCompletedEv, CompletedEv, ToolStartedEv,
         ToolCompletedEv, SceneEv, SetsStatus, RunStatuses, TERMINAL_RUN_STATUSES
    <3>2. QED
      BY <1>4, <2>1, <3>1 DEF RunStatuses, TERMINAL_RUN_STATUSES, Lifecycle!Statuses,
         Lifecycle!Ongoing, Lifecycle!Final
  <2>6. QED
    BY <1>2, <1>4, <1>5, <2>1, <2>4, <2>5 DEF made, WritesLate, Late
<1>6. CASE ~rec.cancelRequested
  <2>1. CancelEvents(rec.events) = {}
    BY <1>3, <1>6 DEF CancelBudget
  <2>2. ~Late(rec) /\ ~Late(made)
    BY <1>1, <1>4, <2>1, NoneLate DEF Late
  <2>3. new.status = rec.status \/ Climbs(rec.status, new.status)
    BY <1>6, AppendClimbs
  <2>4. QED
    BY <1>2, <1>4, <1>6, <2>2, <2>3 DEF SameLife, Advances, Late
<1>7. QED
  BY <1>5, <1>6

\* A cancellation.  That nothing late is forgotten needs the last events of the log.
LEMMA CancelLife ==
  ASSUME MaxEvents >= 4, IInv, LogsAt, NEW r \in RunIds, IsCancelled(r)
  PROVE  Cancels(runs[r], runs'[r])
<1> DEFINE rec == runs[r]
           asked == [rec EXCEPT !.cancelRequested = TRUE]
           made == AppendLocked(asked, CancelledEv)
<1>1. rec \in Record /\ WellFormedLog(rec.events) /\ rec.status \in RunStatuses \ TERMINAL_RUN_STATUSES
  BY StoredIsRecord DEF IsCancelled, IInv, Record
<1>2. /\ asked \in Record /\ asked.events = rec.events /\ asked.cancelRequested = TRUE
      /\ runs'[r] = made
  BY <1>1 DEF Record, IsCancelled
<1>3. /\ CancelBudget(rec, worker[r]) /\ CancelShown(rec) /\ LastShown(rec)
  BY DEF IsCancelled, LogsAt, LogOf, Stored
<1> HIDE DEF asked
<1>4. /\ made \in Record /\ WellFormedLog(made.events)
      /\ made.cancelRequested = TRUE /\ made.status = "cancelled"
      /\ End(asked) >= 3 => End(made) >= 4 /\ Back(made, 2) = Back(asked, 1)
      /\ End(asked) >= 2 => Back(made, 1) = Back(asked, 0)
      /\ CancelEvents(asked.events) = {} => LateEvents(made.events) = {}
  BY <1>1, <1>2, AppendedRecord, AppendedLate, EvKinds, EvConstants
<1>5. rec.status \in Lifecycle!Ongoing
  BY <1>1 DEF RunStatuses, TERMINAL_RUN_STATUSES, Lifecycle!Ongoing
<1>6. CASE rec.cancelRequested
  <2>1. Back(rec, 0) # CancelledEv
    BY <1>1, <1>3, EvKinds DEF LastShown, TERMINAL_RUN_STATUSES
  <2>2. End(rec) >= 3 /\ Back(rec, 1) = CancelledEv
    BY <1>3, <1>6, <2>1 DEF CancelShown
  <2>3. /\ End(asked) = End(rec) /\ Back(asked, 0) = Back(rec, 0) /\ Back(asked, 1) = Back(rec, 1)
        /\ End(rec) \in Nat
    BY <1>1, <1>2, LenProperties DEF End, Back, Record
  <2> HIDE DEF made, rec
  <2>4. Late(rec)
    <3>1. 0 + 1 = 1 /\ 0 + 2 <= End(rec)
      BY <2>2, <2>3
    <3>2. QED
      BY <1>1, <2>1, <2>2, <3>1, BehindCancel
  <2>5. Late(made)
    <3>1. End(made) \in Nat
      BY <1>4, LenProperties DEF End, Record
    <3>2. /\ Back(made, 1 + 1) = CancelledEv /\ Back(made, 1) # CancelledEv
          /\ 1 + 2 <= End(made)
      BY <1>4, <2>1, <2>2, <2>3, <3>1
    <3>3. QED
      BY <1>4, <3>2, BehindCancel
  <2>6. Late(made) = Late(rec)
    BY <2>4, <2>5 DEF Late
  <2>7. QED
    BY <1>2, <1>4, <1>5, <2>6 DEF Cancels, rec
<1>7. CASE ~rec.cancelRequested
  <2>1. CancelEvents(rec.events) = {}
    BY <1>3, <1>7 DEF CancelBudget
  <2>2. ~Late(rec) /\ ~Late(made)
    BY <1>1, <1>2, <1>4, <2>1, NoneLate DEF Late
  <2>3. QED
    BY <1>2, <1>4, <1>5, <2>2 DEF Cancels, Late
<1>8. QED
  BY <1>6, <1>7

\* A run has been asked to stop or not, stored or not.
LEMMA RecordFields ==
  ASSUME IInv, NEW q \in RunIds
  PROVE  runs[q].cancelRequested \in BOOLEAN
<1>1. runs[q] \in Record \/ runs[q] = NoRecord
  BY DEF IInv, TypeOK
<1>2. NoRecord.cancelRequested = FALSE
  BY DEF NoRecord
<1>3. \A rec \in Record : rec.cancelRequested \in BOOLEAN
  BY DEF Record
<1>4. QED
  BY <1>1, <1>2, <1>3

\* A move of one run, the others untouched.
LEMMA OneRunLife ==
  ASSUME IInv, NEW r \in RunIds, NEW new, runs' = [runs EXCEPT ![r] = new],
         \/ SameLife(runs[r], new) \/ Advances(runs[r], new) \/ Cancels(runs[r], new)
         \/ WritesLate(runs[r], new)
  PROVE  [Lifecycle!Next]_(Lifecycle!vars)
<1>1. \A q \in RunIds : runs'[q] = IF q = r THEN new ELSE runs[q]
  BY DEF IInv, TypeOK
<1>2. [q \in RunIds |-> runs[q].status]' =
        [[q \in RunIds |-> runs[q].status] EXCEPT ![r] = new.status]
  <2>1. \A q \in RunIds : runs'[q].status = IF q = r THEN new.status ELSE runs[q].status
    BY <1>1
  <2>2. QED
    BY <2>1
<1>3. [q \in RunIds |-> runs[q].cancelRequested]' =
        [[q \in RunIds |-> runs[q].cancelRequested] EXCEPT ![r] = new.cancelRequested]
  <2>1. \A q \in RunIds : runs'[q].cancelRequested = IF q = r THEN new.cancelRequested ELSE runs[q].cancelRequested
    BY <1>1
  <2>2. QED
    BY <2>1
<1>4. [q \in RunIds |-> LateEvents(runs[q].events) # {}]' =
        [[q \in RunIds |-> LateEvents(runs[q].events) # {}] EXCEPT ![r] = Late(new)]
  <2>1. \A q \in RunIds : (LateEvents(runs[q].events) # {})' = Late(runs'[q])
    BY DEF Late, LateEvents, WorkerEvent
  <2>2. \A q \in RunIds : Late(runs'[q]) = IF q = r THEN Late(new) ELSE LateEvents(runs[q].events) # {}
    BY <1>1 DEF Late
  <2>3. QED
    BY <2>1, <2>2
<1>5. /\ [q \in RunIds |-> runs[q].status][r] = runs[r].status
      /\ [q \in RunIds |-> runs[q].cancelRequested][r] = runs[r].cancelRequested
      /\ [q \in RunIds |-> LateEvents(runs[q].events) # {}][r] = Late(runs[r])
  BY DEF Late
<1>6. ASSUME Late(new) = Late(runs[r])
      PROVE  [q \in RunIds |-> LateEvents(runs[q].events) # {}]' =
               [q \in RunIds |-> LateEvents(runs[q].events) # {}]
  BY <1>4, <1>5, <1>6
<1>7. ASSUME new.cancelRequested = runs[r].cancelRequested
      PROVE  [q \in RunIds |-> runs[q].cancelRequested]' = [q \in RunIds |-> runs[q].cancelRequested]
  BY <1>3, <1>5, <1>7
<1>8. CASE SameLife(runs[r], new)
  <2>1. [q \in RunIds |-> runs[q].status]' = [q \in RunIds |-> runs[q].status]
    BY <1>2, <1>5, <1>8 DEF SameLife
  <2>2. QED
    BY <1>6, <1>7, <1>8, <2>1 DEF SameLife, Lifecycle!vars
<1>9. CASE Advances(runs[r], new)
  <2>1. /\ ~runs[r].cancelRequested
        /\ runs[r].status \in Lifecycle!Ongoing
        /\ new.status \in Lifecycle!Final \cup Lifecycle!Ongoing
        /\ Lifecycle!Rank(new.status) > Lifecycle!Rank(runs[r].status)
    BY <1>9 DEF Advances, Climbs
  <2>2. Lifecycle!Advance(r)
    BY <1>2, <1>5, <1>6, <1>7, <1>9, <2>1 DEF Lifecycle!Advance, Advances
  <2>3. QED
    BY <2>2 DEF Lifecycle!Next
<1>10. CASE Cancels(runs[r], new)
  <2>1. Lifecycle!Cancel(r)
    BY <1>2, <1>3, <1>5, <1>6, <1>10 DEF Lifecycle!Cancel, Cancels
  <2>2. QED
    BY <2>1 DEF Lifecycle!Next
<1>11. CASE WritesLate(runs[r], new)
  <2>1. /\ runs[r].cancelRequested /\ ~Late(runs[r]) /\ Late(new) = TRUE
        /\ new.status \in Lifecycle!Statuses \ {"queued"}
    BY <1>11 DEF WritesLate, Late
  <2>2. Lifecycle!LateWrite(r)
    BY <1>2, <1>4, <1>5, <1>7, <1>11, <2>1 DEF Lifecycle!LateWrite, WritesLate
  <2>3. QED
    BY <2>2 DEF Lifecycle!Next
<1>12. QED
  BY <1>8, <1>9, <1>10, <1>11

LEMMA NoRecordLife ==
  NoRecord.status = "absent" /\ NoRecord.cancelRequested = FALSE /\ Late(NoRecord) = FALSE
  BY DEF NoRecord, Late, LateEvents

\* Runs the store drops.
LEMMA ForgottenLife ==
  ASSUME NEW S \in SUBSET RunIds, IInv,
         runs' = [q \in RunIds |-> IF q \in S THEN NoRecord ELSE runs[q]]
  PROVE  Lifecycle!Next
<1>1. \A q \in RunIds : runs[q].cancelRequested \in BOOLEAN
  BY RecordFields
<1>2. \A q \in RunIds : runs'[q] = IF q \in S THEN NoRecord ELSE runs[q]
  OBVIOUS
<1>3. [q \in RunIds |-> runs[q].status]' = [q \in RunIds |-> IF q \in S THEN "absent"
                                                     ELSE [x \in RunIds |-> runs[x].status][q]]
  BY <1>2, NoRecordLife
<1>4. [q \in RunIds |-> runs[q].cancelRequested]' =
        [q \in RunIds |-> [x \in RunIds |-> runs[x].cancelRequested][q] /\ q \notin S]
  BY <1>1, <1>2, NoRecordLife
<1>5. [q \in RunIds |-> LateEvents(runs[q].events) # {}]' =
        [q \in RunIds |-> [x \in RunIds |-> LateEvents(runs[x].events) # {}][q] /\ q \notin S]
  <2>1. \A q \in RunIds : (LateEvents(runs[q].events) # {})' = Late(runs'[q])
    BY DEF Late, LateEvents, WorkerEvent
  <2>2. \A q \in RunIds : Late(runs'[q]) = (LateEvents(runs[q].events) # {} /\ q \notin S)
    BY <1>2, NoRecordLife DEF Late
  <2>3. QED
    BY <2>1, <2>2
<1>6. Lifecycle!Forget(S)
  BY <1>3, <1>4, <1>5 DEF Lifecycle!Forget, Lifecycle!Gone
<1>7. QED
  BY <1>6 DEF Lifecycle!Next

\* A new run, and the ones the in-memory store evicts for it.
LEMMA AcceptedLife ==
  ASSUME IInv, NEW s \in SessionIds, NEW m \in Messages, StartRun(s, m)
  PROVE  Lifecycle!Next
<1>1. PICK n \in RunIds : n = nextRun /\ runs[n] = NoRecord
  <2>1. nextRun \in RunIds /\ nextRun >= nextRun
    BY DEF StartRun, IInv, TypeOK, RunIds
  <2>2. ~Stored(nextRun)
    BY <2>1 DEF IInv, FreshUnused
  <2>3. runs[nextRun] = NoRecord
    BY <2>1, <2>2 DEF Stored, IInv, TypeOK, Record, RunStatuses, TERMINAL_RUN_STATUSES
  <2>4. QED
    BY <2>1, <2>3
<1> DEFINE begun == AppendLocked(FreshRun(s, m), StartedEv)
<1>2. PICK S \in SUBSET RunIds :
        /\ n \notin S
        /\ \A q \in RunIds : runs'[q] = IF q = n THEN begun ELSE IF q \in S THEN NoRecord ELSE runs[q]
  <2> DEFINE kept == Kept({q \in RunIds : Stored(q)} \cup {nextRun}, MaxRuns)
             S == {q \in RunIds : q # n /\ q \notin kept}
  <2>1. S \in SUBSET RunIds /\ n \notin S
    OBVIOUS
  <2>2. \A q \in RunIds : runs'[q] = IF q = n THEN begun ELSE IF q \in S THEN NoRecord ELSE runs[q]
    BY <1>1 DEF StartRun, NewRun, FreshRun
  <2> HIDE DEF S, begun
  <2>3. QED
    BY <2>1, <2>2
<1>3. begun.status = "queued" /\ begun.cancelRequested = FALSE /\ Late(begun) = FALSE
  <2>1. begun.status = "queued" /\ begun.cancelRequested = FALSE
    BY EvKinds DEF AppendLocked, FreshRun
  <2>2. begun.events = <<[ev |-> StartedEv, sequence |-> 1]>>
    BY NewRecord DEF FreshRun
  <2>3. \A i \in DOMAIN begun.events : begun.events[i].ev = StartedEv
    BY <2>2
  <2> HIDE DEF begun
  <2>4. QED
    BY <2>1, <2>3 DEF Late, LateEvents, WorkerEvent
<1> HIDE DEF begun
<1>4. \A q \in RunIds : runs[q].cancelRequested \in BOOLEAN
  BY RecordFields
<1>5. [q \in RunIds |-> runs[q].status]' =
        [[q \in RunIds |-> IF q \in S THEN "absent" ELSE [x \in RunIds |-> runs[x].status][q]]
           EXCEPT ![n] = "queued"]
  BY <1>1, <1>2, <1>3, NoRecordLife
<1>6. n \notin S
  BY <1>2
<1>7. [q \in RunIds |-> runs[q].cancelRequested]' =
        [q \in RunIds |-> [x \in RunIds |-> runs[x].cancelRequested][q] /\ q \notin S]
  BY <1>1, <1>2, <1>3, <1>4, <1>6, NoRecordLife
<1>8. [q \in RunIds |-> LateEvents(runs[q].events) # {}]' =
        [q \in RunIds |-> [x \in RunIds |-> LateEvents(runs[x].events) # {}][q] /\ q \notin S]
  <2>1. \A q \in RunIds : (LateEvents(runs[q].events) # {})' = Late(runs'[q])
    BY DEF Late, LateEvents, WorkerEvent
  <2>2. \A q \in RunIds : Late(runs'[q]) = (LateEvents(runs[q].events) # {} /\ q \notin S)
    BY <1>1, <1>2, <1>3, <1>6, NoRecordLife DEF Late
  <2>3. QED
    BY <2>1, <2>2
<1>9. [x \in RunIds |-> runs[x].status][n] = "absent"
  BY <1>1, NoRecordLife
<1>10. Lifecycle!Accept(n, S)
  BY <1>5, <1>6, <1>7, <1>8, <1>9 DEF Lifecycle!Accept, Lifecycle!Gone
<1>11. QED
  BY <1>1, <1>6, <1>10 DEF Lifecycle!Next

\* Every step of the coordinator is a step of the life cycle, or none.
LEMMA LifecycleStep ==
  ASSUME StoreKind = "memory", MaxEvents >= 4, IInv, LogsAt, [Next]_vars
  PROVE  [Lifecycle!Next]_(Lifecycle!vars)
<1>1. ASSUME runs' = runs
      PROVE  [Lifecycle!Next]_(Lifecycle!vars)
  BY <1>1 DEF Lifecycle!vars, LateEvents, WorkerEvent
<1>2. CASE CreateSession \/ SaveClientRun \/ StartRaises \/ Submit \/ UNCHANGED vars
           \/ \E c \in Clients : StreamStep(c)
  <2>1. runs' = runs
    BY <1>2 DEF CreateSession, SaveClientRun, StartRaises, Submit, vars, StreamStep, OpenStream, Poll,
         BreakStream, LoseStream, ResumeStream
  <2>2. QED
    BY <1>1, <2>1
<1>3. ASSUME NEW s \in SessionIds, NEW m \in Messages, StartRun(s, m)
      PROVE  [Lifecycle!Next]_(Lifecycle!vars)
  BY <1>3, AcceptedLife
<1>4. ASSUME NEW r \in RunIds, Cancel(r)
      PROVE  [Lifecycle!Next]_(Lifecycle!vars)
  <2>1. IsCancelled(r) /\ runs' = [runs EXCEPT ![r] = runs'[r]]
    BY <1>4 DEF Cancel, IsCancelled, IInv, TypeOK
  <2>2. Cancels(runs[r], runs'[r])
    BY <2>1, CancelLife
  <2>3. QED
    BY <2>1, <2>2, OneRunLife
<1>5. ASSUME NEW r \in RunIds, TurnStep(r)
      PROVE  [Lifecycle!Next]_(Lifecycle!vars)
  <2>1. runs' = runs \/ (runs' = [runs EXCEPT ![r] = runs'[r]] /\ Appends(r))
    <3>1. ASSUME NEW ev, NEW found, NEW missing, AppendEvent(r, ev, found, missing)
          PROVE  \/ runs' = runs
                 \/ /\ runs' = [runs EXCEPT ![r] = runs'[r]] /\ Stored(r)
                    /\ runs'[r] = AppendLocked(runs[r], ev) /\ worker'[r] = found
      BY <3>1 DEF AppendEvent, StoreRaises, IInv, TypeOK
    <3>2. CASE Plan(r)
      <4>1. queue \in Seq(RunIds) /\ queue # <<>> /\ Head(queue) = r
        BY <3>2 DEF Plan, IInv, TypeOK
      <4>2. 1 \in 1..Len(queue) /\ queue[1] = r
        BY <4>1, EmptySeq, LenProperties, HeadTailProperties
      <4>3. worker[r].pc = "queued"
        BY <4>2 DEF IInv, QueueOK
      <4>4. AppendEvent(r, PlanningEv, [worker[r] EXCEPT !.pc = "emitting"], "dead")
        BY <3>2 DEF Plan
      <4>5. QED
        BY <3>1, <4>3, <4>4 DEF Appends, Writes, Writer
    <3>3. CASE EmitAppend(r)
      BY <3>1, <3>3 DEF EmitAppend, Appends, Writes, Writer
    <3>4. CASE ProjectAppend(r)
      <4>1. /\ worker[r].pc = "delivering"
            /\ AppendEvent(r, Head(worker[r].todo),
                           [worker[r] EXCEPT !.pc = "projecting", !.todo = Tail(@)], "failing")
        BY <3>4 DEF ProjectAppend
      <4>2. QED
        BY <3>1, <4>1 DEF Appends, Writes, Writer
    <3>5. CASE FailAppend(r)
      BY <3>1, <3>5 DEF FailAppend, Appends, Writes, Writer
    <3>6. QED
      BY <1>5, <3>2, <3>3, <3>4, <3>5 DEF TurnStep, EmitCheck, TurnReturns, TurnRaises,
         ProjectCheck, FailCheck, CheckRaises
  <2>2. QED
    BY <1>1, <2>1, AppendLife, OneRunLife
<1>6. CASE Restart
  <2>1. runs' = runs \/ runs' = [q \in RunIds |-> IF q \in RunIds THEN NoRecord ELSE runs[q]]
    BY <1>6 DEF Restart
  <2>2. QED
    BY <1>1, <2>1, ForgottenLife
<1>7. CASE Expire
  <2>1. runs' = runs \/ \E r \in RunIds : runs' = [runs EXCEPT ![r] = NoRecord]
    BY <1>7 DEF Expire, ExpireSession, ExpireRun, ExpireClientRun
  <2>2. ASSUME NEW r \in RunIds, runs' = [runs EXCEPT ![r] = NoRecord]
        PROVE  Lifecycle!Next
    <3>1. runs' = [q \in RunIds |-> IF q \in {r} THEN NoRecord ELSE runs[q]]
      BY <2>2 DEF IInv, TypeOK
    <3>2. {r} \in SUBSET RunIds
      OBVIOUS
    <3>3. QED
      BY <3>1, <3>2, ForgottenLife
  <2>3. QED
    BY <1>1, <2>1, <2>2
<1>8. QED
  BY <1>2, <1>3, <1>4, <1>5, <1>6, <1>7 DEF Next

\* Whatever is trimmed, evicted or lost, the status users read only advances until a
\* cancellation, and after one the turn's thread writes at most once.  With Redis and
\* Postgres a completion whose write raises is followed by failed: see OutcomesFinal.
THEOREM LifecycleImplemented ==
  ASSUME StoreKind = "memory", MaxEvents >= 4
  PROVE  Spec => ImplementsLifecycle
<1>1. Init => Lifecycle!Init
  <2> SUFFICES ASSUME Init PROVE Lifecycle!Init
    OBVIOUS
  <2>1. \A r \in RunIds : runs[r] = NoRecord
    BY DEF Init
  <2>2. QED
    BY <2>1, NoRecordLife DEF Lifecycle!Init, Late
<1>2. IInv /\ LogsAt /\ [Next]_vars => [Lifecycle!Next]_(Lifecycle!vars)
  BY LifecycleStep
<1>3. QED
  BY <1>1, <1>2, LogInvariance, PTL DEF Spec, ImplementsLifecycle, Lifecycle!Spec
=============================================================================
