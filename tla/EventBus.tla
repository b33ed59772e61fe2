------------------------------ MODULE EventBus ------------------------------
(***************************************************************************)
(* The event bus of a run (packages/events/bus.py) and the two loops that  *)
(* read it by position: _forward_runtime_events (routers/agent.py) and     *)
(* StreamRunEvents (agent_runtime_rpc/service.py).                         *)
(*                                                                         *)
(* FailOpenEventBus publishes to a list in the process, the mirror, and    *)
(* then, best effort, to a Redis stream; its history is the Redis stream   *)
(* followed by what only the mirror holds.  No lock spans the two calls:   *)
(* publishers on several threads and readers come between them.  An event  *)
(* is its value: the bus compares whole events, and two may be equal.  A   *)
(* Redis write that raises after it went through is one that went through. *)
(***************************************************************************)
EXTENDS Integers, Sequences, FiniteSets

CONSTANTS
  Values,       \* event values
  Publishers,   \* threads that publish to the run's topic: the turn's, HTTP handlers
  Forwarders,   \* _forward_runtime_events: a reader inside the process
  Streams,      \* clients of StreamRunEvents, which come back with their position
  Faults,       \* the faults of the environment, out of FaultKinds
  PublishBound, \* bound: events published
  ReceiveBound  \* bound: a reader that received this many reads no more

Readers == Forwarders \cup Streams

FaultKinds ==
  {"publish",  \* the Redis write raises
   "history",  \* the Redis read raises
   "restart"}  \* the process dies; Redis does not

ASSUME BusAssumption ==
  /\ Forwarders \cap Streams = {}
  /\ Faults \subseteq FaultKinds
  /\ PublishBound \in Nat /\ ReceiveBound \in Nat

VARIABLES
  published,  \* everything published, in the order the mirror took it
  primary,    \* the Redis stream
  fallback,   \* the list in the process
  pub,        \* publisher -> the position it has put in the mirror and not yet sent, or 0
  phase,      \* reader -> "idle", "reading" between the two reads of history, or "gone"
  got,        \* reader -> the mirror as it read it
  cursor,     \* reader -> number of history entries it has consumed
  seen,       \* reader -> the events it received
  misled,     \* history: readers given an emptied mirror, or set back by a shorter history
  apart       \* history: the lists differ in a way that positions do not survive

vars == <<published, primary, fallback, pub, phase, got, cursor, seen, misled, apart>>

Failing(kind) == kind \in Faults

Elements(s) == {s[i] : i \in DOMAIN s}

\* The entries of `second` that neither `first` nor `second` holds earlier.
Missing(first, second) ==
  LET new == {i \in DOMAIN second : /\ second[i] \notin Elements(first)
                                    /\ \A j \in 1..(i - 1) : second[j] # second[i]}
      At(k) == CHOOSE i \in new : Cardinality({j \in new : j < i}) = k - 1
  IN [k \in 1..Cardinality(new) |-> second[At(k)]]

\* Mutants: the local list is left out, added as a whole, or put first.
PrimaryOnly(first, second) == first
MergedWhole(first, second) == first \o second
MergedSwapped(first, second) == second \o Missing(second, first)

Merged(first, second) == first \o Missing(first, second)

\* What a call of history may return that read this mirror.
History(mirror) ==
  {Merged(primary, mirror)} \cup (IF Failing("history") THEN {mirror} ELSE {})

\* The mirror no longer holds everything: the process was restarted.
Emptied == Len(fallback) < Len(published)

\* An equal event stands earlier.
Repeated(i) == \E j \in 1..(i - 1) : published[j] = published[i]

\* FailOpenEventBus.publish, first the mirror.  An event equal to an earlier one that
\* is not in Redis yet is in no merged history: from here on others may overtake it.
Mirror(p, v) ==
  /\ pub[p] = 0
  /\ Len(published) < PublishBound
  /\ published' = Append(published, v)
  /\ fallback' = Append(fallback, v)
  /\ pub' = [pub EXCEPT ![p] = Len(published) + 1]
  /\ apart' = (apart \/ \E q \in Publishers : pub[q] # 0 /\ Repeated(pub[q]))
  /\ UNCHANGED <<primary, phase, got, cursor, seen, misled>>

\* Then Redis, best-effort, in whatever order the publishers get there.
Reach(p) ==
  /\ pub[p] # 0
  /\ \/ /\ primary' = Append(primary, published[pub[p]])
        /\ apart' = (apart \/ pub[p] # Len(primary) + 1)
     \/ /\ Failing("publish")
        /\ apart' = TRUE
        /\ UNCHANGED primary
  /\ pub' = [pub EXCEPT ![p] = 0]
  /\ UNCHANGED <<published, fallback, phase, got, cursor, seen, misled>>

\* FailOpenEventBus.history, first the mirror.
BeginRead(r) ==
  /\ phase[r] = "idle"
  /\ Len(seen[r]) < ReceiveBound
  /\ phase' = [phase EXCEPT ![r] = "reading"]
  /\ got' = [got EXCEPT ![r] = fallback]
  /\ UNCHANGED <<published, primary, fallback, pub, cursor, seen, misled, apart>>

\* Mutant: the position of the last event is taken for the number of events.
PositionShort(r, history) ==
  IF history = <<>> THEN 0 ELSE Len(history) - 1

\* A forwarder's position is the length of the history it was given; a stream's only grows.
Position(r, history) ==
  IF r \in Streams /\ Len(history) < cursor[r] THEN cursor[r] ELSE Len(history)

\* The history is an emptied mirror with something in it for r, or it sets r back.
Misleads(r, history) ==
  \/ Emptied /\ history = got[r] /\ Len(history) > cursor[r]
  \/ r \in Forwarders /\ Len(history) < cursor[r]

\* Then Redis; the reader takes history[cursor:] and moves its position.
Read(r) ==
  /\ phase[r] = "reading"
  /\ \E history \in History(got[r]) :
       /\ seen' = [seen EXCEPT ![r] = @ \o SubSeq(history, cursor[r] + 1, Len(history))]
       /\ cursor' = [cursor EXCEPT ![r] = Position(r, history)]
       /\ misled' = IF Misleads(r, history) THEN misled \cup {r} ELSE misled
  /\ phase' = [phase EXCEPT ![r] = "idle"]
  /\ got' = [got EXCEPT ![r] = <<>>]
  /\ UNCHANGED <<published, primary, fallback, pub, apart>>

\* The process dies, and with it the mirror, the publications and reads under way and
\* the forwarders; a stream's client reconnects with its position.
Restart ==
  /\ Failing("restart")
  /\ fallback' = <<>>
  /\ apart' = (apart \/ \E p \in Publishers : pub[p] # 0)
  /\ pub' = [p \in Publishers |-> 0]
  /\ phase' = [r \in Readers |-> IF r \in Streams THEN "idle" ELSE "gone"]
  /\ got' = [r \in Readers |-> <<>>]
  /\ UNCHANGED <<published, primary, cursor, seen, misled>>

Init ==
  /\ published = <<>> /\ primary = <<>> /\ fallback = <<>>
  /\ pub = [p \in Publishers |-> 0]
  /\ phase = [r \in Readers |-> "idle"]
  /\ got = [r \in Readers |-> <<>>]
  /\ cursor = [r \in Readers |-> 0]
  /\ seen = [r \in Readers |-> <<>>]
  /\ misled = {} /\ apart = FALSE

Next ==
  \/ \E p \in Publishers : Reach(p) \/ \E v \in Values : Mirror(p, v)
  \/ \E r \in Readers : BeginRead(r) \/ Read(r)
  \/ Restart

Spec == Init /\ [][Next]_vars

-----------------------------------------------------------------------------
Prefix(s, t) == Len(s) <= Len(t) /\ s = SubSeq(t, 1, Len(s))

\* However publishers, reads and restarts overlap, a reader receives the events in the
\* order the mirror took them, none twice and none left out, as long as Redis gets them in
\* that order and no event equal to an earlier one is overtaken on its way there.  Excepted
\* are readers a failing read has given an emptied mirror's events or a shorter history.
ReceivedInOrder ==
  ~apart => \A r \in Readers \ misled : Prefix(seen[r], published)

\* Within one process no outage of Redis, partial or not, and no order in which publishers
\* reach it makes an event vanish or multiplies it: any history a reader may be given, of
\* the mirror now or as it read it, holds every value of that mirror, nothing that was not
\* published, and is no longer than what was published.
NothingForgotten ==
  ~Emptied =>
    \A mirror \in {fallback} \cup {got[r] : r \in Readers} : \A history \in History(mirror) :
      /\ Elements(mirror) \subseteq Elements(history)
      /\ Elements(history) \subseteq Elements(published)
      /\ Len(history) <= Len(published)

\* For each reader the two buses are one list, as in one process without Redis: until the
\* lists come apart or the reader is misled, each step leaves what it knows of the topic
\* alone, appends to the list or hands it more of the rest.
Topic(r) == INSTANCE TopicLog WITH
  events <- published, position <- cursor[r], received <- seen[r]

ImplementsTopic ==
  /\ \A r \in Readers : Topic(r)!Init
  /\ [][\A r \in Readers :
          ~apart /\ r \notin misled' => [Topic(r)!Next]_(Topic(r)!vars)]_vars
=============================================================================
