------------------------------- MODULE TopicLog -------------------------------
(***************************************************************************)
(* What a reader of a run's topic takes the event bus for: one list, as    *)
(* InMemoryEventBus keeps it, that only grows, and of which the reader     *)
(* gets what stands behind its position, up to wherever the list had grown *)
(* for it.  The runtime's model has such a list for each run.              *)
(***************************************************************************)
EXTENDS Integers, Sequences

CONSTANT Values

VARIABLES
  events,    \* the topic's list
  position,  \* entries the reader has consumed
  received   \* the events it was given

vars == <<events, position, received>>

Init ==
  /\ events = <<>>
  /\ position = 0
  /\ received = <<>>

Publish(v) ==
  /\ events' = Append(events, v)
  /\ UNCHANGED <<position, received>>

Read ==
  /\ \E n \in position..Len(events) :
       /\ received' = received \o SubSeq(events, position + 1, n)
       /\ position' = n
  /\ UNCHANGED events

Next == Read \/ \E v \in Values : Publish(v)

Spec == Init /\ [][Next]_vars
=============================================================================
