------------------------------- MODULE RunShown -------------------------------
(***************************************************************************)
(* What a reader of the page expects of a run: it goes on, the page shows  *)
(* more of it, each event at its place or the error that stands there, and *)
(* nothing shown is taken back until the page is loaded again.  How often  *)
(* the stream breaks, and what waits in queues, is no part of it.          *)
(***************************************************************************)
EXTENDS Integers, Sequences

CONSTANT Projected(_)  \* the form in which an event reaches the page

VARIABLES
  events,  \* the run's events
  shown,   \* the events the page has shown
  loads    \* times the page was loaded again

vars == <<events, shown, loads>>

Extends(s, t) == Len(t) >= Len(s) /\ \A i \in 1..Len(s) : t[i] = s[i]

Init ==
  /\ events = <<>>
  /\ shown = <<>>
  /\ loads = 0

GoOn ==
  /\ UNCHANGED <<shown, loads>>
  /\ Extends(events, events')

Show ==
  /\ Extends(shown, shown')
  /\ \A i \in Len(shown) + 1..Len(shown') :
       shown'[i] = "error" \/ (i <= Len(events) /\ shown'[i] = Projected(events[i]))
  /\ UNCHANGED <<events, loads>>

Load ==
  /\ loads' = loads + 1
  /\ shown' = <<>>
  /\ UNCHANGED events

Next == GoOn \/ Show \/ Load

Spec == Init /\ [][Next]_vars
=============================================================================
