--------------------------- MODULE TemperatureFilter ---------------------------
(***************************************************************************)
(* The temperature filter of the heat map, VerticalTempRange (charts.jsx)  *)
(* over the store's tempRange: two handles on one track, dragged or        *)
(* fetched by a click on the track, and the containers between them.       *)
(***************************************************************************)
EXTENDS Integers

CONSTANTS TMin, TMax   \* the ends of the track (10 and 60 in the code)

ASSUME TrackAssumption == TMin \in Int /\ TMax \in Int /\ TMin < TMax

VARIABLES
  range,  \* tempRange
  drag    \* the handle that follows the pointer

filterVars == <<range, drag>>

Lesser(a, b) == IF a <= b THEN a ELSE b
Greater(a, b) == IF a >= b THEN a ELSE b
Apart(a, b) == IF a >= b THEN a - b ELSE b - a

\* A handle is taken.
Grab(handle) == drag' = handle /\ UNCHANGED range

\* The track is pressed at v: the nearer handle follows, the upper one when both are as near.
Press(v) ==
  /\ drag' = IF Apart(v, range.lo) < Apart(v, range.hi) THEN "lo" ELSE "hi"
  /\ UNCHANGED range

\* Mutant: the handle dragged may reach the other.
DragOnto(v) ==
  /\ drag # "none"
  /\ range' = IF drag = "lo" THEN [range EXCEPT !.lo = Lesser(v, range.hi)]
              ELSE [range EXCEPT !.hi = Greater(v, range.lo)]
  /\ UNCHANGED drag

\* The pointer moves to v, cut to the track: the dragged handle stays a degree off the other.
Drag(v) ==
  /\ drag # "none"
  /\ range' = IF drag = "lo" THEN [range EXCEPT !.lo = Lesser(v, range.hi - 1)]
              ELSE [range EXCEPT !.hi = Greater(v, range.lo + 1)]
  /\ UNCHANGED drag

\* The button is released anywhere.
LetGo == drag # "none" /\ drag' = "none" /\ UNCHANGED range

\* The scene dims the containers outside the range.
InRange(temp) == range.lo <= temp /\ temp <= range.hi

FilterInit == range = [lo |-> TMin, hi |-> TMax] /\ drag = "none"

FilterNext ==
  \/ drag = "none" /\ (Grab("lo") \/ Grab("hi") \/ \E v \in TMin..TMax : Press(v))
  \/ \E v \in TMin..TMax : Drag(v)
  \/ LetGo

FilterSpec == FilterInit /\ [][FilterNext]_filterVars

\* Whatever is dragged where, the range keeps a temperature that passes and stays on the
\* track: a handle pushed by the other's limit must not leave it.
RangeOnTrack ==
  /\ range.lo \in TMin..TMax /\ range.hi \in TMin..TMax
  /\ \E temp \in TMin..TMax - 1 : InRange(temp) /\ InRange(temp + 1)
=============================================================================
