----------------------------- MODULE EnergyTrend -----------------------------
(***************************************************************************)
(* The energy trend below the scene, EnergyFlowTrend.jsx: each choice of a *)
(* device or a range asks for a history (energyFlowClient.js), the         *)
(* realtime range polls for the latest point, and answers come in any      *)
(* order.  A chart is the set of choices its points answer.                *)
(***************************************************************************)
EXTENDS Integers, FiniteSets

CONSTANTS
  Scopes,       \* what the trend can be about: the station or a device
  SelectBound,  \* bound: choices made
  LoadBound,    \* bound: retries pressed and polls sent
  FaultBound    \* bound: requests that fail

ASSUME TrendAssumption == SelectBound \in Nat /\ LoadBound \in Nat /\ FaultBound \in Nat

Ranges == {"realtime", "24h"}

VARIABLES
  choice,  \* the device and the range chosen, numbered: a later choice is another effect
  status,  \* dataState.status
  points,  \* the choices whose answers the chart holds
  loads,   \* histories asked for: the choice each is for, and whether its effect is active
  polls,   \* latest points asked for: the choice, how far the answer is, and whether aborted
  asked, failed

trendVars == <<choice, status, points, loads, polls, asked, failed>>

\* buildEnergyHistoryQuery: a history is asked for by device and range.
About(c) == <<c.scope, c.range>>
Load(c, n) == [for |-> About(c), nr |-> n, active |-> TRUE]

\* mapTelemetrySeries: the points of an answer, about what was asked for.
Answered(request) == {request.for}

\* mergeEnergyPoints: the incoming points join those shown.
Merged(shown, incoming) == shown \cup incoming

-----------------------------------------------------------------------------
\* Mutant: the poll of the range that was left is not aborted.
LeftRunning(p) == p

\* The polling effect's cleanup.
Aborted(p) == [p EXCEPT !.aborted = TRUE]

\* Another device or range: both effects are cleaned up and run again.  The points
\* stay until the history answers.
Select ==
  /\ choice.nr < SelectBound
  /\ \E s \in Scopes, r \in Ranges :
       /\ <<s, r>> # About(choice)
       /\ choice' = [scope |-> s, range |-> r, nr |-> choice.nr + 1]
  /\ status' = "loading"
  /\ loads' = {[l EXCEPT !.active = FALSE] : l \in loads} \cup {Load(choice', asked)}
  /\ polls' = {Aborted(p) : p \in polls}
  /\ UNCHANGED <<points, asked, failed>>

\* The retry button: the history's effect runs again, the polls go on.
Retry ==
  /\ status \in {"empty", "error", "reconnecting"} /\ asked < LoadBound
  /\ asked' = asked + 1
  /\ status' = "loading"
  /\ loads' = {[l EXCEPT !.active = FALSE] : l \in loads} \cup {Load(choice, asked')}
  /\ UNCHANGED <<choice, points, polls, failed>>

\* Mutant: an answer is shown whether or not its effect is the active one.
HistoryAnswersLate(l) ==
  /\ loads' = loads \ {l}
  /\ \/ points' = Answered(l) /\ status' = "ready"
     \/ points' = {} /\ status' = "empty"
  /\ UNCHANGED <<choice, polls, asked, failed>>

\* A history answers, with points or without.
HistoryAnswers(l) ==
  /\ loads' = loads \ {l}
  /\ IF l.active
     THEN \/ points' = Answered(l) /\ status' = "ready"
          \/ points' = {} /\ status' = "empty"
     ELSE UNCHANGED <<points, status>>
  /\ UNCHANGED <<choice, polls, asked, failed>>

\* A history fails.
HistoryFails(l) ==
  /\ failed < FaultBound
  /\ failed' = failed + 1
  /\ loads' = loads \ {l}
  /\ IF l.active THEN points' = {} /\ status' = "error" ELSE UNCHANGED <<points, status>>
  /\ UNCHANGED <<choice, polls, asked>>

\* The realtime range's timer asks for the latest point; polls may overlap.
Poll ==
  /\ choice.range = "realtime" /\ asked < LoadBound
  /\ asked' = asked + 1
  /\ polls' = polls \cup {[for |-> About(choice), nr |-> asked, at |-> "head", aborted |-> FALSE]}
  /\ UNCHANGED <<choice, status, points, loads, failed>>

\* Its response's head arrives; an aborted fetch rejects with AbortError, which is ignored.
PollHead(p) ==
  /\ p.at = "head"
  /\ polls' = (polls \ {p}) \cup (IF p.aborted THEN {} ELSE {[p EXCEPT !.at = "body"]})
  /\ UNCHANGED <<choice, status, points, loads, asked, failed>>

\* Its body is read: the points join the chart, and "reconnecting" stays.  A body whose
\* read is aborted is taken for an envelope without a code, an error like another.
PollBody(p) ==
  /\ p.at = "body"
  /\ polls' = polls \ {p}
  /\ IF p.aborted THEN status' = "reconnecting" /\ UNCHANGED points
                  ELSE points' = Merged(points, Answered(p)) /\ UNCHANGED status
  /\ UNCHANGED <<choice, loads, asked, failed>>

\* It fails.
PollFails(p) ==
  /\ ~p.aborted /\ failed < FaultBound
  /\ failed' = failed + 1
  /\ polls' = polls \ {p}
  /\ status' = "reconnecting"
  /\ UNCHANGED <<choice, points, loads, asked>>

-----------------------------------------------------------------------------
TrendInit ==
  /\ \E s \in Scopes : choice = [scope |-> s, range |-> "24h", nr |-> 0]
  /\ status = "loading"
  /\ points = {}
  /\ loads = {Load(choice, 0)}
  /\ polls = {}
  /\ asked = 0 /\ failed = 0

TrendNext ==
  \/ Select \/ Retry \/ Poll
  \/ \E l \in loads : HistoryAnswers(l) \/ HistoryFails(l)
  \/ \E p \in polls : PollHead(p) \/ PollBody(p) \/ PollFails(p)

TrendSpec == TrendInit /\ [][TrendNext]_trendVars

-----------------------------------------------------------------------------
\* A chart that no longer loads shows the chosen device and range and nothing else:
\* neither a history that answers after another was asked for nor a poll that was sent
\* before the choice may put its points under the new heading.
PointsOfTheChoice ==
  status \in {"ready", "empty", "error"} => points \subseteq {About(choice)}
=============================================================================
