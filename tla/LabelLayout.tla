------------------------------ MODULE LabelLayout ------------------------------
(***************************************************************************)
(* The labels over the scene, resolveSocLabelLayout of                     *)
(* digitalTwinAdapters.js: most important first, each label is put at its  *)
(* container or beside it where no accepted label is, or hidden; far away  *)
(* a single cluster replaces them.  Labels stand in one row; positions are *)
(* pixels.  A label is drawn around its position (Html center), which      *)
(* rectanglesOverlap takes for its left edge.                              *)
(***************************************************************************)
EXTENDS Integers, Sequences, FiniteSetsExt

CONSTANTS
  Labelled,     \* the containers with a label: 1..n, in the order of registration
  Columns,      \* where a container may be seen
  Distances,    \* how far from the camera a container may be
  ClusterSize,  \* labels that make a cluster (4 in the code)
  MaxVisible    \* labels shown at most (40 in the code)

ASSUME LabelAssumption ==
  /\ Labelled \subseteq Nat /\ IsFiniteSet(Labelled)
  /\ Columns \subseteq Int /\ Distances \subseteq Nat
  /\ ClusterSize \in Nat \ {0} /\ MaxVisible \in Nat \ {0}

VARIABLES
  candidates,  \* of the frame: the container's level or mark, its column, its distance
  layout       \* the labels shown with their columns, and whether a cluster is

labelVars == <<candidates, layout>>

\* The mark of a container, selected before hovered, or else its level.  The scene
\* registers fewer labels while a container is selected; the layout takes any.
Levels == {"selected", "hovered", "critical", "warning", "normal"}
Candidates ==
  {f \in [Labelled -> [level : Levels, x : Columns, distance : Distances]] :
     \A a, b \in Labelled :
       f[a].level = f[b].level /\ f[a].level \in {"selected", "hovered"} => a = b}

\* The width the label's element has: selected, compact far from the camera, or standard.
Width(i) ==
  CASE candidates[i].level = "selected" -> 176
    [] candidates[i].level # "selected" /\ candidates[i].distance > 80 -> 132
    [] OTHER -> 148

\* labelPriority; bessHealthLevel gives no level "offline".
labelPriority(i) ==
  CASE candidates[i].level = "selected" -> 500
    [] candidates[i].level = "hovered" -> 450
    [] candidates[i].level = "critical" -> 400
    [] candidates[i].level = "warning" -> 300
    [] OTHER -> 200

\* A container's label, moved aside by dx.
Placed(i, dx) == [id |-> i, x |-> candidates[i].x + dx]

\* rectanglesOverlap, within the row.
Overlap(l, m) == l.x < m.x + Width(m.id) /\ m.x < l.x + Width(l.id)

\* Where a label may be put, in the order tried.
Offsets(i) ==
  CASE labelPriority(i) >= 400 -> <<0, 64, -64, 128, -128>>
    [] labelPriority(i) = 300 -> <<0, 64, -64>>
    [] OTHER -> <<0>>

\* Mutant: the nearer label goes first, whatever it is.
BeforeNearest(a, b) ==
  \/ candidates[a].distance < candidates[b].distance
  \/ /\ candidates[a].distance = candidates[b].distance
     /\ \/ labelPriority(a) > labelPriority(b)
        \/ labelPriority(a) = labelPriority(b) /\ a < b

\* The order of placement: priority, then nearness, then registration.
Before(a, b) ==
  \/ labelPriority(a) > labelPriority(b)
  \/ /\ labelPriority(a) = labelPriority(b)
     /\ \/ candidates[a].distance < candidates[b].distance
        \/ candidates[a].distance = candidates[b].distance /\ a < b

Fits(placed, l) == \A k \in DOMAIN placed : ~Overlap(l, placed[k])

\* The labels accepted after i was tried: at the first of its offsets that fits, if any.
Tried(placed, i) ==
  LET fitting == {k \in DOMAIN Offsets(i) : Fits(placed, Placed(i, Offsets(i)[k]))}
  IN IF Len(placed) >= MaxVisible \/ fitting = {} THEN placed
     ELSE Append(placed, Placed(i, Offsets(i)[Min(fitting)]))

\* The loop over the labels in their order: one turn of it, and the state after n turns.
First(left) == CHOOSE i \in left : \A j \in left \ {i} : Before(i, j)

TryNext(s) ==
  IF s.left = {} THEN s
  ELSE [left |-> s.left \ {First(s.left)}, placed |-> Tried(s.placed, First(s.left))]

laid[n \in Nat] ==
  IF n = 0 THEN [left |-> Labelled, placed |-> <<>>] ELSE TryNext(laid[n - 1])

Clustered(expanded) ==
  /\ ~expanded
  /\ Cardinality(Labelled) >= ClusterSize
  /\ \A i \in Labelled : candidates[i].distance >= 95

resolveSocLabelLayout(expanded) ==
  IF Clustered(expanded) THEN [labels |-> <<>>, cluster |-> TRUE, done |-> TRUE]
  ELSE [labels |-> laid[Cardinality(Labelled)].placed, cluster |-> FALSE, done |-> TRUE]

\* A frame lays the labels out; a click on the cluster expands it for a while.
Frame == \E expanded \in BOOLEAN :
  layout' = resolveSocLabelLayout(expanded) /\ UNCHANGED candidates

LabelInit ==
  /\ candidates \in Candidates
  /\ layout = [labels |-> <<>>, cluster |-> FALSE, done |-> FALSE]

LabelNext == Frame
LabelSpec == LabelInit /\ [][LabelNext]_labelVars

\* How far the labels stand from each other, and the narrower and the wider of two.
Between(l, m) == IF l.x <= m.x THEN m.x - l.x ELSE l.x - m.x
Narrower(l, m) == IF Width(l.id) <= Width(m.id) THEN Width(l.id) ELSE Width(m.id)
Wider(l, m) == IF Width(l.id) <= Width(m.id) THEN Width(m.id) ELSE Width(l.id)

\* Any two labels shown stand the narrower's width apart, so that as drawn labels of one
\* width do not cover each other and others cover half the difference of their widths at
\* most; the selected one is shown; and a label is hidden only while as many as allowed
\* are shown or one at least as important stands nearer to its place than the wider's
\* width: a label pushed aside must not push out a more important one.
LabelsApart ==
  layout.done /\ ~layout.cluster =>
    LET shown == {layout.labels[k] : k \in DOMAIN layout.labels}
        ids == {l.id : l \in shown}
    IN /\ \A l, m \in shown : l.id # m.id => Between(l, m) >= Narrower(l, m)
       /\ \A i \in Labelled : candidates[i].level = "selected" => i \in ids
       /\ \A i \in Labelled \ ids :
            \/ Cardinality(ids) = MaxVisible
            \/ \E l \in shown : /\ labelPriority(l.id) >= labelPriority(i)
                                /\ Between(Placed(i, 0), l) < Wider(Placed(i, 0), l)
=============================================================================
