------------------------ MODULE AgentWorkbenchProofs ------------------------
(***************************************************************************)
(* Proofs about AgentWorkbench for every value of its constants: what the  *)
(* page shows of a run, and that it keeps an outcome it shows.             *)
(***************************************************************************)
EXTENDS AgentWorkbench, AgentRuntimeProofs, IterationTheorems, FiniteSetTheorems

(***************************************************************************)
(* The inductive invariant.                                                *)
(*                                                                         *)
(* A reader of the page sees only view.  That it shows the n-th event at   *)
(* place n needs the same of the frames still queued and on the wire, and  *)
(* that the three continue one another: the queue starts behind the view,  *)
(* the wire behind the queue, and the stream's cursor behind the wire.     *)
(* The reducer's buffer is empty because the queue has no gap.             *)
(***************************************************************************)
FrameTypes ==
  {"run.started", "phase.changed", "response.completed", "run.completed", "error", "heartbeat"}

FrameSet == [seq : Nat, type : FrameTypes]

ViewStatuses == TerminalViews \cup {"queued", "planning", "reconnecting"}

Views ==
  [status : ViewStatuses, last : Nat, pending : SUBSET FrameSet, answered : BOOLEAN,
   shown : Seq(FrameTypes)]

Pages ==
  [mode : {"sent", "resumed"},
   pc : {"idle", "connecting", "reading", "returned", "threw", "stopped"},
   attempt : Nat, last : Nat, terminal : BOOLEAN]

WbTyped ==
  /\ page \in Pages
  /\ wire \in Seq(FrameSet) /\ queue \in Seq(FrameSet)
  /\ view \in Views
  /\ active \in BOOLEAN /\ saved \in BOOLEAN

\* What belongs at place i of the page, if b are the run's events: that event, or the
\* error of a lost stream.
InPlace(b, i, type) == type = "error" \/ (i \in 1..Len(b) /\ type = Projected(b[i]))

FramesOK(b, q) == \A i \in 1..Len(q) : InPlace(b, q[i].seq, q[i].type)

ViewOK(b, v) ==
  /\ v.last = Len(v.shown) /\ v.pending = {}
  /\ \A i \in 1..Len(v.shown) : InPlace(b, i, v.shown[i])

FramesInPlace ==
  FramesOK(bus[Run], wire) /\ FramesOK(bus[Run], queue) /\ ViewOK(bus[Run], view)

\* The frames of q continue position n.
Continues(n, q) == \A i \in 1..Len(q) : q[i].seq = n + i

Polled == stream[Conn].state \in {"open", "checking"}

\* The page gets a run's events one behind the other.
InSequence ==
  /\ active => view.last + Len(queue) = page.last /\ Continues(view.last, queue)
  /\ Continues(page.last, wire)
  /\ Polled => /\ page.pc = "reading" /\ stream[Conn].run = Run
               /\ page.last + Len(wire) = stream[Conn].cursor
  /\ page.pc # "reading" => wire = <<>>
  /\ page.pc = "idle" => /\ page.last = 0 /\ ~page.terminal /\ queue = <<>>
                         /\ view.last = 0 /\ view.status = "queued"

\* A sent message shows the outcome the page has received, or has yet to reduce it.
OutcomeComes ==
  page.mode = "sent" =>
    /\ page.pc \in {"returned", "threw", "stopped"} => view.status \in TerminalViews
    /\ page.terminal => \/ view.status \in TerminalViews
                        \/ active /\ \E i \in 1..Len(queue) : IsTerminal(queue[i])
    /\ page.pc # "idle" /\ ~active => view.status \in TerminalViews

PageInv == WbTyped /\ FramesInPlace /\ InSequence /\ OutcomeComes

WbInv == IInv /\ PageInv

-----------------------------------------------------------------------------
(***************************************************************************)
(* The reducer.                                                            *)
(***************************************************************************)
\* The frames of q behind the first m.
Rest(q, m) == {q[i] : i \in (m + 1)..Len(q)}

\* m frames of the queue q have been applied to v, and w is what came out.
Reaches(v, q, m, w) ==
  /\ w \in Views
  /\ w.last = v.last + m /\ Len(w.shown) = w.last
  /\ w.pending = Rest(q, m)
  /\ \A i \in 1..v.last : w.shown[i] = v.shown[i]
  /\ \A i \in 1..m : w.shown[v.last + i] = q[i].type
  /\ v.status \in TerminalViews => w.status \in TerminalViews
  /\ \A i \in 1..m : IsTerminal(q[i]) => w.status \in TerminalViews

\* A terminal status stays, and a terminal frame of the BFF brings one.
LEMMA StatusKept ==
  ASSUME NEW status \in ViewStatuses, NEW type \in FrameTypes
  PROVE  /\ StatusAfter(status, type) \in ViewStatuses
         /\ status \in TerminalViews => StatusAfter(status, type) \in TerminalViews
         /\ type \in {"run.completed", "run.cancelled", "error"} =>
              StatusAfter(status, type) \in TerminalViews
<1>1. CASE status \in TerminalViews
  BY <1>1 DEF StatusAfter
<1>2. CASE status \notin TerminalViews
  <2>1. CASE type \in {"run.completed", "error"}
    BY <1>2, <2>1 DEF StatusAfter, StatusOf, ViewStatuses, TerminalViews
  <2>2. CASE type \in {"run.started", "phase.changed", "response.completed", "heartbeat"}
    BY <1>2, <2>2 DEF StatusAfter, StatusOf, ViewStatuses
  <2>3. QED
    BY <1>2, <2>1, <2>2 DEF FrameTypes
<1>3. QED
  BY <1>1, <1>2

LEMMA AppliedEffect ==
  ASSUME NEW v \in Views, NEW f \in FrameSet
  PROVE  /\ Applied(v, f) \in Views
         /\ Applied(v, f).last = f.seq
         /\ Applied(v, f).pending = v.pending \ {f}
         /\ Len(Applied(v, f).shown) = Len(v.shown) + 1
         /\ \A i \in 1..Len(v.shown) : Applied(v, f).shown[i] = v.shown[i]
         /\ Applied(v, f).shown[Len(v.shown) + 1] = f.type
         /\ Applied(v, f).status = StatusAfter(v.status, f.type)
<1>1. /\ v.shown \in Seq(FrameTypes) /\ f.type \in FrameTypes /\ v.status \in ViewStatuses
      /\ v.answered \in BOOLEAN /\ v.pending \in SUBSET FrameSet /\ f.seq \in Nat
  BY DEF Views, FrameSet
<1>2. /\ Append(v.shown, f.type) \in Seq(FrameTypes)
      /\ Len(Append(v.shown, f.type)) = Len(v.shown) + 1
      /\ \A i \in 1..Len(v.shown) : Append(v.shown, f.type)[i] = v.shown[i]
      /\ Append(v.shown, f.type)[Len(v.shown) + 1] = f.type
  BY <1>1, AppendProperties
<1> DEFINE answer == v.answered \/ (/\ f.type = "response.completed"
                                    /\ v.status \notin TerminalViews \ {"completed"})
<1>3. answer \in BOOLEAN
  BY <1>1
<1> HIDE DEF answer
<1>4. Applied(v, f) = [v EXCEPT !.status = StatusAfter(v.status, f.type), !.last = f.seq,
                                !.pending = v.pending \ {f}, !.answered = answer,
                                !.shown = Append(v.shown, f.type)]
  BY DEF Applied, answer
<1>5. StatusAfter(v.status, f.type) \in ViewStatuses
  BY <1>1, StatusKept
<1>6. v.pending \ {f} \in SUBSET FrameSet
  BY <1>1
<1>7. QED
  BY <1>1, <1>2, <1>3, <1>4, <1>5, <1>6 DEF Views

\* One turn of the loop applies the next frame of a queue without gaps.
LEMMA AdvancedEffect ==
  ASSUME NEW v \in Views, NEW q \in Seq(FrameSet), Continues(v.last, q),
         NEW m \in Nat, m < Len(q), NEW w, Reaches(v, q, m, w)
  PROVE  /\ Advanced(w) = {Applied(w, q[m + 1])}
         /\ Reaches(v, q, m + 1, Applied(w, q[m + 1]))
<1> DEFINE f == q[m + 1]
           x == Applied(w, f)
<1>1. /\ Len(q) \in Nat /\ DOMAIN q = 1..Len(q) /\ m + 1 \in 1..Len(q)
      /\ f \in FrameSet /\ v.last \in Nat
  BY LenProperties DEF Views
<1>2. /\ \A i \in 1..Len(q) : q[i].seq = v.last + i
      /\ f.seq = v.last + (m + 1) /\ f.type \in FrameTypes
  BY <1>1 DEF Continues, FrameSet
<1>3. /\ w \in Views /\ w.last = v.last + m /\ Len(w.shown) = v.last + m
      /\ w.pending = Rest(q, m) /\ w.status \in ViewStatuses
      /\ \A i \in 1..v.last : w.shown[i] = v.shown[i]
      /\ \A i \in 1..m : w.shown[v.last + i] = q[i].type
      /\ v.status \in TerminalViews => w.status \in TerminalViews
      /\ \A i \in 1..m : IsTerminal(q[i]) => w.status \in TerminalViews
  BY DEF Reaches, Views
<1>4. {g \in Rest(q, m) : g.seq = v.last + m + 1} = {f}
  <2>1. f \in Rest(q, m)
    BY <1>1 DEF Rest
  <2>2. ASSUME NEW g \in Rest(q, m), g.seq = v.last + m + 1
        PROVE  g = f
    <3>1. PICK i \in (m + 1)..Len(q) : g = q[i]
      BY DEF Rest
    <3>2. i = m + 1
      BY <1>1, <1>2, <2>2, <3>1
    <3>3. QED
      BY <3>1, <3>2
  <2>3. f.seq = v.last + m + 1
    <3>1. v.last + (m + 1) = v.last + m + 1
      BY <1>1
    <3>2. QED
      BY <1>2, <3>1
  <2>4. QED
    BY <2>1, <2>2, <2>3
<1>5. Rest(q, m) \ {f} = Rest(q, m + 1)
  <2>1. \A i \in (m + 1 + 1)..Len(q) : q[i] # f
    BY <1>1, <1>2
  <2>2. QED
    BY <1>1, <2>1 DEF Rest
<1> HIDE DEF f
<1>6. Advanced(w) = {x}
  BY <1>3, <1>4 DEF Advanced
<1>7. /\ x \in Views /\ x.last = v.last + (m + 1)
      /\ x.pending = Rest(q, m + 1)
      /\ Len(x.shown) = v.last + m + 1
      /\ \A i \in 1..(v.last + m) : x.shown[i] = w.shown[i]
      /\ x.shown[v.last + m + 1] = f.type
      /\ x.status = StatusAfter(w.status, f.type)
  <2>1. /\ x \in Views /\ x.last = f.seq
        /\ x.pending = w.pending \ {f}
        /\ Len(x.shown) = Len(w.shown) + 1
        /\ \A i \in 1..Len(w.shown) : x.shown[i] = w.shown[i]
        /\ x.shown[Len(w.shown) + 1] = f.type
        /\ x.status = StatusAfter(w.status, f.type)
    BY <1>1, <1>3, AppliedEffect
  <2> HIDE DEF x
  <2>2. QED
    BY <1>2, <1>3, <1>5, <2>1
<1> HIDE DEF x
<1>8. \A i \in 1..v.last : x.shown[i] = v.shown[i]
  <2>1. \A i \in 1..v.last : i \in 1..(v.last + m)
    BY <1>1
  <2>2. QED
    BY <1>3, <1>7, <2>1
<1>9. \A i \in 1..(m + 1) : x.shown[v.last + i] = q[i].type
  <2>1. \A i \in 1..m : x.shown[v.last + i] = q[i].type
    <3>1. \A i \in 1..m : v.last + i \in 1..(v.last + m)
      BY <1>1
    <3>2. QED
      BY <1>3, <1>7, <3>1
  <2>2. x.shown[v.last + (m + 1)] = q[m + 1].type
    <3>1. v.last + m + 1 = v.last + (m + 1)
      BY <1>1
    <3>2. QED
      BY <1>7, <3>1 DEF f
  <2>3. QED
    BY <2>1, <2>2
<1>10. /\ w.status \in TerminalViews => x.status \in TerminalViews
       /\ IsTerminal(f) => x.status \in TerminalViews
  BY <1>2, <1>3, <1>7, StatusKept DEF IsTerminal
<1>11. \A i \in 1..(m + 1) : IsTerminal(q[i]) => x.status \in TerminalViews
  BY <1>3, <1>10 DEF f
<1>12. x.last = v.last + (m + 1) /\ Len(x.shown) = x.last
  <2>1. v.last + m + 1 = v.last + (m + 1)
    BY <1>1
  <2>2. QED
    BY <1>7, <2>1
<1>13. Reaches(v, q, m + 1, x)
  BY <1>3, <1>7, <1>8, <1>9, <1>10, <1>11, <1>12 DEF Reaches
<1>14. QED
  BY <1>6, <1>13 DEF x, f

\* The reducer buffers the whole of a queue without gaps.
LEMMA BufferedEffect ==
  ASSUME NEW v \in Views, v.pending = {}, NEW q \in Seq(FrameSet), Continues(v.last, q)
  PROVE  /\ Buffered(v, q) = {q[i] : i \in 1..Len(q)}
         /\ Cardinality(Buffered(v, q)) = Len(q)
<1>1. Len(q) \in Nat /\ DOMAIN q = 1..Len(q) /\ v.last \in Nat
  BY LenProperties DEF Views
<1>2. \A i \in 1..Len(q) : q[i].seq = v.last + i
  BY DEF Continues
<1>3. {j \in DOMAIN q : /\ q[j].seq > v.last
                        /\ \A f \in v.pending : f.seq # q[j].seq
                        /\ \A h \in 1..(j - 1) : q[h].seq # q[j].seq} = 1..Len(q)
  BY <1>1, <1>2
<1>4. Buffered(v, q) = {q[i] : i \in 1..Len(q)}
  BY <1>3 DEF Buffered
<1>5. Cardinality({q[i] : i \in 1..Len(q)}) = Len(q)
  <2> DEFINE f == [i \in 1..Len(q) |-> q[i]]
             B == {q[i] : i \in 1..Len(q)}
  <2>1. f \in Bijection(1..Len(q), B)
    <3>1. f \in [1..Len(q) -> B]
      OBVIOUS
    <3>2. \A i, j \in 1..Len(q) : f[i] = f[j] => i = j
      BY <1>1, <1>2
    <3>3. \A b \in B : \E i \in 1..Len(q) : f[i] = b
      OBVIOUS
    <3>4. QED
      BY <3>1, <3>2, <3>3 DEF Bijection, Injection, Surjection, IsInjective
  <2> HIDE DEF f, B
  <2>2. ExistsBijection(1..Len(q), B)
    BY <2>1 DEF ExistsBijection
  <2>3. Cardinality(B) = Len(q)
    BY <1>1, <2>2, FS_CountingElements
  <2>4. QED
    BY <2>3 DEF B
<1>6. QED
  BY <1>4, <1>5

\* Reducing a queue without gaps applies every frame of it in turn.
LEMMA ReducedReaches ==
  ASSUME NEW v \in Views, v.pending = {}, v.last = Len(v.shown),
         NEW q \in Seq(FrameSet), Continues(v.last, q)
  PROVE  Reaches(v, q, Len(q), Reduced(v, q))
<1> DEFINE v0 == [v EXCEPT !.pending = Buffered(v, q)]
           after[n \in Nat] == IF n = 0 THEN {v0}
                               ELSE UNION {Advanced(w) : w \in after[n - 1]}
           G == [W \in SUBSET Views |-> UNION {Advanced(w) : w \in W}]
<1>1. Len(q) \in Nat /\ v.last \in Nat /\ v.shown \in Seq(FrameTypes)
  BY LenProperties DEF Views
<1>2. Buffered(v, q) = Rest(q, 0) /\ Cardinality(Buffered(v, q)) = Len(q)
  BY BufferedEffect DEF Rest
<1>3. Rest(q, 0) \in SUBSET FrameSet
  BY LenProperties DEF Rest
<1>4. v0 \in Views /\ Reaches(v, q, 0, v0)
  <2>1. /\ v0 \in Views /\ v0.last = v.last /\ v0.shown = v.shown
        /\ v0.status = v.status /\ v0.pending = Rest(q, 0)
    BY <1>2, <1>3 DEF Views
  <2> HIDE DEF v0
  <2>2. QED
    BY <1>1, <2>1 DEF Reaches
<1>5. G \in [SUBSET Views -> SUBSET Views]
  <2>1. \A w \in Views : Advanced(w) \subseteq Views
    <3>1. ASSUME NEW w \in Views, NEW f \in w.pending
          PROVE  Applied(w, f) \in Views
      <4>1. f \in FrameSet
        BY DEF Views
      <4>2. QED
        BY <4>1, AppliedEffect
    <3>2. QED
      BY <3>1 DEF Advanced
  <2>2. QED
    BY <2>1
<1>6. \E g : g = [n \in Nat |-> IF n = 0 THEN {v0} ELSE UNION {Advanced(w) : w \in g[n - 1]}]
  <2>1. {v0} \in SUBSET Views
    BY <1>4
  <2> HIDE DEF v0, G
  <2>2. PICK g : Iteration(SUBSET Views, G, {v0}, g)
    BY <1>5, <2>1, IterationExists
  <2>3. ASSUME NEW n \in Nat, n # 0
        PROVE  g[n] = UNION {Advanced(w) : w \in g[n - 1]}
    <3>1. n - 1 \in Nat /\ n = (n - 1) + 1
      BY <2>3
    <3>2. g[n] = G[g[n - 1]]
      BY <2>2, <3>1 DEF Iteration
    <3>3. QED
      BY <2>2, <3>1, <3>2 DEF G, Iteration
  <2>4. g = [n \in Nat |-> IF n = 0 THEN {v0} ELSE UNION {Advanced(w) : w \in g[n - 1]}]
    BY <2>2, <2>3 DEF Iteration
  <2>5. QED
    BY <2>4
<1>7. after = [n \in Nat |-> IF n = 0 THEN {v0} ELSE UNION {Advanced(w) : w \in after[n - 1]}]
  <2> HIDE DEF v0, G
  <2>1. QED
    BY <1>6, Zenon
<1>8. Reduced(v, q) = CHOOSE w \in after[Len(q)] : TRUE
  <2>1. Reduced(v, q) = CHOOSE w \in after[Cardinality(Buffered(v, q))] : TRUE
    BY Zenon DEF Reduced
  <2>2. QED
    BY <1>2, <2>1
<1> HIDE DEF after, v0, G
<1> DEFINE S == {n \in Nat : n <= Len(q) => \E w : Reaches(v, q, n, w) /\ after[n] = {w}}
<1>9. 0 \in S
  BY <1>4, <1>7
<1>10. ASSUME NEW n \in Nat, n \in S
       PROVE  n + 1 \in S
  <2>1. SUFFICES ASSUME n + 1 <= Len(q)
        PROVE  \E w : Reaches(v, q, n + 1, w) /\ after[n + 1] = {w}
    OBVIOUS
  <2>2. n < Len(q) /\ n <= Len(q)
    BY <1>1, <2>1
  <2>3. PICK w : Reaches(v, q, n, w) /\ after[n] = {w}
    BY <1>10, <2>2
  <2>4. after[n + 1] = Advanced(w)
    <3>1. n + 1 \in Nat /\ n + 1 # 0 /\ (n + 1) - 1 = n
      OBVIOUS
    <3>2. QED
      <4>1. after[n + 1] = UNION {Advanced(u) : u \in after[n]}
        BY <1>7, <3>1
      <4>2. UNION {Advanced(u) : u \in {w}} = Advanced(w)
        OBVIOUS
      <4>3. QED
        BY <2>3, <4>1, <4>2
  <2>5. QED
    BY <2>2, <2>3, <2>4, AdvancedEffect
<1> HIDE DEF S
<1>11. Nat \subseteq S
  BY <1>9, <1>10, NatSetInduction
<1>12. \E w : Reaches(v, q, Len(q), w) /\ after[Len(q)] = {w}
  BY <1>1, <1>11 DEF S
<1>13. QED
  BY <1>8, <1>12

\* What a flush makes of the view.
LEMMA FlushedEffect ==
  ASSUME WbTyped, FramesInPlace, InSequence
  PROVE  /\ Flushed \in Views /\ ViewOK(bus[Run], Flushed)
         /\ active => Flushed.last = page.last
         /\ view.status \in TerminalViews => Flushed.status \in TerminalViews
         /\ active /\ (\E i \in 1..Len(queue) : IsTerminal(queue[i]))
              => Flushed.status \in TerminalViews
<1>1. /\ view \in Views /\ queue \in Seq(FrameSet) /\ ViewOK(bus[Run], view)
      /\ view.pending = {} /\ view.last = Len(view.shown)
      /\ FramesOK(bus[Run], queue)
  BY DEF WbTyped, FramesInPlace, ViewOK
<1>2. CASE ~active
  BY <1>1, <1>2 DEF Flushed
<1>3. CASE active
  <2> DEFINE r == Flushed
             b == bus[Run]
  <2>1. r = Reduced(view, queue) /\ view.last + Len(queue) = page.last
        /\ Continues(view.last, queue)
    BY <1>3 DEF Flushed, InSequence
  <2>2. Reaches(view, queue, Len(queue), r)
    BY <1>1, <2>1, ReducedReaches
  <2> HIDE DEF r, b
  <2>3. Len(queue) \in Nat /\ view.last \in Nat
    BY <1>1, LenProperties DEF Views
  <2>4. /\ r \in Views /\ r.last = page.last /\ r.last = Len(r.shown)
        /\ view.status \in TerminalViews => r.status \in TerminalViews
        /\ (\E i \in 1..Len(queue) : IsTerminal(queue[i])) => r.status \in TerminalViews
    BY <2>1, <2>2 DEF Reaches
  <2>5. r.pending = {}
    BY <2>2, <2>3 DEF Reaches, Rest
  <2>6. ASSUME NEW i \in 1..Len(r.shown)
        PROVE  InPlace(b, i, r.shown[i])
    <3>1. Len(r.shown) = view.last + Len(queue)
      BY <2>1, <2>4
    <3>2. CASE i \in 1..view.last
      BY <1>1, <2>2, <3>2 DEF Reaches, ViewOK, b
    <3>3. CASE i \notin 1..view.last
      <4> DEFINE h == i - view.last
      <4>1. h \in 1..Len(queue) /\ i = view.last + h
        BY <2>3, <3>1, <3>3
      <4> HIDE DEF h
      <4>2. queue[h].seq = i /\ r.shown[i] = queue[h].type
        BY <2>1, <2>2, <4>1 DEF Continues, Reaches
      <4>3. InPlace(b, queue[h].seq, queue[h].type)
        BY <1>1, <4>1 DEF FramesOK, b
      <4>4. QED
        BY <4>2, <4>3
    <3>4. QED
      BY <3>2, <3>3
  <2>7. ViewOK(b, r)
    BY <2>4, <2>5, <2>6 DEF ViewOK
  <2>8. QED
    BY <2>4, <2>7, <1>3 DEF r, b
<1>4. QED
  BY <1>2, <1>3

-----------------------------------------------------------------------------
(***************************************************************************)
(* The steps.                                                              *)
(***************************************************************************)
\* What is in its place stays there as the run goes on.
LEMMA GrowsKeeps ==
  ASSUME NEW b, NEW c, Grows(b, c), Len(b) \in Nat, Len(c) \in Nat
  PROVE  /\ \A q : FramesOK(b, q) => FramesOK(c, q)
         /\ \A v : ViewOK(b, v) => ViewOK(c, v)
<1>1. \A i, type : InPlace(b, i, type) => InPlace(c, i, type)
  BY DEF Grows, InPlace
<1>2. QED
  BY <1>1 DEF FramesOK, ViewOK

\* A step of the runtime, or of the stream towards its end.
LEMMA PageAside ==
  ASSUME PageInv, UNCHANGED pageVars, Grows(bus[Run], bus'[Run]),
         Len(bus[Run]) \in Nat, Len(bus'[Run]) \in Nat,
         Polled' => /\ Polled /\ stream'[Conn].run = stream[Conn].run
                    /\ stream'[Conn].cursor = stream[Conn].cursor
  PROVE  PageInv'
<1>1. WbTyped'
  BY DEF PageInv, WbTyped, pageVars
<1>2. FramesInPlace'
  BY GrowsKeeps DEF PageInv, FramesInPlace, pageVars
<1>3. InSequence'
  BY DEF PageInv, InSequence, pageVars
<1>4. OutcomeComes'
  BY DEF PageInv, OutcomeComes, pageVars
<1>5. QED
  BY <1>1, <1>2, <1>3, <1>4 DEF PageInv

\* Only the status of the view changes.
LEMMA StatusSet ==
  ASSUME NEW b, NEW v \in Views, ViewOK(b, v), NEW status \in ViewStatuses
  PROVE  /\ [v EXCEPT !.status = status] \in Views
         /\ ViewOK(b, [v EXCEPT !.status = status])
         /\ [v EXCEPT !.status = status].last = v.last
         /\ [v EXCEPT !.status = status].status = status
<1> DEFINE w == [v EXCEPT !.status = status]
<1>1. /\ w \in Views /\ w.last = v.last /\ w.status = status
      /\ w.pending = v.pending /\ w.shown = v.shown
  BY DEF Views
<1> HIDE DEF w
<1>2. ViewOK(b, w)
  BY <1>1 DEF ViewOK
<1>3. QED
  BY <1>1, <1>2 DEF w

LEMMA ReconnectingEffect ==
  ASSUME WbTyped, ViewOK(bus[Run], view)
  PROVE  /\ Reconnecting(view) \in Views /\ ViewOK(bus[Run], Reconnecting(view))
         /\ Reconnecting(view).last = view.last
         /\ page.mode = "sent" /\ view.status \in TerminalViews =>
              Reconnecting(view).status \in TerminalViews
  BY StatusSet DEF Reconnecting, WbTyped, ViewStatuses

\* The queue is reduced and emptied, or the view takes a status.
LEMMA ViewChanges ==
  ASSUME PageInv,
         bus' = bus, wire' \in {wire, <<>>}, active' = active, saved' \in BOOLEAN,
         page' \in Pages, page'.mode = page.mode, page'.last = page.last,
         page'.terminal = page.terminal, page'.pc # "idle", page.pc # "idle",
         page'.pc # "reading" => wire' = <<>>,
         Polled' => /\ page'.pc = "reading" /\ stream'[Conn].run = Run
                    /\ page'.last + Len(wire') = stream'[Conn].cursor,
         \/ queue' = queue /\ view' \in {view, Reconnecting(view)}
         \/ queue' = <<>> /\ view' = Flushed
         \/ queue' = <<>> /\ view' = [Flushed EXCEPT !.status = "error"],
         page'.mode = "sent" /\ page'.pc \in {"returned", "threw", "stopped"} =>
           view'.status \in TerminalViews
  PROVE  PageInv'
<1> DEFINE b == bus[Run]
<1>1. /\ page \in Pages /\ wire \in Seq(FrameSet) /\ queue \in Seq(FrameSet)
      /\ view \in Views /\ active \in BOOLEAN
      /\ FramesOK(b, wire) /\ FramesOK(b, queue) /\ ViewOK(b, view)
      /\ WbTyped /\ FramesInPlace /\ InSequence /\ OutcomeComes
  BY DEF PageInv, WbTyped, FramesInPlace
<1>2. /\ <<>> \in Seq(FrameSet) /\ Len(<<>>) = 0 /\ FramesOK(b, <<>>)
      /\ \A n : Continues(n, <<>>)
  BY DEF FramesOK, Continues
<1>3. /\ wire' \in Seq(FrameSet) /\ FramesOK(b, wire') /\ Continues(page'.last, wire')
  BY <1>1, <1>2 DEF InSequence
<1>4. /\ view' \in Views /\ ViewOK(b, view') /\ queue' \in Seq(FrameSet)
      /\ FramesOK(b, queue')
      /\ active => view'.last + Len(queue') = page.last /\ Continues(view'.last, queue')
      /\ page.mode = "sent" /\ view.status \in TerminalViews => view'.status \in TerminalViews
      /\ \/ queue' = queue
         \/ active /\ (\E i \in 1..Len(queue) : IsTerminal(queue[i])) =>
              view'.status \in TerminalViews
  <2>1. CASE queue' = queue /\ view' \in {view, Reconnecting(view)}
    BY <1>1, <2>1, ReconnectingEffect DEF InSequence
  <2>2. /\ Flushed \in Views /\ ViewOK(b, Flushed)
        /\ active => Flushed.last = page.last
        /\ view.status \in TerminalViews => Flushed.status \in TerminalViews
        /\ active /\ (\E i \in 1..Len(queue) : IsTerminal(queue[i]))
             => Flushed.status \in TerminalViews
    BY <1>1, FlushedEffect
  <2>3. page.last \in Nat
    BY <1>1 DEF Pages
  <2>4. CASE queue' = <<>> /\ view' = Flushed
    BY <1>2, <2>2, <2>3, <2>4
  <2>5. CASE queue' = <<>> /\ view' = [Flushed EXCEPT !.status = "error"]
    <3>1. /\ view' \in Views /\ ViewOK(b, view') /\ view'.last = Flushed.last
          /\ view'.status = "error"
      <4>1. "error" \in ViewStatuses
        BY DEF ViewStatuses, TerminalViews
      <4>2. QED
        BY <2>2, <2>5, <4>1, StatusSet
    <3>2. QED
      BY <1>2, <2>2, <2>3, <2>5, <3>1 DEF TerminalViews
  <2>6. QED
    BY <2>1, <2>4, <2>5
<1>5. WbTyped'
  BY <1>1, <1>3, <1>4 DEF WbTyped
<1>6. FramesInPlace'
  BY <1>3, <1>4 DEF FramesInPlace
<1>7. InSequence'
  BY <1>3, <1>4 DEF InSequence
<1>8. OutcomeComes'
  BY <1>1, <1>4 DEF OutcomeComes
<1>9. QED
  BY <1>5, <1>6, <1>7, <1>8 DEF PageInv

\* The stream's place in the runtime.
LEMMA ConnTypes ==
  ASSUME Typed
  PROVE  /\ stream \in [Streams -> StreamState] /\ Conn \in Streams
         /\ stream[Conn] \in StreamState /\ stream[Conn].cursor \in Nat
         /\ Run \in Runs /\ bus[Run] \in Seq(EventTypes) /\ Len(bus[Run]) \in Nat
<1>1. Conn \in Streams /\ Run \in Runs
  BY WorkbenchAssumption DEF Runs
<1>2. /\ stream \in [Streams -> StreamState] /\ bus[Run] \in Seq(EventTypes)
      /\ stream[Conn] \in StreamState
  BY <1>1 DEF Typed
<1>3. QED
  BY <1>1, <1>2, LenProperties DEF StreamState

LEMMA HangupEffect ==
  ASSUME Typed, Hangup
  PROVE  stream' \in [Streams -> StreamState] /\ ~Polled'
<1>1. stream'[Conn].state = IF stream[Conn].state \in {"open", "checking"} THEN "broken"
                            ELSE stream[Conn].state
  BY ConnTypes DEF Hangup, StreamState
<1>2. stream' \in [Streams -> StreamState]
  BY ConnTypes DEF Hangup, StreamState
<1>3. QED
  BY <1>1, <1>2 DEF Polled

\* An exception while a stream is read.
LEMMA CaughtKeeps ==
  ASSUME PageInv, page.pc = "reading", Caught,
         bus' = bus, wire' = <<>>, active' = active, ~Polled'
  PROVE  PageInv'
<1>1. page \in Pages /\ saved \in BOOLEAN
  BY DEF PageInv, WbTyped
<1>2. CASE page.attempt < Retries
  <2>1. /\ page' = [page EXCEPT !.pc = "connecting", !.attempt = page.attempt + 1]
        /\ view' = Reconnecting(view) /\ queue' = queue /\ saved' = saved
    BY <1>2 DEF Caught
  <2>2. /\ page' \in Pages /\ page'.mode = page.mode /\ page'.last = page.last
        /\ page'.terminal = page.terminal /\ page'.pc = "connecting"
    <3>1. page.attempt + 1 \in Nat
      BY <1>1 DEF Pages
    <3>2. QED
      BY <1>1, <2>1, <3>1 DEF Pages
  <2>3. QED
    BY <1>1, <2>1, <2>2, ViewChanges
<1>3. CASE ~(page.attempt < Retries)
  <2>1. /\ page' = [page EXCEPT !.pc = "threw"]
        /\ IF page.mode = "sent"
           THEN view' = [Flushed EXCEPT !.status = "error"] /\ queue' = <<>> /\ saved' = FALSE
           ELSE view' = view /\ queue' = queue /\ saved' = saved
    BY <1>3 DEF Caught
  <2>2. /\ page' \in Pages /\ page'.mode = page.mode /\ page'.last = page.last
        /\ page'.terminal = page.terminal /\ page'.pc = "threw"
    BY <1>1, <2>1 DEF Pages
  <2>3. CASE page.mode = "sent"
    <3>1. view'.status = "error"
      <4>1. Flushed \in Views
        BY FlushedEffect DEF PageInv
      <4>2. QED
        BY <2>1, <2>3, <4>1 DEF Views
    <3>2. QED
      BY <1>1, <2>1, <2>2, <2>3, <3>1, ViewChanges DEF TerminalViews
  <2>4. CASE page.mode # "sent"
    BY <1>1, <2>1, <2>2, <2>4, ViewChanges
  <2>5. QED
    BY <2>3, <2>4
<1>4. QED
  BY <1>2, <1>3

\* The page between two connections, with nothing received of the run.
LEMMA StartsOver ==
  ASSUME IInv, PageInv, UNCHANGED <<row, bus, turn, loop, calls, restarts, cutOff>>,
         stream' \in [Streams -> StreamState], ~Polled',
         page' \in Pages, page'.pc = "connecting", page'.last = 0, ~page'.terminal,
         wire' = <<>>, queue' = <<>>, view' = NewView, active' = TRUE, saved' \in BOOLEAN
  PROVE  WbInv'
<1>1. IInv'
  BY StreamsAside
<1>2. /\ NewView \in Views /\ NewView.last = 0 /\ NewView.shown = <<>> /\ NewView.pending = {}
      /\ <<>> \in Seq(FrameSet) /\ Len(<<>>) = 0
  BY DEF NewView, Views, ViewStatuses
<1>3. WbTyped'
  BY <1>2 DEF WbTyped
<1>4. FramesInPlace'
  BY <1>2 DEF FramesInPlace, FramesOK, ViewOK
<1>5. InSequence'
  BY <1>2 DEF InSequence, Continues
<1>6. OutcomeComes'
  BY DEF OutcomeComes
<1>7. QED
  BY <1>1, <1>3, <1>4, <1>5, <1>6 DEF WbInv, PageInv

LEMMA AcceptedKeeps ==
  ASSUME WbInv, Accepted
  PROVE  WbInv'
<1>1. page \in Pages /\ page.pc = "idle" /\ page' = [page EXCEPT !.pc = "connecting"]
  BY DEF WbInv, PageInv, WbTyped, Accepted
<1>2. page.last = 0 /\ ~page.terminal /\ wire = <<>> /\ queue = <<>> /\ ~Polled
  BY <1>1 DEF WbInv, PageInv, InSequence
<1>3. page' \in Pages /\ page'.pc = "connecting" /\ page'.last = 0 /\ ~page'.terminal
  BY <1>1, <1>2 DEF Pages
<1>4. stream' \in [Streams -> StreamState] /\ ~Polled'
  BY <1>2, ConnTypes DEF WbInv, IInv, Accepted, vars, Polled
<1>5. QED
  BY <1>2, <1>3, <1>4, StartsOver DEF WbInv, Accepted, vars

LEMMA ReloadKeeps ==
  ASSUME WbInv, ReloadPage
  PROVE  WbInv'
<1>1. stream' \in [Streams -> StreamState] /\ ~Polled'
  BY HangupEffect DEF WbInv, IInv, ReloadPage
<1>2. page' \in Pages /\ page'.pc = "connecting" /\ page'.last = 0 /\ ~page'.terminal
  BY DEF ReloadPage, Pages
<1>3. saved' \in BOOLEAN
  BY DEF ReloadPage, WbInv, PageInv, WbTyped
<1>4. QED
  BY <1>1, <1>2, <1>3, StartsOver DEF WbInv, ReloadPage, LoadedRun

LEMMA ConnectKeeps ==
  ASSUME WbInv, Connect
  PROVE  WbInv'
<1>1. Typed /\ IInv /\ PageInv /\ page \in Pages /\ page.pc = "connecting"
      /\ saved \in BOOLEAN /\ wire = <<>>
  BY DEF WbInv, PageInv, IInv, WbTyped, InSequence, Connect
<1>2. /\ page' = [page EXCEPT !.pc = "reading"]
      /\ stream' = [stream EXCEPT ![Conn] = [state |-> "open", run |-> Run, cursor |-> page.last]]
      /\ UNCHANGED <<row, bus, turn, loop, calls, restarts, cutOff, wire, queue, active, saved>>
      /\ view' \in {view, Reconnecting(view)}
  BY DEF Connect, OpenStream
<1>3. /\ page' \in Pages /\ page'.pc = "reading" /\ page'.last = page.last /\ page.last \in Nat
      /\ page'.mode = page.mode /\ page'.terminal = page.terminal
  BY <1>1, <1>2 DEF Pages
<1>4. /\ stream' \in [Streams -> StreamState]
      /\ stream'[Conn].run = Run /\ stream'[Conn].cursor = page.last
  BY <1>1, <1>2, <1>3, ConnTypes DEF StreamState
<1>5. IInv'
  BY <1>1, <1>2, <1>4, StreamsAside
<1>6. page'.last + Len(wire') = stream'[Conn].cursor
  BY <1>1, <1>2, <1>3, <1>4
<1>7. PageInv'
  BY <1>1, <1>2, <1>3, <1>4, <1>6, ViewChanges
<1>8. QED
  BY <1>5, <1>7 DEF WbInv

LEMMA DoneKeeps ==
  ASSUME WbInv, Done
  PROVE  WbInv'
<1>1. /\ IInv /\ PageInv /\ page \in Pages /\ page.pc = "reading" /\ wire = <<>>
      /\ UNCHANGED <<vars, wire, active>> /\ ~Polled'
  BY DEF WbInv, PageInv, WbTyped, Done, vars, Polled
<1>2. IInv'
  BY <1>1, StreamsAside DEF vars, IInv, Typed
<1>3. CASE page.terminal
  <2>1. page' = [page EXCEPT !.pc = "returned"] /\ view' = Flushed /\ queue' = <<>> /\ saved' = FALSE
    BY <1>3 DEF Done
  <2>2. /\ page' \in Pages /\ page'.mode = page.mode /\ page'.last = page.last
        /\ page'.terminal = page.terminal /\ page'.pc = "returned"
    BY <1>1, <2>1 DEF Pages
  <2>3. page.mode = "sent" => Flushed.status \in TerminalViews
    BY <1>1, <1>3, FlushedEffect DEF PageInv, OutcomeComes
  <2>4. PageInv'
    BY <1>1, <2>1, <2>2, <2>3, ViewChanges DEF vars
  <2>5. QED
    BY <1>2, <2>4 DEF WbInv
<1>4. CASE ~page.terminal
  <2>1. Caught
    BY <1>4 DEF Done
  <2>2. QED
    BY <1>1, <1>2, <2>1, CaughtKeeps DEF WbInv, vars
<1>5. QED
  BY <1>3, <1>4

LEMMA FlushKeeps ==
  ASSUME WbInv, Flush
  PROVE  WbInv'
<1>1. /\ IInv /\ PageInv /\ page \in Pages /\ saved \in BOOLEAN
      /\ queue # <<>> /\ view' = Flushed /\ queue' = <<>>
      /\ UNCHANGED <<vars, page, wire, active, saved>>
  BY DEF WbInv, PageInv, WbTyped, Flush
<1>2. IInv'
  BY <1>1, StreamsAside DEF vars, IInv, Typed
<1>3. page.pc # "idle"
  BY <1>1 DEF PageInv, InSequence
<1>4. /\ page.pc # "reading" => wire' = <<>>
      /\ Polled' => /\ page'.pc = "reading" /\ stream'[Conn].run = Run
                    /\ page'.last + Len(wire') = stream'[Conn].cursor
  BY <1>1 DEF PageInv, InSequence, Polled, vars
<1>5. page.mode = "sent" /\ page.pc \in {"returned", "threw", "stopped"} =>
        Flushed.status \in TerminalViews
  BY FlushedEffect DEF WbInv, PageInv, OutcomeComes
<1>6. PageInv'
  BY <1>1, <1>3, <1>4, <1>5, ViewChanges DEF vars
<1>7. QED
  BY <1>2, <1>6 DEF WbInv

LEMMA ReleaseKeeps ==
  ASSUME WbInv, Release
  PROVE  WbInv'
<1>1. IInv /\ PageInv /\ UNCHANGED <<vars, page, wire, queue, view, saved>>
      /\ active' = FALSE /\ view.status \in TerminalViews
  BY DEF WbInv, Release, Releasable
<1>2. IInv'
  BY <1>1, StreamsAside DEF vars, IInv, Typed
<1>3. WbTyped' /\ FramesInPlace' /\ InSequence' /\ OutcomeComes'
  BY <1>1 DEF PageInv, WbTyped, FramesInPlace, InSequence, OutcomeComes, vars, Polled
<1>4. QED
  BY <1>2, <1>3 DEF WbInv, PageInv

LEMMA BreakKeeps ==
  ASSUME WbInv, Break
  PROVE  WbInv'
<1>1. stream' \in [Streams -> StreamState] /\ ~Polled'
  BY HangupEffect DEF WbInv, IInv, Break
<1>2. IInv'
  BY <1>1, StreamsAside DEF WbInv, Break
<1>3. PageInv'
  BY <1>1, CaughtKeeps DEF WbInv, Break
<1>4. QED
  BY <1>2, <1>3 DEF WbInv

LEMMA StopKeeps ==
  ASSUME WbInv, StopRun
  PROVE  WbInv'
<1>1. stream' \in [Streams -> StreamState] /\ ~Polled'
  BY HangupEffect DEF WbInv, IInv, StopRun
<1>2. IInv'
  BY <1>1, StreamsAside DEF WbInv, StopRun
<1>3. page' = [page EXCEPT !.pc = "stopped"] /\ page \in Pages
  BY DEF StopRun, WbInv, PageInv, WbTyped
<1>4. page' \in Pages /\ page'.pc = "stopped" /\ page'.last = page.last
  BY <1>3 DEF Pages
<1>5. view' \in Views /\ ViewOK(bus[Run], view') /\ view'.status = "cancelled"
  <2>1. /\ view \in Views /\ ViewOK(bus[Run], view) /\ "cancelled" \in ViewStatuses
        /\ view' = [view EXCEPT !.status = "cancelled"]
    BY DEF StopRun, WbInv, PageInv, WbTyped, FramesInPlace, ViewStatuses, TerminalViews
  <2>2. QED
    BY <2>1, StatusSet
<1>6. WbTyped'
  <2>1. wire' = <<>> /\ queue' = <<>>
    BY DEF StopRun
  <2>2. active' \in BOOLEAN /\ saved' \in BOOLEAN
    BY Zenon DEF StopRun
  <2>3. QED
    BY <1>4, <1>5, <2>1, <2>2 DEF WbTyped
<1>7. FramesInPlace'
  BY <1>5 DEF StopRun, FramesInPlace, FramesOK
<1>8. InSequence'
  BY <1>1, <1>4 DEF StopRun, InSequence, Continues
<1>9. OutcomeComes'
  BY <1>4, <1>5 DEF StopRun, OutcomeComes, TerminalViews
<1>10. QED
  BY <1>2, <1>6, <1>7, <1>8, <1>9 DEF WbInv, PageInv

\* The frames of a poll are the events behind the cursor.
LEMMA FramesEffect ==
  ASSUME NEW b \in Seq(EventTypes), NEW from \in Nat, NEW to \in Nat, from <= to,
         from < to => to = Len(b)
  PROVE  /\ Frames(b, from, to) \in Seq(FrameSet) /\ Len(Frames(b, from, to)) = to - from
         /\ Continues(from, Frames(b, from, to)) /\ FramesOK(b, Frames(b, from, to))
<1> DEFINE n == to - from
           fr == [i \in 1..n |-> Converted(from + i, b[from + i])]
<1>1. n \in Nat /\ Len(b) \in Nat /\ \A i \in 1..n : from + i \in 1..Len(b)
  BY LenProperties
<1>2. \A type \in EventTypes : Projected(type) \in FrameTypes
  BY DEF EventTypes, Projected, FrameTypes
<1>3. \A i \in 1..n : Converted(from + i, b[from + i]) \in FrameSet
  BY <1>1, <1>2 DEF Converted, FrameSet
<1>4. fr \in Seq(FrameSet) /\ Len(fr) = n
  BY <1>1, <1>3
<1>5. \A i \in 1..n : fr[i].seq = from + i /\ fr[i].type = Projected(b[from + i])
  BY DEF Converted
<1> HIDE DEF fr
<1>6. Continues(from, fr) /\ FramesOK(b, fr)
  BY <1>1, <1>4, <1>5 DEF Continues, FramesOK, InPlace
<1>7. QED
  BY <1>4, <1>6 DEF fr, Frames

\* Frames put behind others.
Joined(p, q, s) ==
  /\ \A i \in 1..Len(p) : s[i] = p[i]
  /\ \A i \in 1..Len(q) : s[Len(p) + i] = q[i]

LEMMA FramesJoined ==
  ASSUME NEW b, NEW p \in Seq(FrameSet), NEW q \in Seq(FrameSet),
         FramesOK(b, p), FramesOK(b, q)
  PROVE  /\ p \o q \in Seq(FrameSet) /\ Len(p \o q) = Len(p) + Len(q) /\ FramesOK(b, p \o q)
         /\ Joined(p, q, p \o q)
         /\ \A n \in Nat : Continues(n, p) /\ Continues(n + Len(p), q) => Continues(n, p \o q)
<1>1. /\ p \o q \in Seq(FrameSet) /\ Len(p \o q) = Len(p) + Len(q)
      /\ Len(p) \in Nat /\ Len(q) \in Nat
      /\ \A i \in 1..(Len(p) + Len(q)) :
           (p \o q)[i] = IF i <= Len(p) THEN p[i] ELSE q[i - Len(p)]
  BY ConcatProperties, LenProperties
<1>2. ASSUME NEW i \in 1..Len(p \o q)
      PROVE  \/ i \in 1..Len(p) /\ (p \o q)[i] = p[i]
             \/ i - Len(p) \in 1..Len(q) /\ (p \o q)[i] = q[i - Len(p)]
  BY <1>1
<1>3. FramesOK(b, p \o q)
  BY <1>2 DEF FramesOK
<1>4. ASSUME NEW n \in Nat, Continues(n, p), Continues(n + Len(p), q)
      PROVE  Continues(n, p \o q)
  <2>1. ASSUME NEW i \in 1..Len(p \o q), i - Len(p) \in 1..Len(q)
        PROVE  q[i - Len(p)].seq = n + i
    <3>1. n + Len(p) + (i - Len(p)) = n + i
      BY <1>1
    <3>2. QED
      BY <1>4, <2>1, <3>1 DEF Continues
  <2>2. QED
    BY <1>2, <1>4, <2>1 DEF Continues
<1>5. Joined(p, q, p \o q)
  <2>1. \A i \in 1..Len(q) : /\ Len(p) + i \in 1..(Len(p) + Len(q)) /\ ~(Len(p) + i <= Len(p))
                            /\ Len(p) + i - Len(p) = i
    BY <1>1
  <2>2. QED
    BY <1>1, <2>1 DEF Joined
<1>6. QED
  BY <1>1, <1>3, <1>4, <1>5

\* The last sequence after m frames of q, which continue n.
Latest(n, q, m) == Max({n} \cup {q[i].seq : i \in 1..m})

\* The first frames of the wire, and the others.
LEMMA FramesSplit ==
  ASSUME NEW b, NEW q \in Seq(FrameSet), FramesOK(b, q), NEW n \in Nat, Continues(n, q),
         NEW m \in 1..Len(q)
  PROVE  /\ SubSeq(q, 1, m) \in Seq(FrameSet) /\ Len(SubSeq(q, 1, m)) = m
         /\ FramesOK(b, SubSeq(q, 1, m)) /\ Continues(n, SubSeq(q, 1, m))
         /\ SubSeq(q, m + 1, Len(q)) \in Seq(FrameSet)
         /\ Len(SubSeq(q, m + 1, Len(q))) = Len(q) - m
         /\ FramesOK(b, SubSeq(q, m + 1, Len(q))) /\ Continues(n + m, SubSeq(q, m + 1, Len(q)))
         /\ Latest(n, SubSeq(q, 1, m), m) = n + m
<1> DEFINE p == SubSeq(q, 1, m)
           r == SubSeq(q, m + 1, Len(q))
<1>1. Len(q) \in Nat /\ m \in Nat /\ DOMAIN q = 1..Len(q) /\ \A i \in 1..Len(q) : q[i] \in FrameSet
  BY LenProperties
<1>2. p \in Seq(FrameSet) /\ Len(p) = m /\ \A i \in 1..m : p[i] = q[i]
  <2>1. 1 \in Int /\ m \in Int /\ \A i \in 1..m : q[i] \in FrameSet
    BY <1>1
  <2>2. /\ p \in Seq(FrameSet) /\ Len(p) = IF 1 <= m THEN m - 1 + 1 ELSE 0
        /\ \A i \in 1..(m - 1 + 1) : p[i] = q[1 + i - 1]
    BY <2>1, SubSeqProperties
  <2> HIDE DEF p
  <2>3. QED
    BY <1>1, <2>2
<1>3. /\ r \in Seq(FrameSet) /\ Len(r) = Len(q) - m
      /\ \A i \in 1..(Len(q) - m) : r[i] = q[m + i]
  <2>1. m + 1 \in Int /\ Len(q) \in Int /\ \A i \in (m + 1)..Len(q) : q[i] \in FrameSet
    BY <1>1
  <2>2. /\ r \in Seq(FrameSet) /\ Len(r) = IF m + 1 <= Len(q) THEN Len(q) - (m + 1) + 1 ELSE 0
        /\ \A i \in 1..(Len(q) - (m + 1) + 1) : r[i] = q[m + 1 + i - 1]
    BY <2>1, SubSeqProperties
  <2> HIDE DEF r
  <2>3. /\ Len(q) - (m + 1) + 1 = Len(q) - m
        /\ Len(q) - m = IF m + 1 <= Len(q) THEN Len(q) - (m + 1) + 1 ELSE 0
        /\ \A i \in 1..(Len(q) - m) : m + 1 + i - 1 = m + i
    <3> DEFINE n0 == Len(q)
    <3>1. n0 \in Nat /\ m \in Nat /\ m <= n0
      BY <1>1
    <3> HIDE DEF n0
    <3>2. /\ n0 - (m + 1) + 1 = n0 - m
          /\ n0 - m = IF m + 1 <= n0 THEN n0 - (m + 1) + 1 ELSE 0
      BY <3>1
    <3>3. \A i \in 1..(n0 - m) : m + 1 + i - 1 = m + i
      BY <3>1
    <3>4. QED
      BY <3>2, <3>3 DEF n0
  <2>4. \A i \in 1..(Len(q) - m) : r[i] = q[m + i]
    BY <2>2, <2>3
  <2>5. QED
    BY <2>2, <2>3, <2>4
<1> HIDE DEF p, r
<1>4. FramesOK(b, p) /\ Continues(n, p)
  BY <1>1, <1>2 DEF FramesOK, Continues
<1>5. \A i \in 1..(Len(q) - m) : m + i \in 1..Len(q) /\ n + (m + i) = n + m + i
  BY <1>1
<1>6. FramesOK(b, r) /\ Continues(n + m, r)
  BY <1>3, <1>5 DEF FramesOK, Continues
<1>7. Latest(n, p, m) = n + m
  <2> DEFINE T == {n} \cup {p[i].seq : i \in 1..m}
  <2>1. n + m \in T /\ \A y \in T : y \in Nat /\ n + m >= y
    BY <1>1, <1>2, <1>4 DEF Continues
  <2> HIDE DEF T
  <2>2. \A x \in T : (\A y \in T : x >= y) => x = n + m
    BY <2>1
  <2>3. Max(T) = n + m
    BY <2>1, <2>2 DEF Max
  <2>4. QED
    BY <2>3 DEF T, Latest
<1>8. QED
  BY <1>2, <1>3, <1>4, <1>6, <1>7 DEF p, r

LEMMA ForwardKeeps ==
  ASSUME WbInv, Forward
  PROVE  WbInv'
<1> DEFINE b == bus[Run]
           from == stream[Conn].cursor
           to == IF from < Len(b) THEN Len(b) ELSE from
           fr == Frames(b, from, to)
<1>1. /\ Typed /\ IInv /\ WbTyped /\ FramesInPlace /\ InSequence /\ OutcomeComes /\ Polled
      /\ page \in Pages /\ page.last \in Nat /\ wire \in Seq(FrameSet) /\ Len(wire) \in Nat
  BY LenProperties DEF WbInv, IInv, PageInv, WbTyped, Pages, Forward, SendEvents, Polled
<1>2. /\ b \in Seq(EventTypes) /\ Len(b) \in Nat /\ from \in Nat /\ to \in Nat
      /\ from <= to /\ (from < to => to = Len(b))
      /\ stream \in [Streams -> StreamState] /\ stream[Conn] \in StreamState /\ Conn \in Streams
  BY <1>1, ConnTypes
<1>3. page.pc = "reading" /\ stream[Conn].run = Run /\ page.last + Len(wire) = from
  BY <1>1 DEF InSequence
<1>4. /\ stream' = [stream EXCEPT ![Conn].state = "checking", ![Conn].cursor = to]
      /\ wire' = wire \o fr
      /\ UNCHANGED <<row, bus, turn, loop, calls, restarts, cutOff, page, queue, view, active, saved>>
  BY <1>3 DEF Forward, SendEvents, Newest
<1> HIDE DEF b, to, fr
<1>5. /\ fr \in Seq(FrameSet) /\ Len(fr) = to - from
      /\ Continues(from, fr) /\ FramesOK(b, fr)
  BY <1>2, FramesEffect DEF fr
<1>6. /\ stream' \in [Streams -> StreamState] /\ stream'[Conn].run = Run
      /\ stream'[Conn].cursor = to
  BY <1>2, <1>3, <1>4 DEF StreamState
<1>7. IInv'
  BY <1>1, <1>4, <1>6, StreamsAside
<1>8. Continues(page.last, wire) /\ FramesOK(b, wire)
  BY <1>1 DEF InSequence, FramesInPlace, b
<1>9. /\ wire' \in Seq(FrameSet) /\ Len(wire') = Len(wire) + Len(fr)
      /\ FramesOK(b, wire') /\ Continues(page.last, wire')
  BY <1>1, <1>3, <1>4, <1>5, <1>8, FramesJoined
<1>10. page.last + Len(wire') = to
  <2>1. page.last \in Nat /\ Len(wire) \in Nat /\ page.last + Len(wire) = from
    BY <1>1, <1>3
  <2>2. from \in Nat /\ to \in Nat /\ Len(fr) = to - from
    BY <1>2, <1>5
  <2>3. Len(wire') = Len(wire) + Len(fr)
    BY <1>9
  <2> HIDE DEF from
  <2>4. QED
    BY <2>1, <2>2, <2>3
<1>11. WbTyped'
  BY <1>1, <1>4, <1>9 DEF WbTyped
<1>12. FramesInPlace'
  BY <1>1, <1>4, <1>9 DEF FramesInPlace, b
<1>13. InSequence'
  BY <1>1, <1>3, <1>4, <1>6, <1>9, <1>10 DEF InSequence
<1>14. OutcomeComes'
  BY <1>1, <1>4 DEF OutcomeComes
<1>15. QED
  BY <1>7, <1>11, <1>12, <1>13, <1>14 DEF WbInv, PageInv

LEMMA DeliverKeeps ==
  ASSUME WbInv, Deliver
  PROVE  WbInv'
<1> DEFINE b == bus[Run]
<1>1. /\ Typed /\ IInv /\ WbTyped /\ FramesInPlace /\ InSequence /\ OutcomeComes
      /\ page \in Pages /\ page.last \in Nat /\ page.pc = "reading"
      /\ wire \in Seq(FrameSet) /\ Len(wire) \in Nat
      /\ queue \in Seq(FrameSet) /\ Len(queue) \in Nat /\ view \in Views /\ view.last \in Nat
      /\ UNCHANGED <<vars, view, active, saved>>
  BY LenProperties DEF WbInv, IInv, PageInv, WbTyped, Pages, Views, Deliver
<1>2. PICK m \in 1..Len(wire) :
        LET events == Parsed(m)
        IN /\ page' = [page EXCEPT
                         !.last = Max({page.last} \cup {events[i].seq : i \in 1..m}),
                         !.terminal = @ \/ \E i \in 1..m : IsTerminal(events[i])]
           /\ queue' = queue \o events
           /\ wire' = SubSeq(wire, m + 1, Len(wire))
  BY DEF Deliver
<1> DEFINE p == SubSeq(wire, 1, m)
           r == SubSeq(wire, m + 1, Len(wire))
           ends == \E i \in 1..m : IsTerminal(p[i])
<1>3. /\ FramesOK(b, wire) /\ Continues(page.last, wire)
      /\ FramesOK(b, queue) /\ ViewOK(b, view)
  BY <1>1 DEF InSequence, FramesInPlace
<1>4. /\ p \in Seq(FrameSet) /\ Len(p) = m /\ FramesOK(b, p) /\ Continues(page.last, p)
      /\ r \in Seq(FrameSet) /\ Len(r) = Len(wire) - m
      /\ FramesOK(b, r) /\ Continues(page.last + m, r)
      /\ Latest(page.last, p, m) = page.last + m
  <2> HIDE DEF b
  <2>1. QED
    BY <1>1, <1>3, FramesSplit
<1>5. queue' = queue \o p /\ wire' = r
  BY <1>2 DEF Parsed
<1>6. page' = [page EXCEPT !.last = page.last + m, !.terminal = page.terminal \/ ends]
  BY <1>2, <1>4 DEF Parsed, Latest
<1> HIDE DEF p, r, b
<1>7. page.terminal \/ ends \in BOOLEAN
  BY Zenon
<1> DEFINE ended == page.terminal \/ ends
<1>8. page' = [page EXCEPT !.last = page.last + m, !.terminal = ended]
  BY <1>6
<1> HIDE DEF ended
<1>9. /\ page' \in Pages /\ page'.last = page.last + m /\ page'.terminal = ended
      /\ page'.pc = "reading" /\ page'.mode = page.mode
  <2>1. ended \in BOOLEAN
    BY <1>7 DEF ended
  <2>2. page.last + m \in Nat
    BY <1>1
  <2>3. QED
    BY <1>1, <1>8, <2>1, <2>2 DEF Pages
<1>10. /\ queue' \in Seq(FrameSet) /\ Len(queue') = Len(queue) + m /\ FramesOK(b, queue')
       /\ \A i \in 1..Len(queue) : queue'[i] = queue[i]
       /\ \A i \in 1..m : queue'[Len(queue) + i] = p[i]
       /\ Continues(view.last, queue) /\ Continues(view.last + Len(queue), p) =>
            Continues(view.last, queue')
  <2>1. /\ queue \o p \in Seq(FrameSet) /\ Len(queue \o p) = Len(queue) + Len(p)
        /\ FramesOK(b, queue \o p) /\ Joined(queue, p, queue \o p)
        /\ \A n \in Nat : Continues(n, queue) /\ Continues(n + Len(queue), p) =>
             Continues(n, queue \o p)
    <3>1. p \in Seq(FrameSet) /\ queue \in Seq(FrameSet) /\ FramesOK(b, queue) /\ FramesOK(b, p)
      BY <1>1, <1>3, <1>4
    <3>2. QED
      BY <3>1, FramesJoined
  <2>2. QED
    BY <1>1, <1>4, <1>5, <2>1 DEF Joined
<1>11. IInv'
  BY <1>1, StreamsAside DEF vars, IInv, Typed
<1>12. WbTyped'
  BY <1>1, <1>4, <1>5, <1>9, <1>10 DEF WbTyped
<1>13. FramesInPlace'
  BY <1>1, <1>3, <1>4, <1>5, <1>10 DEF FramesInPlace, b, vars
<1>14. InSequence'
  <2>1. active => view.last + Len(queue') = page'.last /\ Continues(view.last, queue')
    BY <1>1, <1>4, <1>9, <1>10 DEF InSequence
  <2>2. Continues(page'.last, wire')
    BY <1>4, <1>5, <1>9
  <2>3. page'.last + Len(wire') = page.last + Len(wire)
    <3>1. page'.last = page.last + m /\ Len(wire') = Len(wire) - m
      BY <1>4, <1>5, <1>9
    <3>2. page.last + m + (Len(wire) - m) = page.last + Len(wire)
      BY <1>1
    <3>3. QED
      BY <3>1, <3>2
  <2>4. Polled' => stream'[Conn].run = Run /\ page'.last + Len(wire') = stream'[Conn].cursor
    BY <1>1, <2>3 DEF InSequence, Polled, vars
  <2>5. QED
    BY <1>1, <1>9, <2>1, <2>2, <2>4 DEF InSequence
<1>15. OutcomeComes'
  <2>1. ASSUME page.mode = "sent", ended, view.status \notin TerminalViews
        PROVE  active /\ \E i \in 1..Len(queue') : IsTerminal(queue'[i])
    <3>1. active
      BY <1>1, <2>1 DEF OutcomeComes
    <3>2. CASE page.terminal
      <4>1. PICK i \in 1..Len(queue) : IsTerminal(queue[i])
        BY <1>1, <2>1, <3>2 DEF OutcomeComes
      <4>2. i \in 1..Len(queue') /\ queue'[i] = queue[i]
        BY <1>1, <1>10
      <4>3. QED
        BY <3>1, <4>1, <4>2
    <3>3. CASE ends
      <4>1. PICK i \in 1..m : IsTerminal(p[i])
        BY <3>3
      <4>2. Len(queue) + i \in 1..Len(queue') /\ queue'[Len(queue) + i] = p[i]
        BY <1>1, <1>10
      <4>3. QED
        BY <3>1, <4>1, <4>2
    <3>4. QED
      BY <2>1, <3>2, <3>3 DEF ended
  <2>2. page.pc # "idle"
    BY <1>1
  <2>3. QED
    BY <1>1, <1>9, <2>1, <2>2 DEF OutcomeComes
<1>16. QED
  BY <1>11, <1>12, <1>13, <1>14, <1>15 DEF WbInv, PageInv

\* The BFF lost the stream: an error goes behind the frames it has forwarded.
LEMMA ErrorPut ==
  ASSUME PageInv, Typed, Polled, Grows(bus[Run], bus'[Run]), Len(bus'[Run]) \in Nat,
         ~Polled', wire' = Append(wire, ErrorFrame),
         UNCHANGED <<page, queue, view, active, saved>>
  PROVE  PageInv'
<1>1. /\ WbTyped /\ FramesInPlace /\ InSequence /\ OutcomeComes
      /\ wire \in Seq(FrameSet) /\ Len(wire) \in Nat /\ page \in Pages /\ page.last \in Nat
      /\ stream[Conn].cursor \in Nat /\ Len(bus[Run]) \in Nat
  BY ConnTypes, LenProperties DEF PageInv, WbTyped, Pages
<1>2. page.pc = "reading" /\ page.last + Len(wire) = stream[Conn].cursor
  BY <1>1 DEF InSequence
<1>3. /\ ErrorFrame \in FrameSet /\ ErrorFrame.type = "error"
      /\ ErrorFrame.seq = page.last + (Len(wire) + 1)
  <2>1. stream[Conn].cursor + 1 \in Nat /\ stream[Conn].cursor + 1 = page.last + (Len(wire) + 1)
    <3> DEFINE c == stream[Conn].cursor
               n == page.last
               d == Len(wire)
    <3>1. c \in Nat /\ n \in Nat /\ d \in Nat /\ n + d = c
      BY <1>1, <1>2
    <3> HIDE DEF c, n, d
    <3>2. c + 1 \in Nat /\ c + 1 = n + (d + 1)
      BY <3>1
    <3>3. QED
      BY <3>2 DEF c, n, d
  <2>2. QED
    BY <2>1 DEF ErrorFrame, FrameSet, FrameTypes
<1>4. /\ wire' \in Seq(FrameSet) /\ Len(wire') = Len(wire) + 1
      /\ \A i \in 1..Len(wire) : wire'[i] = wire[i]
      /\ wire'[Len(wire) + 1] = ErrorFrame
  BY <1>1, <1>3, AppendProperties
<1>5. Continues(page.last, wire') /\ FramesOK(bus[Run], wire')
  <2>1. \A i \in 1..Len(wire') : i \in 1..Len(wire) \/ i = Len(wire) + 1
    BY <1>1, <1>4
  <2>2. Continues(page.last, wire) /\ FramesOK(bus[Run], wire)
    BY <1>1 DEF InSequence, FramesInPlace
  <2>3. QED
    BY <1>3, <1>4, <2>1, <2>2 DEF Continues, FramesOK, InPlace
<1>6. WbTyped'
  BY <1>1, <1>4 DEF WbTyped
<1>7. FramesInPlace'
  BY <1>1, <1>5, GrowsKeeps DEF FramesInPlace
<1>8. InSequence'
  BY <1>1, <1>2, <1>5 DEF InSequence
<1>9. OutcomeComes'
  BY <1>1 DEF OutcomeComes
<1>10. QED
  BY <1>6, <1>7, <1>8, <1>9 DEF PageInv

LEMMA StreamFailsKeeps ==
  ASSUME WbInv, StreamFails
  PROVE  WbInv'
<1>1. Typed /\ Polled /\ UNCHANGED <<row, bus, turn, loop, calls, restarts, cutOff>>
  BY DEF WbInv, IInv, StreamFails, Polled
<1>2. stream' \in [Streams -> StreamState] /\ ~Polled'
  BY <1>1, HangupEffect DEF StreamFails
<1>3. IInv'
  BY <1>1, <1>2, StreamsAside DEF WbInv
<1>4. Grows(bus[Run], bus'[Run]) /\ Len(bus'[Run]) \in Nat
  BY <1>1, ConnTypes DEF Grows
<1>5. PageInv'
  BY <1>1, <1>2, <1>4, ErrorPut DEF WbInv, StreamFails
<1>6. QED
  BY <1>3, <1>5 DEF WbInv

LEMMA RuntimeRestartKeeps ==
  ASSUME WbInv, RuntimeRestart
  PROVE  WbInv'
<1>1. Typed /\ IInv /\ PageInv /\ Restart
      /\ UNCHANGED <<page, queue, view, active, saved, breaks>>
  BY DEF WbInv, IInv, RuntimeRestart
<1>2. IInv'
  BY <1>1, RestartKeeps
<1>3. ~Polled'
  BY <1>1, ConnTypes DEF Restart, Polled, StreamState
<1>4. Grows(bus[Run], bus'[Run]) /\ Len(bus'[Run]) \in Nat /\ Len(bus[Run]) \in Nat
  BY <1>1, BusGrows, ConnTypes DEF Restart
<1>5. CASE Polled
  <2>1. page.pc = "reading"
    BY <1>1, <1>5 DEF PageInv, InSequence
  <2>2. wire' = Append(wire, ErrorFrame)
    BY <1>5, <2>1 DEF RuntimeRestart, Polled
  <2>3. QED
    BY <1>1, <1>2, <1>3, <1>4, <1>5, <2>2, ErrorPut DEF WbInv
<1>6. CASE ~Polled
  <2>1. UNCHANGED pageVars
    BY <1>1, <1>6 DEF RuntimeRestart, Polled, pageVars
  <2>2. QED
    BY <1>1, <1>2, <1>3, <1>4, <2>1, PageAside DEF WbInv
<1>7. QED
  BY <1>5, <1>6

LEMMA RuntimeStepKeeps ==
  ASSUME WbInv, RuntimeStep
  PROVE  WbInv'
<1>1. Typed /\ IInv /\ PageInv /\ TurnNext /\ UNCHANGED pageVars
  BY DEF WbInv, IInv, RuntimeStep
<1>2. IInv' /\ Typed'
  BY <1>1, TurnNextKeeps DEF IInv
<1>3. Grows(bus[Run], bus'[Run]) /\ Len(bus[Run]) \in Nat /\ Len(bus'[Run]) \in Nat
  <2>1. Run \in Runs /\ bus'[Run] \in Seq(EventTypes)
    BY <1>1, <1>2, ConnTypes DEF Typed
  <2>2. QED
    BY <1>1, <2>1, BusGrows, ConnTypes, LenProperties
<1>4. stream' = stream
  BY <1>1 DEF TurnNext, Dispatch, Prepare, PublishStart, SaveContext, Announce, PrepareRaises,
     Execute, Compile, Reload, PlanRound, CallTools, Summarize, Complete, Stop, Close,
     TurnRaises, Fail, Report, Http, CancelRun, CompleteRun, CancelPublish, CompletePublish,
     HttpSave, HttpPublish, HttpRaises
<1>5. PageInv'
  BY <1>1, <1>3, <1>4, PageAside DEF Polled
<1>6. QED
  BY <1>2, <1>5 DEF WbInv

LEMMA EndStreamKeeps ==
  ASSUME WbInv, EndStream
  PROVE  WbInv'
<1>1. /\ Typed /\ IInv /\ PageInv /\ CheckStatus(Conn) /\ UNCHANGED pageVars
      /\ UNCHANGED <<row, bus, turn, loop, calls, restarts, cutOff>>
  BY DEF WbInv, IInv, EndStream, CheckStatus
<1>2. /\ stream' \in [Streams -> StreamState] /\ Polled
      /\ stream'[Conn].run = stream[Conn].run /\ stream'[Conn].cursor = stream[Conn].cursor
  BY <1>1, ConnTypes DEF CheckStatus, StreamState, Polled
<1>3. IInv'
  BY <1>1, <1>2, StreamsAside
<1>4. Grows(bus[Run], bus'[Run]) /\ Len(bus'[Run]) \in Nat /\ Len(bus[Run]) \in Nat
  BY <1>1, ConnTypes DEF Grows
<1>5. PageInv'
  BY <1>1, <1>2, <1>4, PageAside
<1>6. QED
  BY <1>3, <1>5 DEF WbInv

-----------------------------------------------------------------------------
(***************************************************************************)
(* The theorems.                                                           *)
(***************************************************************************)
LEMMA WbInvInit == WbInit => WbInv
<1> SUFFICES ASSUME WbInit PROVE WbInv
  OBVIOUS
<1>1. IInv
  BY IInvInit DEF WbInit
<1>2. /\ page \in Pages /\ page.pc = "idle" /\ page.mode = "sent" /\ page.last = 0
      /\ page.terminal = FALSE /\ wire = <<>> /\ queue = <<>> /\ active = FALSE
      /\ saved = FALSE /\ view = NewView
  BY DEF WbInit, Pages
<1>3. /\ NewView \in Views /\ NewView.last = 0 /\ NewView.shown = <<>> /\ NewView.pending = {}
      /\ NewView.status = "queued"
  BY DEF NewView, Views, ViewStatuses
<1>4. ~Polled
  <2>1. Typed
    BY <1>1 DEF IInv
  <2>2. QED
    BY <2>1, ConnTypes DEF WbInit, Init, NoStream, Polled
<1>5. active \in BOOLEAN /\ saved \in BOOLEAN
  BY <1>2, Zenon
<1>6. WbTyped
  BY <1>2, <1>3, <1>5 DEF WbTyped
<1>7. FramesInPlace
  BY <1>2, <1>3 DEF FramesInPlace, FramesOK, ViewOK
<1>8. InSequence
  BY <1>2, <1>3, <1>4 DEF InSequence, Continues
<1>9. OutcomeComes
  BY <1>2 DEF OutcomeComes
<1>10. QED
  BY <1>1, <1>6, <1>7, <1>8, <1>9 DEF WbInv, PageInv

\* The invariant is inductive.
LEMMA WbInvStep == WbInv /\ [WbNext]_wbVars => WbInv'
<1> SUFFICES ASSUME WbInv, [WbNext]_wbVars PROVE WbInv'
  OBVIOUS
<1>1. ASSUME UNCHANGED wbVars
      PROVE  WbInv'
  <2>1. UNCHANGED vars /\ UNCHANGED pageVars
    BY <1>1 DEF wbVars
  <2>2. IInv'
    BY <2>1, StreamsAside DEF vars, WbInv, IInv, Typed
  <2>3. Grows(bus[Run], bus'[Run]) /\ Len(bus'[Run]) \in Nat /\ Len(bus[Run]) \in Nat
    BY <2>1, ConnTypes DEF Grows, vars, WbInv, IInv
  <2>4. PageInv'
    BY <2>1, <2>3, PageAside DEF WbInv, vars, Polled
  <2>5. QED
    BY <2>2, <2>4 DEF WbInv
<1>2. QED
  BY <1>1, RuntimeStepKeeps, RuntimeRestartKeeps, AcceptedKeeps, ConnectKeeps, ForwardKeeps,
     EndStreamKeeps, DeliverKeeps, DoneKeeps, FlushKeeps, ReleaseKeeps, BreakKeeps,
     StreamFailsKeeps, StopKeeps, ReloadKeeps DEF WbNext

\* What the page shows, has queued and has on the wire are the run's events in their
\* order, through reconnections, restarts of the gateway, stops and page reloads.
THEOREM WorkbenchInvariance == WbSpec => []WbInv
  BY WbInvInit, WbInvStep, PTL DEF WbSpec

\* For any number of events, reconnections and turns that share the run, the n-th event
\* the page shows is the run's n-th, or the error of a lost stream.
THEOREM PlacesShown == WbSpec => []ShownAtItsPlace
<1>1. WbInv => ShownAtItsPlace
  <2> SUFFICES ASSUME WbInv PROVE ShownAtItsPlace
    OBVIOUS
  <2>1. /\ view.last = Len(view.shown) /\ Len(bus[Run]) \in Nat
        /\ \A i \in 1..Len(view.shown) : InPlace(bus[Run], i, view.shown[i])
    BY ConnTypes DEF WbInv, IInv, PageInv, FramesInPlace, ViewOK
  <2>2. DOMAIN view.shown = 1..Len(view.shown)
    BY DEF WbInv, PageInv, WbTyped, Views
  <2>3. QED
    BY <2>1, <2>2 DEF ShownAtItsPlace, InPlace
<1>2. QED
  BY <1>1, WorkbenchInvariance, PTL

\* The reducer's buffer is empty after every flush: no event waits behind a gap.
THEOREM NothingEverWaits == WbSpec => []NothingWaits
<1>1. WbInv => NothingWaits
  BY DEF WbInv, PageInv, FramesInPlace, ViewOK, NothingWaits
<1>2. QED
  BY <1>1, WorkbenchInvariance, PTL

\* A sent message whose stream returned, was given up or stopped shows an outcome.
THEOREM OutcomesShown == WbSpec => []OutcomeShown
<1>1. WbInv => OutcomeShown
  BY DEF WbInv, PageInv, OutcomeComes, OutcomeShown
<1>2. QED
  BY <1>1, WorkbenchInvariance, PTL

OutcomeStaysShown ==
  page.mode = "sent" /\ page'.mode = "sent" /\ view.status \in TerminalViews
    => view'.status \in TerminalViews

\* Every step that replaces the view of a sent message keeps its outcome.
LEMMA OutcomeStep == WbInv /\ [WbNext]_wbVars => OutcomeStaysShown
<1> SUFFICES ASSUME WbInv, [WbNext]_wbVars,
                    page.mode = "sent", page'.mode = "sent", view.status \in TerminalViews
             PROVE  view'.status \in TerminalViews
  BY DEF OutcomeStaysShown
<1>1. /\ Flushed \in Views /\ Flushed.status \in TerminalViews
      /\ Reconnecting(view).status \in TerminalViews
  BY FlushedEffect, ReconnectingEffect DEF WbInv, PageInv, FramesInPlace
<1>2. view \in Views /\ "error" \in TerminalViews /\ "cancelled" \in TerminalViews
  BY DEF WbInv, PageInv, WbTyped, TerminalViews
<1>3. [Flushed EXCEPT !.status = "error"].status = "error"
  BY <1>1 DEF Views
<1>4. CASE view' = view
  BY <1>4
<1>5. CASE Accepted
  <2>1. view.status = "queued"
    BY <1>5 DEF Accepted, WbInv, PageInv, InSequence
  <2>2. QED
    BY <2>1 DEF TerminalViews
<1>6. CASE Connect
  BY <1>1, <1>6 DEF Connect
<1>7. ASSUME Caught
      PROVE  view'.status \in TerminalViews
  BY <1>1, <1>2, <1>3, <1>7 DEF Caught
<1>8. CASE Done
  BY <1>1, <1>7, <1>8 DEF Done
<1>9. CASE Flush
  BY <1>1, <1>9 DEF Flush
<1>10. CASE Break
  BY <1>7, <1>10 DEF Break
<1>11. CASE StopRun
  BY <1>2, <1>11 DEF StopRun, Views
<1>12. CASE ReloadPage
  BY <1>12 DEF ReloadPage
<1>13. CASE RuntimeStep \/ RuntimeRestart \/ Forward \/ EndStream \/ Deliver \/ Release
            \/ StreamFails
  BY <1>4, <1>13 DEF RuntimeStep, RuntimeRestart, Forward, EndStream, Deliver, Release,
     StreamFails, pageVars
<1>14. QED
  BY <1>4, <1>5, <1>6, <1>8, <1>9, <1>10, <1>11, <1>12, <1>13 DEF WbNext, wbVars, pageVars

\* However the connection breaks and is taken up again, and whatever turns share the
\* run, a sent message that shows an outcome keeps showing one.
THEOREM OutcomesKept == WbSpec => OutcomeKept
  BY WorkbenchInvariance, OutcomeStep, PTL DEF WbSpec, OutcomeKept, OutcomeStaysShown

-----------------------------------------------------------------------------
(***************************************************************************)
(* The page implements RunShown.                                           *)
(***************************************************************************)
\* A flush adds to what is shown.
LEMMA FlushedExtends ==
  ASSUME WbTyped, FramesInPlace, InSequence
  PROVE  Reading!Extends(view.shown, Flushed.shown)
<1>1. /\ view \in Views /\ queue \in Seq(FrameSet) /\ view.pending = {}
      /\ view.last = Len(view.shown) /\ Len(queue) \in Nat /\ view.last \in Nat
  BY LenProperties DEF WbTyped, FramesInPlace, ViewOK, Views
<1>2. CASE ~active
  BY <1>1, <1>2 DEF Flushed, Reading!Extends
<1>3. CASE active
  <2>1. Flushed = Reduced(view, queue) /\ Continues(view.last, queue)
    BY <1>3 DEF Flushed, InSequence
  <2>2. Reaches(view, queue, Len(queue), Flushed)
    BY <1>1, <2>1, ReducedReaches
  <2>3. QED
    BY <1>1, <2>2 DEF Reaches, Reading!Extends
<1>4. QED
  BY <1>2, <1>3

\* What is added and stands at its place is shown.
LEMMA Showing ==
  ASSUME NEW w \in Views, ViewOK(bus[Run], w), Reading!Extends(view.shown, w.shown),
         view \in Views, view'.shown = w.shown, bus' = bus, page'.mode = page.mode
  PROVE  Reading!Show
<1>1. Len(view.shown) \in Nat /\ Len(w.shown) \in Nat
  BY LenProperties DEF Views
<1>2. \A i \in Len(view.shown) + 1..Len(w.shown) : InPlace(bus[Run], i, w.shown[i])
  BY <1>1 DEF ViewOK
<1>3. ASSUME NEW i \in Len(view.shown) + 1..Len(w.shown)
      PROVE  \/ w.shown[i] = "error"
             \/ i <= Len(bus[Run]) /\ w.shown[i] = Projected(bus[Run][i])
  BY <1>1, <1>2 DEF InPlace
<1>4. QED
  BY <1>3 DEF Reading!Show

\* A step of the page or of the runtime is one of RunShown, or shows nothing new.
LEMMA ReadingStep ==
  ASSUME WbInv, [WbNext]_wbVars
  PROVE  [Reading!Next]_(Reading!vars)
<1>1. /\ Typed /\ WbTyped /\ FramesInPlace /\ InSequence
      /\ view \in Views /\ ViewOK(bus[Run], view) /\ page \in Pages
      /\ Len(view.shown) \in Nat
  BY LenProperties DEF WbInv, IInv, PageInv, FramesInPlace, WbTyped, Views
<1>2. /\ Flushed \in Views /\ ViewOK(bus[Run], Flushed)
      /\ [Flushed EXCEPT !.status = "error"].shown = Flushed.shown
  BY <1>1, FlushedEffect DEF Views
<1>3. Reconnecting(view).shown = view.shown
  BY <1>1 DEF Reconnecting, Views
<1>4. ASSUME bus' = bus, page'.mode = page.mode, view'.shown = Flushed.shown
      PROVE  Reading!Show
  BY <1>1, <1>2, <1>4, FlushedExtends, Showing
<1>5. ASSUME bus' = bus, page'.mode = page.mode, view'.shown = view.shown
      PROVE  UNCHANGED Reading!vars
  BY <1>5 DEF Reading!vars
<1>6. ASSUME Caught, bus' = bus
      PROVE  [Reading!Next]_(Reading!vars)
  <2>1. page'.mode = page.mode
    BY <1>1, <1>6 DEF Caught, Pages
  <2>2. view'.shown \in {view.shown, Flushed.shown}
    BY <1>2, <1>3, <1>6 DEF Caught
  <2>3. QED
    BY <1>4, <1>5, <1>6, <2>1, <2>2 DEF Reading!Next
<1>7. CASE RuntimeStep \/ RuntimeRestart
  <2>1. view' = view /\ page' = page /\ (TurnNext \/ Restart)
    BY <1>7 DEF RuntimeStep, RuntimeRestart, pageVars
  <2>2. Grows(bus[Run], bus'[Run])
    BY <1>1, <2>1, BusGrows, ConnTypes
  <2>3. Len(bus'[Run]) >= Len(bus[Run])
    <3>1. Len(bus[Run]) \in Nat /\ IInv'
      BY <1>1, ConnTypes, WbInvStep DEF WbInv
    <3>2. Len(bus'[Run]) \in Nat
      <4>1. Run \in Runs /\ bus'[Run] \in Seq(EventTypes)
        BY <1>1, <3>1, ConnTypes DEF IInv, Typed
      <4>2. QED
        BY <4>1, LenProperties
    <3>3. QED
      BY <2>2, <3>1, <3>2 DEF Grows
  <2>4. Reading!GoOn
    BY <2>1, <2>2, <2>3 DEF Grows, Reading!GoOn, Reading!Extends
  <2>5. QED
    BY <2>4 DEF Reading!Next
<1>8. CASE Accepted
  <2>1. view.shown = <<>>
    <3>1. view.last = 0 /\ view.last = Len(view.shown) /\ view.shown \in Seq(FrameTypes)
      BY <1>1, <1>8 DEF Accepted, InSequence, ViewOK, Views
    <3>2. QED
      BY <3>1, EmptySeq
  <2>2. bus' = bus /\ page'.mode = page.mode /\ view'.shown = <<>>
    BY <1>1, <1>8 DEF Accepted, vars, Pages, NewView
  <2>3. QED
    BY <1>5, <2>1, <2>2
<1>9. CASE Connect
  <2>1. bus' = bus
    BY <1>9 DEF Connect, OpenStream
  <2>2. page'.mode = page.mode /\ view'.shown = view.shown
    BY <1>1, <1>3, <1>9 DEF Connect, Pages
  <2>3. QED
    BY <1>5, <2>1, <2>2
<1>10. CASE Forward \/ EndStream \/ Deliver \/ Release \/ StreamFails
  <2>1. bus' = bus /\ view' = view
    BY <1>10 DEF Forward, EndStream, Deliver, Release, StreamFails, SendEvents, CheckStatus,
       pageVars, vars
  <2>2. page'.mode = page.mode
    BY <1>1, <1>10 DEF Forward, EndStream, Deliver, Release, StreamFails, pageVars, Pages
  <2>3. QED
    BY <1>5, <2>1, <2>2
<1>11. CASE Done
  <2>1. bus' = bus
    BY <1>11 DEF Done, vars
  <2>2. CASE page.terminal
    <3>1. page'.mode = page.mode /\ view' = Flushed
      BY <1>1, <1>11, <2>2 DEF Done, Pages
    <3>2. QED
      BY <1>4, <2>1, <3>1 DEF Reading!Next
  <2>3. CASE ~page.terminal
    BY <1>6, <1>11, <2>1, <2>3 DEF Done
  <2>4. QED
    BY <2>2, <2>3
<1>12. CASE Flush
  <2>1. bus' = bus /\ page' = page /\ view' = Flushed
    BY <1>12 DEF Flush, vars
  <2>2. QED
    BY <1>4, <2>1 DEF Reading!Next
<1>13. CASE Break
  BY <1>6, <1>13 DEF Break
<1>14. CASE StopRun
  <2>1. bus' = bus /\ page'.mode = page.mode /\ view'.shown = view.shown
    BY <1>1, <1>14 DEF StopRun, Pages, Views
  <2>2. QED
    BY <1>5, <2>1
<1>15. CASE ReloadPage
  <2>1. /\ bus' = bus /\ page.mode = "sent" /\ page'.mode = "resumed"
        /\ view'.shown = <<>>
    BY <1>15 DEF ReloadPage, LoadedRun, NewView
  <2>2. Reading!Load
    BY <2>1 DEF Reading!Load
  <2>3. QED
    BY <2>2 DEF Reading!Next
<1>16. CASE UNCHANGED wbVars
  <2>1. bus' = bus /\ page' = page /\ view' = view
    BY <1>16 DEF wbVars, vars, pageVars
  <2>2. QED
    BY <1>5, <2>1
<1>17. QED
  BY <1>7, <1>8, <1>9, <1>10, <1>11, <1>12, <1>13, <1>14, <1>15, <1>16 DEF WbNext

\* For any number of events, turns, breaks and retries the page shows more and more of
\* the run, each event at its place, and takes back nothing until it is loaded again.
THEOREM ReadingImplemented == WbSpec => ImplementsReading
<1>1. WbInit => Reading!Init
  <2>1. SUFFICES ASSUME WbInit PROVE Reading!Init
    OBVIOUS
  <2>2. bus[Run] = <<>>
    BY <2>1, WorkbenchAssumption DEF WbInit, Init, Runs
  <2>3. view.shown = <<>> /\ page.mode = "sent"
    BY <2>1 DEF WbInit, NewView
  <2>4. QED
    BY <2>2, <2>3 DEF Reading!Init
<1>2. WbInv /\ [WbNext]_wbVars => [Reading!Next]_(Reading!vars)
  BY ReadingStep
<1>3. QED
  BY <1>1, <1>2, WorkbenchInvariance, PTL DEF WbSpec, ImplementsReading, Reading!Spec

-----------------------------------------------------------------------------
(***************************************************************************)
(* The runtime under the page.                                             *)
(***************************************************************************)
\* The BFF and the page open, poll and drop a stream; whatever else changes in the
\* runtime is a step of its own.
LEMMA RuntimeAlone ==
  ASSUME [WbNext]_wbVars
  PROVE  Next \/ UNCHANGED <<row, bus, turn, loop, calls, restarts, cutOff>>
<1>1. CASE RuntimeStep \/ RuntimeRestart
  BY <1>1 DEF RuntimeStep, RuntimeRestart, Next
<1>2. CASE Accepted \/ Deliver \/ Done \/ Flush \/ Release
  BY <1>2 DEF Accepted, Deliver, Done, Flush, Release, vars
<1>3. CASE Connect \/ Forward \/ EndStream
  BY <1>3 DEF Connect, Forward, EndStream, OpenStream, SendEvents, CheckStatus
<1>4. CASE Break \/ StreamFails \/ StopRun \/ ReloadPage
  BY <1>4 DEF Break, StreamFails, StopRun, ReloadPage
<1>5. CASE UNCHANGED wbVars
  BY <1>5 DEF wbVars, vars
<1>6. QED
  BY <1>1, <1>2, <1>3, <1>4, <1>5 DEF WbNext

\* What holds of the Agent Runtime holds of it under any page: a page that stops, reloads
\* or reconnects starts no run twice, leaves no outcome unannounced and takes none back.
THEOREM RuntimeUnderPage ==
  WbSpec => [](StartedOnce /\ OutcomeAnnounced) /\ OutcomeStays
<1>1. WbInv => StartedOnce /\ OutcomeAnnounced
  BY BackedIsAnnounced DEF WbInv, IInv
<1>2. WbInv /\ [WbNext]_wbVars =>
        [\A k \in Runs :
           (/\ row[k] \in TerminalStatuses
            /\ \A t \in Turns : turn[t].run = k => ~HoldsOldCopy(t))
           => row'[k] \in TerminalStatuses]_vars
  <2>1. SUFFICES ASSUME WbInv, [WbNext]_wbVars, NEW k \in Runs,
                        row[k] \in TerminalStatuses,
                        \A t \in Turns : turn[t].run = k => ~HoldsOldCopy(t)
                 PROVE  row'[k] \in TerminalStatuses
    OBVIOUS
  <2>2. CASE Next
    BY <2>1, <2>2, OutcomeStaysStep DEF WbInv, IInv
  <2>3. CASE row' = row
    BY <2>1, <2>3
  <2>4. QED
    BY <2>1, <2>2, <2>3, RuntimeAlone
<1>3. QED
  BY <1>1, <1>2, WorkbenchInvariance, PTL DEF WbSpec, OutcomeStays
=============================================================================
