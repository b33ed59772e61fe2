--------------------------- MODULE EventBusProofs ---------------------------
(***************************************************************************)
(* As long as the two lists are together, the Redis stream is a beginning  *)
(* of what was published, the publications under way are the rest of it,   *)
(* and the mirror, now or as a reader found it, is a stretch of it that    *)
(* starts inside the stream.  Of that rest only the last event can equal   *)
(* an earlier one, so that the merge continues the stream as it was        *)
(* published.  A reader's position then means the same in every history    *)
(* but an emptied mirror.                                                  *)
(***************************************************************************)
EXTENDS EventBus, IterationTheorems, FunctionTheorems, FiniteSetTheorems, TLAPS

TypeInv ==
  /\ published \in Seq(Values) /\ primary \in Seq(Values) /\ fallback \in Seq(Values)
  /\ pub \in [Publishers -> 0..Len(published)]
  /\ got \in [Readers -> Seq(Values)]
  /\ cursor \in [Readers -> Nat]
  /\ seen \in [Readers -> Seq(Values)]

\* The events published before the mirror was last emptied.
Base == Len(published) - Len(fallback)

\* The mirror is the end of what was published, a copy of it a beginning of the mirror.
Copies ==
  /\ Len(fallback) <= Len(published)
  /\ \A i \in 1..Len(fallback) : fallback[i] = published[Base + i]
  /\ \A r \in Readers : /\ Len(got[r]) <= Len(fallback)
                        /\ \A i \in 1..Len(got[r]) : got[r][i] = fallback[i]

\* What is under way is what Redis lacks, and only its last event may be a repeated one.
Together ==
  /\ Len(primary) <= Len(published) /\ Base <= Len(primary)
  /\ \A i \in 1..Len(primary) : primary[i] = published[i]
  /\ \A i \in (Len(primary) + 1)..Len(published) : \E p \in Publishers : pub[p] = i
  /\ \A i \in (Len(primary) + 1)..(Len(published) - 1) : ~Repeated(i)

Received ==
  \A r \in Readers \ misled : /\ Len(seen[r]) = cursor[r] /\ cursor[r] <= Len(published)
                              /\ \A i \in 1..cursor[r] : seen[r][i] = published[i]

IInv ==
  /\ TypeInv
  /\ Copies
  /\ ~apart => Together /\ Received

-----------------------------------------------------------------------------
\* The positions that Missing lists.
NewIn(first, second) ==
  {i \in DOMAIN second : /\ second[i] \notin Elements(first)
                         /\ \A j \in 1..(i - 1) : second[j] # second[i]}

\* The positions of the values that `first` holds as well.
Known(first, second) == {i \in DOMAIN second : second[i] \in Elements(first)}

\* A mirror that holds nothing of its own adds nothing to the history.
LEMMA MergedWithKnown ==
  ASSUME NEW first \in Seq(Values), NEW second \in Seq(Values),
         Elements(second) \subseteq Elements(first)
  PROVE  Merged(first, second) = first
<1> DEFINE new == {i \in DOMAIN second : /\ second[i] \notin Elements(first)
                                         /\ \A j \in 1..(i - 1) : second[j] # second[i]}
           At(k) == CHOOSE i \in new : Cardinality({j \in new : j < i}) = k - 1
<1>1. \A i \in DOMAIN second : second[i] \in Elements(first)
  BY DEF Elements
<1>2. new = {}
  BY <1>1
<1>3. Cardinality(new) = 0
  BY <1>2, FS_EmptySet
<1>4. 1..Cardinality(new) = {}
  <2> HIDE DEF new
  <2> QED
    BY <1>3
<1>5. Missing(first, second) = [k \in 1..Cardinality(new) |-> second[At(k)]]
  BY DEF Missing
<1>6. Missing(first, second) = <<>>
  BY <1>4, <1>5
<1> QED
  BY <1>6 DEF Merged

\* The number of smaller members tells the members of a finite set of numbers apart and
\* takes every value below its size.
LEMMA Ranking ==
  ASSUME NEW n \in Nat, NEW T \in SUBSET (1..n)
  PROVE  /\ IsFiniteSet(T) /\ Cardinality(T) \in Nat
         /\ \A i \in T : Cardinality({j \in T : j < i}) + 1 \in 1..Cardinality(T)
         /\ \A i, k \in T : Cardinality({j \in T : j < i}) = Cardinality({j \in T : j < k}) => i = k
         /\ \A k \in 1..Cardinality(T) : \E i \in T : Cardinality({j \in T : j < i}) = k - 1
<1> DEFINE Below(i) == {j \in T : j < i}
           rank == [i \in T |-> Cardinality(Below(i)) + 1]
           size == Cardinality(T)
<1>1. IsFiniteSet(T) /\ size \in Nat
  <2>1. IsFiniteSet(1..n)
    BY FS_Interval
  <2>2. IsFiniteSet(T)
    BY <2>1, FS_Subset
  <2> QED
    BY <2>2, FS_CardinalityType
<1>2. ASSUME NEW i \in T
      PROVE  /\ IsFiniteSet(Below(i)) /\ Cardinality(Below(i)) \in Nat
             /\ Cardinality(Below(i)) < size
  <2>1. Below(i) \in SUBSET T /\ Below(i) # T
    OBVIOUS
  <2> HIDE DEF Below
  <2>2. IsFiniteSet(Below(i)) /\ Cardinality(Below(i)) <= size /\ Cardinality(Below(i)) # size
    BY <1>1, <2>1, FS_Subset
  <2>3. Cardinality(Below(i)) \in Nat
    BY <2>2, FS_CardinalityType
  <2> QED
    BY <1>1, <2>2, <2>3
<1>3. ASSUME NEW i \in T, NEW k \in T, i < k
      PROVE  Cardinality(Below(i)) # Cardinality(Below(k))
  <2>1. Below(i) \in SUBSET Below(k) /\ i \in Below(k) /\ i \notin Below(i)
    <3>1. \A j \in T : j \in Int
      OBVIOUS
    <3>2. \A j \in T : j < i => j < k
      BY <1>3, <3>1
    <3>3. ~(i < i)
      BY <3>1
    <3> QED
      BY <1>3, <3>2, <3>3
  <2> HIDE DEF Below
  <2> QED
    BY <1>2, <2>1, FS_Subset
<1>4. \A i, k \in T : Cardinality(Below(i)) = Cardinality(Below(k)) => i = k
  <2>1. \A i, k \in T : i < k \/ k < i \/ i = k
    OBVIOUS
  <2> HIDE DEF Below
  <2> QED
    BY <1>3, <2>1
<1>5. \A i \in T : Cardinality(Below(i)) + 1 \in 1..size
  <2> HIDE DEF Below, size
  <2> QED
    BY <1>1, <1>2
<1>6. rank \in Injection(T, 1..size)
  <2> HIDE DEF Below, size
  <2>1. rank \in [T -> 1..size]
    BY <1>5
  <2>2. \A i, k \in T : rank[i] = rank[k] => i = k
    <3>1. \A i, k \in T : Cardinality(Below(i)) \in Nat /\ Cardinality(Below(k)) \in Nat
      BY <1>2
    <3> QED
      BY <1>4, <3>1
  <2> HIDE DEF rank
  <2> QED
    BY <2>1, <2>2, Zenon DEF Injection, IsInjective
<1>7. rank \in Surjection(T, 1..size)
  <2>1. IsFiniteSet(1..size) /\ Cardinality(1..size) = size
    <3> HIDE DEF size
    <3>1. 1 \in Int /\ size \in Int /\ (1 > size => size = 0) /\ size - 1 + 1 = size
      BY <1>1
    <3> QED
      BY <3>1, FS_Interval
  <2> HIDE DEF rank
  <2> QED
    BY <1>6, <2>1, FS_Injection
<1>8. \A k \in 1..size : \E i \in T : Cardinality(Below(i)) = k - 1
  <2> HIDE DEF size, Below
  <2>1. \A k \in 1..size : \E i \in T : rank[i] = k
    <3> HIDE DEF rank
    <3> QED
      BY <1>7 DEF Surjection
  <2>2. \A i \in T : rank[i] = Cardinality(Below(i)) + 1 /\ Cardinality(Below(i)) \in Nat
    BY <1>2
  <2> QED
    BY <2>1, <2>2
<1> QED
  BY <1>1, <1>4, <1>5, <1>8

\* Missing lists exactly the values at its positions.
LEMMA MissingLists ==
  ASSUME NEW first \in Seq(Values), NEW second \in Seq(Values)
  PROVE  /\ Missing(first, second) \in Seq(Values)
         /\ Len(Missing(first, second)) = Cardinality(NewIn(first, second))
         /\ Elements(Missing(first, second)) = {second[i] : i \in NewIn(first, second)}
<1> DEFINE new == NewIn(first, second)
           size == Cardinality(new)
           Rank(i) == Cardinality({j \in new : j < i})
           At(k) == CHOOSE i \in new : Rank(i) = k - 1
           listed == Missing(first, second)
<1>1. listed = [k \in 1..size |-> second[At(k)]]
  BY DEF Missing, NewIn
<1>2. new \in SUBSET (1..Len(second)) /\ Len(second) \in Nat
  BY DEF NewIn
<1> HIDE DEF new
<1>3. /\ size \in Nat
      /\ \A i \in new : Rank(i) + 1 \in 1..size
      /\ \A i, k \in new : Rank(i) = Rank(k) => i = k
      /\ \A k \in 1..size : \E i \in new : Rank(i) = k - 1
  BY <1>2, Ranking
<1> HIDE DEF Rank, size
<1>4. \A k \in 1..size : At(k) \in new /\ Rank(At(k)) = k - 1
  BY <1>3
<1>5. \A i \in new : \E k \in 1..size : At(k) = i
  <2> TAKE i \in new
  <2>1. Rank(i) + 1 \in 1..size
    BY <1>3
  <2>2. PICK k \in 1..size : k = Rank(i) + 1
    BY <2>1
  <2>3. Rank(i) = k - 1
    <3>1. Rank(i) \in Nat
      <4>1. IsFiniteSet(new)
        BY <1>2, Ranking
      <4>2. {j \in new : j < i} \in SUBSET new
        OBVIOUS
      <4> QED
        BY <4>1, <4>2, FS_Subset, FS_CardinalityType DEF Rank
    <3> QED
      BY <2>2, <3>1
  <2>4. Rank(At(k)) = Rank(i) /\ At(k) \in new
    BY <1>4, <2>3
  <2> QED
    BY <1>3, <2>4
<1> HIDE DEF At
<1>6. \A k \in 1..size : second[At(k)] \in Values
  <2>1. \A i \in 1..Len(second) : second[i] \in Values
    OBVIOUS
  <2>2. \A k \in 1..size : At(k) \in 1..Len(second)
    BY <1>2, <1>4
  <2> QED
    BY <2>1, <2>2
<1>7. listed \in Seq(Values) /\ Len(listed) = size /\ DOMAIN listed = 1..size
  BY <1>1, <1>3, <1>6
<1>8. Elements(listed) = {second[i] : i \in new}
  <2>1. Elements(listed) = {second[At(k)] : k \in 1..size}
    BY <1>1 DEF Elements
  <2> QED
    BY <1>4, <1>5, <2>1
<1> QED
  BY <1>7, <1>8 DEF new, size

\* A value only the mirror holds is listed at its first position.
LEMMA FirstListed ==
  ASSUME NEW first \in Seq(Values), NEW second \in Seq(Values),
         NEW v \in Elements(second), v \notin Elements(first)
  PROVE  \E i \in NewIn(first, second) : second[i] = v
<1> DEFINE T == {i \in DOMAIN second : second[i] = v}
<1>1. T \subseteq Nat /\ T # {}
  BY DEF Elements
<1>2. PICK i \in T : \A j \in T : i <= j
  <2> HIDE DEF T
  <2> QED
    BY <1>1, LeastNatural
<1>3. \A j \in 1..(i - 1) : j \in DOMAIN second /\ ~(i <= j)
  OBVIOUS
<1>4. \A j \in 1..(i - 1) : second[j] # second[i]
  BY <1>2, <1>3
<1> QED
  BY <1>4 DEF NewIn

\* The merged history holds the values of both lists.
LEMMA MergedHolds ==
  ASSUME NEW first \in Seq(Values), NEW second \in Seq(Values)
  PROVE  /\ Merged(first, second) \in Seq(Values)
         /\ Len(Merged(first, second)) = Len(first) + Cardinality(NewIn(first, second))
         /\ Elements(Merged(first, second)) = Elements(first) \cup Elements(second)
<1> DEFINE listed == Missing(first, second)
           merged == first \o listed
<1>1. /\ listed \in Seq(Values) /\ Len(listed) = Cardinality(NewIn(first, second))
      /\ Elements(listed) = {second[i] : i \in NewIn(first, second)}
  BY MissingLists
<1> HIDE DEF listed
<1>2. /\ merged \in Seq(Values) /\ Len(merged) = Len(first) + Len(listed)
      /\ DOMAIN merged = 1..(Len(first) + Len(listed))
      /\ \A i \in 1..Len(first) : merged[i] = first[i]
      /\ \A i \in 1..Len(listed) : merged[Len(first) + i] = listed[i]
  BY <1>1
<1>3. Len(first) \in Nat /\ Len(listed) \in Nat
      /\ DOMAIN first = 1..Len(first) /\ DOMAIN listed = 1..Len(listed)
  BY <1>1
<1> HIDE DEF merged
<1>4. Elements(merged) = Elements(first) \cup Elements(listed)
  <2>1. ASSUME NEW i \in DOMAIN merged
        PROVE  merged[i] \in Elements(first) \cup Elements(listed)
    <3>1. CASE i \in 1..Len(first)
      BY <1>2, <1>3, <3>1 DEF Elements
    <3>2. CASE i \notin 1..Len(first)
      <4>1. i - Len(first) \in 1..Len(listed) /\ i = Len(first) + (i - Len(first))
        BY <1>2, <1>3, <3>2
      <4>2. PICK k \in 1..Len(listed) : i = Len(first) + k
        BY <4>1
      <4> QED
        BY <1>2, <1>3, <4>2 DEF Elements
    <3> QED
      BY <3>1, <3>2
  <2>2. ASSUME NEW i \in DOMAIN first
        PROVE  first[i] \in Elements(merged)
    <3>1. i \in DOMAIN merged
      BY <1>2, <1>3
    <3> QED
      BY <1>2, <1>3, <3>1 DEF Elements
  <2>3. ASSUME NEW i \in DOMAIN listed
        PROVE  listed[i] \in Elements(merged)
    <3>1. Len(first) + i \in DOMAIN merged
      BY <1>2, <1>3
    <3>2. merged[Len(first) + i] = listed[i]
      BY <1>2, <1>3
    <3> QED
      BY <3>1, <3>2 DEF Elements
  <2> QED
    BY <2>1, <2>2, <2>3 DEF Elements
<1>5. Elements(listed) \subseteq Elements(second)
  BY <1>1 DEF NewIn, Elements
<1>6. \A v \in Elements(second) : v \in Elements(first) \/ v \in Elements(listed)
  BY <1>1, FirstListed
<1>7. Merged(first, second) = merged
  BY DEF Merged, merged, listed
<1> QED
  BY <1>1, <1>2, <1>4, <1>5, <1>6, <1>7

\* What is known and what is new stand at different positions.
LEMMA KnownOrNew ==
  ASSUME NEW first \in Seq(Values), NEW second \in Seq(Values)
  PROVE  /\ IsFiniteSet(Known(first, second)) /\ IsFiniteSet(NewIn(first, second))
         /\ Cardinality(Known(first, second)) + Cardinality(NewIn(first, second)) <= Len(second)
<1> DEFINE known == Known(first, second)
           new == NewIn(first, second)
<1>1. known \cap new = {} /\ known \in SUBSET (1..Len(second)) /\ new \in SUBSET (1..Len(second))
  BY DEF Known, NewIn
<1>2. Len(second) \in Nat /\ IsFiniteSet(1..Len(second)) /\ Cardinality(1..Len(second)) = Len(second)
  <2>1. Len(second) \in Nat
    OBVIOUS
  <2>2. 1 \in Int /\ Len(second) \in Int /\ (1 > Len(second) => Len(second) = 0)
        /\ Len(second) - 1 + 1 = Len(second)
    BY <2>1
  <2> QED
    BY <2>1, <2>2, FS_Interval
<1> HIDE DEF known, new
<1>3. IsFiniteSet(known) /\ IsFiniteSet(new)
  BY <1>1, <1>2, FS_Subset
<1>4. /\ IsFiniteSet(known \cup new)
      /\ Cardinality(known \cup new) = Cardinality(known) + Cardinality(new) - Cardinality({})
  BY <1>1, <1>3, FS_Union
<1>5. Cardinality(known \cup new) <= Len(second)
  <2>1. known \cup new \in SUBSET (1..Len(second))
    BY <1>1
  <2> QED
    BY <1>2, <2>1, FS_Subset
<1>6. Cardinality(known) \in Nat /\ Cardinality(new) \in Nat /\ Cardinality({}) = 0
  BY <1>3, FS_CardinalityType, FS_EmptySet
<1> QED
  BY <1>3, <1>4, <1>5, <1>6 DEF known, new

\* When the new positions are consecutive, so is what Missing lists.
LEMMA MissingStretch ==
  ASSUME NEW first \in Seq(Values), NEW second \in Seq(Values),
         NEW a \in Nat, NEW b \in Nat, a <= b, b <= Len(second),
         NewIn(first, second) = (a + 1)..b
  PROVE  /\ Missing(first, second) \in Seq(Values)
         /\ Len(Missing(first, second)) = b - a
         /\ \A k \in 1..(b - a) : Missing(first, second)[k] = second[a + k]
<1> DEFINE new == NewIn(first, second)
           At(k) == CHOOSE i \in new : Cardinality({j \in new : j < i}) = k - 1
<1>1. Cardinality(new) = b - a
  <2>1. a + 1 \in Int /\ b \in Int /\ (a + 1 > b => b - a = 0) /\ b - (a + 1) + 1 = b - a
    OBVIOUS
  <2> QED
    BY <2>1, FS_Interval
<1>2. ASSUME NEW i \in new PROVE Cardinality({j \in new : j < i}) = i - 1 - a
  <2>1. i \in (a + 1)..b
    OBVIOUS
  <2>2. {j \in new : j < i} = (a + 1)..(i - 1)
    BY <2>1
  <2>3. a + 1 \in Int /\ i - 1 \in Int /\ (a + 1 > i - 1 => i - 1 - a = 0)
        /\ (i - 1) - (a + 1) + 1 = i - 1 - a
    BY <2>1
  <2> QED
    BY <2>2, <2>3, FS_Interval
<1>3. ASSUME NEW k \in 1..(b - a) PROVE At(k) = a + k
  <2>1. a + k \in new /\ (a + k) - 1 - a = k - 1
    OBVIOUS
  <2>2. \A i \in new : i - 1 - a = k - 1 => i = a + k
    OBVIOUS
  <2> HIDE DEF new
  <2> QED
    BY <1>2, <2>1, <2>2
<1>4. Missing(first, second) = [k \in 1..(b - a) |-> second[At(k)]]
  <2>1. Missing(first, second) = [k \in 1..Cardinality(new) |-> second[At(k)]]
    BY DEF Missing, NewIn
  <2> QED
    BY <1>1, <2>1
<1> HIDE DEF At
<1>5. \A k \in 1..(b - a) : second[At(k)] = second[a + k] /\ second[a + k] \in Values
  BY <1>3
<1> QED
  BY <1>4, <1>5

\* What a reader is given that already has the beginning of it is the whole of it.
LEMMA Extended ==
  ASSUME NEW s \in Seq(Values), NEW t \in Seq(Values), Len(t) <= Len(s),
         \A i \in 1..Len(t) : t[i] = s[i]
  PROVE  t \o SubSeq(s, Len(t) + 1, Len(s)) = s
<1> DEFINE n == Len(t)
           back == SubSeq(s, n + 1, Len(s))
           whole == t \o back
<1>1. n \in Nat /\ Len(s) \in Nat /\ n <= Len(s)
  OBVIOUS
<1>2. /\ back \in Seq(Values) /\ Len(back) = Len(s) - n
      /\ \A i \in 1..(Len(s) - n) : back[i] = s[n + i]
  OBVIOUS
<1> HIDE DEF back
<1>3. whole \in Seq(Values) /\ Len(whole) = n + Len(back)
  BY <1>2
<1>4. Len(whole) = Len(s)
  <2> HIDE DEF whole, n
  <2> QED
    BY <1>1, <1>2, <1>3
<1>5. ASSUME NEW i \in 1..Len(s) PROVE whole[i] = s[i]
  <2>1. CASE i <= n
    <3>1. whole[i] = t[i]
      BY <1>2, <2>1
    <3> QED
      BY <2>1, <3>1
  <2>2. CASE i > n
    <3>1. whole[i] = back[i - n]
      BY <1>2, <2>2
    <3>2. i - n \in 1..(Len(s) - n) /\ n + (i - n) = i
      BY <1>1, <2>2
    <3> QED
      BY <1>2, <3>1, <3>2
  <2>3. i <= n \/ i > n
    BY <1>1
  <2> HIDE DEF whole
  <2> QED
    BY <2>1, <2>2, <2>3
<1> HIDE DEF whole, n
<1>6. whole = s
  BY <1>3, <1>4, <1>5
<1> QED
  BY <1>6 DEF whole, back, n

\* As long as the lists are together the merge is a beginning of what was published.
LEMMA MergedIsPrefix ==
  ASSUME IInv, ~apart, NEW r \in Readers
  PROVE  /\ Merged(primary, got[r]) \in Seq(Values)
         /\ Len(Merged(primary, got[r])) <= Len(published)
         /\ \A i \in 1..Len(Merged(primary, got[r])) : Merged(primary, got[r])[i] = published[i]
<1> DEFINE n == Len(primary)
           m == Len(got[r])
           base == Base
           total == Len(published)
           mirror == got[r]
           new == NewIn(primary, mirror)
<1>1. /\ primary \in Seq(Values) /\ mirror \in Seq(Values) /\ published \in Seq(Values)
      /\ fallback \in Seq(Values)
  BY DEF IInv, TypeInv
<1>2. /\ n \in Nat /\ m \in Nat /\ total \in Nat /\ base \in Nat
      /\ base + m <= total /\ base <= n /\ n <= total
      /\ DOMAIN primary = 1..n /\ DOMAIN mirror = 1..m /\ DOMAIN published = 1..total
  BY <1>1 DEF IInv, Copies, Together, Base
<1>3. \A i \in 1..n : primary[i] = published[i]
  BY DEF IInv, Together
<1>4. \A i \in 1..m : mirror[i] = published[base + i]
  <2>1. \A i \in 1..Len(got[r]) : i \in 1..Len(fallback) /\ got[r][i] = fallback[i]
    BY <1>1 DEF IInv, Copies
  <2>2. \A i \in 1..Len(fallback) : fallback[i] = published[Base + i]
    BY DEF IInv, Copies
  <2> QED
    BY <2>1, <2>2
<1>5. \A i \in (n + 1)..(total - 1) : \A j \in 1..(i - 1) : published[j] # published[i]
  BY DEF IInv, Together, Repeated
<1> HIDE DEF n, m, base, total, mirror
<1>6. \A i \in 1..m : base + i <= n => i \notin new
  <2> SUFFICES ASSUME NEW i \in 1..m, base + i <= n PROVE mirror[i] \in Elements(primary)
    BY DEF NewIn
  <2>1. base + i \in 1..n
    BY <1>2
  <2> QED
    BY <1>2, <1>3, <1>4, <2>1 DEF Elements
<1>7. \A i \in 1..m : base + i > n /\ base + i < total => i \in new
  <2> SUFFICES ASSUME NEW i \in 1..m, base + i > n, base + i < total PROVE i \in new
    OBVIOUS
  <2>1. base + i \in (n + 1)..(total - 1)
    BY <1>2
  <2>2. \A j \in 1..(base + i - 1) : published[j] # mirror[i]
    <3>1. PICK c \in (n + 1)..(total - 1) : c = base + i
      BY <2>1
    <3>2. \A j \in 1..(c - 1) : published[j] # published[c]
      BY <1>5
    <3>3. mirror[i] = published[c]
      BY <1>4, <3>1
    <3>4. base + i - 1 = c - 1
      BY <1>2, <3>1
    <3>5. \A j \in 1..(c - 1) : published[j] # mirror[i]
      BY <3>2, <3>3
    <3> QED
      BY <3>4, <3>5
  <2>3. mirror[i] \notin Elements(primary)
    <3>1. \A j \in 1..n : j \in 1..(base + i - 1)
      BY <1>2
    <3> QED
      BY <1>2, <1>3, <2>2, <3>1 DEF Elements
  <2>4. ASSUME NEW j \in 1..(i - 1) PROVE mirror[j] # mirror[i]
    <3>1. j \in 1..m /\ base + j \in 1..(base + i - 1)
      BY <1>2
    <3> QED
      BY <1>4, <2>2, <3>1
  <2> QED
    BY <1>2, <2>3, <2>4 DEF NewIn
<1>8. CASE base + m <= n
  <2>1. Elements(mirror) \subseteq Elements(primary)
    <3> SUFFICES ASSUME NEW i \in 1..m PROVE mirror[i] \in Elements(primary)
      BY <1>2 DEF Elements
    <3>1. base + i \in 1..n
      BY <1>2, <1>8
    <3> QED
      BY <1>2, <1>3, <1>4, <3>1 DEF Elements
  <2>2. Merged(primary, mirror) = primary
    BY <1>1, <2>1, MergedWithKnown
  <2> QED
    BY <1>1, <1>2, <1>3, <2>2 DEF mirror, n, total
<1>9. CASE base + m > n
  <2> DEFINE a == n - base
             b == IF m \in new THEN m ELSE m - 1
  <2>1. a \in Nat /\ b \in Nat /\ a <= b /\ b <= m /\ n - a = base
    BY <1>2, <1>9
  <2>2. new = (a + 1)..b
    <3>1. new \subseteq 1..m
      BY <1>2 DEF NewIn
    <3>2. ASSUME NEW i \in 1..m PROVE i \in new <=> i \in (a + 1)..b
      <4>1. CASE i < m
        <5>1. base + i < total
          BY <1>2, <4>1
        <5> HIDE DEF new
        <5> QED
          BY <1>2, <1>6, <1>7, <2>1, <4>1, <5>1
      <4>2. CASE i = m
        <5> HIDE DEF new
        <5> QED
          BY <1>2, <1>9, <2>1, <4>2
      <4> QED
        BY <1>2, <4>1, <4>2
    <3>3. \A i \in (a + 1)..b : i \in 1..m
      BY <1>2, <2>1
    <3> HIDE DEF new, a, b
    <3> QED
      BY <3>1, <3>2, <3>3
  <2> HIDE DEF a, b, new
  <2> DEFINE rest == Missing(primary, mirror)
             merged == primary \o rest
  <2>3. rest \in Seq(Values) /\ Len(rest) = b - a /\ \A k \in 1..(b - a) : rest[k] = mirror[a + k]
    <3>1. b <= Len(mirror)
      BY <2>1 DEF m, mirror
    <3>2. NewIn(primary, mirror) = (a + 1)..b
      BY <2>2 DEF new
    <3> QED
      BY <1>1, <2>1, <3>1, <3>2, MissingStretch DEF rest
  <2> HIDE DEF rest
  <2>4. /\ merged \in Seq(Values) /\ Len(merged) = n + Len(rest)
        /\ \A i \in 1..n : merged[i] = primary[i]
        /\ \A k \in 1..Len(rest) : merged[n + k] = rest[k]
    <3>1. Len(primary) = n /\ primary \in Seq(Values) /\ rest \in Seq(Values)
      BY <1>1, <2>3 DEF n
    <3>2. merged \in Seq(Values) /\ Len(merged) = Len(primary) + Len(rest)
      BY <3>1
    <3>3. \A i \in 1..Len(primary) : merged[i] = primary[i]
      BY <3>1
    <3>4. \A k \in 1..Len(rest) : merged[Len(primary) + k] = rest[k]
      BY <3>1
    <3> QED
      BY <3>1, <3>2, <3>3, <3>4
  <2> HIDE DEF merged
  <2>5. Len(merged) = base + b /\ base + b <= total
    BY <1>2, <2>1, <2>3, <2>4
  <2>6. ASSUME NEW i \in 1..Len(merged) PROVE merged[i] = published[i]
    <3>1. CASE i <= n
      BY <1>2, <1>3, <2>4, <3>1
    <3>2. CASE i > n
      <4>1. PICK k \in 1..(b - a) : i = n + k
        <5>1. i - n \in 1..(b - a) /\ i = n + (i - n)
          BY <1>2, <2>1, <2>5, <3>2
        <5> QED
          BY <5>1
      <4>2. merged[i] = mirror[a + k]
        BY <2>3, <2>4, <4>1
      <4>3. a + k \in 1..m /\ base + (a + k) = i
        BY <1>2, <2>1, <4>1
      <4> QED
        BY <1>4, <4>2, <4>3
    <3> QED
      BY <1>2, <2>5, <3>1, <3>2
  <2>7. Merged(primary, mirror) = merged
    BY DEF Merged, merged, rest
  <2> QED
    BY <2>4, <2>5, <2>6, <2>7 DEF mirror, total
<1> QED
  BY <1>2, <1>8, <1>9

\* So is any history a reader is given, unless it is an emptied mirror.
LEMMA HistoryIsPrefix ==
  ASSUME IInv, ~apart, NEW r \in Readers, NEW history \in History(got[r])
  PROVE  /\ history \in Seq(Values)
         /\ \/ /\ Len(history) <= Len(published)
               /\ \A i \in 1..Len(history) : history[i] = published[i]
            \/ history = got[r] /\ Emptied
<1>1. CASE history = Merged(primary, got[r])
  BY <1>1, MergedIsPrefix
<1>2. CASE history = got[r] /\ ~Emptied
  <2>1. /\ got[r] \in Seq(Values) /\ fallback \in Seq(Values) /\ published \in Seq(Values)
    BY DEF IInv, TypeInv
  <2>2. Base = 0 /\ Len(fallback) = Len(published)
    BY <1>2, <2>1 DEF IInv, Copies, Emptied, Base
  <2>3. ASSUME NEW i \in 1..Len(got[r]) PROVE got[r][i] = published[i]
    <3>1. i \in 1..Len(fallback) /\ got[r][i] = fallback[i]
      BY <2>1 DEF IInv, Copies
    <3>2. fallback[i] = published[Base + i] /\ Base + i = i
      BY <2>2, <3>1 DEF IInv, Copies
    <3> QED
      BY <3>1, <3>2
  <2>4. Len(got[r]) <= Len(fallback)
    BY DEF IInv, Copies
  <2> QED
    BY <1>2, <2>1, <2>2, <2>3, <2>4
<1>3. CASE history = got[r] /\ Emptied
  BY <1>3 DEF IInv, TypeInv
<1> QED
  BY <1>1, <1>2, <1>3 DEF History

-----------------------------------------------------------------------------
\* Nothing was published and nothing received.
LEMMA InitIInv == Init => IInv
<1> SUFFICES ASSUME Init PROVE IInv
  OBVIOUS
<1>1. TypeInv
  BY DEF Init, TypeInv
<1>2. Copies
  BY DEF Init, Copies, Base
<1>3. Together
  BY DEF Init, Together, Base
<1>4. Received
  BY DEF Init, Received
<1> QED
  BY <1>1, <1>2, <1>3, <1>4 DEF IInv

\* What Append does to each position.
LEMMA Appended ==
  ASSUME NEW s \in Seq(Values), NEW v \in Values
  PROVE  /\ Append(s, v) \in Seq(Values) /\ Len(Append(s, v)) = Len(s) + 1
         /\ Append(s, v)[Len(s) + 1] = v
         /\ \A i \in 1..Len(s) : Append(s, v)[i] = s[i]
         /\ Elements(Append(s, v)) = Elements(s) \cup {v}
<1> DEFINE n == Len(s)
           more == Append(s, v)
<1>1. /\ n \in Nat /\ DOMAIN s = 1..n /\ DOMAIN more = 1..(n + 1)
      /\ more \in Seq(Values) /\ Len(more) = n + 1
      /\ more[n + 1] = v /\ \A i \in 1..n : more[i] = s[i]
  OBVIOUS
<1> HIDE DEF n, more
<1>2. 1..(n + 1) = 1..n \cup {n + 1}
  BY <1>1
<1>3. Elements(more) = Elements(s) \cup {v}
  BY <1>1, <1>2 DEF Elements
<1> QED
  BY <1>1, <1>3 DEF n, more

\* The mirror and the list of what was published grow by the same event, which is
\* under way; the one that was last until then is no repeated one if it still is.
LEMMA MirrorKeeps ==
  ASSUME IInv, NEW p \in Publishers, NEW v \in Values, Mirror(p, v)
  PROVE  IInv'
<1> DEFINE total == Len(published)
           held == Len(fallback)
<1>1. /\ published' = Append(published, v) /\ fallback' = Append(fallback, v)
      /\ pub[p] = 0 /\ pub' = [pub EXCEPT ![p] = Len(published) + 1]
      /\ apart' = (apart \/ \E q \in Publishers : pub[q] # 0 /\ Repeated(pub[q]))
      /\ UNCHANGED <<primary, phase, got, cursor, seen, misled>>
  BY DEF Mirror
<1>2. TypeInv
  BY DEF IInv
<1>3. /\ published' \in Seq(Values) /\ Len(published') = total + 1
      /\ published'[total + 1] = v /\ \A i \in 1..total : published'[i] = published[i]
      /\ fallback' \in Seq(Values) /\ Len(fallback') = held + 1
      /\ fallback'[held + 1] = v /\ \A i \in 1..held : fallback'[i] = fallback[i]
  BY <1>1, <1>2, Appended DEF TypeInv
<1>4. total \in Nat /\ held \in Nat /\ held <= total /\ Base = total - held /\ Base' = Base
  <2>1. total \in Nat /\ held \in Nat
    BY <1>2 DEF TypeInv
  <2>2. held <= total
    BY DEF IInv, Copies
  <2> HIDE DEF total, held
  <2>3. Base = total - held
    BY DEF Base, total, held
  <2>4. Base' = (total + 1) - (held + 1)
    BY <1>3 DEF Base
  <2> QED
    BY <2>1, <2>2, <2>3, <2>4
<1>5. /\ pub' \in [Publishers -> 0..(total + 1)] /\ pub'[p] = total + 1
      /\ \A q \in Publishers : q # p => pub'[q] = pub[q]
  <2>1. pub \in [Publishers -> 0..total] /\ total \in Nat
    BY <1>2, <1>4 DEF TypeInv
  <2> HIDE DEF total
  <2>2. pub' = [pub EXCEPT ![p] = total + 1]
    BY <1>1 DEF total
  <2> QED
    BY <2>1, <2>2
<1>6. TypeInv'
  BY <1>1, <1>2, <1>3, <1>5 DEF TypeInv
<1>7. Copies'
  <2>1. /\ \A i \in 1..held : fallback[i] = published[Base + i]
        /\ \A r \in Readers : /\ Len(got[r]) <= held
                              /\ \A i \in 1..Len(got[r]) : got[r][i] = fallback[i]
    BY DEF IInv, Copies
  <2>2. \A r \in Readers : Len(got[r]) \in Nat
    BY <1>2 DEF TypeInv
  <2> HIDE DEF total, held
  <2>3. ASSUME NEW i \in 1..(held + 1) PROVE fallback'[i] = published'[Base + i]
    <3>1. CASE i = held + 1
      <4>1. Base + i = total + 1
        BY <1>4, <3>1
      <4> QED
        BY <1>3, <3>1, <4>1
    <3>2. CASE i \in 1..held
      <4>1. Base + i \in 1..total
        BY <1>4, <3>2
      <4> QED
        BY <1>3, <2>1, <3>2, <4>1
    <3> QED
      BY <1>4, <3>1, <3>2
  <2>4. ASSUME NEW r \in Readers
        PROVE  Len(got[r]) <= held + 1 /\ \A i \in 1..Len(got[r]) : got[r][i] = fallback'[i]
    <3>1. \A i \in 1..Len(got[r]) : i \in 1..held
      BY <1>4, <2>1, <2>2
    <3> QED
      BY <1>3, <1>4, <2>1, <2>2, <3>1
  <2>5. held + 1 <= total + 1
    BY <1>4
  <2> QED
    BY <1>1, <1>3, <1>4, <2>3, <2>4, <2>5 DEF Copies
<1>8. ASSUME ~apart' PROVE Together' /\ Received'
  <2> DEFINE n == Len(primary)
  <2>1. ~apart /\ \A q \in Publishers : pub[q] # 0 => ~Repeated(pub[q])
    BY <1>1, <1>8
  <2>2. /\ n \in Nat /\ n <= total /\ Base <= n
        /\ \A i \in 1..n : primary[i] = published[i]
        /\ \A i \in (n + 1)..total : \E q \in Publishers : pub[q] = i
        /\ \A i \in (n + 1)..(total - 1) : ~Repeated(i)
    BY <1>2, <2>1 DEF IInv, Together, TypeInv
  <2> HIDE DEF n, total, held
  <2>3. \A i \in 1..total : Repeated(i)' = Repeated(i)
    <3> SUFFICES ASSUME NEW i \in 1..total PROVE Repeated(i)' = Repeated(i)
      OBVIOUS
    <3>1. \A j \in 1..(i - 1) : j \in 1..total
      BY <1>4
    <3> QED
      BY <1>3, <3>1 DEF Repeated
  <2>4. \A i \in (n + 1)..((total + 1) - 1) : ~Repeated(i)'
    <3> SUFFICES ASSUME NEW i \in (n + 1)..total PROVE ~Repeated(i)'
      BY <1>4
    <3>1. PICK q \in Publishers : pub[q] = i
      BY <2>2
    <3>2. ~Repeated(i)
      BY <2>1, <2>2, <3>1
    <3>3. i \in 1..total
      BY <2>2
    <3> QED
      BY <2>3, <3>2, <3>3
  <2>5. \A i \in (n + 1)..(total + 1) : \E q \in Publishers : pub'[q] = i
    <3> SUFFICES ASSUME NEW i \in (n + 1)..(total + 1) PROVE \E q \in Publishers : pub'[q] = i
      OBVIOUS
    <3>1. CASE i = total + 1
      BY <1>5, <3>1
    <3>2. CASE i # total + 1
      <4>1. PICK q \in Publishers : pub[q] = i
        BY <1>4, <2>2, <3>2
      <4>2. q # p
        BY <1>1, <2>2, <4>1
      <4> QED
        BY <1>5, <4>1, <4>2
    <3> QED
      BY <3>1, <3>2
  <2>6. \A i \in 1..n : primary[i] = published'[i]
    BY <1>3, <1>4, <2>2
  <2>7. Together'
    <3>1. n <= total + 1
      BY <1>4, <2>2
    <3>2. n = Len(primary)
      BY DEF n
    <3> QED
      BY <1>1, <1>3, <1>4, <2>2, <2>4, <2>5, <2>6, <3>1, <3>2 DEF Together
  <2>8. Received'
    <3> SUFFICES ASSUME NEW r \in Readers \ misled
                 PROVE  /\ Len(seen[r]) = cursor[r] /\ cursor[r] <= total + 1
                        /\ \A i \in 1..cursor[r] : seen[r][i] = published'[i]
      BY <1>1, <1>3 DEF Received
    <3>1. /\ Len(seen[r]) = cursor[r] /\ cursor[r] <= total /\ cursor[r] \in Nat
          /\ \A i \in 1..cursor[r] : seen[r][i] = published[i]
      BY <1>2, <2>1 DEF IInv, Received, total, TypeInv
    <3> QED
      BY <1>3, <1>4, <3>1
  <2> QED
    BY <2>7, <2>8
<1> QED
  BY <1>6, <1>7, <1>8 DEF IInv

\* Redis takes the first of what is under way, or the lists come apart.
LEMMA ReachKeeps ==
  ASSUME IInv, NEW p \in Publishers, Reach(p)
  PROVE  IInv'
<1> DEFINE n == Len(primary)
           total == Len(published)
<1>1. /\ pub[p] # 0 /\ pub' = [pub EXCEPT ![p] = 0]
      /\ \/ primary' = Append(primary, published[pub[p]]) /\ apart' = (apart \/ pub[p] # n + 1)
         \/ primary' = primary /\ apart' = TRUE
      /\ UNCHANGED <<published, fallback, phase, got, cursor, seen, misled>>
  BY DEF Reach
<1>2. /\ TypeInv /\ n \in Nat /\ total \in Nat /\ pub[p] \in 1..total
      /\ published[pub[p]] \in Values /\ primary \in Seq(Values)
  BY <1>1 DEF IInv, TypeInv
<1>3. /\ Append(primary, published[pub[p]]) \in Seq(Values)
      /\ Len(Append(primary, published[pub[p]])) = n + 1
      /\ Append(primary, published[pub[p]])[n + 1] = published[pub[p]]
      /\ \A i \in 1..n : Append(primary, published[pub[p]])[i] = primary[i]
  BY <1>2, Appended
<1>4. pub'[p] = 0 /\ \A q \in Publishers : q # p => pub'[q] = pub[q]
  BY <1>1, <1>2 DEF TypeInv
<1>5. TypeInv'
  <2>1. pub' \in [Publishers -> 0..total]
    <3>1. pub \in [Publishers -> 0..total]
      BY <1>2 DEF TypeInv
    <3> HIDE DEF total
    <3> QED
      BY <1>1, <1>2, <3>1
  <2>2. primary' \in Seq(Values)
    BY <1>1, <1>2, <1>3
  <2> QED
    BY <1>1, <1>2, <2>1, <2>2 DEF TypeInv
<1>6. Copies' /\ Base' = Base
  BY <1>1 DEF IInv, Copies, Base
<1>7. ASSUME ~apart' PROVE Together' /\ Received'
  <2>1. /\ ~apart /\ pub[p] = n + 1
        /\ primary' = Append(primary, published[pub[p]])
    BY <1>1, <1>7
  <2>2. /\ Base <= n /\ n <= total
        /\ \A i \in 1..n : primary[i] = published[i]
        /\ \A i \in (n + 1)..total : \E q \in Publishers : pub[q] = i
        /\ \A i \in (n + 1)..(total - 1) : ~Repeated(i)
    BY <2>1 DEF IInv, Together
  <2>3. Base \in Int
    BY <1>2 DEF Base, TypeInv
  <2>4. Received'
    BY <1>1, <2>1 DEF IInv, Received
  <2>5. Len(primary') = n + 1
    BY <1>3, <2>1
  <2>6. \A i \in 1..(n + 1) : primary'[i] = published[i]
    BY <1>2, <1>3, <2>1, <2>2
  <2> HIDE DEF n, total
  <2>7. \A i \in ((n + 1) + 1)..total : \E q \in Publishers : pub'[q] = i
    <3> SUFFICES ASSUME NEW i \in ((n + 1) + 1)..total PROVE \E q \in Publishers : pub'[q] = i
      OBVIOUS
    <3>1. i \in (n + 1)..total /\ i # n + 1
      BY <1>2
    <3>2. PICK q \in Publishers : pub[q] = i
      BY <2>2, <3>1
    <3> QED
      BY <1>4, <2>1, <3>1, <3>2
  <2>8. \A i \in ((n + 1) + 1)..(total - 1) : ~Repeated(i)'
    <3> SUFFICES ASSUME NEW i \in ((n + 1) + 1)..(total - 1) PROVE ~Repeated(i)'
      OBVIOUS
    <3>1. i \in (n + 1)..(total - 1)
      BY <1>2
    <3> QED
      BY <1>1, <2>2, <3>1 DEF Repeated
  <2>9. Base <= n + 1 /\ n + 1 <= total
    BY <1>2, <2>1, <2>2, <2>3
  <2> QED
    BY <1>1, <1>6, <2>4, <2>5, <2>6, <2>7, <2>8, <2>9 DEF Together, total
<1> QED
  BY <1>5, <1>6, <1>7 DEF IInv

\* A copy of the mirror is a copy of the mirror.
LEMMA BeginReadKeeps ==
  ASSUME IInv, NEW q \in Readers, BeginRead(q)
  PROVE  IInv'
<1>1. /\ got' = [got EXCEPT ![q] = fallback]
      /\ UNCHANGED <<published, primary, fallback, pub, cursor, seen, misled, apart>>
  BY DEF BeginRead
<1>2. TypeInv /\ Copies
  BY DEF IInv
<1>3. TypeInv'
  BY <1>1, <1>2 DEF TypeInv
<1>4. Copies'
  <2>1. Base' = Base
    BY <1>1 DEF Base
  <2>2. ASSUME NEW r \in Readers
        PROVE  /\ Len(got'[r]) <= Len(fallback)
               /\ \A i \in 1..Len(got'[r]) : got'[r][i] = fallback[i]
    <3>1. CASE r = q
      BY <1>1, <1>2, <3>1 DEF TypeInv
    <3>2. CASE r # q
      BY <1>1, <1>2, <3>2 DEF TypeInv, Copies
    <3> QED
      BY <3>1, <3>2
  <2> QED
    BY <1>1, <1>2, <2>1, <2>2 DEF Copies
<1>5. Together' = Together /\ Received' = Received
  BY <1>1 DEF Together, Received, Base, Repeated
<1> QED
  BY <1>1, <1>3, <1>4, <1>5 DEF IInv

\* What a read that does not mislead its reader makes of what the reader has.
LEMMA ReadContinues ==
  ASSUME IInv, ~apart, NEW q \in Readers, NEW history \in History(got[q]), q \notin misled,
         ~Misleads(q, history)
  PROVE  /\ Position(q, history) \in cursor[q]..Len(published)
         /\ seen[q] \o SubSeq(history, cursor[q] + 1, Len(history)) \in Seq(Values)
         /\ Len(seen[q] \o SubSeq(history, cursor[q] + 1, Len(history))) = Position(q, history)
         /\ \A i \in 1..Position(q, history) :
              (seen[q] \o SubSeq(history, cursor[q] + 1, Len(history)))[i] = published[i]
         /\ SubSeq(history, cursor[q] + 1, Len(history))
              = SubSeq(published, cursor[q] + 1, Position(q, history))
<1> DEFINE c == cursor[q]
           have == seen[q]
           given == SubSeq(history, c + 1, Len(history))
<1>1. /\ history \in Seq(Values)
      /\ \/ Len(history) <= Len(published) /\ \A i \in 1..Len(history) : history[i] = published[i]
         \/ history = got[q] /\ Emptied
  BY HistoryIsPrefix
<1>2. /\ c \in Nat /\ have \in Seq(Values) /\ Len(have) = c /\ c <= Len(published)
      /\ \A i \in 1..c : have[i] = published[i]
      /\ published \in Seq(Values) /\ Len(published) \in Nat /\ Len(history) \in Nat
  BY <1>1 DEF IInv, TypeInv, Received
<1>3. CASE Len(history) <= c
  <2>1. given = <<>>
    BY <1>1, <1>2, <1>3
  <2>2. have \o given = have
    <3> HIDE DEF given, have
    <3> QED
      BY <1>2, <2>1
  <2>3. Position(q, history) = c
    <3>1. CASE Len(history) = c
      BY <3>1 DEF Position
    <3>2. CASE Len(history) < c
      BY <3>2 DEF Position, Misleads, Readers
    <3> QED
      BY <1>2, <1>3, <3>1, <3>2
  <2>4. SubSeq(published, c + 1, c) = <<>>
    BY <1>2
  <2> HIDE DEF given, have, c
  <2>5. Position(q, history) \in c..Len(published)
    BY <1>2, <2>3
  <2> QED
    BY <1>2, <2>1, <2>2, <2>3, <2>4, <2>5 DEF given, have, c
<1>4. CASE Len(history) > c
  <2>1. Len(history) <= Len(published) /\ \A i \in 1..Len(history) : history[i] = published[i]
    BY <1>1, <1>4 DEF Misleads
  <2>2. Position(q, history) = Len(history)
    BY <1>2, <1>4 DEF Position
  <2>3. have \o given = history
    <3>1. \A i \in 1..Len(have) : have[i] = history[i]
      BY <1>2, <1>4, <2>1
    <3>2. Len(have) <= Len(history)
      BY <1>2, <1>4
    <3> QED
      BY <1>1, <1>2, <3>1, <3>2, Extended
  <2>4. given = SubSeq(published, c + 1, Len(history))
    <3> DEFINE other == SubSeq(published, c + 1, Len(history))
               k == Len(history) - c
    <3>1. /\ given \in Seq(Values) /\ Len(given) = k
          /\ \A i \in 1..k : given[i] = history[c + i]
      <4>1. /\ history \in Seq(Values) /\ c \in Nat /\ Len(history) > c
        BY <1>1, <1>2, <1>4
      <4> HIDE DEF c
      <4> QED
        BY <4>1
    <3>2. /\ other \in Seq(Values) /\ Len(other) = k
          /\ \A i \in 1..k : other[i] = published[c + i]
      BY <1>2, <1>4, <2>1
    <3>3. \A i \in 1..k : history[c + i] = published[c + i]
      <4> SUFFICES ASSUME NEW i \in 1..k PROVE history[c + i] = published[c + i]
        OBVIOUS
      <4>1. PICK j \in 1..Len(history) : j = c + i
        BY <1>2, <1>4
      <4> QED
        BY <2>1, <4>1
    <3> HIDE DEF given, other, k
    <3>4. \A i \in 1..k : given[i] = other[i]
      BY <3>1, <3>2, <3>3
    <3>5. given = other
      BY <3>1, <3>2, <3>4
    <3> QED
      BY <3>5 DEF other
  <2> HIDE DEF given
  <2>5. Position(q, history) \in c..Len(published)
    BY <1>2, <1>4, <2>1, <2>2
  <2> QED
    BY <1>1, <2>1, <2>2, <2>3, <2>4, <2>5 DEF given
<1>5. Len(history) <= c \/ Len(history) > c
  BY <1>2
<1> QED
  BY <1>3, <1>4, <1>5

\* A read continues what its reader has, whatever came between its two halves.
LEMMA ReadKeeps ==
  ASSUME IInv, NEW q \in Readers, Read(q)
  PROVE  IInv'
<1>1. PICK history \in History(got[q]) :
        /\ seen' = [seen EXCEPT ![q] = @ \o SubSeq(history, cursor[q] + 1, Len(history))]
        /\ cursor' = [cursor EXCEPT ![q] = Position(q, history)]
        /\ misled' = IF Misleads(q, history) THEN misled \cup {q} ELSE misled
  BY DEF Read
<1>2. got' = [got EXCEPT ![q] = <<>>] /\ UNCHANGED <<published, primary, fallback, pub, apart>>
  BY DEF Read
<1>3. TypeInv /\ Copies
  BY DEF IInv
<1>4. history \in Seq(Values)
  <2>1. Merged(primary, got[q]) \in Seq(Values)
    BY <1>3, MergedHolds DEF TypeInv
  <2> QED
    BY <1>3, <2>1 DEF History, TypeInv
<1>5. TypeInv'
  <2>1. Position(q, history) \in Nat
    BY <1>3, <1>4 DEF Position, TypeInv
  <2>2. cursor' \in [Readers -> Nat]
    BY <1>1, <1>3, <2>1 DEF TypeInv
  <2>3. seen' \in [Readers -> Seq(Values)]
    <3>1. cursor[q] \in Nat /\ seen[q] \in Seq(Values)
      BY <1>3 DEF TypeInv
    <3>2. seen[q] \o SubSeq(history, cursor[q] + 1, Len(history)) \in Seq(Values)
      BY <1>4, <3>1
    <3> QED
      BY <1>1, <1>3, <3>2 DEF TypeInv
  <2>4. got' \in [Readers -> Seq(Values)]
    BY <1>2, <1>3 DEF TypeInv
  <2> QED
    BY <1>2, <1>3, <2>2, <2>3, <2>4 DEF TypeInv
<1>6. Copies'
  <2>1. Base' = Base
    BY <1>2 DEF Base
  <2>2. ASSUME NEW r \in Readers
        PROVE  /\ Len(got'[r]) <= Len(fallback)
               /\ \A i \in 1..Len(got'[r]) : got'[r][i] = fallback[i]
    <3>1. CASE r = q
      BY <1>2, <1>3, <3>1 DEF TypeInv
    <3>2. CASE r # q
      BY <1>2, <1>3, <3>2 DEF TypeInv, Copies
    <3> QED
      BY <3>1, <3>2
  <2> QED
    BY <1>2, <1>3, <2>1, <2>2 DEF Copies
<1>7. Together' = Together
  BY <1>2 DEF Together, Base, Repeated
<1>8. ASSUME ~apart PROVE Received'
  <2> SUFFICES ASSUME NEW r \in Readers \ misled'
               PROVE  /\ Len(seen'[r]) = cursor'[r] /\ cursor'[r] <= Len(published)
                      /\ \A i \in 1..cursor'[r] : seen'[r][i] = published[i]
    BY <1>2 DEF Received
  <2>1. r \notin misled
    BY <1>1
  <2>2. CASE r = q
    <3>1. ~Misleads(q, history)
      BY <1>1, <2>2
    <3>2. /\ cursor'[q] = Position(q, history)
          /\ seen'[q] = seen[q] \o SubSeq(history, cursor[q] + 1, Len(history))
      BY <1>1, <1>3 DEF TypeInv
    <3>3. cursor[q] \in Nat /\ Len(published) \in Nat
      BY <1>3 DEF TypeInv
    <3>4. /\ Position(q, history) \in cursor[q]..Len(published)
          /\ Len(seen'[q]) = cursor'[q]
          /\ \A i \in 1..cursor'[q] : seen'[q][i] = published[i]
      <4> DEFINE now == seen[q] \o SubSeq(history, cursor[q] + 1, Len(history))
      <4>1. q \notin misled
        BY <2>1, <2>2
      <4>2. /\ Position(q, history) \in cursor[q]..Len(published)
            /\ Len(now) = Position(q, history)
            /\ \A i \in 1..Position(q, history) : now[i] = published[i]
        BY <1>8, <3>1, <4>1, ReadContinues
      <4> HIDE DEF now
      <4>3. seen'[q] = now
        BY <3>2 DEF now
      <4> QED
        BY <3>2, <4>2, <4>3
    <3>5. cursor'[q] <= Len(published)
      BY <3>2, <3>3, <3>4
    <3> QED
      BY <2>2, <3>4, <3>5
  <2>3. CASE r # q
    BY <1>1, <1>3, <1>8, <2>1, <2>3 DEF IInv, Received, TypeInv
  <2> QED
    BY <2>2, <2>3
<1> QED
  BY <1>2, <1>5, <1>6, <1>7, <1>8 DEF IInv

\* A restart empties the mirror; the lists stay together if Redis has everything.
LEMMA RestartKeeps == IInv /\ Restart => IInv'
<1> SUFFICES ASSUME IInv, Restart PROVE IInv'
  OBVIOUS
<1>1. /\ fallback' = <<>> /\ pub' = [p \in Publishers |-> 0] /\ got' = [r \in Readers |-> <<>>]
      /\ apart' = (apart \/ \E p \in Publishers : pub[p] # 0)
      /\ UNCHANGED <<published, primary, cursor, seen, misled>>
  BY DEF Restart
<1>2. TypeInv' /\ Len(published) \in Nat /\ Len(primary) \in Nat
  BY <1>1 DEF IInv, TypeInv
<1>3. Base' = Len(published)
  BY <1>1, <1>2 DEF Base
<1>4. Copies'
  BY <1>1, <1>2 DEF Copies
<1>5. ASSUME ~apart' PROVE Together' /\ Received'
  <2>1. ~apart /\ \A p \in Publishers : pub[p] = 0
    BY <1>1, <1>5
  <2>2. Together /\ Received
    BY <2>1 DEF IInv
  <2>3. Len(primary) = Len(published)
    <3>1. Len(published) \notin (Len(primary) + 1)..Len(published)
      BY <1>2, <2>1, <2>2 DEF Together
    <3> QED
      BY <1>2, <2>2, <3>1 DEF Together
  <2>4. Together'
    BY <1>1, <1>2, <1>3, <2>2, <2>3 DEF Together
  <2>5. Received'
    BY <1>1, <2>2 DEF Received
  <2> QED
    BY <2>4, <2>5
<1> QED
  BY <1>2, <1>4, <1>5 DEF IInv

\* The invariant behind the order of delivery.
THEOREM Invariance == Spec => []IInv
<1>1. IInv /\ [Next]_vars => IInv'
  <2> SUFFICES ASSUME IInv, [Next]_vars PROVE IInv'
    OBVIOUS
  <2>1. ASSUME NEW p \in Publishers, NEW v \in Values, Mirror(p, v) PROVE IInv'
    BY <2>1, MirrorKeeps
  <2>2. ASSUME NEW p \in Publishers, Reach(p) PROVE IInv'
    BY <2>2, ReachKeeps
  <2>3. ASSUME NEW r \in Readers, BeginRead(r) PROVE IInv'
    BY <2>3, BeginReadKeeps
  <2>4. ASSUME NEW r \in Readers, Read(r) PROVE IInv'
    BY <2>4, ReadKeeps
  <2>5. CASE Restart
    BY <2>5, RestartKeeps
  <2>6. CASE UNCHANGED vars
    BY <2>6 DEF IInv, vars, TypeInv, Copies, Together, Received, Base, Repeated
  <2> QED
    BY <2>1, <2>2, <2>3, <2>4, <2>5, <2>6 DEF Next
<1> QED
  BY <1>1, InitIInv, PTL DEF Spec

\* Whatever the values, the publishers, the readers and the faults, as long as the lists
\* are together a reader that was not misled has a beginning of what was published.
THEOREM InOrder == Spec => []ReceivedInOrder
<1>1. IInv => ReceivedInOrder
  <2> SUFFICES ASSUME IInv, ~apart, NEW r \in Readers \ misled
               PROVE  Prefix(seen[r], published)
    BY DEF ReceivedInOrder
  <2> DEFINE c == cursor[r]
             have == seen[r]
             front == SubSeq(published, 1, Len(have))
  <2>1. /\ have \in Seq(Values) /\ published \in Seq(Values) /\ c \in Nat
        /\ Len(have) = c /\ c <= Len(published) /\ \A i \in 1..c : have[i] = published[i]
    BY DEF IInv, TypeInv, Received
  <2>2. front \in Seq(Values) /\ Len(front) = c /\ \A i \in 1..c : front[i] = published[i]
    BY <2>1
  <2> HIDE DEF front
  <2>3. have = front
    BY <2>1, <2>2
  <2> QED
    BY <2>1, <2>3 DEF Prefix, front
<1> QED
  BY <1>1, Invariance, PTL

-----------------------------------------------------------------------------
(***************************************************************************)
(* Within one process nothing vanishes.  The merged history holds what     *)
(* Redis holds and every other published value once; it is no longer than  *)
(* what was published because the positions of the values Redis holds,     *)
(* those under way left out, are at least as many as its entries.          *)
(***************************************************************************)
\* The positions under way.
Pending == {i \in DOMAIN published : \E p \in Publishers : pub[p] = i}

Held ==
  /\ \A p, q \in Publishers : pub[p] = pub[q] /\ pub[p] # 0 => p = q
  /\ Elements(primary) \subseteq Elements(published)
  /\ Len(primary) <= Cardinality(Known(primary, published) \ Pending)

\* The positions that count are finitely many.
LEMMA HeldFinite ==
  ASSUME NEW first \in Seq(Values), NEW second \in Seq(Values), NEW T
  PROVE  /\ IsFiniteSet(Known(first, second) \ T)
         /\ Cardinality(Known(first, second) \ T) \in Nat
<1>1. IsFiniteSet(Known(first, second))
  BY KnownOrNew
<1>2. Known(first, second) \ T \in SUBSET Known(first, second)
  OBVIOUS
<1> QED
  BY <1>1, <1>2, FS_Subset, FS_CardinalityType

\* A publication under way does not count yet.
LEMMA MirrorHeld ==
  ASSUME IInv, IInv', Held, NEW p \in Publishers, NEW v \in Values, Mirror(p, v)
  PROVE  Held'
<1> DEFINE total == Len(published)
           held == Known(primary, published) \ Pending
           held2 == Known(primary', published') \ Pending'
<1>1. /\ published' = Append(published, v) /\ primary' = primary
      /\ pub[p] = 0 /\ pub' = [pub EXCEPT ![p] = total + 1]
  BY DEF Mirror
<1>2. /\ published \in Seq(Values) /\ total \in Nat
      /\ DOMAIN published = 1..total /\ pub \in [Publishers -> 0..total]
  BY DEF IInv, TypeInv
<1>3. /\ published' \in Seq(Values) /\ Len(published') = total + 1
      /\ DOMAIN published' = 1..(total + 1)
      /\ \A i \in 1..total : published'[i] = published[i]
      /\ Elements(published') = Elements(published) \cup {v}
  <2>1. /\ Append(published, v) \in Seq(Values) /\ Len(Append(published, v)) = total + 1
        /\ \A i \in 1..total : Append(published, v)[i] = published[i]
        /\ Elements(Append(published, v)) = Elements(published) \cup {v}
    BY <1>2, Appended
  <2>2. published' \in Seq(Values) /\ Len(published') = total + 1
    BY <1>1, <2>1
  <2>3. DOMAIN published' = 1..(total + 1)
    BY <1>2, <2>2
  <2>4. (\A i \in 1..total : published'[i] = published[i])
        /\ Elements(published') = Elements(published) \cup {v}
    <3> HIDE DEF total
    <3>1. Elements(published') = Elements(Append(published, v))
      BY <1>1 DEF Elements
    <3> QED
      BY <1>1, <2>1, <3>1
  <2> QED
    BY <2>2, <2>3, <2>4
<1> HIDE DEF total
<1>4. pub'[p] = total + 1 /\ \A q \in Publishers : q # p => pub'[q] = pub[q] /\ pub[q] # total + 1
  BY <1>1, <1>2
<1>5. \A q, w \in Publishers : pub'[q] = pub'[w] /\ pub'[q] # 0 => q = w
  BY <1>4 DEF Held
<1>6. held \in SUBSET held2
  <2> SUFFICES ASSUME NEW i \in held PROVE i \in held2
    OBVIOUS
  <2>1. i \in 1..total /\ published[i] \in Elements(primary) /\ \A q \in Publishers : pub[q] # i
    BY <1>2 DEF Known, Pending
  <2>2. i \in 1..(total + 1) /\ i # total + 1
    BY <1>2, <2>1
  <2>3. published'[i] \in Elements(primary')
    BY <1>1, <1>3, <2>1
  <2>4. \A q \in Publishers : pub'[q] # i
    BY <1>4, <2>1, <2>2
  <2> QED
    BY <1>3, <2>2, <2>3, <2>4 DEF Known, Pending
<1> HIDE DEF held, held2
<1>7. Cardinality(held) <= Cardinality(held2) /\ Cardinality(held) \in Nat /\ Cardinality(held2) \in Nat
  <2>1. IsFiniteSet(held2) /\ Cardinality(held2) \in Nat
    <3>1. published' \in Seq(Values) /\ primary' \in Seq(Values)
      BY DEF IInv, TypeInv
    <3> QED
      BY <3>1, HeldFinite DEF held2
  <2> QED
    BY <1>6, <2>1, FS_Subset, FS_CardinalityType
<1>8. Len(primary) <= Cardinality(held) /\ Len(primary) \in Nat
  BY DEF Held, held, IInv, TypeInv
<1>9. Len(primary') <= Cardinality(held2)
  BY <1>1, <1>7, <1>8
<1>10. Elements(primary') \subseteq Elements(published')
  BY <1>1, <1>3 DEF Held
<1> QED
  BY <1>5, <1>9, <1>10 DEF Held, held2

\* One that reaches Redis counts from then on, whether its value was known or not.
LEMMA ReachHeld ==
  ASSUME IInv, IInv', Held, NEW p \in Publishers, Reach(p)
  PROVE  Held'
<1> DEFINE total == Len(published)
           c == pub[p]
           held == Known(primary, published) \ Pending
           held2 == Known(primary', published') \ Pending'
<1>1. /\ c # 0 /\ pub' = [pub EXCEPT ![p] = 0] /\ published' = published
      /\ primary' = Append(primary, published[c]) \/ primary' = primary
  BY DEF Reach
<1>2. /\ published \in Seq(Values) /\ primary \in Seq(Values)
      /\ DOMAIN published = 1..total /\ pub \in [Publishers -> 0..total] /\ total \in Nat
  BY DEF IInv, TypeInv
<1>3. c \in 1..total /\ published[c] \in Values /\ published[c] \in Elements(published)
  BY <1>1, <1>2 DEF Elements
<1>4. /\ Len(Append(primary, published[c])) = Len(primary) + 1
      /\ Elements(Append(primary, published[c])) = Elements(primary) \cup {published[c]}
  BY <1>2, <1>3, Appended
<1> HIDE DEF total
<1>5. pub'[p] = 0 /\ \A q \in Publishers : q # p => pub'[q] = pub[q] /\ pub[q] # c
  <2>1. pub'[p] = 0 /\ \A q \in Publishers : q # p => pub'[q] = pub[q]
    BY <1>1, <1>2
  <2>2. \A q \in Publishers : q # p => pub[q] # c
    BY <1>1 DEF Held
  <2> QED
    BY <2>1, <2>2
<1>6. \A q, w \in Publishers : pub'[q] = pub'[w] /\ pub'[q] # 0 => q = w
  BY <1>5 DEF Held
<1>7. Elements(primary) \subseteq Elements(primary') /\ Elements(primary') \subseteq Elements(published')
  <2>1. Elements(published') = Elements(published)
    BY <1>1 DEF Elements
  <2>2. CASE primary' = Append(primary, published[c])
    <3>1. Elements(primary') = Elements(primary) \cup {published[c]}
      BY <1>4, <2>2 DEF Elements
    <3> QED
      BY <1>3, <2>1, <3>1 DEF Held
  <2>3. CASE primary' = primary
    <3>1. Elements(primary') = Elements(primary)
      BY <2>3 DEF Elements
    <3> QED
      BY <2>1, <3>1 DEF Held
  <2> QED
    BY <1>1, <2>2, <2>3
<1>8. held \in SUBSET held2 /\ c \notin held
  <2>1. ASSUME NEW i \in held PROVE i \in held2
    <3>1. i \in 1..total /\ published[i] \in Elements(primary) /\ \A q \in Publishers : pub[q] # i
      BY <1>2 DEF Known, Pending
    <3>2. published'[i] \in Elements(primary')
      BY <1>1, <1>7, <3>1
    <3>3. \A q \in Publishers : pub'[q] # i
      BY <1>5, <1>2, <3>1
    <3> QED
      BY <1>1, <1>2, <3>1, <3>2, <3>3 DEF Known, Pending
  <2>2. c \notin held
    BY <1>2, <1>3 DEF Pending
  <2> QED
    BY <2>1, <2>2
<1>9. primary' = Append(primary, published[c]) => c \in held2
  <2> SUFFICES ASSUME primary' = Append(primary, published[c]) PROVE c \in held2
    OBVIOUS
  <2>1. published'[c] \in Elements(primary')
    BY <1>1, <1>4
  <2>2. \A q \in Publishers : pub'[q] # c
    BY <1>1, <1>5
  <2> QED
    BY <1>1, <1>2, <1>3, <2>1, <2>2 DEF Known, Pending
<1>10. /\ IsFiniteSet(held) /\ IsFiniteSet(held2)
       /\ Cardinality(held) \in Nat /\ Cardinality(held2) \in Nat
  <2>1. published' \in Seq(Values) /\ primary' \in Seq(Values)
    BY DEF IInv, TypeInv
  <2> QED
    BY <1>2, <2>1, HeldFinite
<1>11. Len(primary) <= Cardinality(held) /\ Len(primary) \in Nat
  BY <1>2 DEF Held
<1> HIDE DEF held, held2, c
<1>12. CASE primary' = Append(primary, published[c])
  <2>1. held \cup {c} \in SUBSET held2
    BY <1>8, <1>9, <1>12
  <2>2. Cardinality(held \cup {c}) = Cardinality(held) + 1
    BY <1>8, <1>10, FS_AddElement
  <2>3. Cardinality(held) + 1 <= Cardinality(held2)
    BY <1>10, <2>1, <2>2, FS_Subset
  <2>4. Len(primary') <= Cardinality(held2)
    BY <1>4, <1>10, <1>11, <1>12, <2>3
  <2> QED
    BY <1>6, <1>7, <2>4 DEF Held, held2
<1>13. CASE primary' = primary
  <2>1. Cardinality(held) <= Cardinality(held2)
    BY <1>8, <1>10, FS_Subset
  <2>2. Len(primary') <= Cardinality(held2)
    BY <1>10, <1>11, <1>13, <2>1
  <2> QED
    BY <1>6, <1>7, <2>2 DEF Held, held2
<1> QED
  BY <1>1, <1>12, <1>13 DEF c

\* What dies with the process is under way no more.
LEMMA RestartHeld ==
  ASSUME IInv, IInv', Held, Restart
  PROVE  Held'
<1> DEFINE held == Known(primary, published) \ Pending
           held2 == Known(primary', published') \ Pending'
<1>1. pub' = [p \in Publishers |-> 0] /\ UNCHANGED <<published, primary>>
  BY DEF Restart
<1>2. held \in SUBSET held2
  <2>1. Pending' = {}
    BY <1>1 DEF Pending, IInv, TypeInv
  <2>2. Known(primary', published') = Known(primary, published)
    BY <1>1
  <2> QED
    BY <2>1, <2>2
<1>3. /\ IsFiniteSet(held2) /\ Cardinality(held) \in Nat /\ Cardinality(held2) \in Nat
  <2>1. /\ published \in Seq(Values) /\ primary \in Seq(Values)
        /\ published' \in Seq(Values) /\ primary' \in Seq(Values)
    BY DEF IInv, TypeInv
  <2> QED
    BY <2>1, HeldFinite
<1>4. Len(primary) <= Cardinality(held) /\ Len(primary) \in Nat
  BY DEF Held, IInv, TypeInv
<1> HIDE DEF held, held2
<1>5. Cardinality(held) <= Cardinality(held2)
  BY <1>2, <1>3, FS_Subset
<1>6. Len(primary') <= Cardinality(held2)
  BY <1>1, <1>3, <1>4, <1>5
<1>7. /\ \A p, q \in Publishers : pub'[p] = pub'[q] /\ pub'[p] # 0 => p = q
      /\ Elements(primary') \subseteq Elements(published')
  BY <1>1 DEF Held
<1> QED
  BY <1>6, <1>7 DEF Held, held2

\* Every step counts what it adds to Redis.
LEMMA HeldStep ==
  ASSUME IInv, IInv', Held, [Next]_vars
  PROVE  Held'
<1>1. CASE UNCHANGED <<published, primary, pub>>
  BY <1>1 DEF Held, Known, Pending, Elements
<1>2. ASSUME NEW p \in Publishers, NEW v \in Values, Mirror(p, v) PROVE Held'
  BY <1>2, MirrorHeld
<1>3. ASSUME NEW p \in Publishers, Reach(p) PROVE Held'
  BY <1>3, ReachHeld
<1>4. CASE Restart
  BY <1>4, RestartHeld
<1> QED
  BY <1>1, <1>2, <1>3, <1>4 DEF Next, BeginRead, Read, vars

\* A mirror that holds a beginning of what was published has no other new positions.
LEMMA NewInBeginning ==
  ASSUME NEW first \in Seq(Values), NEW second \in Seq(Values), NEW whole \in Seq(Values),
         Len(second) <= Len(whole), \A i \in 1..Len(second) : second[i] = whole[i]
  PROVE  /\ Cardinality(NewIn(first, second)) <= Cardinality(NewIn(first, whole))
         /\ Elements(second) \subseteq Elements(whole)
<1>1. DOMAIN second = 1..Len(second) /\ DOMAIN whole = 1..Len(whole)
      /\ Len(second) \in Nat /\ Len(whole) \in Nat
  OBVIOUS
<1>2. \A i \in 1..Len(second) : i \in 1..Len(whole) /\ \A j \in 1..(i - 1) : j \in 1..Len(second)
  BY <1>1
<1>3. NewIn(first, second) \in SUBSET NewIn(first, whole)
  BY <1>1, <1>2 DEF NewIn
<1>4. IsFiniteSet(NewIn(first, whole))
  BY KnownOrNew
<1>5. Elements(second) \subseteq Elements(whole)
  BY <1>1, <1>2 DEF Elements
<1> QED
  BY <1>3, <1>4, <1>5, FS_Subset

\* Whatever the faults and whatever order publishers reach Redis in, within one process
\* any history a reader may be given holds every value of the mirror it was made from,
\* nothing that was not published, and is no longer than what was published.
THEOREM NothingIsForgotten == Spec => []NothingForgotten
<1>1. IInv /\ Init => Held
  <2> SUFFICES ASSUME IInv, Init PROVE Held
    OBVIOUS
  <2>1. /\ primary = <<>> /\ published = <<>> /\ \A p \in Publishers : pub[p] = 0
    BY DEF Init
  <2>2. Cardinality(Known(primary, published) \ Pending) \in Nat /\ Len(primary) = 0
    BY <2>1, HeldFinite DEF IInv, TypeInv
  <2>3. Elements(primary) \subseteq Elements(published)
    BY <2>1
  <2> QED
    BY <2>1, <2>2, <2>3 DEF Held
<1>2. IInv /\ IInv' /\ Held /\ [Next]_vars => Held'
  BY HeldStep
<1>3. IInv /\ Held => NothingForgotten
  <2> SUFFICES ASSUME IInv, Held, ~Emptied,
                      NEW mirror \in {fallback} \cup {got[r] : r \in Readers},
                      NEW history \in History(mirror)
               PROVE  /\ Elements(mirror) \subseteq Elements(history)
                      /\ Elements(history) \subseteq Elements(published)
                      /\ Len(history) <= Len(published)
    BY DEF NothingForgotten
  <2>1. published \in Seq(Values) /\ primary \in Seq(Values) /\ fallback \in Seq(Values)
    BY DEF IInv, TypeInv
  <2>2. Base = 0 /\ Len(fallback) = Len(published)
    BY <2>1 DEF IInv, Copies, Emptied, Base
  <2>3. \A i \in 1..Len(fallback) : fallback[i] = published[i]
    <3> SUFFICES ASSUME NEW i \in 1..Len(fallback) PROVE fallback[i] = published[i]
      OBVIOUS
    <3>1. fallback[i] = published[Base + i] /\ Base + i = i
      BY <2>2 DEF IInv, Copies
    <3> QED
      BY <3>1
  <2>4. /\ mirror \in Seq(Values) /\ Len(mirror) <= Len(published)
        /\ \A i \in 1..Len(mirror) : mirror[i] = published[i]
    <3>1. CASE mirror = fallback
      BY <2>1, <2>2, <2>3, <3>1
    <3>2. CASE mirror # fallback
      <4>1. PICK r \in Readers : mirror = got[r]
        BY <3>2
      <4>2. /\ got[r] \in Seq(Values) /\ Len(got[r]) <= Len(fallback)
            /\ \A i \in 1..Len(got[r]) : got[r][i] = fallback[i]
        BY DEF IInv, TypeInv, Copies
      <4>3. \A i \in 1..Len(got[r]) : i \in 1..Len(fallback)
        BY <2>1, <4>2
      <4> QED
        BY <2>2, <2>3, <4>1, <4>2, <4>3
    <3> QED
      BY <3>1, <3>2
  <2>5. /\ Cardinality(NewIn(primary, mirror)) <= Cardinality(NewIn(primary, published))
        /\ Elements(mirror) \subseteq Elements(published)
    BY <2>1, <2>4, NewInBeginning
  <2>6. CASE history = mirror
    BY <2>4, <2>5, <2>6
  <2>7. CASE history = Merged(primary, mirror)
    <3>1. /\ Len(history) = Len(primary) + Cardinality(NewIn(primary, mirror))
          /\ Elements(history) = Elements(primary) \cup Elements(mirror)
      BY <2>1, <2>4, <2>7, MergedHolds
    <3>2. /\ IsFiniteSet(Known(primary, published)) /\ IsFiniteSet(NewIn(primary, published))
          /\ Cardinality(Known(primary, published)) + Cardinality(NewIn(primary, published)) <= Len(published)
          /\ IsFiniteSet(NewIn(primary, mirror))
      BY <2>1, <2>4, KnownOrNew
    <3>3. /\ Cardinality(Known(primary, published) \ Pending) \in Nat
          /\ Cardinality(Known(primary, published) \ Pending) <= Cardinality(Known(primary, published))
      <4>1. Known(primary, published) \ Pending \in SUBSET Known(primary, published)
        OBVIOUS
      <4> QED
        BY <2>1, <3>2, <4>1, HeldFinite, FS_Subset
    <3>4. /\ Cardinality(Known(primary, published)) \in Nat
          /\ Cardinality(NewIn(primary, published)) \in Nat
          /\ Cardinality(NewIn(primary, mirror)) \in Nat
          /\ Len(primary) \in Nat /\ Len(published) \in Nat
      BY <2>1, <3>2, FS_CardinalityType
    <3>5. Len(primary) <= Cardinality(Known(primary, published) \ Pending)
      BY DEF Held
    <3>6. Len(history) <= Len(published)
      BY <2>5, <3>1, <3>2, <3>3, <3>4, <3>5
    <3> QED
      BY <2>5, <3>1, <3>6 DEF Held
  <2> QED
    BY <2>6, <2>7 DEF History
<1> QED
  BY <1>1, <1>2, <1>3, Invariance, PTL DEF Spec

-----------------------------------------------------------------------------
\* A step as one reader sees it.
LEMMA TopicStep ==
  ASSUME IInv, [Next]_vars, NEW r \in Readers, ~apart, r \notin misled'
  PROVE  [Topic(r)!Next]_(Topic(r)!vars)
<1>1. ASSUME NEW p \in Publishers, NEW v \in Values, Mirror(p, v)
      PROVE  Topic(r)!Publish(v)
  BY <1>1 DEF Mirror, Topic!Publish
<1>2. ASSUME NEW p \in Publishers, Reach(p)
      PROVE  UNCHANGED Topic(r)!vars
  BY <1>2 DEF Reach, Topic!vars
<1>3. ASSUME NEW q \in Readers, BeginRead(q)
      PROVE  UNCHANGED Topic(r)!vars
  BY <1>3 DEF BeginRead, Topic!vars
<1>4. ASSUME NEW q \in Readers, Read(q), q # r
      PROVE  UNCHANGED Topic(r)!vars
  BY <1>4 DEF Read, IInv, TypeInv, Topic!vars
<1>5. CASE Read(r)
  <2>1. PICK history \in History(got[r]) :
          /\ seen' = [seen EXCEPT ![r] = @ \o SubSeq(history, cursor[r] + 1, Len(history))]
          /\ cursor' = [cursor EXCEPT ![r] = Position(r, history)]
          /\ misled' = IF Misleads(r, history) THEN misled \cup {r} ELSE misled
    BY <1>5 DEF Read
  <2>2. UNCHANGED published
    BY <1>5 DEF Read
  <2>3. r \notin misled /\ ~Misleads(r, history)
    BY <2>1
  <2>4. /\ Position(r, history) \in cursor[r]..Len(published)
        /\ SubSeq(history, cursor[r] + 1, Len(history))
             = SubSeq(published, cursor[r] + 1, Position(r, history))
    BY <2>1, <2>3, ReadContinues
  <2>5. /\ seen'[r] = seen[r] \o SubSeq(published, cursor[r] + 1, Position(r, history))
        /\ cursor'[r] = Position(r, history)
    BY <2>1, <2>4 DEF IInv, TypeInv
  <2>6. Topic(r)!Read
    BY <2>2, <2>4, <2>5 DEF Topic!Read
  <2> QED
    BY <2>6 DEF Topic!Next
<1>6. CASE Restart
  BY <1>6 DEF Restart, Topic!vars
<1>7. CASE UNCHANGED vars
  BY <1>7 DEF vars, Topic!vars
<1> QED
  BY <1>1, <1>2, <1>3, <1>4, <1>5, <1>6, <1>7 DEF Next, Topic!Next

\* Whatever the values, the publishers, the readers and the faults, as long as the lists
\* are together each reader that was not misled has one list before it (FailOpenEventBus
\* and the loops that read it by position).
THEOREM TopicImplemented == Spec => ImplementsTopic
<1>1. Init => \A r \in Readers : Topic(r)!Init
  BY DEF Init, Topic!Init
<1>2. IInv /\ [Next]_vars =>
        [\A r \in Readers :
           ~apart /\ r \notin misled' => [Topic(r)!Next]_(Topic(r)!vars)]_vars
  BY TopicStep
<1>3. QED
  BY <1>1, <1>2, Invariance, PTL DEF Spec, ImplementsTopic
=============================================================================
