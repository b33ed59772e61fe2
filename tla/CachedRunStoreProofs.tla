------------------------ MODULE CachedRunStoreProofs ------------------------
(***************************************************************************)
(* Proofs about CachedRunStore for every value of its constants: under any *)
(* faults the cache never runs ahead of the authority, and until a cache   *)
(* write is lost the two stores implement one store.                       *)
(***************************************************************************)
EXTENDS CachedRunStore, SequenceTheorems, TLAPS

(***************************************************************************)
(* CacheNeverAhead is not inductive by itself: it needs that the log about *)
(* to be committed ends in the newest write, and that the log about to be  *)
(* cached is the one just committed.                                       *)
(***************************************************************************)
Newest == \A r \in Runs : LastId(db[r]) <= writes

OpOK ==
  /\ op.step = "save" => /\ op.run \in Runs /\ op.log # <<>>
                         /\ LastId(op.log) = writes
                         /\ \A r \in Runs : LastId(db[r]) < writes
  /\ op.step = "cache" => op.run \in Runs /\ op.log = db[op.run]

IInv == TypeOK /\ Newest /\ OpOK /\ CacheNeverAhead

-----------------------------------------------------------------------------
\* The id of the last event is a number, and 0 only for an absent log.
LEMMA LastIdType ==
  ASSUME NEW log \in Seq(Event)
  PROVE  LastId(log) \in Nat /\ (log # <<>> => LastId(log) > 0)
<1>1. CASE log = <<>>
  BY <1>1 DEF LastId
<1>2. CASE log # <<>>
  <2>1. log[Len(log)] \in Event
    BY <1>2, EmptySeq, LenProperties, ElementOfSeq
  <2>2. QED
    BY <2>1, <1>2, CachedStoreAssumption DEF LastId, Event
<1>3. QED
  BY <1>1, <1>2

\* The log an update prepares ends in its own write.
LEMMA UpdatedLog ==
  ASSUME NEW log \in Seq(Event), NEW n \in 1..WriteBound
  PROVE  LET new == Append(log, [id |-> n, sequence |-> Len(log) + 1])
         IN new \in Seq(Event) /\ new # <<>> /\ LastId(new) = n
<1> DEFINE event == [id |-> n, sequence |-> Len(log) + 1]
           new == Append(log, event)
<1>1. Len(log) \in Nat
  BY LenProperties
<1>2. event \in Event
  BY <1>1, CachedStoreAssumption DEF Event
<1> HIDE DEF event
<1>3. new \in Seq(Event) /\ Len(new) = Len(log) + 1 /\ new[Len(log) + 1] = event
  BY <1>2, AppendProperties
<1>4. new # <<>>
  BY <1>1, <1>3
<1>5. LastId(new) = n
  <2> HIDE DEF new
  <2>1. QED
    BY <1>3, <1>4 DEF LastId, event
<1>6. QED
  BY <1>3, <1>4, <1>5 DEF event

\* A read returns the cached log or the authority's, and changes the cache only
\* to the authority's.
LEMMA GetRunFacts ==
  ASSUME IInv, NEW r \in Runs, NEW log \in Known(r), GetRun(r, log)
  PROVE  /\ log \in Seq(Event)
         /\ cache' \in [Runs -> Seq(Event)]
         /\ \A q \in Runs : cache'[q] \in {cache[q], db[q]}
<1>1. log \in {cache[r], db[r]} /\ cache[r] \in Seq(Event) /\ db[r] \in Seq(Event)
  BY DEF Known, IInv, TypeOK
<1>2. cache' = cache \/ cache' = [cache EXCEPT ![r] = db[r]]
  BY DEF GetRun, CacheWrite
<1>3. QED
  BY <1>1, <1>2 DEF IInv, TypeOK

\* A cache that moves only towards the authority does not get ahead of it.
LEMMA CacheCatchesUp ==
  ASSUME CacheNeverAhead, UNCHANGED db,
         \A r \in Runs : cache'[r] \in {cache[r], db[r], <<>>}
  PROVE  CacheNeverAhead'
  BY DEF CacheNeverAhead, LastId

\* Empty stores satisfy the invariant.
LEMMA InitIInv == Init => IInv
<1> SUFFICES ASSUME Init PROVE IInv
  OBVIOUS
<1>1. <<>> \in Seq(Event)
  BY EmptySeq
<1>2. TypeOK
  <2>1. lost \in BOOLEAN
    BY DEF Init
  <2>2. QED
    BY <1>1, <2>1, CachedStoreAssumption DEF Init, TypeOK
<1>3. Newest /\ CacheNeverAhead
  BY DEF Init, Newest, CacheNeverAhead, LastId
<1>4. OpOK
  BY DEF Init, OpOK, Idle
<1>5. QED
  BY <1>2, <1>3, <1>4 DEF IInv

\* A snapshot at most refills the cache.
LEMMA SnapshotIInv ==
  ASSUME IInv, NEW r \in Runs, Snapshot(r)
  PROVE  IInv'
<1>1. PICK log \in Known(r) : GetRun(r, log) /\ seen' = [seen EXCEPT ![r] = log]
  BY DEF Snapshot
<1>2. /\ log \in Seq(Event) /\ cache' \in [Runs -> Seq(Event)]
      /\ \A q \in Runs : cache'[q] \in {cache[q], db[q]}
  BY <1>1, GetRunFacts
<1>3. op = Idle /\ UNCHANGED <<db, op, writes, lost>>
  BY DEF Snapshot
<1>4. TypeOK'
  BY <1>1, <1>2, <1>3 DEF IInv, TypeOK
<1>5. CacheNeverAhead'
  BY <1>2, <1>3, CacheCatchesUp DEF IInv
<1>6. Newest' /\ OpOK'
  BY <1>3 DEF IInv, Newest, OpOK, LastId
<1>7. QED
  BY <1>4, <1>5, <1>6 DEF IInv

\* An update reads a log and prepares its successor, newer than any committed one.
LEMMA UpdateIInv ==
  ASSUME IInv, NEW r \in Runs, Update(r)
  PROVE  IInv'
<1> DEFINE extended(log) == Append(log, [id |-> writes', sequence |-> Len(log) + 1])
<1>1. PICK log \in Known(r) :
        /\ GetRun(r, log)
        /\ op' = [step |-> "save", run |-> r, log |-> extended(log)]
  BY DEF Update
<1>2. /\ log \in Seq(Event) /\ cache' \in [Runs -> Seq(Event)]
      /\ \A q \in Runs : cache'[q] \in {cache[q], db[q]}
  BY <1>1, GetRunFacts
<1>3. writes' = writes + 1 /\ writes \in Nat /\ writes' \in 1..WriteBound /\ UNCHANGED <<db, seen, lost>>
  BY CachedStoreAssumption DEF Update, IInv, TypeOK
<1>4. /\ extended(log) \in Seq(Event) /\ extended(log) # <<>>
      /\ LastId(extended(log)) = writes'
  BY <1>2, <1>3, UpdatedLog
<1> HIDE DEF extended
<1>5. TypeOK'
  BY <1>1, <1>2, <1>3, <1>4, CachedStoreAssumption DEF IInv, TypeOK
<1>6. CacheNeverAhead'
  BY <1>2, <1>3, CacheCatchesUp DEF IInv
<1>7. \A q \in Runs : LastId(db[q]) \in Nat /\ LastId(db[q]) <= writes
  BY LastIdType DEF IInv, TypeOK, Newest
<1>8. \A q \in Runs : LastId(db[q])' = LastId(db[q])
  BY <1>3 DEF LastId
<1>9. Newest' /\ OpOK'
  BY <1>1, <1>3, <1>4, <1>7, <1>8 DEF Newest, OpOK, LastId
<1>10. QED
  BY <1>5, <1>6, <1>9 DEF IInv

\* The committed log is newer than everything cached.
LEMMA SaveAuthoritativeIInv == IInv /\ SaveAuthoritative => IInv'
<1> SUFFICES ASSUME IInv, SaveAuthoritative PROVE IInv'
  OBVIOUS
<1>1. /\ op.step = "save" /\ op.run \in Runs /\ op.log \in Seq(Event) /\ op.log # <<>>
      /\ LastId(op.log) = writes /\ \A r \in Runs : LastId(db[r]) < writes
  BY DEF SaveAuthoritative, IInv, TypeOK, OpOK, Idle
<1>2. UNCHANGED <<cache, writes, seen>> /\ writes \in Nat /\ lost' \in BOOLEAN
  <2>1. lost' \in BOOLEAN
    BY Zenon DEF SaveAuthoritative, IInv, TypeOK
  <2>2. QED
    BY <2>1, CachedStoreAssumption DEF SaveAuthoritative, IInv, TypeOK
<1>3. CASE op' = Idle /\ UNCHANGED db
  BY <1>2, <1>3 DEF IInv, TypeOK, Newest, OpOK, CacheNeverAhead, Idle, LastId
<1>4. CASE db' = [db EXCEPT ![op.run] = op.log] /\ op' \in {[op EXCEPT !.step = "cache"], Idle}
  <2>1. /\ db' \in [Runs -> Seq(Event)] /\ db'[op.run] = op.log
        /\ \A q \in Runs \ {op.run} : db'[q] = db[q]
    BY <1>1, <1>4 DEF IInv, TypeOK
  <2> DEFINE Ops == [step : {"save", "cache"}, run : Runs, log : Seq(Event)]
             next == [op EXCEPT !.step = "cache"]
  <2>10. op \in Ops
    BY <1>1 DEF IInv, TypeOK, Idle
  <2>11. next \in Ops /\ next.step = "cache" /\ next.run = op.run /\ next.log = op.log
    BY <2>10
  <2>12. op' = next \/ op' = Idle
    BY <1>4
  <2> HIDE DEF next
  <2>2. TypeOK'
    BY <1>2, <2>1, <2>11, <2>12 DEF IInv, TypeOK
  <2>3. \A q \in Runs : /\ LastId(db[q]) \in Nat /\ LastId(cache[q]) \in Nat
                         /\ LastId(db[q]) < writes
    BY <1>1, LastIdType DEF IInv, TypeOK
  <2>4. \A q \in Runs : LastId(cache[q]) < writes
    <3>1. ASSUME NEW q \in Runs, LastId(cache[q]) >= writes
          PROVE  FALSE
      <4>1. LastId(cache[q]) >= LastId(db[q])
        BY <3>1, <2>3, <1>2
      <4>2. cache[q] = <<>> \/ cache[q] = db[q]
        BY <4>1 DEF IInv, CacheNeverAhead
      <4>3. LastId(<<>>) = 0
        BY DEF LastId
      <4>4. QED
        BY <3>1, <4>2, <4>3, <2>3, <1>2
    <3>2. QED
      BY <3>1, <2>3, <1>2
  <2>5. LastId(db'[op.run]) = writes /\ \A q \in Runs \ {op.run} : LastId(db'[q]) = LastId(db[q])
    BY <2>1, <1>1
  <2>6. Newest'
    BY <2>1, <2>3, <2>5, <1>2 DEF Newest, LastId
  <2>7. CacheNeverAhead'
    <3>1. ASSUME NEW q \in Runs, LastId(cache[q]) >= LastId(db'[q])
          PROVE  cache[q] \in {<<>>, db'[q]}
      <4>1. q # op.run
        BY <3>1, <2>4, <2>5, <2>3, <1>2
      <4>2. QED
        BY <4>1, <3>1, <2>1 DEF IInv, CacheNeverAhead
    <3>2. QED
      BY <3>1, <1>2 DEF CacheNeverAhead, LastId
  <2>8. OpOK'
    <3>1. CASE op' = Idle
      BY <3>1 DEF OpOK, Idle
    <3>2. CASE op' = next
      BY <3>2, <1>1, <2>1, <2>11 DEF OpOK
    <3>3. QED
      BY <3>1, <3>2, <2>12
  <2>9. QED
    BY <2>2, <2>6, <2>7, <2>8 DEF IInv
<1>5. QED
  BY <1>3, <1>4 DEF SaveAuthoritative

\* Steps that commit nothing and move the cache towards the authority.
LEMMA QuietStep ==
  ASSUME IInv, op' = Idle \/ op' = op, UNCHANGED <<db, writes, seen>>,
         cache' \in [Runs -> Seq(Event)], lost' \in BOOLEAN,
         \A r \in Runs : cache'[r] \in {cache[r], db[r], <<>>}
  PROVE  IInv'
<1>1. TypeOK'
  BY DEF IInv, TypeOK
<1>2. CacheNeverAhead'
  BY CacheCatchesUp DEF IInv
<1>3. Newest' /\ OpOK'
  BY DEF IInv, Newest, OpOK, Idle, LastId
<1>4. QED
  BY <1>1, <1>2, <1>3 DEF IInv

\* The cache write stores the log just committed.
LEMMA SaveCacheIInv == IInv /\ SaveCache => IInv'
<1> SUFFICES ASSUME IInv, SaveCache PROVE IInv'
  OBVIOUS
<1>1. op.run \in Runs /\ op.log = db[op.run] /\ db[op.run] \in Seq(Event)
  BY DEF SaveCache, IInv, TypeOK, OpOK
<1>2. cache' = cache \/ cache' = [cache EXCEPT ![op.run] = db[op.run]]
  BY <1>1 DEF SaveCache, CacheWrite
<1>3. /\ cache' \in [Runs -> Seq(Event)]
      /\ \A r \in Runs : cache'[r] \in {cache[r], db[r], <<>>}
  BY <1>1, <1>2 DEF IInv, TypeOK
<1>4. lost' \in BOOLEAN
  BY DEF SaveCache, IInv, TypeOK
<1>5. QED
  BY <1>3, <1>4, QuietStep DEF SaveCache

\* Every step preserves the inductive invariant.
LEMMA NextIInv == IInv /\ [Next]_vars => IInv'
<1> SUFFICES ASSUME IInv, [Next]_vars PROVE IInv'
  OBVIOUS
<1>1. ASSUME NEW r \in Runs, Snapshot(r) \/ Update(r)
      PROVE  IInv'
  BY <1>1, SnapshotIInv, UpdateIInv
<1>2. ASSUME NEW r \in Runs, Expire(r)
      PROVE  IInv'
  <2>1. /\ cache' \in [Runs -> Seq(Event)]
        /\ \A q \in Runs : cache'[q] \in {cache[q], db[q], <<>>}
    BY <1>2, EmptySeq DEF Expire, IInv, TypeOK
  <2>2. lost' \in BOOLEAN
    BY <1>2 DEF Expire, IInv, TypeOK
  <2>3. QED
    BY <1>2, <2>1, <2>2, QuietStep DEF Expire
<1>3. CASE SaveAuthoritative \/ SaveCache
  BY <1>3, SaveAuthoritativeIInv, SaveCacheIInv
<1>4. CASE Crash \/ UNCHANGED vars
  <2>1. cache' = cache /\ cache \in [Runs -> Seq(Event)]
    BY <1>4 DEF Crash, vars, IInv, TypeOK
  <2>2. op' = Idle \/ op' = op
    BY <1>4 DEF Crash, vars
  <2>3. lost' \in BOOLEAN
    BY <1>4 DEF Crash, vars, IInv, TypeOK
  <2>4. QED
    BY <1>4, <2>1, <2>2, <2>3, QuietStep DEF Crash, vars
<1>5. QED
  BY <1>1, <1>2, <1>3, <1>4 DEF Next

-----------------------------------------------------------------------------
\* Under any faults, the invariant and with it its parts hold.
THEOREM Invariance == Spec => []IInv
<1>1. Init => IInv
  BY InitIInv
<1>2. IInv /\ [Next]_vars => IInv'
  BY NextIInv
<1>3. QED
  BY <1>1, <1>2, PTL DEF Spec

\* Under any faults, the cache never shows an event the authority had not
\* committed: a stale read is an old log, never an invented one.
THEOREM NeverAhead == Spec => []CacheNeverAhead
<1>1. IInv => CacheNeverAhead
  BY DEF IInv
<1>2. QED
  BY <1>1, Invariance, PTL

(***************************************************************************)
(* Until a cache write is lost: no faults need to be excluded, because the *)
(* history variable says when the first one took place.  While it is false *)
(* the log about to be saved extends the authority's by one event, and     *)
(* that is what makes a commit a step of the one store.                    *)
(***************************************************************************)
Extends ==
  op.step = "save" =>
    \E id \in 1..WriteBound :
      op.log = Append(db[op.run], [id |-> id, sequence |-> Len(db[op.run]) + 1])

CInv == ~lost => CacheCoherent /\ Extends

\* Every step before the first loss keeps the cache coherent and maps to a step
\* of one store.
LEMMA CoherentStep ==
  ASSUME IInv, CInv, ~lost, [Next]_vars
  PROVE  CInv' /\ [Store!Next]_(Store!vars)
<1>1. ASSUME NEW r \in Runs, NEW log \in Known(r), op = Idle, GetRun(r, log)
      PROVE  /\ log = db[r]
             /\ \A q \in Runs : cache'[q] \in {<<>>, db[q]}
  <2>1. \A q \in Runs : cache[q] \in {<<>>, db[q]}
    BY <1>1 DEF CInv, CacheCoherent, Idle
  <2>2. log = db[r]
    BY <1>1, <2>1 DEF GetRun
  <2>3. cache' = cache \/ cache' = [cache EXCEPT ![r] = log]
    BY <1>1 DEF GetRun, CacheWrite
  <2>4. QED
    BY <2>1, <2>2, <2>3 DEF IInv, TypeOK
<1>2. ASSUME NEW r \in Runs, Snapshot(r)
      PROVE  CInv' /\ [Store!Next]_(Store!vars)
  <2>1. PICK log \in Known(r) : GetRun(r, log) /\ seen' = [seen EXCEPT ![r] = log]
    BY <1>2 DEF Snapshot
  <2>2. op = Idle /\ UNCHANGED <<db, op, writes, lost>>
    BY <1>2 DEF Snapshot
  <2>3. log = db[r] /\ \A q \in Runs : cache'[q] \in {<<>>, db[q]}
    BY <1>1, <2>1, <2>2
  <2>4. CInv'
    BY <2>2, <2>3 DEF CInv, CacheCoherent, Extends, Idle
  <2>5. Store!Read(r)
    BY <2>1, <2>2, <2>3 DEF Store!Read
  <2>6. QED
    BY <2>4, <2>5 DEF Store!Next
<1>3. ASSUME NEW r \in Runs, Update(r)
      PROVE  CInv' /\ UNCHANGED Store!vars
  <2>1. PICK log \in Known(r) :
          /\ GetRun(r, log)
          /\ op' = [step |-> "save", run |-> r,
                    log |-> Append(log, [id |-> writes', sequence |-> Len(log) + 1])]
    BY <1>3 DEF Update
  <2>2. op = Idle /\ UNCHANGED <<db, seen>> /\ writes' \in 1..WriteBound
    BY <1>3, CachedStoreAssumption DEF Update, IInv, TypeOK
  <2>3. log = db[r] /\ \A q \in Runs : cache'[q] \in {<<>>, db[q]}
    BY <1>1, <2>1, <2>2
  <2>4. CacheCoherent'
    BY <2>2, <2>3 DEF CacheCoherent
  <2>5. Extends'
    BY <2>1, <2>2, <2>3 DEF Extends
  <2>6. QED
    BY <2>2, <2>4, <2>5 DEF CInv, Store!vars
<1>4. ASSUME SaveAuthoritative
      PROVE  CInv' /\ [Store!Next]_(Store!vars)
  <2>1. op.step = "save" /\ op.run \in Runs /\ UNCHANGED <<cache, seen>>
    BY <1>4 DEF SaveAuthoritative, IInv, OpOK
  <2>2. (\A q \in Runs : cache[q] \in {<<>>, db[q]}) /\ Extends
    BY <2>1 DEF CInv, CacheCoherent
  <2>3. CASE op' = Idle /\ UNCHANGED <<db, lost>>
    BY <2>1, <2>2, <2>3 DEF CInv, CacheCoherent, Extends, Idle, Store!vars
  <2>4. CASE db' = [db EXCEPT ![op.run] = op.log]
    <3>1. Store!Write(op.run)
      BY <2>1, <2>2, <2>4 DEF Extends, Store!Write
    <3>2. [Store!Next]_(Store!vars)
      BY <2>1, <3>1 DEF Store!Next
    <3>3. CASE op' = [op EXCEPT !.step = "cache"]
      <4>1. op'.step = "cache" /\ op'.run = op.run
        BY <2>1, <3>3 DEF IInv, TypeOK, Idle
      <4>2. \A q \in Runs \ {op.run} : db'[q] = db[q]
        BY <2>4 DEF IInv, TypeOK
      <4>3. QED
        BY <2>1, <2>2, <3>2, <4>1, <4>2 DEF CInv, CacheCoherent, Extends
    <3>4. CASE lost'
      BY <3>2, <3>4 DEF CInv
    <3>5. QED
      BY <1>4, <3>3, <3>4, <2>3 DEF SaveAuthoritative
  <2>5. QED
    BY <1>4, <2>3, <2>4 DEF SaveAuthoritative
<1>5. ASSUME SaveCache
      PROVE  CInv' /\ UNCHANGED Store!vars
  <2>1. op.step = "cache" /\ op.run \in Runs /\ op.log = db[op.run]
    BY <1>5 DEF SaveCache, IInv, OpOK
  <2>2. op' = Idle /\ UNCHANGED <<db, seen>> /\ lost' = (lost \/ cache'[op.run] # op.log)
    BY <1>5 DEF SaveCache
  <2>3. CASE lost'
    BY <2>2, <2>3 DEF CInv, Store!vars
  <2>4. CASE ~lost'
    <3>1. cache'[op.run] = db[op.run]
      BY <2>1, <2>2, <2>4
    <3>2. cache' = cache \/ cache' = [cache EXCEPT ![op.run] = op.log]
      BY <1>5 DEF SaveCache, CacheWrite
    <3>3. \A q \in Runs : cache'[q] \in {<<>>, db[q]}
      BY <2>1, <3>1, <3>2 DEF CInv, CacheCoherent, IInv, TypeOK
    <3>4. QED
      BY <2>2, <3>3 DEF CInv, CacheCoherent, Extends, Idle, Store!vars
  <2>5. QED
    BY <2>3, <2>4
<1>6. ASSUME NEW r \in Runs, Expire(r)
      PROVE  CInv' /\ UNCHANGED Store!vars
  <2>1. UNCHANGED <<db, op, seen>> /\ cache' = [cache EXCEPT ![r] = <<>>]
    BY <1>6 DEF Expire
  <2>2. CacheCoherent'
    BY <2>1 DEF CInv, CacheCoherent, IInv, TypeOK
  <2>3. QED
    BY <2>1, <2>2 DEF CInv, Extends, Store!vars
<1>7. ASSUME Crash
      PROVE  CInv' /\ UNCHANGED Store!vars
  <2>1. op' = Idle /\ UNCHANGED <<db, cache, seen>> /\ lost' = (lost \/ op.step = "cache")
    BY <1>7 DEF Crash
  <2>2. op.step # "cache" => \A q \in Runs : cache'[q] \in {<<>>, db'[q]}
    BY <2>1 DEF CInv, CacheCoherent
  <2>3. QED
    BY <2>1, <2>2 DEF CInv, CacheCoherent, Extends, Idle, Store!vars
<1>8. CASE UNCHANGED vars
  BY <1>8 DEF vars, CInv, CacheCoherent, Extends, Store!vars
<1>9. QED
  BY <1>2, <1>3, <1>4, <1>5, <1>6, <1>7, <1>8 DEF Next

\* A loss is remembered.
LEMMA LossIsRemembered ==
  ASSUME IInv, lost, [Next]_vars
  PROVE  lost'
<1>1. ASSUME NEW r \in Runs, Snapshot(r) \/ Update(r) \/ Expire(r)
      PROVE  lost'
  BY <1>1 DEF Snapshot, Update, Expire
<1>2. CASE SaveAuthoritative \/ SaveCache \/ Crash \/ UNCHANGED vars
  BY <1>2 DEF SaveAuthoritative, SaveCache, Crash, vars
<1>3. QED
  BY <1>1, <1>2 DEF Next

\* The strengthened coherence is preserved, before a loss and after it.
LEMMA NextCInv == IInv /\ CInv /\ [Next]_vars => CInv'
<1> SUFFICES ASSUME IInv, CInv, [Next]_vars PROVE CInv'
  OBVIOUS
<1>1. CASE lost
  BY <1>1, LossIsRemembered DEF CInv
<1>2. CASE ~lost
  BY <1>2, CoherentStep
<1>3. QED
  BY <1>1, <1>2

\* Empty stores agree.
LEMMA InitCInv == Init => CInv /\ Store!Init
BY DEF Init, CInv, CacheCoherent, Extends, Idle, Store!Init

\* Until a committed write misses the cache, the cache agrees with the authority
\* outside a save.
THEOREM Coherent == Spec => []CacheCoherent
<1>1. CInv => CacheCoherent
  BY DEF CInv, CacheCoherent
<1>2. QED
  BY <1>1, InitCInv, NextCInv, Invariance, PTL DEF Spec

\* Until then the authority and the cache implement one store: every write
\* extends the latest log and every snapshot returns it.
THEOREM Implements == Spec => ImplementsStore
<1>1. IInv /\ CInv /\ [Next]_vars => [~lost => Store!Next]_(Store!vars)
  BY CoherentStep
<1>2. QED
  BY <1>1, InitCInv, NextCInv, Invariance, PTL DEF Spec, ImplementsStore
=============================================================================
