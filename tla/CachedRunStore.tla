--------------------------- MODULE CachedRunStore ---------------------------
(***************************************************************************)
(* CachedAgentRunStore (apps/api_gateway/agent_run_coordinator.py:131-217) *)
(* under the coordinator's read-modify-write: a Postgres store that is the *)
(* authority, and a Redis cache in front of it that is read first and      *)
(* written best-effort.                                                    *)
(*                                                                         *)
(* The coordinator's lock makes each operation exclusive, so one operation *)
(* is in progress at a time; only the environment comes between its two    *)
(* writes.  Sessions and message keys go through the same two methods but  *)
(* are written once, so the run records are the keys modelled.  An event   *)
(* is the number of the write that made it and its sequence number.        *)
(***************************************************************************)
EXTENDS Integers, Sequences

CONSTANTS
  Runs,        \* run ids
  Faults,      \* the faults of the environment, out of FaultKinds
  WriteBound   \* bound: writes attempted

FaultKinds ==
  {"read",      \* a cache read raises
   "expire",    \* a cached key expires or is evicted
   "database",  \* the authoritative write raises, nothing is written
   "unknown",   \* the authoritative write is committed, but raises
   "drop",      \* a cache write raises
   "crash"}     \* the process dies; Postgres and Redis do not

ASSUME CachedStoreAssumption ==
  /\ Faults \subseteq FaultKinds
  /\ WriteBound \in Nat

VARIABLES
  db,      \* authoritative: run -> its events, <<>> when it has no row
  cache,   \* cache: run -> its events, <<>> when the key is absent
  op,      \* the read-modify-write in progress and the log it will save
  writes,  \* writes attempted so far
  seen,    \* run -> the events the last snapshot returned
  lost     \* history: a committed write was never put in the cache

vars == <<db, cache, op, writes, seen, lost>>

Event == [id : 1..WriteBound, sequence : Nat]

Idle == [step |-> "idle", run |-> "none", log |-> <<>>]

Failing(kind) == kind \in Faults

\* A best-effort cache write: the exception is swallowed.
CacheWrite(r, log) ==
  \/ cache' = [cache EXCEPT ![r] = log]
  \/ Failing("drop") /\ UNCHANGED cache

\* get_run: a cached record wins; otherwise the row, which refills the cache.
GetRun(r, log) ==
  \/ /\ cache[r] # <<>> /\ log = cache[r]
     /\ UNCHANGED cache
  \/ /\ cache[r] = <<>> \/ Failing("read")
     /\ log = db[r]
     /\ IF log = <<>> THEN UNCHANGED cache ELSE CacheWrite(r, log)

Known(r) == {cache[r], db[r]}

\* snapshot
Snapshot(r) ==
  /\ op = Idle
  /\ \E log \in Known(r) : GetRun(r, log) /\ seen' = [seen EXCEPT ![r] = log]
  /\ UNCHANGED <<db, op, writes, lost>>

\* start_run, append and cancel: read the record and append an event to it.
Update(r) ==
  /\ op = Idle
  /\ writes < WriteBound
  /\ writes' = writes + 1
  /\ \E log \in Known(r) :
       /\ GetRun(r, log)
       /\ op' = [step |-> "save", run |-> r,
                 log |-> Append(log, [id |-> writes', sequence |-> Len(log) + 1])]
  /\ UNCHANGED <<db, seen, lost>>

\* Mutant: the cache is written before the authority.
CacheFirst ==
  /\ op.step = "save"
  /\ CacheWrite(op.run, op.log)
  /\ \/ db' = [db EXCEPT ![op.run] = op.log]
     \/ Failing("database") /\ UNCHANGED db
  /\ op' = Idle
  /\ UNCHANGED <<writes, seen, lost>>

\* save_run, first the authority: its exception reaches the caller.
SaveAuthoritative ==
  /\ op.step = "save"
  /\ \/ /\ db' = [db EXCEPT ![op.run] = op.log]
        /\ op' = [op EXCEPT !.step = "cache"]
        /\ UNCHANGED lost
     \/ /\ Failing("database")
        /\ op' = Idle
        /\ UNCHANGED <<db, lost>>
     \/ /\ Failing("unknown")
        /\ db' = [db EXCEPT ![op.run] = op.log]
        /\ op' = Idle
        /\ lost' = TRUE
  /\ UNCHANGED <<cache, writes, seen>>

\* Mutant: save_run does not write through.
SkipCache ==
  /\ op.step = "cache"
  /\ op' = Idle
  /\ UNCHANGED <<db, cache, writes, seen, lost>>

\* save_run, then the cache.
SaveCache ==
  /\ op.step = "cache"
  /\ CacheWrite(op.run, op.log)
  /\ lost' = (lost \/ cache'[op.run] # op.log)
  /\ op' = Idle
  /\ UNCHANGED <<db, writes, seen>>

Expire(r) ==
  /\ Failing("expire")
  /\ cache[r] # <<>>
  /\ cache' = [cache EXCEPT ![r] = <<>>]
  /\ UNCHANGED <<db, op, writes, seen, lost>>

Crash ==
  /\ Failing("crash")
  /\ op # Idle
  /\ op' = Idle
  /\ lost' = (lost \/ op.step = "cache")
  /\ UNCHANGED <<db, cache, writes, seen>>

Init ==
  /\ db = [r \in Runs |-> <<>>]
  /\ cache = [r \in Runs |-> <<>>]
  /\ op = Idle
  /\ writes = 0
  /\ seen = [r \in Runs |-> <<>>]
  /\ lost = FALSE

Next ==
  \/ \E r \in Runs : Snapshot(r) \/ Update(r) \/ Expire(r)
  \/ SaveAuthoritative \/ SaveCache
  \/ Crash

Spec == Init /\ [][Next]_vars

-----------------------------------------------------------------------------
\* Types: what is stored, saved or returned is a log of events, and between two
\* operations nothing of the last one is left.
TypeOK ==
  /\ db \in [Runs -> Seq(Event)]
  /\ cache \in [Runs -> Seq(Event)]
  /\ op \in [step : {"save", "cache"}, run : Runs, log : Seq(Event)] \cup {Idle}
  /\ writes \in 0..WriteBound
  /\ seen \in [Runs -> Seq(Event)]
  /\ lost \in BOOLEAN

LastId(log) == IF log = <<>> THEN 0 ELSE log[Len(log)].id

\* Whatever fails, the cache holds no event before the authority committed it:
\* it is the authority's log or one that the authority has since moved past.
CacheNeverAhead ==
  \A r \in Runs : LastId(cache[r]) >= LastId(db[r]) => cache[r] \in {<<>>, db[r]}

\* Until a committed write misses the cache, the cache agrees with the authority
\* outside the window of a save, whatever else fails.
CacheCoherent ==
  ~lost =>
    \A r \in Runs : cache[r] \in {<<>>, db[r]} \/ (op.step = "cache" /\ op.run = r)

\* And until then the two stores together behave as one: a write extends the
\* latest log and a snapshot returns it.
Store == INSTANCE RunStore WITH log <- db

ImplementsStore == Store!Init /\ [][~lost => Store!Next]_(Store!vars)

\* A committed write is not undone: the comment on _cache_write says a failed
\* cache write must not roll back the business write.
CommittedWritesSurvive ==
  [][\A r \in Runs : /\ Len(db'[r]) >= Len(db[r])
                     /\ SubSeq(db'[r], 1, Len(db[r])) = db[r]]_vars
=============================================================================
