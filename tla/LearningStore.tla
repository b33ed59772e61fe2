---------------------------- MODULE LearningStore ----------------------------
(***************************************************************************)
(* The tables behind learning: memories, skill versions, learning          *)
(* candidates and reflection jobs, in one Postgres database shared by the  *)
(* gateway and the reflection worker.                                      *)
(*                                                                         *)
(* Every operation of the services reads some records, computes new ones   *)
(* and stores them whole, each by an upsert of its own: no transaction     *)
(* spans two of them and no upsert looks at what it replaces.  A process   *)
(* with an operation in progress holds the writes it still has to make.    *)
(* Handlers of the gateway do not await between their reads and writes and *)
(* share one event loop, the process "api"; turn threads and the worker    *)
(* come between any two writes.                                            *)
(***************************************************************************)
EXTENDS Integers, Sequences, FiniteSets

CONSTANTS
  Threads,      \* turn threads that recall memories or ask for a reflection
  Jobs,         \* idempotency keys of reflection jobs
  Posted,       \* memory ids a client of the memory API names
  Facts,        \* what a memory of the one fact modelled may say
  Procedures,   \* requests for a version of the one skill modelled
  VersionBound, \* bound: versions of that skill; requests name all but the last
  CallBound     \* bound: calls of the API and of turn threads

\* Gateway and worker are processes of their own, and no reflection job is named as a
\* version is: the keys of skill updates begin with "skill-patch".
ASSUME LearningStoreAssumption ==
  /\ VersionBound \in Nat /\ CallBound \in Nat
  /\ Threads \cap {"api", "worker"} = {}
  /\ Jobs \cap (1..VersionBound) = {}
  /\ Facts # {}

VARIABLES
  row,     \* key -> stored record, NoRow when there is none
  writes,  \* process -> writes of its operation not made yet
  calls,   \* calls so far
  stale    \* history: keys where a write replaced a record its writer had not read

storeVars == <<row, writes, calls, stale>>

Processes == {"api", "worker"} \cup Threads

Proposals == Facts \cup Procedures \cup {"nothing"}

\* A candidate's id is made from its job and proposal, its memory's id from its own.
Candidates == Jobs \X Proposals
MemoryIds == Posted \cup (Jobs \X Facts)
Versions == 1..VersionBound
Named == 1..(VersionBound - 1)

Memory(m) == <<"memory", m>>
Skill(v) == <<"skill", v>>
Candidate(c) == <<"candidate", c>>
Job(j) == <<"job", j>>

Keys == {Memory(m) : m \in MemoryIds} \cup {Skill(v) : v \in Versions}
        \cup {Candidate(c) : c \in Candidates} \cup {Job(j) : j \in Jobs}

NoRow == [status |-> "absent"]

Stored(key) == row[key].status # "absent"

Free(p) == writes[p] = <<>>

\* A write of `new` over the record the writer read.
Change(key, new) == [key |-> key, read |-> row[key], new |-> new]

SetStatus(key, status) == Change(key, [row[key] EXCEPT !.status = status])

\* An operation of p read what it needs and will make these writes.
Begin(p, changes) ==
  /\ Free(p)
  /\ writes' = [writes EXCEPT ![p] = changes]
  /\ UNCHANGED <<row, stale>>

Store(change) ==
  /\ row' = [row EXCEPT ![change.key] = change.new]
  /\ stale' = IF row[change.key] = change.read THEN stale ELSE stale \cup {change.key}

Write(p) ==
  /\ ~Free(p)
  /\ Store(Head(writes[p]))
  /\ writes' = [writes EXCEPT ![p] = Tail(@)]
  /\ UNCHANGED calls

\* A request to the gateway or a turn's call, answered as far as its writes.
Call(p, changes) ==
  /\ calls < CallBound
  /\ calls' = calls + 1
  /\ Begin(p, changes)

\* A write raises, or the process dies: the writes that were left are not made.
Abandon(p) ==
  /\ ~Free(p)
  /\ writes' = [writes EXCEPT ![p] = <<>>]
  /\ UNCHANGED <<row, calls, stale>>

EmptyStore == [key \in Keys |-> NoRow]

\* No process has an operation in progress.
Quiet ==
  /\ writes = [p \in Processes |-> <<>>]
  /\ calls = 0
  /\ stale = {}
=============================================================================
