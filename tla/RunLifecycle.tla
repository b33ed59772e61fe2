---------------------------- MODULE RunLifecycle ----------------------------
(***************************************************************************)
(* What the coordinator promises about one run, with no threads, log or    *)
(* store: the status a user reads from GET /runs/{run_id}.                 *)
(*                                                                         *)
(* Until it is cancelled a run only advances: queued, planning, executing, *)
(* streaming, then completed or failed, which is final.  A cancellation    *)
(* shows "cancelled" at once; the turn's thread may overwrite that with at *)
(* most one late event, and the user may then cancel once more.            *)
(***************************************************************************)
EXTENDS Integers

CONSTANT Runs

VARIABLES
  status,     \* run -> the status shown, "absent" when the run is not stored
  cancelled,  \* run -> has a cancellation been accepted
  late        \* run -> has a thread written after that cancellation

vars == <<status, cancelled, late>>

Final == {"completed", "failed"}
Ongoing == {"queued", "planning", "executing", "streaming"}
Statuses == Final \cup Ongoing \cup {"cancelled"}

Rank(s) == CASE s = "queued" -> 1 [] s = "planning" -> 2 [] s = "executing" -> 3
             [] s = "streaming" -> 4 [] s \in Final -> 5

Init ==
  /\ status = [r \in Runs |-> "absent"]
  /\ cancelled = [r \in Runs |-> FALSE]
  /\ late = [r \in Runs |-> FALSE]

Advance(r) ==
  /\ ~cancelled[r]
  /\ status[r] \in Ongoing
  /\ \E s \in Final \cup Ongoing : /\ Rank(s) > Rank(status[r])
                                   /\ status' = [status EXCEPT ![r] = s]
  /\ UNCHANGED <<cancelled, late>>

Cancel(r) ==
  /\ status[r] \in Ongoing
  /\ status' = [status EXCEPT ![r] = "cancelled"]
  /\ cancelled' = [cancelled EXCEPT ![r] = TRUE]
  /\ UNCHANGED late

LateWrite(r) ==
  /\ cancelled[r] /\ ~late[r]
  /\ \E s \in Statuses \ {"queued"} : status' = [status EXCEPT ![r] = s]
  /\ late' = [late EXCEPT ![r] = TRUE]
  /\ UNCHANGED cancelled

\* The store no longer has the runs of S: evicted, expired, or lost in a restart.
Gone(S) ==
  [r \in Runs |-> IF r \in S THEN "absent" ELSE status[r]]

Forget(S) ==
  /\ status' = Gone(S)
  /\ cancelled' = [r \in Runs |-> cancelled[r] /\ r \notin S]
  /\ late' = [r \in Runs |-> late[r] /\ r \notin S]

\* A new run; the in-memory store evicts its oldest ones (S) in the same step.
Accept(r, S) ==
  /\ status[r] = "absent" /\ r \notin S
  /\ status' = [Gone(S) EXCEPT ![r] = "queued"]
  /\ cancelled' = [q \in Runs |-> cancelled[q] /\ q \notin S]
  /\ late' = [q \in Runs |-> late[q] /\ q \notin S]

Next ==
  \/ \E r \in Runs : Advance(r) \/ Cancel(r) \/ LateWrite(r)
  \/ \E S \in SUBSET Runs : Forget(S) \/ \E r \in Runs : Accept(r, S)

Spec == Init /\ [][Next]_vars
=============================================================================
