------------------------------ MODULE RunStore ------------------------------
(***************************************************************************)
(* What AgentRunCoordinator expects of an AgentRunStore                    *)
(* (apps/api_gateway/agent_run_coordinator.py:18-29): the event log of a   *)
(* run is one object, a write extends the latest log and a read returns    *)
(* it.                                                                     *)
(***************************************************************************)
EXTENDS Integers, Sequences

CONSTANTS Runs, WriteBound

VARIABLES
  log,   \* run -> its events, <<>> when the run is not stored
  seen   \* run -> the events the last reader was shown

vars == <<log, seen>>

Init ==
  /\ log = [r \in Runs |-> <<>>]
  /\ seen = [r \in Runs |-> <<>>]

Write(r) ==
  /\ \E id \in 1..WriteBound :
       log' = [log EXCEPT ![r] = Append(@, [id |-> id, sequence |-> Len(@) + 1])]
  /\ UNCHANGED seen

Read(r) ==
  /\ seen' = [seen EXCEPT ![r] = log[r]]
  /\ UNCHANGED log

Next == \E r \in Runs : Write(r) \/ Read(r)

Spec == Init /\ [][Next]_vars
=============================================================================
