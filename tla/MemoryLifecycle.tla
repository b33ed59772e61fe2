--------------------------- MODULE MemoryLifecycle ---------------------------
(***************************************************************************)
(* MemoryService (packages/memory/service.py) and the handlers over it     *)
(* (routers/memories.py), for the memories of one fact: records of the     *)
(* same tenant, site, user, project, agent, asset and type that carry the  *)
(* same fact_key.  Two memories of a fact differ in what they say; a       *)
(* memory without a fact_key conflicts with none.                          *)
(***************************************************************************)
EXTENDS LearningStore

MemoryStatuses == {"candidate", "validated", "active", "conflicted", "superseded",
                   "rejected", "expired"}

Says(m) == row[Memory(m)].fact
HasStatus(m, status) == row[Memory(m)].status = status
ActiveMemories == {m \in MemoryIds : HasStatus(m, "active")}

NewMemory(m, fact, key, supersedes) ==
  LET conflicts == {n \in ActiveMemories : Says(n) # fact}
  IN [status |-> IF conflicts # {} \/ (Stored(Memory(m)) /\ Says(m) # fact)
                 THEN "conflicted" ELSE "candidate",
      fact |-> fact, key |-> key, conflictsWith |-> conflicts, supersedes |-> supersedes]

\* The memory create_candidate returns instead of storing a new one: one of the
\* same idempotency key or of the same content, whatever became of it.
Existing(fact, key) ==
  {n \in MemoryIds : /\ Stored(Memory(n))
                     /\ (key # {} /\ row[Memory(n)].key = key) \/ Says(n) = fact}

CreateChanges(m, fact, key, supersedes) ==
  IF Existing(fact, key) # {} THEN <<>>
  ELSE <<Change(Memory(m), NewMemory(m, fact, key, supersedes))>>

\* A posted memory may name one that it supersedes; it comes without an idempotency key.
CreateMemory(m, fact, supersedes) == Call("api", CreateChanges(m, fact, {}, supersedes))

Validate(m) ==
  /\ HasStatus(m, "candidate")
  /\ Call("api", <<SetStatus(Memory(m), "validated")>>)

\* Mutant: an active memory of the same fact is no obstacle.
PromoteAnyway(m) ==
  /\ HasStatus(m, "validated")
  /\ Call("api", <<SetStatus(Memory(m), "active")>>)

\* promote and activate; the memory it supersedes is stored first.
Promote(m) ==
  LET previous == row[Memory(m)].supersedes
  IN /\ HasStatus(m, "validated")
     /\ \/ /\ previous = {}
           /\ ActiveMemories \ {m} = {}
           /\ Call("api", <<SetStatus(Memory(m), "active")>>)
        \/ \E n \in previous \cap ActiveMemories :
             Call("api", <<SetStatus(Memory(n), "superseded"),
                           SetStatus(Memory(m), "active")>>)

Resolve(m, n) ==
  /\ HasStatus(m, "conflicted")
  /\ n \in row[Memory(m)].conflictsWith
  /\ HasStatus(n, "active")
  /\ Call("api", <<Change(Memory(m), [row[Memory(m)] EXCEPT !.status = "validated",
                                                            !.supersedes = {n}])>>)

\* Whatever the status of the memory it restores.
RollbackMemory(m) ==
  /\ HasStatus(m, "active")
  /\ \E n \in row[Memory(m)].supersedes :
       /\ Stored(Memory(n))
       /\ Call("api", <<SetStatus(Memory(m), "superseded"),
                        SetStatus(Memory(n), "active")>>)

\* reject and expire look at no status, and neither does delete.
Withdraw(m) ==
  /\ Stored(Memory(m))
  /\ \E status \in {"rejected", "expired"} :
       Call("api", <<SetStatus(Memory(m), status)>>)

DeleteMemory(m) ==
  /\ Stored(Memory(m))
  /\ Call("api", <<Change(Memory(m), NoRow)>>)

\* search: a turn thread stores each memory it found with its recall counted.
Recall(t, m) ==
  /\ m \in ActiveMemories
  /\ Call(t, <<Change(Memory(m), row[Memory(m)])>>)

MemoryStep ==
  \E m \in MemoryIds :
    \/ m \in Posted /\ \E fact \in Facts, supersedes \in {{}} \cup {{n} : n \in Posted} :
                        CreateMemory(m, fact, supersedes)
    \/ Validate(m) \/ Promote(m) \/ RollbackMemory(m) \/ Withdraw(m) \/ DeleteMemory(m)
    \/ \E n \in MemoryIds : Resolve(m, n)
    \/ \E t \in Threads : Recall(t, m)

-----------------------------------------------------------------------------
\* However memories are created, superseded, rolled back, withdrawn and recalled, at
\* most one of a fact is active; two are only after some write replaced a memory that
\* its writer had not read, such as the recall count of a memory superseded meanwhile.
\* Which two need not be the one it replaced: what is revived may be superseded again.
OneActiveMemory ==
  \A m, n \in ActiveMemories : m = n \/ \E k \in MemoryIds : Memory(k) \in stale
=============================================================================
