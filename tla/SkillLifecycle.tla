--------------------------- MODULE SkillLifecycle ---------------------------
(***************************************************************************)
(* SkillLifecycleService, SkillMetaTools and evaluate                      *)
(* (packages/skills/) and the handlers over them (routers/skills.py), for  *)
(* the versions of one skill, with auto_promote_low_risk off, its default  *)
(* (apps/composition.py).                                                  *)
(***************************************************************************)
EXTENDS LearningStore

SkillStatuses == {"draft", "candidate", "failed", "active", "superseded", "suspended"}

IsActive(v) == row[Skill(v)].status = "active"
ActiveVersions == {v \in Versions : IsActive(v)}

Draft(risk, tests, key) ==
  [status |-> "draft", risk |-> risk, tests |-> tests, evaluated |-> FALSE,
   approval |-> "none", key |-> key]

\* A posted draft brings no evaluation or approval; create_draft
\* stores it whatever the table holds at its version.
CreateDraft(v, risk, tests) ==
  Call("api", <<Change(Skill(v), Draft(risk, tests, {}))>>)

\* skill_update: a new version from an older one; repeating it changes nothing.
UpdateSkill(v, next, risk, tests) ==
  /\ Stored(Skill(v))
  /\ v < next
  /\ \A u \in Versions : Stored(Skill(u)) => row[Skill(u)].key # {<<v, next>>}
  /\ Call("api", <<Change(Skill(next), Draft(risk, tests, {<<v, next>>}))>>)

Evaluated(v) ==
  [row[Skill(v)] EXCEPT !.status = IF row[Skill(v)].tests THEN "candidate" ELSE "failed",
                        !.evaluated = TRUE]

\* evaluate looks at no status.
EvaluateSkill(v) ==
  /\ Stored(Skill(v))
  /\ Call("api", <<Change(Skill(v), Evaluated(v))>>)

\* Mutant: the versions that are active stay so.
ActivateAlongside(v) ==
  /\ row[Skill(v)].status = "candidate"
  /\ row[Skill(v)].risk = "low" \/ row[Skill(v)].approval = "approved"
  /\ Call("api", <<SetStatus(Skill(v), "active")>>)

\* The writes that make v active: first every other active version is superseded.
Activation(v) ==
  LET others == ActiveVersions \ {v}
      Nth(i) == CHOOSE u \in others : Cardinality({w \in others : w < u}) = i - 1
  IN [i \in 1..Cardinality(others) |-> SetStatus(Skill(Nth(i)), "superseded")]
     \o <<SetStatus(Skill(v), "active")>>

\* activate_admin; a candidate has been evaluated and has passed its tests.
ActivateSkill(v) ==
  /\ row[Skill(v)].status = "candidate"
  /\ row[Skill(v)].risk = "low" \/ row[Skill(v)].approval = "approved"
  /\ Call("api", Activation(v))

\* rollback, from the active version to any version that was ever evaluated.
RollbackSkill(v, target) ==
  /\ IsActive(v)
  /\ Stored(Skill(target)) /\ row[Skill(target)].evaluated
  /\ Call("api", <<SetStatus(Skill(v), "superseded"), SetStatus(Skill(target), "active")>>)

RequestApproval(v) ==
  /\ Stored(Skill(v))
  /\ Call("api", <<Change(Skill(v), [row[Skill(v)] EXCEPT !.approval = "pending"])>>)

DecideApproval(v, decision) ==
  /\ Stored(Skill(v)) /\ row[Skill(v)].approval = "pending"
  /\ Call("api", <<Change(Skill(v), [row[Skill(v)] EXCEPT !.approval = decision])>>)

\* A version that is not active is stored as it was read.
SuspendSkill(v) ==
  /\ Stored(Skill(v))
  /\ Call("api", <<SetStatus(Skill(v), IF IsActive(v) THEN "suspended" ELSE row[Skill(v)].status)>>)

SkillStep ==
  \E v \in Versions :
    \/ \E u \in Named, risk \in {"low", "high"}, tests \in BOOLEAN :
         CreateDraft(u, risk, tests) \/ UpdateSkill(v, u, risk, tests)
    \/ \E u \in Versions : RollbackSkill(v, u)
    \/ EvaluateSkill(v) \/ ActivateSkill(v) \/ SuspendSkill(v) \/ RequestApproval(v)
    \/ \E decision \in {"approved", "rejected"} : DecideApproval(v, decision)

-----------------------------------------------------------------------------
\* However versions are drafted over each other, evaluated by the worker while they
\* are activated, suspended and rolled back, with a failure between any two writes,
\* at most one version of a skill is active.
OneActiveVersion == Cardinality(ActiveVersions) <= 1
=============================================================================
