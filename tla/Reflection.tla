----------------------------- MODULE Reflection -----------------------------
(***************************************************************************)
(* The reflection queue and its worker (packages/reflection/service.py,    *)
(* apps/reflection_worker/main.py) over the memory and skill lifecycles:   *)
(* turns and users ask for a reflection, the worker turns a job into a     *)
(* candidate and the candidate into a memory or a skill version, and a     *)
(* user reviews the candidate.                                             *)
(*                                                                         *)
(* What a job proposes is decided by the rules of the classifier from the  *)
(* job's trigger, payload and traces; a job carries its proposal.  There   *)
(* is one worker, restarted when it dies.                                  *)
(***************************************************************************)
EXTENDS MemoryLifecycle, SkillLifecycle, FiniteSetsExt

CONSTANTS
  MaxAttempts,  \* ReflectionJob.max_attempts
  CrashBound    \* bound: deaths of the worker

ASSUME ReflectionAssumption ==
  /\ MaxAttempts \in Nat \ {0} /\ CrashBound \in Nat

VARIABLES
  wk,      \* the job the worker processes, its copies and how far it is
  crashes  \* deaths of the worker so far

learnVars == <<storeVars, wk, crashes>>

JobStatuses == {"pending", "running", "retry_scheduled", "completed", "failed"}
CandidateStatuses == {"candidate", "materialized", "approved", "rejected"}

Resting == [pc |-> "idle"]

Working(pc) == wk.pc = pc /\ Free("worker")
Goto(pc) == wk' = [wk EXCEPT !.pc = pc]

Asked(proposal) == [status |-> "pending", attempts |-> 0, proposal |-> proposal]

\* enqueue: a job of this key is returned; otherwise it is stored as pending.
Enqueue(p, j, proposal) ==
  /\ Call(p, IF Stored(Job(j)) THEN <<>> ELSE <<Change(Job(j), Asked(proposal))>>)
  /\ UNCHANGED <<wk, crashes>>

\* review_candidate, whatever the candidate's status.
Review(c, decision) ==
  /\ Stored(Candidate(c))
  /\ Call("api", <<SetStatus(Candidate(c), decision)>>)
  /\ UNCHANGED <<wk, crashes>>

-----------------------------------------------------------------------------
(***************************************************************************)
(* The worker.                                                             *)
(***************************************************************************)
\* The worker stores `new` over what it last read of the record.
Save(key, read, new) ==
  /\ Store([key |-> key, read |-> read, new |-> new])
  /\ UNCHANGED <<writes, calls, crashes>>

\* run_pending and the first step of _process: the job is stored as running.
Take(j) ==
  /\ wk = Resting
  /\ row[Job(j)].status \in {"pending", "retry_scheduled"}
  /\ LET running == [row[Job(j)] EXCEPT !.status = "running"]
     IN /\ Save(Job(j), row[Job(j)], running)
        /\ wk' = [pc |-> "classifying", job |-> j, record |-> running, version |-> 0,
                  id |-> <<j, running.proposal>>, read |-> NoRow, copy |-> NoRow]

\* Mutant: only the job's own candidate is looked up.
SameProposalOwn(c) == {d \in {c} : Stored(Candidate(d))}

\* A stored candidate of the same key, or of the same proposal by another job.
SameProposal(c) == {d \in Candidates : Stored(Candidate(d)) /\ d[2] = c[2]}

\* Mutant: a candidate that was decided before is made once more.
ProposeAgain ==
  /\ Working("classifying")
  /\ \/ /\ SameProposal(wk.id) = {}
        /\ Save(Candidate(wk.id), NoRow, [status |-> "candidate", made |-> FALSE])
        /\ wk' = [wk EXCEPT !.pc = "making"]
     \/ /\ \E c \in SameProposal(wk.id) :
             wk' = [wk EXCEPT !.id = c, !.read = row[Candidate(c)], !.pc = "making"]
        /\ UNCHANGED <<storeVars, crashes>>

\* The candidate of this proposal, stored unless there is one.
Propose ==
  LET new == [status |-> "candidate", made |-> FALSE]
      Continue(c, copy) ==
        wk' = [wk EXCEPT !.id = c, !.read = copy, !.copy = copy,
                         !.pc = IF copy.status = "candidate" THEN "making" ELSE "saving"]
  IN /\ Working("classifying")
     /\ \/ /\ SameProposal(wk.id) = {}
           /\ Save(Candidate(wk.id), NoRow, new)
           /\ Continue(wk.id, new)
        \/ /\ \E c \in SameProposal(wk.id) : Continue(c, row[Candidate(c)])
           /\ UNCHANGED <<storeVars, crashes>>

\* _materialize: the candidate's copy as it will be stored.
Made(status, made) == [wk EXCEPT !.pc = "saving", !.copy = [status |-> status, made |-> made]]

MaterializeNothing ==
  /\ Working("making")
  /\ wk.id[2] = "nothing"
  /\ wk' = Made("rejected", FALSE)
  /\ UNCHANGED <<storeVars, crashes>>

MaterializeMemory ==
  /\ Working("making")
  /\ wk.id[2] \in Facts
  /\ Begin("worker", CreateChanges(wk.id, wk.id[2], {wk.id}, {}))
  /\ wk' = Made("materialized", TRUE)
  /\ UNCHANGED <<calls, crashes>>

\* The version this candidate was drafted as.
Drafted(c) == {v \in Versions : Stored(Skill(v)) /\ row[Skill(v)].key = {c}}

NextVersion == Max({0} \cup {v \in Versions : Stored(Skill(v))}) + 1

\* Mutant: a draft made for this candidate before is not looked up.
DraftSkillAnew ==
  /\ Working("making")
  /\ wk.id[2] \in Procedures
  /\ NextVersion \in Versions
  /\ Begin("worker", <<Change(Skill(NextVersion), Draft("high", TRUE, {wk.id}))>>)
  /\ wk' = [wk EXCEPT !.pc = "evaluating", !.version = NextVersion]
  /\ UNCHANGED <<calls, crashes>>

DraftSkill ==
  /\ Working("making")
  /\ wk.id[2] \in Procedures
  /\ \/ /\ Drafted(wk.id) = {}
        /\ NextVersion \in Versions
        /\ Begin("worker", <<Change(Skill(NextVersion), Draft("high", TRUE, {wk.id}))>>)
        /\ wk' = [wk EXCEPT !.pc = "evaluating", !.version = NextVersion]
     \/ /\ \E v \in Drafted(wk.id) : wk' = [wk EXCEPT !.pc = "evaluating", !.version = v]
        /\ UNCHANGED <<row, writes, stale>>
  /\ UNCHANGED <<calls, crashes>>

\* Whatever became of that version since.
EvaluateDraft ==
  /\ Working("evaluating")
  /\ Begin("worker", <<Change(Skill(wk.version), Evaluated(wk.version))>>)
  /\ wk' = Made("materialized", TRUE)
  /\ UNCHANGED <<calls, crashes>>

\* Mutant: the candidate is not stored again.
SaveCandidateNot ==
  /\ Working("saving")
  /\ Goto("completing")
  /\ UNCHANGED <<storeVars, crashes>>

SaveCandidate ==
  /\ Working("saving")
  /\ Save(Candidate(wk.id), wk.read, wk.copy)
  /\ Goto("completing")

CompleteJob ==
  /\ Working("completing")
  /\ Save(Job(wk.job), wk.record, [wk.record EXCEPT !.status = "completed"])
  /\ wk' = Resting

\* An exception anywhere in the try block; writes not made yet are left.
Raise ==
  /\ wk # Resting /\ wk.pc # "failing"
  /\ writes' = [writes EXCEPT !["worker"] = <<>>]
  /\ Goto("failing")
  /\ UNCHANGED <<row, calls, stale, crashes>>

\* Mutant: the last attempt is retried as well.
FailAlways ==
  /\ Working("failing")
  /\ Save(Job(wk.job), wk.record, [wk.record EXCEPT !.status = "retry_scheduled"])
  /\ wk' = Resting

Fail ==
  LET attempts == wk.record.attempts + 1
  IN /\ Working("failing")
     /\ Save(Job(wk.job), wk.record,
             [wk.record EXCEPT !.attempts = attempts,
                !.status = IF attempts < MaxAttempts THEN "retry_scheduled" ELSE "failed"])
     /\ wk' = Resting

\* The worker dies, by itself or because storing the failure raised; it restarts.
Crash ==
  /\ wk # Resting
  /\ crashes < CrashBound
  /\ crashes' = crashes + 1
  /\ wk' = Resting
  /\ writes' = [writes EXCEPT !["worker"] = <<>>]
  /\ UNCHANGED <<row, calls, stale>>

-----------------------------------------------------------------------------
\* What earlier operations may have left: nothing yet; a memory and a skill version
\* in use; the next memory, resolved against that one, and the next version as well.
Held(fact, status, supersedes) ==
  [status |-> status, fact |-> fact, key |-> {}, conflictsWith |-> supersedes,
   supersedes |-> supersedes]

Passed(status, risk) == [Draft(risk, TRUE, {}) EXCEPT !.status = status, !.evaluated = TRUE]

\* Which of the memories and facts these are makes no difference.
m1 == CHOOSE m \in Posted : TRUE
f1 == CHOOSE fact \in Facts : TRUE

InUse ==
  [EmptyStore EXCEPT ![Memory(m1)] = Held(f1, "active", {}),
                     ![Skill(1)] = Passed("active", "low")]

InReserve ==
  {[InUse EXCEPT ![Memory(m)] = Held(fact, "validated", {m1}),
                 ![Skill(2)] = Passed("candidate", "low")] :
     m \in Posted \ {m1}, fact \in Facts \ {f1}}

Init ==
  /\ row \in {EmptyStore, InUse} \cup InReserve
  /\ Quiet
  /\ wk = Resting
  /\ crashes = 0

WorkerStep ==
  \/ \E j \in Jobs : Take(j)
  \/ Propose \/ MaterializeNothing \/ MaterializeMemory \/ DraftSkill \/ EvaluateDraft
  \/ SaveCandidate \/ CompleteJob \/ Fail

Next ==
  \/ (MemoryStep \/ SkillStep \/ (\E p \in Processes : Write(p))
      \/ \E p \in Processes \ {"worker"} : Abandon(p)) /\ UNCHANGED <<wk, crashes>>
  \/ \E p \in Processes \ {"worker"}, j \in Jobs, proposal \in Proposals : Enqueue(p, j, proposal)
  \/ \E c \in Candidates, decision \in {"approved", "rejected"} : Review(c, decision)
  \/ WorkerStep \/ Raise \/ Crash

Spec == Init /\ [][Next]_learnVars

\* The worker polls and its calls return or raise.
Fairness == WF_learnVars(WorkerStep) /\ WF_learnVars(Write("worker") /\ UNCHANGED <<wk, crashes>>)

FairSpec == Spec /\ Fairness

-----------------------------------------------------------------------------
MemoryRow ==
  [status : MemoryStatuses, fact : Facts, key : SUBSET Candidates,
   conflictsWith : SUBSET MemoryIds, supersedes : SUBSET MemoryIds]

SkillRow ==
  [status : SkillStatuses, risk : {"low", "high"}, tests : BOOLEAN, evaluated : BOOLEAN,
   approval : {"none", "pending", "approved", "rejected"},
   key : SUBSET (Candidates \cup (Versions \X Versions))]

CandidateRow == [status : CandidateStatuses, made : BOOLEAN]
JobRow == [status : JobStatuses, attempts : 0..MaxAttempts, proposal : Proposals]

\* Types: each table holds records of its own kind, and the worker stands at a step.
TypeOK ==
  /\ DOMAIN row = Keys
  /\ \A m \in MemoryIds : Stored(Memory(m)) => row[Memory(m)] \in MemoryRow
  /\ \A v \in Versions : Stored(Skill(v)) => row[Skill(v)] \in SkillRow
  /\ \A c \in Candidates : Stored(Candidate(c)) => row[Candidate(c)] \in CandidateRow
  /\ \A j \in Jobs : Stored(Job(j)) => row[Job(j)] \in JobRow
  /\ DOMAIN writes = Processes
  /\ wk.pc \in {"idle", "classifying", "making", "evaluating", "saving", "completing", "failing"}
  /\ stale \subseteq Keys /\ calls \in 0..CallBound /\ crashes \in 0..CrashBound

\* Worker and requests together keep one active memory of a fact and one active
\* version of a skill.
OneActiveRecord == OneActiveMemory /\ OneActiveVersion

\* A completed job has left its proposal decided: materialized, reviewed or dropped,
\* never a mere candidate, whatever was retried, repeated or cut off before.
CompletedIsDecided ==
  \A j \in Jobs : row[Job(j)].status = "completed" =>
    \E c \in SameProposal(<<j, row[Job(j)].proposal>>) : row[Candidate(c)].status # "candidate"

\* Retries, crashes, repeated jobs and jobs that propose the same learn a proposal
\* once: one candidate, one skill version drafted for it.
LearnedOnce ==
  \A proposal \in Proposals :
    LET made == {c \in Candidates : c[2] = proposal /\ Stored(Candidate(c))}
    IN Cardinality(made) <= 1 /\ \A c \in made : Cardinality(Drafted(c)) <= 1

\* The gateway stores a review of c made of one of these copies.
ReviewStores(c, copies) ==
  /\ writes["api"] # <<>>
  /\ Head(writes["api"]).key = Candidate(c) /\ Head(writes["api"]).read \in copies
  /\ writes'["api"] = Tail(writes["api"])

\* The worker stores what it made of c, which it had read as one of these copies.
WorkerStores(c, copies) ==
  wk.pc = "saving" /\ wk.id = c /\ wk.read \in copies /\ wk'.pc = "completing"

DecidedOtherwise(decision) == {r \in CandidateRow : r.status # decision}
Unmade == {r \in CandidateRow : ~r.made}

\* A decision on a candidate gives way only to another review, or to a worker that read the
\* candidate before it was decided so and stores its copy after; no retry, repeated job or
\* restart that comes to it later takes it back.  A candidate forgets what it became only
\* if a writer had read it before.
ReviewStands ==
  [][\A c \in Candidates :
       /\ \A decision \in {"approved", "rejected"} :
            row[Candidate(c)].status = decision =>
              \/ row'[Candidate(c)].status = decision
              \/ ReviewStores(c, CandidateRow)
              \/ WorkerStores(c, DecidedOtherwise(decision))
       /\ Stored(Candidate(c)) /\ row[Candidate(c)].made =>
            \/ row'[Candidate(c)].made
            \/ ReviewStores(c, Unmade) \/ WorkerStores(c, Unmade)]_learnVars

\* Every job comes to an end, unless the worker died on it.
JobsSettle ==
  \A j \in Jobs :
    row[Job(j)].status = "pending" ~>
      \/ row[Job(j)].status \in {"completed", "failed"}
      \/ row[Job(j)].status = "running" /\ (wk = Resting \/ wk.job # j)
=============================================================================
