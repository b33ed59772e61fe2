-------------------------- MODULE ReflectionProofs --------------------------
(***************************************************************************)
(* Proofs about Reflection for every value of its constants: what requests *)
(* and the worker, each storing whole records it read earlier, leave of    *)
(* the memories, the skill versions, the candidates and the jobs.          *)
(***************************************************************************)
EXTENDS Reflection, IterationTheorems, SequenceTheorems, FiniteSetTheorems, TLAPS

(***************************************************************************)
(* The inductive invariant.                                                *)
(*                                                                         *)
(* An operation in progress holds records it read before, so what it may   *)
(* still write belongs to the invariant.  The gateway is one process and   *)
(* alone makes records active: the list it holds passes that on from one   *)
(* record to the next.  The worker alone makes candidates and drafts, and  *)
(* a request that still holds a copy of a draft cannot bring back another. *)
(***************************************************************************)
MemoryKeys == {Memory(m) : m \in MemoryIds}
SkillKeys == {Skill(v) : v \in Versions}
CandidateKeys == {Candidate(c) : c \in Candidates}
JobKeys == {Job(j) : j \in Jobs}

Rows == {NoRow} \cup MemoryRow \cup SkillRow \cup CandidateRow \cup JobRow

\* A record of a table; an undecided candidate has made nothing, and a job that is
\* to be taken has attempts left.
Fits(key, r) ==
  \/ r = NoRow
  \/ key \in MemoryKeys /\ r \in MemoryRow
  \/ key \in SkillKeys /\ r \in SkillRow
  \/ key \in CandidateKeys /\ r \in CandidateRow /\ (r.made => r.status # "candidate")
  \/ /\ key \in JobKeys /\ r \in JobRow
     /\ r.status \in {"pending", "retry_scheduled"} => r.attempts < MaxAttempts

Changes == [key : Keys, read : Rows, new : Rows]

\* Only memories are deleted.
Fitting(c) == Fits(c.key, c.new) /\ (c.key \notin MemoryKeys => c.new # NoRow)

Work ==
  [pc : {"classifying", "making", "evaluating", "saving", "completing", "failing"},
   job : Jobs, record : JobRow, version : 0..VersionBound, id : Candidates,
   read : CandidateRow \cup {NoRow}, copy : CandidateRow \cup {NoRow}]

Typed ==
  /\ row \in [Keys -> Rows] /\ \A key \in Keys : Fits(key, row[key])
  /\ writes \in [Processes -> Seq(Changes)]
  /\ wk \in {Resting} \cup Work
  /\ stale \subseteq Keys /\ calls \in 0..CallBound /\ crashes \in 0..CrashBound

Active(key) == row[key].status = "active"

OneActive(K) == \A k, l \in K : Active(k) /\ Active(l) => k = l

\* What the list w activates last is then the only active record of K.
HandsOver(w, K) ==
  \A i \in 1..Len(w) :
    w[i].key \in K /\ w[i].new.status = "active" =>
      i = Len(w) /\ \A k \in K : Active(k) => k \in {w[i].key, w[1].key}

MemoryFresh == \A k \in MemoryKeys : k \notin stale

\* A change the gateway may hold: a review keeps what the candidate made, and a copy
\* of a draft is of a version that is still that draft.
Requested(c) ==
  /\ c \in Changes /\ Fitting(c)
  /\ c.key \in CandidateKeys =>
       /\ Stored(c.key) /\ c.read \in CandidateRow
       /\ c.new.status \in {"approved", "rejected"} /\ c.new.made = c.read.made
  /\ c.key \in JobKeys => c.new.status = "pending"
  /\ \A v \in Versions, x \in Candidates :
       c.key = Skill(v) /\ c.new.key = {x} => v \in Drafted(x)

ApiOK(w) ==
  /\ Len(w) \in 0..2
  /\ \A i \in 1..Len(w) : Requested(w[i])
  /\ \A i, j \in 1..Len(w) :
       w[i].key \in SkillKeys /\ w[i].key = w[j].key => w[i].new.key = w[j].new.key
  /\ MemoryFresh => HandsOver(w, MemoryKeys)
  /\ HandsOver(w, SkillKeys)

\* A turn thread stores recalled memories as it read them, or a new job.
ThreadOK(w) ==
  /\ Len(w) \in 0..1
  /\ \A i \in 1..Len(w) :
       /\ w[i] \in Changes /\ Fitting(w[i])
       /\ \/ w[i].key \in MemoryKeys /\ w[i].new = w[i].read
          \/ w[i].key \in JobKeys /\ w[i].new.status = "pending"

\* The worker activates nothing, drafts a candidate once, and evaluates a draft as such.
Worked(c) ==
  /\ c \in Changes /\ Fitting(c)
  /\ c.key \in MemoryKeys \cup SkillKeys /\ c.new.status # "active"
  /\ c.key \in SkillKeys => \A x \in Candidates : \A v \in Drafted(x) :
       /\ c.new.key = {x} => c.key = Skill(v)
       /\ c.key = Skill(v) => c.new.key = {x}

WorkerOK(w) ==
  /\ Len(w) \in 0..1
  /\ \A i \in 1..Len(w) : Worked(w[i])

\* What the worker knows of the candidate and the version it is at.
WkOK ==
  wk # Resting =>
    /\ wk.id[2] = wk.record.proposal
    /\ wk.record.attempts < MaxAttempts
    /\ wk.pc \in {"making", "evaluating", "saving"} =>
         wk.read \in CandidateRow /\ (wk.read.made => wk.read.status # "candidate")
    /\ wk.pc \in {"making", "evaluating", "saving", "completing"} => Stored(Candidate(wk.id))
    /\ wk.pc \in {"making", "evaluating"} => wk.read.status = "candidate"
    /\ wk.pc = "evaluating" =>
         /\ wk.version \in Versions
         /\ \/ Stored(Skill(wk.version))
            \/ writes["worker"] # <<>> /\ writes["worker"][1].key = Skill(wk.version)
    /\ wk.pc = "saving" =>
         /\ wk.copy \in CandidateRow /\ wk.copy.status # "candidate"
         /\ wk.read.status # "candidate" => wk.copy = wk.read
    /\ wk.pc = "completing" => row[Candidate(wk.id)].status # "candidate"

\* The worker waits for its writes where it evaluates or saves.
WkWaits ==
  writes["worker"] # <<>> => wk # Resting /\ wk.pc \in {"evaluating", "saving"}

OneCandidate ==
  \A c, d \in Candidates :
    Stored(Candidate(c)) /\ Stored(Candidate(d)) /\ c[2] = d[2] => c = d

OneDraft == \A c \in Candidates : \A v, w \in Drafted(c) : v = w

Decided ==
  \A j \in Jobs : row[Job(j)].status = "completed" =>
    \E c \in Candidates :
      /\ Stored(Candidate(c)) /\ c[2] = row[Job(j)].proposal
      /\ row[Candidate(c)].status # "candidate"

StoreOK ==
  /\ MemoryFresh => OneActive(MemoryKeys)
  /\ OneActive(SkillKeys)
  /\ OneCandidate /\ OneDraft /\ Decided

ListsOK == ApiOK(writes["api"]) /\ (\A t \in Threads : ThreadOK(writes[t])) /\ WorkerOK(writes["worker"])

IInv == Typed /\ StoreOK /\ ListsOK /\ WkOK /\ WkWaits

-----------------------------------------------------------------------------
(***************************************************************************)
(* Keys and records.                                                       *)
(***************************************************************************)
LEMMA KeyKinds ==
  /\ \A m \in MemoryIds : Memory(m) \in MemoryKeys
  /\ \A v \in Versions : Skill(v) \in SkillKeys
  /\ \A c \in Candidates : Candidate(c) \in CandidateKeys
  /\ \A j \in Jobs : Job(j) \in JobKeys
  /\ \A m, n : Memory(m) = Memory(n) => m = n
  /\ \A v, w : Skill(v) = Skill(w) => v = w
  /\ \A c, d : Candidate(c) = Candidate(d) => c = d
  /\ \A i, j : Job(i) = Job(j) => i = j
  /\ Keys = MemoryKeys \cup SkillKeys \cup CandidateKeys \cup JobKeys
  BY DEF Memory, Skill, Candidate, Job, MemoryKeys, SkillKeys, CandidateKeys, JobKeys, Keys

LEMMA KindsApart ==
  /\ \A k \in MemoryKeys : k \notin SkillKeys /\ k \notin CandidateKeys /\ k \notin JobKeys
  /\ \A k \in SkillKeys : k \notin MemoryKeys /\ k \notin CandidateKeys /\ k \notin JobKeys
  /\ \A k \in CandidateKeys : k \notin MemoryKeys /\ k \notin SkillKeys /\ k \notin JobKeys
  /\ \A k \in JobKeys : k \notin MemoryKeys /\ k \notin SkillKeys /\ k \notin CandidateKeys
  BY DEF Memory, Skill, Candidate, Job, MemoryKeys, SkillKeys, CandidateKeys, JobKeys

\* What is stored under a key is a record of its table.
LEMMA Tables ==
  ASSUME NEW key, NEW r, Fits(key, r), r # NoRow
  PROVE  /\ r.status # "absent"
         /\ key \in MemoryKeys => r \in MemoryRow
         /\ key \in SkillKeys => r \in SkillRow
         /\ key \in CandidateKeys => r \in CandidateRow /\ (r.made => r.status # "candidate")
         /\ key \in JobKeys =>
              /\ r \in JobRow
              /\ r.status \in {"pending", "retry_scheduled"} => r.attempts < MaxAttempts
<1>1. /\ r \in MemoryRow => r.status # "absent"
      /\ r \in SkillRow => r.status # "absent"
      /\ r \in CandidateRow => r.status # "absent"
      /\ r \in JobRow => r.status # "absent"
  BY DEF MemoryRow, SkillRow, CandidateRow, JobRow, MemoryStatuses, SkillStatuses,
     CandidateStatuses, JobStatuses
<1>2. QED
  BY <1>1, KindsApart DEF Fits

LEMMA StoredRows ==
  ASSUME Typed
  PROVE  /\ \A k \in Keys : ~Stored(k) => row[k] = NoRow
         /\ \A m \in MemoryIds : Stored(Memory(m)) => row[Memory(m)] \in MemoryRow
         /\ \A v \in Versions : Stored(Skill(v)) => row[Skill(v)] \in SkillRow
         /\ \A c \in Candidates : Stored(Candidate(c)) =>
              /\ row[Candidate(c)] \in CandidateRow
              /\ row[Candidate(c)].made => row[Candidate(c)].status # "candidate"
         /\ \A j \in Jobs : Stored(Job(j)) =>
              /\ row[Job(j)] \in JobRow
              /\ row[Job(j)].status \in {"pending", "retry_scheduled"} =>
                   row[Job(j)].attempts < MaxAttempts
<1>1. NoRow.status = "absent"
  BY DEF NoRow
<1>2. \A k \in Keys : Fits(k, row[k])
  BY DEF Typed
<1>3. \A k \in Keys : ~Stored(k) => row[k] = NoRow
  BY <1>2, Tables DEF Stored
<1>4. \A k \in Keys : Stored(k) => row[k] # NoRow
  BY <1>1 DEF Stored
<1>5. QED
  BY <1>2, <1>3, <1>4, Tables, KeyKinds

\* A key of a table names its record.
LEMMA Names ==
  /\ \A k \in SkillKeys : \E v \in Versions : k = Skill(v)
  /\ \A k \in CandidateKeys : \E c \in Candidates : k = Candidate(c)
  /\ \A k \in JobKeys : \E j \in Jobs : k = Job(j)
  /\ \A k \in MemoryKeys : \E m \in MemoryIds : k = Memory(m)
  BY DEF SkillKeys, CandidateKeys, JobKeys, MemoryKeys

\* A store of one record.
LEMMA StoreEffect ==
  ASSUME Typed, NEW c \in Changes, Fitting(c), Store(c)
  PROVE  /\ row' \in [Keys -> Rows] /\ \A key \in Keys : Fits(key, row'[key])
         /\ c.key \in Keys /\ row'[c.key] = c.new
         /\ \A k \in Keys : k # c.key => row'[k] = row[k]
         /\ stale' \subseteq Keys /\ stale \subseteq stale'
         /\ MemoryFresh' => MemoryFresh
         /\ c.key \notin stale' => row[c.key] = c.read
         /\ MemoryFresh' /\ c.key \in MemoryKeys => row[c.key] = c.read
<1>1. c.key \in Keys /\ c.new \in Rows /\ Fits(c.key, c.new)
  BY DEF Changes, Fitting
<1>2. /\ row' = [row EXCEPT ![c.key] = c.new]
      /\ stale' = IF row[c.key] = c.read THEN stale ELSE stale \cup {c.key}
  BY DEF Store
<1>3. row \in [Keys -> Rows] /\ (\A key \in Keys : Fits(key, row[key])) /\ stale \subseteq Keys
  BY DEF Typed
<1>4. row' \in [Keys -> Rows] /\ row'[c.key] = c.new /\ \A k \in Keys : k # c.key => row'[k] = row[k]
  BY <1>1, <1>2, <1>3
<1>5. \A key \in Keys : Fits(key, row'[key])
  BY <1>1, <1>3, <1>4
<1>6. stale' \subseteq Keys /\ stale \subseteq stale' /\ (c.key \notin stale' => row[c.key] = c.read)
  BY <1>1, <1>2, <1>3
<1>7. QED
  BY <1>1, <1>4, <1>5, <1>6 DEF MemoryFresh

-----------------------------------------------------------------------------
(***************************************************************************)
(* The active record of a table.                                           *)
(***************************************************************************)
LEMMA ActiveShrinks ==
  ASSUME NEW K, \A k \in K : Active(k)' => Active(k)
  PROVE  /\ OneActive(K) => OneActive(K)'
         /\ \A w : HandsOver(w, K) => HandsOver(w, K)'
<1>1. OneActive(K) => OneActive(K)'
  BY DEF OneActive
<1>2. ASSUME NEW w, HandsOver(w, K)
      PROVE  HandsOver(w, K)'
  BY <1>2 DEF HandsOver
<1>3. QED
  BY <1>1, <1>2

\* The first write of the gateway's list.
LEMMA HandedOver ==
  ASSUME NEW K, NEW w \in Seq(Changes), Len(w) \in 1..2, OneActive(K), HandsOver(w, K),
         row'[w[1].key] = w[1].new, \A k \in K : k # w[1].key => row'[k] = row[k]
  PROVE  OneActive(K)' /\ HandsOver(Tail(w), K)'
<1>1. CASE Len(w) = 1
  <2>1. Len(Tail(w)) = 0
    BY <1>1
  <2>2. HandsOver(Tail(w), K)'
    BY <2>1 DEF HandsOver
  <2>3. w[1].key \in K /\ w[1].new.status = "active" =>
          \A k \in K : Active(k) => k = w[1].key
    BY <1>1 DEF HandsOver
  <2>4. OneActive(K)'
    BY <2>3 DEF OneActive, Active
  <2>5. QED
    BY <2>2, <2>4
<1>2. CASE Len(w) = 2
  <2>1. Len(Tail(w)) = 1 /\ Tail(w)[1] = w[2]
    BY <1>2, HeadTailProperties
  <2>2. w[1].key \in K => w[1].new.status # "active"
    BY <1>2 DEF HandsOver
  <2>3. \A k \in K : Active(k)' => Active(k) /\ k # w[1].key
    BY <2>2 DEF Active
  <2>4. w[2].key \in K /\ w[2].new.status = "active" =>
          \A k \in K : Active(k) => k \in {w[2].key, w[1].key}
    BY <1>2 DEF HandsOver
  <2>5. HandsOver(Tail(w), K)'
    BY <2>1, <2>3, <2>4 DEF HandsOver
  <2>6. OneActive(K)'
    BY <2>3 DEF OneActive
  <2>7. QED
    BY <2>5, <2>6
<1>3. QED
  BY <1>1, <1>2

-----------------------------------------------------------------------------
(***************************************************************************)
(* Drafts, candidates and jobs.                                            *)
(***************************************************************************)
LEMMA DraftsShrink ==
  ASSUME \A x \in Candidates : Drafted(x)' \subseteq Drafted(x)
  PROVE  /\ OneDraft => OneDraft'
         /\ \A w : WorkerOK(w) => WorkerOK(w)'
<1>1. OneDraft => OneDraft'
  BY DEF OneDraft
<1>2. \A c : Worked(c) => Worked(c)'
  BY DEF Worked
<1>3. ASSUME NEW w, WorkerOK(w)
      PROVE  WorkerOK(w)'
  BY <1>2, <1>3 DEF WorkerOK
<1>4. QED
  BY <1>1, <1>3

\* What a store makes of the drafts of a candidate.
LEMMA DraftsAfter ==
  ASSUME Typed, NEW c \in Changes, Fitting(c), Store(c)
  PROVE  /\ c.key \notin SkillKeys => \A x : Drafted(x)' = Drafted(x)
         /\ \A v \in Versions : c.key = Skill(v) => \A x :
              Drafted(x)' = (Drafted(x) \ {v}) \cup (IF c.new.key = {x} THEN {v} ELSE {})
<1>1. /\ row'[c.key] = c.new /\ \A k \in Keys : k # c.key => row'[k] = row[k]
  BY StoreEffect
<1>2. ASSUME c.key \notin SkillKeys, NEW x
      PROVE  Drafted(x)' = Drafted(x)
  <2>1. \A v \in Versions : row'[Skill(v)] = row[Skill(v)]
    BY <1>1, <1>2, KeyKinds
  <2>2. QED
    BY <2>1 DEF Drafted, Stored
<1>3. ASSUME NEW v \in Versions, c.key = Skill(v), NEW x
      PROVE  Drafted(x)' = (Drafted(x) \ {v}) \cup (IF c.new.key = {x} THEN {v} ELSE {})
  <2>1. c.key \in SkillKeys /\ c.key \notin MemoryKeys
    BY <1>3, KeyKinds, KindsApart
  <2>2. Fits(c.key, c.new) /\ c.new # NoRow
    BY <2>1 DEF Fitting
  <2>3. c.new.status # "absent"
    BY <2>2, Tables
  <2>4. \A u \in Versions : u # v => row'[Skill(u)] = row[Skill(u)]
    BY <1>1, <1>3, KeyKinds
  <2>5. row'[Skill(v)] = c.new
    BY <1>1, <1>3
  <2>6. \A u \in Versions : u # v => (u \in Drafted(x)' <=> u \in Drafted(x))
    BY <2>4 DEF Drafted, Stored
  <2>7. v \in Drafted(x)' <=> c.new.key = {x}
    BY <2>3, <2>5 DEF Drafted, Stored
  <2>8. Drafted(x)' \subseteq Versions /\ Drafted(x) \subseteq Versions
    BY DEF Drafted
  <2>9. QED
    BY <2>6, <2>7, <2>8
<1>4. QED
  BY <1>2, <1>3

\* Candidates stay stored and decided, and versions stay stored.
CandidatesStay ==
  \A c \in Candidates : Stored(Candidate(c)) =>
    /\ Stored(Candidate(c))'
    /\ row[Candidate(c)].status # "candidate" => row'[Candidate(c)].status # "candidate"

VersionsStay == \A v \in Versions : Stored(Skill(v)) => Stored(Skill(v))'

LEMMA StoresStay ==
  ASSUME Typed, NEW c \in Changes, Fitting(c), Store(c)
  PROVE  /\ VersionsStay
         /\ \A x \in Candidates : Stored(Candidate(x)) => Stored(Candidate(x))'
         /\ (c.key \in CandidateKeys => c.new.status # "candidate") => CandidatesStay
<1>1. /\ row'[c.key] = c.new /\ \A k \in Keys : k # c.key => row'[k] = row[k]
  BY StoreEffect
<1>2. c.key \notin MemoryKeys => c.new.status # "absent"
  BY Tables DEF Fitting
<1>3. VersionsStay
  BY <1>1, <1>2, KeyKinds, KindsApart DEF VersionsStay, Stored
<1>4. \A x \in Candidates : Stored(Candidate(x)) => Stored(Candidate(x))'
  BY <1>1, <1>2, KeyKinds, KindsApart DEF Stored
<1>5. ASSUME c.key \in CandidateKeys => c.new.status # "candidate"
      PROVE  CandidatesStay
  BY <1>1, <1>4, <1>5, KeyKinds DEF CandidatesStay
<1>6. QED
  BY <1>3, <1>4, <1>5

\* Candidates and jobs after a store of another table, of a decided candidate or of a
\* job that is not completed.
LEMMA CandidatesAfter ==
  ASSUME Typed, OneCandidate, Decided, NEW c \in Changes, Fitting(c), Store(c),
         c.key \in CandidateKeys => Stored(c.key) /\ c.new.status # "candidate",
         c.key \in JobKeys => c.new.status # "completed"
  PROVE  CandidatesStay /\ OneCandidate' /\ Decided'
<1>1. /\ row'[c.key] = c.new /\ \A k \in Keys : k # c.key => row'[k] = row[k]
  BY StoreEffect
<1>2. CandidatesStay
  BY StoresStay
<1>3. \A x \in Candidates : Stored(Candidate(x))' => Stored(Candidate(x))
  BY <1>1, KeyKinds DEF Stored
<1>4. OneCandidate'
  BY <1>3 DEF OneCandidate
<1>5. ASSUME NEW j \in Jobs, row'[Job(j)].status = "completed"
      PROVE  row'[Job(j)] = row[Job(j)]
  BY <1>1, <1>5, KeyKinds
<1>6. Decided'
  <2> SUFFICES ASSUME NEW j \in Jobs, row'[Job(j)].status = "completed"
               PROVE  \E x \in Candidates :
                        /\ Stored(Candidate(x))' /\ x[2] = row'[Job(j)].proposal
                        /\ row'[Candidate(x)].status # "candidate"
    BY DEF Decided
  <2>1. row'[Job(j)] = row[Job(j)]
    BY <1>5
  <2>2. PICK x \in Candidates : /\ Stored(Candidate(x)) /\ x[2] = row[Job(j)].proposal
                                /\ row[Candidate(x)].status # "candidate"
    BY <2>1 DEF Decided
  <2>3. QED
    BY <1>2, <2>1, <2>2 DEF CandidatesStay
<1>7. QED
  BY <1>2, <1>4, <1>6

\* The worker's knowledge is not touched by what others store.
LEMMA WorkAside ==
  ASSUME Typed, WkOK, WkWaits, UNCHANGED wk, writes'["worker"] = writes["worker"],
         CandidatesStay, VersionsStay
  PROVE  WkOK' /\ WkWaits'
<1>1. WkWaits'
  BY DEF WkWaits
<1>2. wk # Resting => wk.id \in Candidates
  BY DEF Typed, Work
<1>3. WkOK'
  BY <1>2 DEF WkOK, CandidatesStay, VersionsStay
<1>4. QED
  BY <1>1, <1>3

-----------------------------------------------------------------------------
(***************************************************************************)
(* The writes of the operations in progress.                               *)
(***************************************************************************)
\* What the gateway holds stays in order when something else is stored.
LEMMA ApiStays ==
  ASSUME NEW w, ApiOK(w),
         \A x \in Candidates : Stored(Candidate(x)) => Stored(Candidate(x))',
         MemoryFresh' => MemoryFresh,
         HandsOver(w, MemoryKeys) => HandsOver(w, MemoryKeys)' \/ ~MemoryFresh',
         HandsOver(w, SkillKeys)',
         \A i \in 1..Len(w) : \A v \in Versions, x \in Candidates :
           w[i].key = Skill(v) /\ w[i].new.key = {x} => v \in Drafted(x)'
  PROVE  ApiOK(w)'
<1>1. \A i \in 1..Len(w) : Requested(w[i])'
  <2> SUFFICES ASSUME NEW i \in 1..Len(w) PROVE Requested(w[i])'
    OBVIOUS
  <2>1. Requested(w[i])
    BY DEF ApiOK
  <2>2. w[i].key \in CandidateKeys => Stored(w[i].key)'
    BY <2>1, Names DEF Requested
  <2>3. QED
    BY <2>1, <2>2 DEF Requested
<1>2. MemoryFresh' => HandsOver(w, MemoryKeys)'
  BY DEF ApiOK
<1>3. QED
  BY <1>1, <1>2 DEF ApiOK

\* A store by a thread or the worker.
LEMMA ForeignStore ==
  ASSUME Typed, StoreOK, NEW w, ApiOK(w), NEW c \in Changes, Fitting(c), Store(c),
         c.key \in MemoryKeys => c.new = c.read \/ c.new.status # "active",
         c.key \in SkillKeys => Worked(c)
  PROVE  /\ MemoryFresh' => OneActive(MemoryKeys)'
         /\ OneActive(SkillKeys)' /\ OneDraft' /\ ApiOK(w)'
<1>1. /\ row'[c.key] = c.new /\ \A k \in Keys : k # c.key => row'[k] = row[k]
      /\ MemoryFresh' => MemoryFresh
      /\ MemoryFresh' /\ c.key \in MemoryKeys => row[c.key] = c.read
  BY StoreEffect
<1>2. MemoryFresh' => \A k \in MemoryKeys : Active(k)' => Active(k)
  BY <1>1, KeyKinds DEF Active
<1>3. c.key \in SkillKeys => c.new.status # "active"
  BY DEF Worked
<1>4. \A k \in SkillKeys : Active(k)' => Active(k)
  BY <1>1, <1>3, KeyKinds DEF Active
<1>5. OneActive(SkillKeys)' /\ (HandsOver(w, SkillKeys) => HandsOver(w, SkillKeys)')
  BY <1>4, ActiveShrinks DEF StoreOK
<1>6. MemoryFresh' =>
        OneActive(MemoryKeys)' /\ (HandsOver(w, MemoryKeys) => HandsOver(w, MemoryKeys)')
  BY <1>1, <1>2, ActiveShrinks DEF StoreOK
<1>7. CASE c.key \notin SkillKeys
  <2>1. \A x : Drafted(x)' = Drafted(x)
    BY <1>7, DraftsAfter
  <2>2. OneDraft'
    BY <2>1, DraftsShrink DEF StoreOK
  <2>3. \A i \in 1..Len(w) : \A v \in Versions, x \in Candidates :
          w[i].key = Skill(v) /\ w[i].new.key = {x} => v \in Drafted(x)'
    BY <2>1 DEF ApiOK, Requested
  <2>4. HandsOver(w, SkillKeys)'
    BY <1>5 DEF ApiOK
  <2>5. ApiOK(w)'
    BY <1>1, <1>6, <2>3, <2>4, ApiStays, StoresStay
  <2>6. QED
    BY <1>5, <1>6, <2>2, <2>5
<1>8. CASE c.key \in SkillKeys
  <2>1. PICK v \in Versions : c.key = Skill(v)
    BY <1>8, Names
  <2>2. \A x : Drafted(x)' = (Drafted(x) \ {v}) \cup (IF c.new.key = {x} THEN {v} ELSE {})
    BY <2>1, DraftsAfter
  <2>3. /\ \A x \in Candidates : \A u \in Drafted(x) : c.new.key = {x} => u = v
        /\ \A x \in Candidates : v \in Drafted(x) => c.new.key = {x}
    BY <1>8, <2>1, KeyKinds DEF Worked
  <2>4. OneDraft'
    BY <2>2, <2>3 DEF OneDraft, StoreOK
  <2>5. \A x \in Candidates : \A u \in Drafted(x) : u \in Drafted(x)'
    BY <2>2, <2>3
  <2>6. \A i \in 1..Len(w) : \A u \in Versions, x \in Candidates :
          w[i].key = Skill(u) /\ w[i].new.key = {x} => u \in Drafted(x)'
    BY <2>5 DEF ApiOK, Requested
  <2>7. HandsOver(w, SkillKeys)'
    BY <1>5 DEF ApiOK
  <2>8. ApiOK(w)'
    BY <1>1, <1>6, <2>6, <2>7, ApiStays, StoresStay
  <2>9. QED
    BY <1>5, <1>6, <2>4, <2>8
<1>9. QED
  BY <1>7, <1>8

\* The gateway makes the first of its writes.
LEMMA ApiStore ==
  ASSUME Typed, StoreOK, NEW w \in Seq(Changes), w # <<>>, ApiOK(w), Store(w[1])
  PROVE  /\ StoreOK' /\ ApiOK(Tail(w))' /\ CandidatesStay /\ VersionsStay
         /\ \A q : WorkerOK(q) => WorkerOK(q)'
<1> DEFINE c == w[1]
           rest == Tail(w)
<1>1. /\ Len(w) \in 1..2 /\ c \in Changes /\ Requested(c) /\ Fitting(c)
      /\ rest \in Seq(Changes) /\ Len(rest) = Len(w) - 1
      /\ \A i \in 1..Len(rest) : i + 1 \in 1..Len(w) /\ rest[i] = w[i + 1]
  <2>1. Len(w) \in 0..2 /\ Len(w) # 0
    BY EmptySeq DEF ApiOK
  <2>2. 1 \in 1..Len(w)
    BY <2>1
  <2>3. rest \in Seq(Changes) /\ Len(rest) = Len(w) - 1
        /\ \A i \in 1..Len(rest) : rest[i] = w[i + 1]
    BY HeadTailProperties
  <2>4. Requested(c)
    BY <2>2 DEF ApiOK
  <2>5. QED
    BY <2>1, <2>3, <2>4 DEF Requested
<1>2. Store(c)
  OBVIOUS
<1> HIDE DEF c
<1>3. /\ row'[c.key] = c.new /\ \A k \in Keys : k # c.key => row'[k] = row[k]
      /\ MemoryFresh' => MemoryFresh
  BY <1>1, <1>2, StoreEffect
<1>4. OneActive(SkillKeys)' /\ HandsOver(rest, SkillKeys)'
  BY <1>1, <1>3, HandedOver, KeyKinds DEF StoreOK, ApiOK, c
<1>5. MemoryFresh' => OneActive(MemoryKeys)' /\ HandsOver(rest, MemoryKeys)'
  BY <1>1, <1>3, HandedOver, KeyKinds DEF StoreOK, ApiOK, c
<1>6. CandidatesStay /\ OneCandidate' /\ Decided' /\ VersionsStay
  <2>1. c.key \in CandidateKeys => Stored(c.key) /\ c.new.status # "candidate"
    BY <1>1 DEF Requested
  <2>2. c.key \in JobKeys => c.new.status # "completed"
    BY <1>1 DEF Requested
  <2>3. QED
    BY <1>1, <1>2, <2>1, <2>2, CandidatesAfter, StoresStay DEF StoreOK
<1>7. \A x \in Candidates : Drafted(x)' \subseteq Drafted(x)
  <2>1. CASE c.key \notin SkillKeys
    BY <1>1, <1>2, <2>1, DraftsAfter
  <2>2. CASE c.key \in SkillKeys
    <3>1. PICK v \in Versions : c.key = Skill(v)
      BY <2>2, Names
    <3>2. QED
      BY <1>1, <1>2, <3>1, DraftsAfter DEF Requested
  <2>3. QED
    BY <2>1, <2>2
<1>8. OneDraft' /\ \A q : WorkerOK(q) => WorkerOK(q)'
  BY <1>7, DraftsShrink DEF StoreOK
<1>9. ASSUME NEW i \in 1..Len(rest), NEW v \in Versions, NEW x \in Candidates,
             rest[i].key = Skill(v), rest[i].new.key = {x}
      PROVE  v \in Drafted(x)'
  <2>1. w[i + 1].key = Skill(v) /\ w[i + 1].new.key = {x} /\ i + 1 \in 1..Len(w)
    BY <1>1, <1>9
  <2>2. v \in Drafted(x)
    BY <2>1 DEF ApiOK, Requested
  <2>3. CASE c.key = Skill(v)
    <3>1. c.new.key = {x}
      <4>1. c.key \in SkillKeys /\ 1 \in 1..Len(w)
        BY <1>1, <2>3, KeyKinds
      <4>2. QED
        BY <2>1, <2>3, <4>1 DEF ApiOK, c
    <3>2. QED
      BY <1>1, <1>2, <2>3, <3>1, DraftsAfter
  <2>4. CASE c.key # Skill(v)
    <3>1. CASE c.key \notin SkillKeys
      BY <1>1, <1>2, <2>2, <3>1, DraftsAfter
    <3>2. CASE c.key \in SkillKeys
      <4>1. PICK u \in Versions : c.key = Skill(u) /\ u # v
        BY <2>4, <3>2, Names
      <4>2. QED
        BY <1>1, <1>2, <2>2, <4>1, DraftsAfter
    <3>3. QED
      BY <3>1, <3>2
  <2>5. QED
    BY <2>3, <2>4
<1>10. ApiOK(rest)'
  <2>1. \A i \in 1..Len(rest) : Requested(rest[i])'
    <3> SUFFICES ASSUME NEW i \in 1..Len(rest) PROVE Requested(rest[i])'
      OBVIOUS
    <3>1. Requested(rest[i])
      BY <1>1 DEF ApiOK
    <3>2. rest[i].key \in CandidateKeys => Stored(rest[i].key)'
      BY <1>6, <3>1, Names DEF Requested, CandidatesStay
    <3>3. QED
      BY <1>9, <3>1, <3>2 DEF Requested
  <2>2. \A i, j \in 1..Len(rest) :
          rest[i].key \in SkillKeys /\ rest[i].key = rest[j].key =>
            rest[i].new.key = rest[j].new.key
    BY <1>1 DEF ApiOK
  <2>3. Len(rest) \in 0..2
    BY <1>1
  <2> HIDE DEF rest
  <2>4. QED
    BY <1>4, <1>5, <2>1, <2>2, <2>3 DEF ApiOK
<1>11. QED
  BY <1>4, <1>5, <1>6, <1>8, <1>10 DEF StoreOK

-----------------------------------------------------------------------------
(***************************************************************************)
(* Operations that begin.                                                  *)
(***************************************************************************)
LEMMA SameRows ==
  ASSUME row' = row, stale' = stale
  PROVE  /\ StoreOK => StoreOK'
         /\ \A w : ApiOK(w) => ApiOK(w)'
         /\ \A w : WorkerOK(w) => WorkerOK(w)'
         /\ CandidatesStay /\ VersionsStay
<1>1. MemoryFresh' = MemoryFresh
  BY DEF MemoryFresh
<1>2. \A k : Active(k)' = Active(k) /\ Stored(k)' = Stored(k)
  BY DEF Active, Stored
<1>3. \A x : Drafted(x)' = Drafted(x)
  BY DEF Drafted, Stored
<1>4. \A K : (OneActive(K) => OneActive(K)') /\ \A w : HandsOver(w, K) => HandsOver(w, K)'
  BY <1>2, ActiveShrinks
<1>5. StoreOK => StoreOK'
  BY <1>1, <1>2, <1>3, <1>4 DEF StoreOK, OneCandidate, OneDraft, Decided
<1>6. \A c : Requested(c) => Requested(c)'
  BY <1>2, <1>3 DEF Requested
<1>7. \A w : ApiOK(w) => ApiOK(w)'
  BY <1>1, <1>4, <1>6 DEF ApiOK
<1>8. \A w : WorkerOK(w) => WorkerOK(w)'
  BY <1>3, DraftsShrink
<1>9. CandidatesStay /\ VersionsStay
  BY <1>2 DEF CandidatesStay, VersionsStay
<1>10. QED
  BY <1>5, <1>7, <1>8, <1>9

LEMMA ProcessesApart ==
  /\ "api" \in Processes /\ "worker" \in Processes /\ "api" # "worker"
  /\ \A t \in Threads : t \in Processes /\ t # "api" /\ t # "worker"
  BY LearningStoreAssumption DEF Processes

\* A request or a turn's call replaces the list of its process.
LEMMA ListBegins ==
  ASSUME IInv, row' = row, stale' = stale, calls' \in 0..CallBound, UNCHANGED <<wk, crashes>>,
         NEW p \in Processes, p # "worker", NEW w \in Seq(Changes),
         writes' = [writes EXCEPT ![p] = w],
         p = "api" => ApiOK(w), p \in Threads => ThreadOK(w)
  PROVE  IInv'
<1>1. Typed /\ StoreOK /\ ListsOK /\ WkOK /\ WkWaits
  BY DEF IInv
<1>2. /\ writes' \in [Processes -> Seq(Changes)] /\ writes'[p] = w
      /\ \A q \in Processes : q # p => writes'[q] = writes[q]
  BY <1>1 DEF Typed
<1>3. Typed'
  BY <1>1, <1>2 DEF Typed
<1>4. StoreOK'
  BY <1>1, SameRows
<1>5. ApiOK(writes["api"])'
  <2>1. ApiOK(writes'["api"])
    BY <1>1, <1>2, ProcessesApart DEF ListsOK
  <2>2. QED
    BY <2>1, SameRows
<1>6. \A t \in Threads : ThreadOK(writes[t])'
  BY <1>1, <1>2, ProcessesApart DEF ListsOK, ThreadOK
<1>7. WorkerOK(writes["worker"])'
  <2>1. writes'["worker"] = writes["worker"] /\ WorkerOK(writes'["worker"])
    BY <1>1, <1>2, ProcessesApart DEF ListsOK
  <2>2. QED
    BY <2>1, SameRows
<1>8. WkOK' /\ WkWaits'
  BY <1>1, <1>2, SameRows, WorkAside, ProcessesApart
<1>9. QED
  BY <1>3, <1>4, <1>5, <1>6, <1>7, <1>8 DEF IInv, ListsOK

\* The lists of no, one and two writes.
LEMMA NoRequest == <<>> \in Seq(Changes) /\ ApiOK(<<>>) /\ ThreadOK(<<>>) /\ WorkerOK(<<>>)
<1>1. Len(<<>>) = 0
  OBVIOUS
<1>2. QED
  BY <1>1 DEF ApiOK, ThreadOK, WorkerOK, HandsOver

LEMMA OneRequest ==
  ASSUME NEW c, Requested(c),
         c.new.status = "active" =>
           /\ MemoryFresh /\ c.key \in MemoryKeys =>
                \A k \in MemoryKeys : Active(k) => k = c.key
           /\ c.key \in SkillKeys => \A k \in SkillKeys : Active(k) => k = c.key
  PROVE  <<c>> \in Seq(Changes) /\ ApiOK(<<c>>)
<1> DEFINE w == <<c>>
<1>1. Len(w) = 1 /\ w[1] = c /\ c \in Changes
  BY DEF Requested
<1>2. w \in Seq(Changes)
  BY <1>1
<1> HIDE DEF w
<1>3. ApiOK(w)
  BY <1>1 DEF ApiOK, HandsOver
<1>4. QED
  BY <1>2, <1>3 DEF w

LEMMA TwoRequests ==
  ASSUME NEW a, Requested(a), NEW b, Requested(b), a.new.status # "active",
         MemoryFresh /\ b.key \in MemoryKeys =>
           \A k \in MemoryKeys : Active(k) => k \in {a.key, b.key},
         b.key \in SkillKeys => \A k \in SkillKeys : Active(k) => k \in {a.key, b.key},
         a.key \in SkillKeys /\ a.key = b.key => a.new.key = b.new.key
  PROVE  <<a, b>> \in Seq(Changes) /\ ApiOK(<<a, b>>)
<1> DEFINE w == <<a, b>>
<1>1. Len(w) = 2 /\ w[1] = a /\ w[2] = b /\ a \in Changes /\ b \in Changes
  BY DEF Requested
<1>2. w \in Seq(Changes)
  BY <1>1
<1> HIDE DEF w
<1>3. \A i \in 1..Len(w) : i = 1 \/ i = 2
  BY <1>1
<1>4. HandsOver(w, SkillKeys) /\ (MemoryFresh => HandsOver(w, MemoryKeys))
  BY <1>1, <1>3 DEF HandsOver
<1>5. /\ \A i \in 1..Len(w) : Requested(w[i])
      /\ \A i, j \in 1..Len(w) :
           w[i].key \in SkillKeys /\ w[i].key = w[j].key => w[i].new.key = w[j].new.key
  BY <1>1, <1>3
<1>6. QED
  BY <1>1, <1>2, <1>4, <1>5 DEF ApiOK, w

LEMMA MemoryChange ==
  ASSUME Typed, NEW m \in MemoryIds, NEW r \in MemoryRow \cup {NoRow}
  PROVE  /\ Requested(Change(Memory(m), r))
         /\ Change(Memory(m), r).key = Memory(m)
         /\ Change(Memory(m), r).read = row[Memory(m)] /\ Change(Memory(m), r).new = r
<1> DEFINE c == Change(Memory(m), r)
<1>1. c.key = Memory(m) /\ c.read = row[Memory(m)] /\ c.new = r
  BY DEF Change
<1>2. Memory(m) \in Keys /\ Memory(m) \in MemoryKeys /\ row[Memory(m)] \in Rows /\ r \in Rows
  BY KeyKinds DEF Typed, Rows
<1>3. c \in Changes
  BY <1>2 DEF Changes, Change
<1> HIDE DEF c
<1>4. Fitting(c)
  BY <1>1, <1>2 DEF Fitting, Fits
<1>5. Memory(m) \notin CandidateKeys /\ Memory(m) \notin JobKeys
      /\ \A v \in Versions : Memory(m) # Skill(v)
  BY <1>2, KindsApart, KeyKinds
<1>6. Requested(c)
  BY <1>1, <1>3, <1>4, <1>5 DEF Requested
<1>7. QED
  BY <1>1, <1>6 DEF c

LEMMA SkillChange ==
  ASSUME Typed, NEW v \in Versions, NEW r \in SkillRow,
         \/ Stored(Skill(v)) /\ r.key = row[Skill(v)].key
         \/ \A x \in Candidates : r.key # {x}
  PROVE  /\ Requested(Change(Skill(v), r))
         /\ Change(Skill(v), r).key = Skill(v) /\ Change(Skill(v), r).new = r
<1> DEFINE c == Change(Skill(v), r)
<1>1. c.key = Skill(v) /\ c.read = row[Skill(v)] /\ c.new = r
  BY DEF Change
<1>2. Skill(v) \in Keys /\ Skill(v) \in SkillKeys /\ row[Skill(v)] \in Rows /\ r \in Rows
  BY KeyKinds DEF Typed, Rows
<1>3. c \in Changes
  BY <1>2 DEF Changes, Change
<1>4. r # NoRow
  BY DEF SkillRow, SkillStatuses, NoRow
<1> HIDE DEF c
<1>5. Fitting(c)
  BY <1>1, <1>2, <1>4 DEF Fitting, Fits
<1>6. Skill(v) \notin CandidateKeys /\ Skill(v) \notin JobKeys
  BY <1>2, KindsApart
<1>7. \A u \in Versions, x \in Candidates :
        c.key = Skill(u) /\ c.new.key = {x} => u \in Drafted(x)
  BY <1>1, KeyKinds DEF Drafted
<1>8. Requested(c)
  BY <1>1, <1>3, <1>5, <1>6, <1>7 DEF Requested
<1>9. QED
  BY <1>1, <1>8 DEF c

-----------------------------------------------------------------------------
(***************************************************************************)
(* The operations on memories.                                             *)
(***************************************************************************)
LEMMA CallKeeps ==
  ASSUME IInv, NEW w \in Seq(Changes), ApiOK(w), Call("api", w), UNCHANGED <<wk, crashes>>
  PROVE  IInv'
<1>1. /\ row' = row /\ stale' = stale /\ writes' = [writes EXCEPT !["api"] = w]
      /\ calls < CallBound /\ calls' = calls + 1
  BY DEF Call, Begin
<1>2. calls' \in 0..CallBound
  BY <1>1, LearningStoreAssumption DEF IInv, Typed
<1>3. QED
  BY <1>1, <1>2, ListBegins, ProcessesApart

LEMMA NewMemoryRow ==
  ASSUME NEW m \in MemoryIds, NEW fact \in Facts, NEW key \in SUBSET Candidates,
         NEW supersedes \in SUBSET MemoryIds
  PROVE  NewMemory(m, fact, key, supersedes) \in MemoryRow
         /\ NewMemory(m, fact, key, supersedes).status # "active"
  BY DEF NewMemory, MemoryRow, MemoryStatuses, ActiveMemories

LEMMA MemoryStatus ==
  ASSUME Typed, NEW m \in MemoryIds, Stored(Memory(m)), NEW status \in MemoryStatuses
  PROVE  /\ Requested(SetStatus(Memory(m), status))
         /\ SetStatus(Memory(m), status).key = Memory(m)
         /\ SetStatus(Memory(m), status).new.status = status
         /\ Memory(m) \in MemoryKeys /\ Memory(m) \notin SkillKeys
<1>1. row[Memory(m)] \in MemoryRow
  BY StoredRows
<1>2. /\ [row[Memory(m)] EXCEPT !.status = status] \in MemoryRow
      /\ [row[Memory(m)] EXCEPT !.status = status].status = status
  BY <1>1 DEF MemoryRow
<1>3. QED
  BY <1>2, MemoryChange, KeyKinds, KindsApart DEF SetStatus

\* Withdrawing and validating a memory, and every other change to one that makes
\* none active.
LEMMA MemoryKept ==
  ASSUME IInv, NEW m \in MemoryIds, NEW r \in MemoryRow \cup {NoRow}, r.status # "active",
         Call("api", <<Change(Memory(m), r)>>), UNCHANGED <<wk, crashes>>
  PROVE  IInv'
<1>1. Requested(Change(Memory(m), r)) /\ Change(Memory(m), r).new = r
  BY MemoryChange DEF IInv
<1>2. QED
  BY <1>1, OneRequest, CallKeeps

LEMMA PromoteKeeps ==
  ASSUME IInv, NEW m \in MemoryIds, Promote(m), UNCHANGED <<wk, crashes>>
  PROVE  IInv'
<1>1. Typed /\ (MemoryFresh => OneActive(MemoryKeys))
  BY DEF IInv, StoreOK
<1>2. Stored(Memory(m)) /\ "active" \in MemoryStatuses /\ "superseded" \in MemoryStatuses
  BY DEF Promote, HasStatus, Stored, MemoryStatuses
<1> DEFINE b == SetStatus(Memory(m), "active")
<1>3. Requested(b) /\ b.key = Memory(m) /\ b.key \in MemoryKeys /\ b.key \notin SkillKeys
  BY <1>1, <1>2, MemoryStatus
<1>4. ASSUME ActiveMemories \ {m} = {}, Call("api", <<b>>)
      PROVE  IInv'
  <2>1. \A k \in MemoryKeys : Active(k) => k = Memory(m)
    BY <1>4, Names DEF Active, ActiveMemories, HasStatus
  <2>2. QED
    BY <1>3, <1>4, <2>1, OneRequest, CallKeeps
<1>5. ASSUME NEW n \in ActiveMemories,
             Call("api", <<SetStatus(Memory(n), "superseded"), b>>)
      PROVE  IInv'
  <2> DEFINE a == SetStatus(Memory(n), "superseded")
  <2>1. n \in MemoryIds /\ Stored(Memory(n)) /\ Active(Memory(n))
    BY DEF ActiveMemories, HasStatus, Stored, Active
  <2>2. Requested(a) /\ a.key = Memory(n) /\ a.new.status = "superseded"
        /\ a.key \in MemoryKeys /\ a.key \notin SkillKeys
    BY <1>1, <1>2, <2>1, MemoryStatus
  <2>3. MemoryFresh => \A k \in MemoryKeys : Active(k) => k \in {a.key, b.key}
    BY <1>1, <2>1, <2>2 DEF OneActive
  <2> HIDE DEF a, b
  <2>4. <<a, b>> \in Seq(Changes) /\ ApiOK(<<a, b>>)
    BY <1>3, <2>2, <2>3, TwoRequests
  <2>5. QED
    BY <1>5, <2>4, CallKeeps DEF a, b
<1>6. QED
  BY <1>4, <1>5 DEF Promote

LEMMA RollbackMemoryKeeps ==
  ASSUME IInv, NEW m \in MemoryIds, RollbackMemory(m), UNCHANGED <<wk, crashes>>
  PROVE  IInv'
<1>1. Typed /\ (MemoryFresh => OneActive(MemoryKeys))
  BY DEF IInv, StoreOK
<1>2. Stored(Memory(m)) /\ Active(Memory(m))
      /\ "active" \in MemoryStatuses /\ "superseded" \in MemoryStatuses
  BY DEF RollbackMemory, HasStatus, Stored, Active, MemoryStatuses
<1>3. PICK n \in row[Memory(m)].supersedes :
        /\ Stored(Memory(n))
        /\ Call("api", <<SetStatus(Memory(m), "superseded"), SetStatus(Memory(n), "active")>>)
  BY DEF RollbackMemory
<1>4. n \in MemoryIds
  BY <1>1, <1>2, <1>3, StoredRows DEF MemoryRow
<1> DEFINE a == SetStatus(Memory(m), "superseded")
           b == SetStatus(Memory(n), "active")
<1>5. Requested(a) /\ a.key = Memory(m) /\ a.new.status = "superseded"
      /\ a.key \in MemoryKeys /\ a.key \notin SkillKeys
  BY <1>1, <1>2, MemoryStatus
<1>6. Requested(b) /\ b.key = Memory(n) /\ b.key \in MemoryKeys /\ b.key \notin SkillKeys
  BY <1>1, <1>2, <1>3, <1>4, MemoryStatus
<1>7. MemoryFresh => \A k \in MemoryKeys : Active(k) => k \in {a.key, b.key}
  BY <1>1, <1>2, <1>5 DEF OneActive
<1>8. Call("api", <<a, b>>)
  BY <1>3
<1> HIDE DEF a, b
<1>9. <<a, b>> \in Seq(Changes) /\ ApiOK(<<a, b>>)
  BY <1>5, <1>6, <1>7, TwoRequests
<1>10. QED
  BY <1>8, <1>9, CallKeeps

LEMMA RecallKeeps ==
  ASSUME IInv, NEW m \in MemoryIds, NEW t \in Threads, Recall(t, m), UNCHANGED <<wk, crashes>>
  PROVE  IInv'
<1>1. Typed /\ Stored(Memory(m))
  BY DEF IInv, Recall, ActiveMemories, HasStatus, Stored
<1> DEFINE c == Change(Memory(m), row[Memory(m)])
           w == <<c>>
<1>2. Requested(c) /\ c.key \in MemoryKeys /\ c.new = c.read
  BY <1>1, MemoryChange, StoredRows, KeyKinds
<1>3. /\ row' = row /\ stale' = stale /\ writes' = [writes EXCEPT ![t] = w]
      /\ calls < CallBound /\ calls' = calls + 1
  BY DEF Recall, Call, Begin
<1>4. calls' \in 0..CallBound
  BY <1>1, <1>3, LearningStoreAssumption DEF Typed
<1> HIDE DEF c
<1>5. Len(w) = 1 /\ w[1] = c /\ c \in Changes /\ Fitting(c) /\ w \in Seq(Changes)
  BY <1>2 DEF Requested
<1> HIDE DEF w
<1>6. ThreadOK(w)
  BY <1>2, <1>5 DEF ThreadOK
<1>7. QED
  BY <1>3, <1>4, <1>5, <1>6, ListBegins, ProcessesApart

LEMMA MemoryStepKeeps ==
  ASSUME IInv, MemoryStep, UNCHANGED <<wk, crashes>>
  PROVE  IInv'
<1>1. Typed
  BY DEF IInv
<1>2. PICK m \in MemoryIds :
        \/ m \in Posted /\ \E fact \in Facts, supersedes \in {{}} \cup {{n} : n \in Posted} :
                            CreateMemory(m, fact, supersedes)
        \/ Validate(m) \/ Promote(m) \/ RollbackMemory(m) \/ Withdraw(m) \/ DeleteMemory(m)
        \/ \E n \in MemoryIds : Resolve(m, n)
        \/ \E t \in Threads : Recall(t, m)
  BY DEF MemoryStep
<1>3. ASSUME NEW fact \in Facts, NEW supersedes \in {{}} \cup {{n} : n \in Posted},
             CreateMemory(m, fact, supersedes)
      PROVE  IInv'
  <2>1. supersedes \in SUBSET MemoryIds /\ {} \in SUBSET Candidates
    BY DEF MemoryIds
  <2> DEFINE r == NewMemory(m, fact, {}, supersedes)
  <2>2. r \in MemoryRow /\ r.status # "active"
    BY <2>1, NewMemoryRow
  <2> HIDE DEF r
  <2>3. Call("api", <<>>) \/ Call("api", <<Change(Memory(m), r)>>)
    BY <1>3 DEF CreateMemory, CreateChanges, r
  <2>4. QED
    BY <2>2, <2>3, NoRequest, CallKeeps, MemoryKept
<1>4. Stored(Memory(m)) => \A status \in MemoryStatuses \ {"active"} :
        /\ [row[Memory(m)] EXCEPT !.status = status] \in MemoryRow
        /\ [row[Memory(m)] EXCEPT !.status = status].status # "active"
  BY <1>1, StoredRows DEF MemoryRow
<1>5. CASE Validate(m)
  BY <1>4, <1>5, MemoryKept DEF Validate, HasStatus, Stored, MemoryStatuses, SetStatus
<1>6. CASE Withdraw(m)
  BY <1>4, <1>6, MemoryKept DEF Withdraw, MemoryStatuses, SetStatus
<1>7. CASE DeleteMemory(m)
  BY <1>7, MemoryKept DEF DeleteMemory, NoRow
<1>8. ASSUME NEW n \in MemoryIds, Resolve(m, n)
      PROVE  IInv'
  <2> DEFINE r == [row[Memory(m)] EXCEPT !.status = "validated", !.supersedes = {n}]
  <2>1. Stored(Memory(m)) /\ Call("api", <<Change(Memory(m), r)>>)
    BY <1>8 DEF Resolve, HasStatus, Stored
  <2>2. r \in MemoryRow /\ r.status # "active"
    BY <1>1, <2>1, StoredRows DEF MemoryRow, MemoryStatuses
  <2> HIDE DEF r
  <2>3. QED
    BY <2>1, <2>2, MemoryKept
<1>9. QED
  BY <1>2, <1>3, <1>5, <1>6, <1>7, <1>8, PromoteKeeps, RollbackMemoryKeeps, RecallKeeps

-----------------------------------------------------------------------------
(***************************************************************************)
(* The operations on skill versions.                                       *)
(***************************************************************************)
\* Drafting and evaluating a version, and every other change to one that makes none
\* active that was not.
LEMMA SkillKept ==
  ASSUME IInv, NEW v \in Versions, NEW r \in SkillRow,
         \/ Stored(Skill(v)) /\ r.key = row[Skill(v)].key
         \/ \A x \in Candidates : r.key # {x},
         r.status = "active" => Active(Skill(v)),
         Call("api", <<Change(Skill(v), r)>>), UNCHANGED <<wk, crashes>>
  PROVE  IInv'
<1> DEFINE c == Change(Skill(v), r)
<1>1. Requested(c) /\ c.key = Skill(v) /\ c.new = r
  BY SkillChange DEF IInv
<1>2. OneActive(SkillKeys) /\ c.key \in SkillKeys /\ c.key \notin MemoryKeys
  BY <1>1, KeyKinds, KindsApart DEF IInv, StoreOK
<1>3. c.new.status = "active" => \A k \in SkillKeys : Active(k) => k = c.key
  BY <1>1, <1>2 DEF OneActive
<1>4. Call("api", <<c>>)
  OBVIOUS
<1> HIDE DEF c
<1>5. <<c>> \in Seq(Changes) /\ ApiOK(<<c>>)
  BY <1>1, <1>2, <1>3, OneRequest
<1>6. QED
  BY <1>4, <1>5, CallKeeps

LEMMA SkillStatus ==
  ASSUME Typed, NEW v \in Versions, Stored(Skill(v)), NEW status \in SkillStatuses
  PROVE  /\ Requested(SetStatus(Skill(v), status))
         /\ SetStatus(Skill(v), status).key = Skill(v)
         /\ SetStatus(Skill(v), status).new.status = status
         /\ SetStatus(Skill(v), status).new.key = row[Skill(v)].key
         /\ Skill(v) \in SkillKeys /\ Skill(v) \notin MemoryKeys
<1>1. row[Skill(v)] \in SkillRow
  BY StoredRows
<1>2. /\ [row[Skill(v)] EXCEPT !.status = status] \in SkillRow
      /\ [row[Skill(v)] EXCEPT !.status = status].status = status
      /\ [row[Skill(v)] EXCEPT !.status = status].key = row[Skill(v)].key
  BY <1>1 DEF SkillRow
<1>3. QED
  BY <1>2, SkillChange, KeyKinds, KindsApart DEF SetStatus

\* One version is superseded, then another made active.
LEMMA Handover ==
  ASSUME IInv, NEW u \in Versions, NEW v \in Versions, Active(Skill(u)), Stored(Skill(v)),
         Call("api", <<SetStatus(Skill(u), "superseded"), SetStatus(Skill(v), "active")>>),
         UNCHANGED <<wk, crashes>>
  PROVE  IInv'
<1> DEFINE a == SetStatus(Skill(u), "superseded")
           b == SetStatus(Skill(v), "active")
<1>1. Typed /\ OneActive(SkillKeys) /\ Stored(Skill(u))
      /\ "active" \in SkillStatuses /\ "superseded" \in SkillStatuses
  BY DEF IInv, StoreOK, Active, Stored, SkillStatuses
<1>2. /\ Requested(a) /\ a.key = Skill(u) /\ a.new.status = "superseded"
      /\ a.new.key = row[Skill(u)].key /\ a.key \in SkillKeys /\ a.key \notin MemoryKeys
  BY <1>1, SkillStatus
<1>3. /\ Requested(b) /\ b.key = Skill(v) /\ b.new.key = row[Skill(v)].key
      /\ b.key \in SkillKeys /\ b.key \notin MemoryKeys
  BY <1>1, SkillStatus
<1>4. \A k \in SkillKeys : Active(k) => k \in {a.key, b.key}
  BY <1>1, <1>2 DEF OneActive
<1>5. a.key = b.key => a.new.key = b.new.key
  BY <1>2, <1>3
<1>6. Call("api", <<a, b>>)
  OBVIOUS
<1> HIDE DEF a, b
<1>7. <<a, b>> \in Seq(Changes) /\ ApiOK(<<a, b>>)
  BY <1>2, <1>3, <1>4, <1>5, TwoRequests
<1>8. QED
  BY <1>6, <1>7, CallKeeps

LEMMA ShortLists ==
  ASSUME NEW f, f = [i \in DOMAIN f |-> f[i]]
  PROVE  /\ DOMAIN f = 1..0 => f = <<>>
         /\ DOMAIN f = 1..1 => f = <<f[1]>>
<1>1. ASSUME DOMAIN f = 1..0 PROVE f = <<>>
  <2>1. f \in Seq({f[i] : i \in DOMAIN f}) /\ Len(f) = 0
    BY <1>1
  <2>2. QED
    BY <2>1, EmptySeq
<1>2. ASSUME DOMAIN f = 1..1 PROVE f = <<f[1]>>
  BY <1>2
<1>3. QED
  BY <1>1, <1>2

LEMMA PairJoined == \A a, b : <<a>> \o <<b>> = <<a, b>>
<1> SUFFICES ASSUME NEW a, NEW b PROVE <<a>> \o <<b>> = <<a, b>>
  OBVIOUS
<1> DEFINE S == {a, b}
           s == <<a>>
           t == <<b>>
           p == <<a, b>>
<1>1. s \in Seq(S) /\ t \in Seq(S) /\ p \in Seq(S)
      /\ Len(s) = 1 /\ Len(t) = 1 /\ Len(p) = 2
  OBVIOUS
<1>2. s[1] = a /\ t[1] = b /\ p[1] = a /\ p[2] = b
  OBVIOUS
<1> HIDE DEF S, s, t, p
<1>3. s \o t \in Seq(S) /\ Len(s \o t) = 2 /\ (s \o t)[1] = s[1] /\ (s \o t)[2] = t[1]
  <2>1. /\ s \o t \in Seq(S) /\ Len(s \o t) = Len(s) + Len(t)
        /\ \A i \in 1..(Len(s) + Len(t)) :
             (s \o t)[i] = IF i <= Len(s) THEN s[i] ELSE t[i - Len(s)]
    BY <1>1, ConcatProperties
  <2>2. 1 \in 1..2 /\ 2 \in 1..2 /\ 1 + 1 = 2 /\ 2 - 1 = 1 /\ ~(2 <= 1)
    OBVIOUS
  <2>3. QED
    BY <1>1, <2>1, <2>2
<1>4. s \o t = p
  BY <1>1, <1>2, <1>3, SeqEqual
<1>5. QED
  BY <1>4 DEF s, t, p

\* No version is active besides at most one, which is superseded first.
LEMMA ActivationLists ==
  ASSUME OneActive(SkillKeys), NEW v \in Versions
  PROVE  \/ /\ ActiveVersions \ {v} = {}
            /\ Activation(v) = <<SetStatus(Skill(v), "active")>>
         \/ \E u \in Versions :
              /\ Active(Skill(u))
              /\ Activation(v) = <<SetStatus(Skill(u), "superseded"), SetStatus(Skill(v), "active")>>
<1> DEFINE others == ActiveVersions \ {v}
           Nth(i) == CHOOSE u \in others : Cardinality({w \in others : w < u}) = i - 1
           b == SetStatus(Skill(v), "active")
<1>1. Activation(v) =
        [i \in 1..Cardinality(others) |-> SetStatus(Skill(Nth(i)), "superseded")] \o <<b>>
  BY DEF Activation
<1>2. \A u, w \in others : u = w
  BY KeyKinds DEF ActiveVersions, IsActive, OneActive, Active
<1>3. CASE others = {}
  <2>1. Cardinality(others) = 0
    BY <1>3, FS_EmptySet
  <2> DEFINE before == [i \in 1..Cardinality(others) |-> SetStatus(Skill(Nth(i)), "superseded")]
  <2>2. before = <<>>
    <3>1. DOMAIN before = 1..0
      BY <2>1
    <3>2. before = [i \in DOMAIN before |-> before[i]]
      OBVIOUS
    <3> HIDE DEF before
    <3>3. QED
      BY <3>1, <3>2, ShortLists
  <2> HIDE DEF before, b
  <2>3. before \o <<b>> = <<b>>
    BY <2>2
  <2>4. QED
    BY <1>1, <1>3, <2>3 DEF before, b
<1>4. CASE others # {}
  <2>1. PICK u : others = {u}
    BY <1>2, <1>4
  <2>2. Cardinality(others) = 1
    BY <2>1, FS_Singleton
  <2>3. u \in Versions /\ Active(Skill(u))
    BY <2>1 DEF ActiveVersions, IsActive, Active
  <2>4. {w \in others : w < u} = {}
    BY <2>1, <2>3 DEF Versions
  <2>5. Cardinality({w \in others : w < u}) = 1 - 1
    BY <2>4, FS_EmptySet
  <2>6. Nth(1) = u
    BY <2>1, <2>5
  <2> DEFINE before == [i \in 1..Cardinality(others) |-> SetStatus(Skill(Nth(i)), "superseded")]
             a == SetStatus(Skill(u), "superseded")
  <2>7. before = <<a>>
    <3>1. DOMAIN before = 1..1
      BY <2>2
    <3>2. before = [i \in DOMAIN before |-> before[i]]
      OBVIOUS
    <3>3. before[1] = SetStatus(Skill(Nth(1)), "superseded")
      BY <2>2
    <3>4. before[1] = a
      BY <2>6, <3>3
    <3> HIDE DEF before, a
    <3>5. QED
      BY <3>1, <3>2, <3>4, ShortLists
  <2> HIDE DEF before, a, b
  <2>8. before \o <<b>> = <<a, b>>
    BY <2>7, PairJoined
  <2>9. QED
    BY <1>1, <2>3, <2>8 DEF before, a, b
<1>5. QED
  BY <1>3, <1>4

LEMMA ActivateKeeps ==
  ASSUME IInv, NEW v \in Versions, ActivateSkill(v), UNCHANGED <<wk, crashes>>
  PROVE  IInv'
<1>1. Typed /\ OneActive(SkillKeys) /\ Stored(Skill(v)) /\ Call("api", Activation(v))
      /\ "active" \in SkillStatuses
  BY DEF IInv, StoreOK, ActivateSkill, Stored, SkillStatuses
<1>2. CASE /\ ActiveVersions \ {v} = {}
           /\ Activation(v) = <<SetStatus(Skill(v), "active")>>
  <2> DEFINE b == SetStatus(Skill(v), "active")
  <2>1. Requested(b) /\ b.key = Skill(v) /\ b.key \in SkillKeys /\ b.key \notin MemoryKeys
    BY <1>1, SkillStatus
  <2>2. \A k \in SkillKeys : Active(k) => k = Skill(v)
    BY <1>2, Names DEF Active, ActiveVersions, IsActive
  <2>3. Call("api", <<b>>)
    BY <1>1, <1>2
  <2> HIDE DEF b
  <2>4. <<b>> \in Seq(Changes) /\ ApiOK(<<b>>)
    BY <2>1, <2>2, OneRequest
  <2>5. QED
    BY <2>3, <2>4, CallKeeps
<1>3. ASSUME NEW u \in Versions, Active(Skill(u)),
             Activation(v) = <<SetStatus(Skill(u), "superseded"), SetStatus(Skill(v), "active")>>
      PROVE  IInv'
  BY <1>1, <1>3, Handover
<1>4. QED
  BY <1>1, <1>2, <1>3, ActivationLists

\* A draft of the API is no candidate's.
LEMMA RequestedDraft ==
  ASSUME NEW risk \in {"low", "high"}, NEW tests \in BOOLEAN,
         NEW key \in SUBSET (Candidates \cup (Versions \X Versions))
  PROVE  /\ Draft(risk, tests, key) \in SkillRow /\ Draft(risk, tests, key).status # "active"
         /\ Draft(risk, tests, key).key = key
  BY DEF Draft, SkillRow, SkillStatuses

LEMMA UpdateKeys == \A v, u \in Versions, x \in Candidates : {<<v, u>>} # {x}
  BY LearningStoreAssumption DEF Versions, Candidates

LEMMA NamedVersions == Named \subseteq Versions
  BY LearningStoreAssumption DEF Named, Versions

LEMMA EvaluatedRow ==
  ASSUME Typed, NEW v \in Versions, Stored(Skill(v))
  PROVE  /\ Evaluated(v) \in SkillRow /\ Evaluated(v).status # "active"
         /\ Evaluated(v).key = row[Skill(v)].key
<1>1. row[Skill(v)] \in SkillRow
  BY StoredRows
<1>2. QED
  BY <1>1 DEF Evaluated, SkillRow, SkillStatuses

LEMMA SkillStepKeeps ==
  ASSUME IInv, SkillStep, UNCHANGED <<wk, crashes>>
  PROVE  IInv'
<1>1. Typed
  BY DEF IInv
<1>2. PICK v \in Versions :
        \/ \E u \in Named, risk \in {"low", "high"}, tests \in BOOLEAN :
             CreateDraft(u, risk, tests) \/ UpdateSkill(v, u, risk, tests)
        \/ \E u \in Versions : RollbackSkill(v, u)
        \/ EvaluateSkill(v) \/ ActivateSkill(v) \/ SuspendSkill(v) \/ RequestApproval(v)
        \/ \E decision \in {"approved", "rejected"} : DecideApproval(v, decision)
  BY DEF SkillStep
<1>3. ASSUME NEW u \in Named, NEW risk \in {"low", "high"}, NEW tests \in BOOLEAN,
             CreateDraft(u, risk, tests)
      PROVE  IInv'
  <2>1. u \in Versions /\ {} \in SUBSET (Candidates \cup (Versions \X Versions))
    BY NamedVersions
  <2>2. Draft(risk, tests, {}) \in SkillRow /\ Draft(risk, tests, {}).status # "active"
        /\ \A x \in Candidates : Draft(risk, tests, {}).key # {x}
    BY <2>1, RequestedDraft
  <2>3. QED
    BY <1>3, <2>1, <2>2, SkillKept DEF CreateDraft
<1>4. ASSUME NEW u \in Named, NEW risk \in {"low", "high"}, NEW tests \in BOOLEAN,
             UpdateSkill(v, u, risk, tests)
      PROVE  IInv'
  <2> DEFINE r == Draft(risk, tests, {<<v, u>>})
  <2>1. u \in Versions
    BY NamedVersions
  <2>2. {<<v, u>>} \in SUBSET (Candidates \cup (Versions \X Versions))
    BY <2>1
  <2>3. r \in SkillRow /\ r.status # "active" /\ \A x \in Candidates : r.key # {x}
    BY <2>1, <2>2, RequestedDraft, UpdateKeys
  <2>4. Call("api", <<Change(Skill(u), r)>>)
    BY <1>4 DEF UpdateSkill
  <2> HIDE DEF r
  <2>5. QED
    BY <2>1, <2>3, <2>4, SkillKept
<1>5. ASSUME NEW u \in Versions, RollbackSkill(v, u)
      PROVE  IInv'
  BY <1>5, Handover DEF RollbackSkill, IsActive, Active
<1>6. CASE EvaluateSkill(v)
  BY <1>1, <1>6, EvaluatedRow, SkillKept DEF EvaluateSkill
<1>7. CASE SuspendSkill(v)
  <2> DEFINE status == IF IsActive(v) THEN "suspended" ELSE row[Skill(v)].status
             r == [row[Skill(v)] EXCEPT !.status = status]
  <2>1. Stored(Skill(v)) /\ Call("api", <<Change(Skill(v), r)>>)
    BY <1>7 DEF SuspendSkill, SetStatus
  <2>2. row[Skill(v)] \in SkillRow
    BY <1>1, <2>1, StoredRows
  <2>3. r \in SkillRow /\ r.status # "active" /\ r.key = row[Skill(v)].key
    BY <2>2 DEF SkillRow, SkillStatuses, IsActive
  <2> HIDE DEF r
  <2>4. QED
    BY <2>1, <2>3, SkillKept
<1>8. ASSUME NEW approval \in {"pending", "approved", "rejected"}, Stored(Skill(v)),
             Call("api", <<Change(Skill(v), [row[Skill(v)] EXCEPT !.approval = approval])>>)
      PROVE  IInv'
  <2> DEFINE r == [row[Skill(v)] EXCEPT !.approval = approval]
  <2>1. row[Skill(v)] \in SkillRow
    BY <1>1, <1>8, StoredRows
  <2>2. r \in SkillRow /\ r.status = row[Skill(v)].status /\ r.key = row[Skill(v)].key
    BY <2>1 DEF SkillRow
  <2>3. r.status = "active" => Active(Skill(v))
    BY <2>2 DEF Active
  <2>4. Call("api", <<Change(Skill(v), r)>>)
    BY <1>8
  <2> HIDE DEF r
  <2>5. QED
    BY <1>8, <2>2, <2>3, <2>4, SkillKept
<1>9. CASE RequestApproval(v)
  BY <1>8, <1>9 DEF RequestApproval
<1>10. ASSUME NEW decision \in {"approved", "rejected"}, DecideApproval(v, decision)
       PROVE  IInv'
  BY <1>8, <1>10 DEF DecideApproval
<1>11. QED
  BY <1>2, <1>3, <1>4, <1>5, <1>6, <1>7, <1>9, <1>10, ActivateKeeps

-----------------------------------------------------------------------------
(***************************************************************************)
(* Requests for a reflection, reviews, and the writes of requests.         *)
(***************************************************************************)
LEMMA EnqueueKeeps ==
  ASSUME IInv, NEW p \in Processes \ {"worker"}, NEW j \in Jobs, NEW proposal \in Proposals,
         Enqueue(p, j, proposal)
  PROVE  IInv'
<1> DEFINE c == Change(Job(j), Asked(proposal))
           w == <<c>>
<1>1. Typed /\ Job(j) \in Keys /\ Job(j) \in JobKeys /\ UNCHANGED <<wk, crashes>>
  BY KeyKinds DEF IInv, Enqueue
<1>2. /\ Asked(proposal) \in JobRow /\ Asked(proposal).status = "pending"
      /\ Asked(proposal).attempts < MaxAttempts
  BY ReflectionAssumption DEF Asked, JobRow, JobStatuses
<1>3. Asked(proposal) # NoRow
  BY <1>2 DEF NoRow
<1>4. c \in Changes /\ c.key = Job(j) /\ c.new = Asked(proposal)
  BY <1>1, <1>2 DEF Changes, Change, Typed, Rows
<1>5. /\ row' = row /\ stale' = stale /\ calls' \in 0..CallBound
      /\ writes' = [writes EXCEPT ![p] = <<>>] \/ writes' = [writes EXCEPT ![p] = w]
  <2>1. Call(p, <<>>) \/ Call(p, w)
    BY DEF Enqueue
  <2> HIDE DEF w
  <2>2. QED
    BY <1>1, <2>1, LearningStoreAssumption DEF Call, Begin, Typed
<1> HIDE DEF c
<1>6. Fitting(c)
  BY <1>1, <1>2, <1>3, <1>4 DEF Fitting, Fits
<1>7. /\ c.key \notin MemoryKeys /\ c.key \notin SkillKeys /\ c.key \notin CandidateKeys
      /\ \A v \in Versions : c.key # Skill(v)
  BY <1>1, <1>4, KindsApart, KeyKinds
<1>8. Requested(c) /\ c.new.status # "active"
  BY <1>2, <1>4, <1>6, <1>7 DEF Requested
<1>9. w \in Seq(Changes) /\ ApiOK(w)
  BY <1>8, OneRequest
<1>10. Len(w) = 1 /\ w[1] = c
  OBVIOUS
<1> HIDE DEF w
<1>11. ThreadOK(w)
  BY <1>1, <1>2, <1>4, <1>6, <1>10 DEF ThreadOK
<1>12. QED
  BY <1>1, <1>5, <1>9, <1>11, NoRequest, ListBegins

LEMMA ReviewKeeps ==
  ASSUME IInv, NEW x \in Candidates, NEW decision \in {"approved", "rejected"},
         Review(x, decision)
  PROVE  IInv'
<1> DEFINE r == [row[Candidate(x)] EXCEPT !.status = decision]
           c == Change(Candidate(x), r)
<1>1. /\ Typed /\ Candidate(x) \in Keys /\ Candidate(x) \in CandidateKeys
      /\ Stored(Candidate(x)) /\ Call("api", <<c>>) /\ UNCHANGED <<wk, crashes>>
  BY KeyKinds DEF IInv, Review, SetStatus
<1>2. row[Candidate(x)] \in CandidateRow
  BY <1>1, StoredRows
<1>3. r \in CandidateRow /\ r.status = decision /\ r.made = row[Candidate(x)].made
  BY <1>2 DEF CandidateRow, CandidateStatuses
<1>4. r # NoRow
  BY <1>3 DEF NoRow
<1> HIDE DEF r
<1>5. c \in Changes /\ c.key = Candidate(x) /\ c.new = r /\ c.read = row[Candidate(x)]
  BY <1>1, <1>2, <1>3 DEF Changes, Change, Rows
<1> HIDE DEF c
<1>6. Fitting(c)
  BY <1>1, <1>3, <1>4, <1>5 DEF Fitting, Fits
<1>7. c.key \notin JobKeys /\ \A v \in Versions : c.key # Skill(v)
  BY <1>1, <1>5, KindsApart, KeyKinds
<1>8. Requested(c) /\ c.new.status # "active"
  BY <1>1, <1>2, <1>3, <1>5, <1>6, <1>7 DEF Requested
<1>9. QED
  BY <1>1, <1>8, OneRequest, CallKeeps

\* The rows after a store, and the variables it leaves.
LEMMA StoreTyped ==
  ASSUME Typed, NEW c \in Changes, Fitting(c), Store(c),
         writes' \in [Processes -> Seq(Changes)], wk' \in {Resting} \cup Work,
         UNCHANGED <<calls, crashes>>
  PROVE  Typed'
  BY StoreEffect DEF Typed

LEMMA HeadWritten ==
  ASSUME Typed, NEW p \in Processes, Write(p)
  PROVE  LET w == writes[p]
         IN /\ w \in Seq(Changes) /\ w # <<>> /\ Len(w) \in Nat \ {0}
            /\ w[1] \in Changes /\ Store(w[1])
            /\ writes' = [writes EXCEPT ![p] = Tail(w)]
            /\ writes'[p] = Tail(w) /\ Tail(w) \in Seq(Changes)
            /\ Len(Tail(w)) = Len(w) - 1
            /\ \A q \in Processes : q # p => writes'[q] = writes[q]
            /\ writes' \in [Processes -> Seq(Changes)]
<1> DEFINE w == writes[p]
<1>1. w \in Seq(Changes) /\ w # <<>> /\ writes \in [Processes -> Seq(Changes)]
  BY DEF Typed, Write, Free
<1>2. Store(Head(w)) /\ writes' = [writes EXCEPT ![p] = Tail(w)]
  BY DEF Write
<1>3. /\ Len(w) \in Nat \ {0} /\ w[1] \in Changes /\ Head(w) = w[1]
      /\ Tail(w) \in Seq(Changes) /\ Len(Tail(w)) = Len(w) - 1
  BY <1>1, HeadTailProperties, EmptySeq, LenProperties, ElementOfSeq
<1> HIDE DEF w
<1>4. /\ writes'[p] = Tail(w) /\ writes' \in [Processes -> Seq(Changes)]
      /\ \A q \in Processes : q # p => writes'[q] = writes[q]
  BY <1>1, <1>2, <1>3
<1>5. QED
  BY <1>1, <1>2, <1>3, <1>4 DEF w

LEMMA ApiWriteKeeps ==
  ASSUME IInv, Write("api"), UNCHANGED <<wk, crashes>>
  PROVE  IInv'
<1> DEFINE w == writes["api"]
<1>1. Typed /\ StoreOK /\ ListsOK /\ WkOK /\ WkWaits /\ ApiOK(w)
      /\ WorkerOK(writes["worker"]) /\ \A t \in Threads : ThreadOK(writes[t])
  BY DEF IInv, ListsOK
<1>2. /\ w \in Seq(Changes) /\ w # <<>> /\ w[1] \in Changes /\ Store(w[1])
      /\ writes'["api"] = Tail(w) /\ writes' \in [Processes -> Seq(Changes)]
      /\ \A q \in Processes : q # "api" => writes'[q] = writes[q]
      /\ Len(w) \in Nat \ {0}
  BY <1>1, HeadWritten, ProcessesApart
<1>3. Requested(w[1])
  BY <1>1, <1>2 DEF ApiOK
<1>4. /\ StoreOK' /\ CandidatesStay /\ VersionsStay
      /\ \A q : q = Tail(w) => ApiOK(q)'
      /\ \A q : WorkerOK(q) => WorkerOK(q)'
  <2>1. ASSUME NEW q, q = w
        PROVE  /\ StoreOK' /\ ApiOK(Tail(q))' /\ CandidatesStay /\ VersionsStay
               /\ \A r : WorkerOK(r) => WorkerOK(r)'
    BY <1>1, <1>2, <2>1, ApiStore
  <2>2. QED
    BY <2>1
<1>5. Typed'
  BY <1>1, <1>2, <1>3, StoreTyped DEF Write, Requested, Typed
<1>6. WkOK' /\ WkWaits'
  BY <1>1, <1>2, <1>4, WorkAside, ProcessesApart
<1>7. \A t \in Threads : ThreadOK(writes[t])'
  BY <1>1, <1>2, ProcessesApart DEF ThreadOK
<1>8. ApiOK(writes["api"])' /\ WorkerOK(writes["worker"])'
  BY <1>1, <1>2, <1>4, ProcessesApart
<1>9. QED
  BY <1>4, <1>5, <1>6, <1>7, <1>8 DEF IInv, ListsOK

LEMMA Emptied == \A q \in Seq(Changes) : Len(q) = 0 => q = <<>>
  BY EmptySeq

LEMMA ThreadWriteKeeps ==
  ASSUME IInv, NEW t \in Threads, Write(t), UNCHANGED <<wk, crashes>>
  PROVE  IInv'
<1> DEFINE w == writes[t]
<1>1. /\ Typed /\ StoreOK /\ ListsOK /\ WkOK /\ WkWaits /\ ApiOK(writes["api"])
      /\ WorkerOK(writes["worker"]) /\ \A u \in Threads : ThreadOK(writes[u])
  BY DEF IInv, ListsOK
<1>2. /\ w[1] \in Changes /\ Store(w[1]) /\ Len(w) \in Nat \ {0}
      /\ writes'[t] = Tail(w) /\ writes' \in [Processes -> Seq(Changes)]
      /\ Len(Tail(w)) = Len(w) - 1 /\ Tail(w) \in Seq(Changes)
      /\ \A q \in Processes : q # t => writes'[q] = writes[q]
  BY <1>1, HeadWritten, ProcessesApart
<1>3. /\ Len(w) = 1 /\ Fitting(w[1])
      /\ \/ w[1].key \in MemoryKeys /\ w[1].new = w[1].read
         \/ w[1].key \in JobKeys /\ w[1].new.status = "pending"
  BY <1>1, <1>2 DEF ThreadOK
<1>4. w[1].key \notin SkillKeys /\ w[1].key \notin CandidateKeys
      /\ (w[1].key \in JobKeys => w[1].new.status # "completed")
      /\ (w[1].key \in MemoryKeys => w[1].new = w[1].read)
  BY <1>3, KindsApart
<1>5. ASSUME NEW c, c = w[1]
      PROVE  /\ StoreOK' /\ CandidatesStay /\ VersionsStay
             /\ \A q : ApiOK(q) => ApiOK(q)'
             /\ \A q : WorkerOK(q) => WorkerOK(q)'
  <2>1. /\ MemoryFresh' => OneActive(MemoryKeys)'
        /\ OneActive(SkillKeys)' /\ OneDraft' /\ ApiOK(writes["api"])'
        /\ \A q : ApiOK(q) => ApiOK(q)'
    <3>1. ASSUME NEW q, ApiOK(q)
          PROVE  /\ MemoryFresh' => OneActive(MemoryKeys)'
                 /\ OneActive(SkillKeys)' /\ OneDraft' /\ ApiOK(q)'
      BY <1>1, <1>2, <1>3, <1>4, <1>5, <3>1, ForeignStore
    <3>2. ApiOK(<<>>)
      BY NoRequest
    <3>3. writes'["api"] = writes["api"]
      BY <1>2, ProcessesApart
    <3>4. QED
      BY <1>1, <3>1, <3>2, <3>3
  <2>2. CandidatesStay /\ OneCandidate' /\ Decided' /\ VersionsStay
    BY <1>1, <1>2, <1>3, <1>4, <1>5, CandidatesAfter, StoresStay DEF StoreOK
  <2>3. \A x : Drafted(x)' = Drafted(x)
    BY <1>1, <1>2, <1>3, <1>4, <1>5, DraftsAfter
  <2>4. \A q : WorkerOK(q) => WorkerOK(q)'
    BY <2>3, DraftsShrink
  <2>5. QED
    BY <2>1, <2>2, <2>4 DEF StoreOK
<1>6. Typed'
  BY <1>1, <1>2, <1>3, StoreTyped DEF Write, Typed
<1>7. WkOK' /\ WkWaits'
  BY <1>1, <1>2, <1>5, WorkAside, ProcessesApart
<1>8. \A u \in Threads : ThreadOK(writes[u])'
  <2> SUFFICES ASSUME NEW u \in Threads PROVE ThreadOK(writes[u])'
    OBVIOUS
  <2>1. CASE u = t
    <3>1. Tail(w) \in Seq(Changes) /\ Len(Tail(w)) = 0 /\ writes'[u] = Tail(w)
      BY <1>2, <1>3, <2>1
    <3> HIDE DEF w
    <3>2. writes'[u] = <<>>
      BY <3>1, Emptied, Zenon
    <3>3. ThreadOK(writes'[u])
      BY <3>2, NoRequest
    <3>4. QED
      BY <3>3 DEF ThreadOK
  <2>2. CASE u # t
    BY <1>1, <1>2, <2>2, ProcessesApart DEF ThreadOK
  <2>3. QED
    BY <2>1, <2>2
<1>9. ApiOK(writes["api"])' /\ WorkerOK(writes["worker"])'
  BY <1>1, <1>2, <1>5, ProcessesApart
<1>10. QED
  BY <1>5, <1>6, <1>7, <1>8, <1>9 DEF IInv, ListsOK

LEMMA WorkerWriteKeeps ==
  ASSUME IInv, Write("worker"), UNCHANGED <<wk, crashes>>
  PROVE  IInv'
<1> DEFINE w == writes["worker"]
<1>1. /\ Typed /\ StoreOK /\ ListsOK /\ WkOK /\ WkWaits /\ ApiOK(writes["api"])
      /\ WorkerOK(w) /\ \A u \in Threads : ThreadOK(writes[u])
  BY DEF IInv, ListsOK
<1>2. /\ w # <<>> /\ w[1] \in Changes /\ Store(w[1]) /\ Len(w) \in Nat \ {0}
      /\ writes'["worker"] = Tail(w) /\ writes' \in [Processes -> Seq(Changes)]
      /\ Len(Tail(w)) = Len(w) - 1 /\ Tail(w) \in Seq(Changes)
      /\ \A q \in Processes : q # "worker" => writes'[q] = writes[q]
  BY <1>1, HeadWritten, ProcessesApart
<1>3. Len(w) = 1 /\ Worked(w[1])
  BY <1>1, <1>2 DEF WorkerOK
<1>4. /\ Fitting(w[1]) /\ w[1].new.status # "active"
      /\ w[1].key \notin CandidateKeys /\ w[1].key \notin JobKeys
  BY <1>3, KindsApart DEF Worked
<1>5. ASSUME NEW c, c = w[1]
      PROVE  StoreOK' /\ CandidatesStay /\ VersionsStay /\ \A q : ApiOK(q) => ApiOK(q)'
  <2>1. ASSUME NEW q, ApiOK(q)
        PROVE  /\ MemoryFresh' => OneActive(MemoryKeys)'
               /\ OneActive(SkillKeys)' /\ OneDraft' /\ ApiOK(q)'
    BY <1>1, <1>2, <1>3, <1>4, <1>5, <2>1, ForeignStore
  <2>2. ApiOK(<<>>)
    BY NoRequest
  <2>3. CandidatesStay /\ OneCandidate' /\ Decided' /\ VersionsStay
    BY <1>1, <1>2, <1>4, <1>5, CandidatesAfter, StoresStay DEF StoreOK
  <2>4. QED
    BY <2>1, <2>2, <2>3 DEF StoreOK
<1>6. Typed'
  BY <1>1, <1>2, <1>4, StoreTyped DEF Write, Typed
<1>7. writes'["worker"] = <<>>
  <2>1. Tail(w) \in Seq(Changes) /\ Len(Tail(w)) = 0 /\ writes'["worker"] = Tail(w)
    BY <1>2, <1>3
  <2> HIDE DEF w
  <2>2. QED
    BY <2>1, Emptied, Zenon
<1>8. \A k \in SkillKeys : k = w[1].key => Stored(k)'
  <2>1. row'[w[1].key] = w[1].new
    BY <1>1, <1>2, <1>4, StoreEffect
  <2>2. w[1].key \in SkillKeys => w[1].new.status # "absent"
    BY <1>4, Tables, KindsApart DEF Fitting
  <2>3. QED
    BY <2>1, <2>2 DEF Stored
<1>9. WkOK' /\ WkWaits'
  <2>1. wk # Resting /\ wk.pc = "evaluating" => wk.version \in Versions /\ Stored(Skill(wk.version))'
    BY <1>1, <1>5, <1>8, KeyKinds DEF WkOK, VersionsStay
  <2>2. wk # Resting => wk.id \in Candidates
    BY <1>1 DEF Typed, Work
  <2>3. QED
    BY <1>1, <1>5, <1>7, <2>1, <2>2 DEF WkOK, WkWaits, CandidatesStay
<1>10. \A u \in Threads : ThreadOK(writes[u])'
  <2>1. \A u \in Threads : writes'[u] = writes[u]
    BY <1>2, ProcessesApart
  <2>2. QED
    BY <1>1, <2>1 DEF ThreadOK
<1>11. ApiOK(writes["api"])' /\ WorkerOK(writes["worker"])'
  BY <1>1, <1>2, <1>5, <1>7, NoRequest, ProcessesApart DEF WorkerOK
<1>12. QED
  BY <1>5, <1>6, <1>9, <1>10, <1>11 DEF IInv, ListsOK

LEMMA AbandonKeeps ==
  ASSUME IInv, NEW p \in Processes \ {"worker"}, Abandon(p), UNCHANGED <<wk, crashes>>
  PROVE  IInv'
<1>1. row' = row /\ stale' = stale /\ calls' = calls /\ writes' = [writes EXCEPT ![p] = <<>>]
  BY DEF Abandon
<1>2. calls' \in 0..CallBound
  BY <1>1 DEF IInv, Typed
<1>3. QED
  BY <1>1, <1>2, NoRequest, ListBegins

-----------------------------------------------------------------------------
(***************************************************************************)
(* The worker's steps.                                                     *)
(***************************************************************************)
\* A step that stores nothing.
LEMMA WorkerMoves ==
  ASSUME IInv, row' = row, stale' = stale, calls' = calls, crashes' \in 0..CrashBound,
         writes' \in [Processes -> Seq(Changes)],
         \A q \in Processes : q # "worker" => writes'[q] = writes[q],
         WorkerOK(writes'["worker"]),
         wk' \in {Resting} \cup Work, WkOK', WkWaits'
  PROVE  IInv'
<1>1. Typed /\ StoreOK /\ ListsOK
  BY DEF IInv
<1>2. Typed'
  BY <1>1 DEF Typed
<1>3. StoreOK'
  BY <1>1, SameRows
<1>4. ApiOK(writes["api"])' /\ WorkerOK(writes["worker"])'
  <2>1. ApiOK(writes'["api"])
    BY <1>1, ProcessesApart DEF ListsOK
  <2>2. QED
    BY <2>1, SameRows
<1>5. \A t \in Threads : ThreadOK(writes[t])'
  BY <1>1, ProcessesApart DEF ListsOK, ThreadOK
<1>6. QED
  BY <1>2, <1>3, <1>4, <1>5 DEF IInv, ListsOK

\* A step that stores a candidate or a job.
LEMMA WorkerSaves ==
  ASSUME IInv, NEW c \in Changes, Fitting(c), Store(c),
         c.key \in CandidateKeys \cup JobKeys, UNCHANGED <<writes, calls, crashes>>,
         wk' \in {Resting} \cup Work, WkOK', WkWaits', OneCandidate', Decided'
  PROVE  IInv'
<1>1. /\ Typed /\ StoreOK /\ ApiOK(writes["api"]) /\ WorkerOK(writes["worker"])
      /\ \A t \in Threads : ThreadOK(writes[t])
  BY DEF IInv, ListsOK
<1>2. Typed'
  BY <1>1, StoreTyped DEF Typed
<1>3. c.key \notin MemoryKeys /\ c.key \notin SkillKeys
  BY KindsApart
<1>4. ASSUME NEW q, ApiOK(q)
      PROVE  /\ MemoryFresh' => OneActive(MemoryKeys)'
             /\ OneActive(SkillKeys)' /\ OneDraft' /\ ApiOK(q)'
  BY <1>1, <1>3, <1>4, ForeignStore
<1>5. StoreOK'
  BY <1>4, NoRequest DEF StoreOK
<1>6. \A x : Drafted(x)' = Drafted(x)
  BY <1>1, <1>3, DraftsAfter
<1>7. ApiOK(writes["api"])' /\ WorkerOK(writes["worker"])'
  BY <1>1, <1>4, <1>6, DraftsShrink
<1>8. \A t \in Threads : ThreadOK(writes[t])'
  BY <1>1 DEF ThreadOK
<1>9. QED
  BY <1>2, <1>5, <1>7, <1>8 DEF IInv, ListsOK

\* The worker at a step has nothing left to write.
LEMMA AtStep ==
  ASSUME IInv, NEW pc, pc # "idle", Working(pc)
  PROVE  /\ wk \in Work /\ wk.pc = pc /\ wk # Resting /\ writes["worker"] = <<>>
         /\ wk.id \in Candidates /\ wk.job \in Jobs /\ wk.record \in JobRow
         /\ wk.id[2] = wk.record.proposal /\ wk.record.attempts < MaxAttempts
<1>1. wk.pc = pc /\ writes["worker"] = <<>> /\ wk \in {Resting} \cup Work /\ WkOK
  BY DEF Working, Free, IInv, Typed
<1>2. Resting.pc = "idle"
  BY DEF Resting
<1>3. wk \in Work /\ wk # Resting
  BY <1>1, <1>2
<1>4. QED
  BY <1>1, <1>3 DEF WkOK, Work

\* A store of a job.
LEMMA JobChange ==
  ASSUME Typed, NEW j \in Jobs, NEW read \in Rows, NEW r \in JobRow,
         r.status \in {"pending", "retry_scheduled"} => r.attempts < MaxAttempts
  PROVE  LET c == [key |-> Job(j), read |-> read, new |-> r]
         IN c \in Changes /\ Fitting(c) /\ c.key \in JobKeys /\ c.key \notin CandidateKeys
<1>1. Job(j) \in Keys /\ Job(j) \in JobKeys
  BY KeyKinds
<1>2. r \in Rows /\ r # NoRow
  BY DEF Rows, JobRow, JobStatuses, NoRow
<1>3. QED
  BY <1>1, <1>2, KindsApart DEF Changes, Fitting, Fits

LEMMA TakeKeeps ==
  ASSUME IInv, NEW j \in Jobs, Take(j)
  PROVE  IInv'
<1> DEFINE running == [row[Job(j)] EXCEPT !.status = "running"]
           c == [key |-> Job(j), read |-> row[Job(j)], new |-> running]
<1>1. /\ Typed /\ StoreOK /\ WkWaits /\ wk = Resting
      /\ row[Job(j)].status \in {"pending", "retry_scheduled"}
      /\ Store(c) /\ UNCHANGED <<writes, calls, crashes>>
      /\ wk' = [pc |-> "classifying", job |-> j, record |-> running, version |-> 0,
                id |-> <<j, running.proposal>>, read |-> NoRow, copy |-> NoRow]
  BY DEF IInv, Take, Save
<1>2. row[Job(j)] \in JobRow /\ row[Job(j)].attempts < MaxAttempts /\ row[Job(j)] \in Rows
  BY <1>1, StoredRows DEF Stored, Rows
<1>3. /\ running \in JobRow /\ running.status = "running"
      /\ running.attempts < MaxAttempts /\ running.proposal \in Proposals
  BY <1>2 DEF JobRow, JobStatuses
<1> HIDE DEF running
<1>4. c \in Changes /\ Fitting(c) /\ c.key \in JobKeys /\ c.key \notin CandidateKeys
      /\ c.new.status # "completed"
  BY <1>1, <1>2, <1>3, JobChange
<1> HIDE DEF c
<1>5. OneCandidate' /\ Decided'
  BY <1>1, <1>4, CandidatesAfter DEF StoreOK
<1>6. wk' \in Work /\ wk'.pc = "classifying" /\ wk'.id = <<j, running.proposal>>
      /\ wk'.record = running
  BY <1>1, <1>3, LearningStoreAssumption DEF Work, Candidates
<1>7. writes["worker"] = <<>>
  BY <1>1 DEF WkWaits
<1>8. WkOK' /\ WkWaits'
  BY <1>1, <1>3, <1>6, <1>7 DEF WkOK, WkWaits
<1>9. QED
  BY <1>1, <1>4, <1>5, <1>6, <1>8, WorkerSaves

LEMMA FailKeeps ==
  ASSUME IInv, Fail
  PROVE  IInv'
<1> DEFINE attempts == wk.record.attempts + 1
           new == [wk.record EXCEPT !.attempts = attempts,
                     !.status = IF attempts < MaxAttempts THEN "retry_scheduled" ELSE "failed"]
           c == [key |-> Job(wk.job), read |-> wk.record, new |-> new]
<1>1. /\ Working("failing") /\ Store(c) /\ UNCHANGED <<writes, calls, crashes>> /\ wk' = Resting
      /\ Typed /\ StoreOK
  BY DEF Fail, Save, IInv
<1>2. /\ wk.record \in JobRow /\ wk.job \in Jobs /\ wk.record.attempts < MaxAttempts
      /\ writes["worker"] = <<>>
  BY <1>1, AtStep
<1>3. attempts \in 0..MaxAttempts
  BY <1>2, ReflectionAssumption DEF JobRow
<1>4. /\ new \in JobRow /\ new.status # "completed"
      /\ new.status \in {"pending", "retry_scheduled"} => new.attempts < MaxAttempts
  BY <1>2, <1>3 DEF JobRow, JobStatuses
<1> HIDE DEF attempts, new
<1>5. wk.record \in Rows
  BY <1>2 DEF Rows
<1>6. c \in Changes /\ Fitting(c) /\ c.key \in JobKeys /\ c.key \notin CandidateKeys
      /\ c.new.status # "completed"
  BY <1>1, <1>2, <1>4, <1>5, JobChange
<1> HIDE DEF c
<1>7. OneCandidate' /\ Decided'
  BY <1>1, <1>6, CandidatesAfter DEF StoreOK
<1>8. WkOK' /\ WkWaits'
  BY <1>1, <1>2 DEF WkOK, WkWaits
<1>9. QED
  BY <1>1, <1>6, <1>7, <1>8, WorkerSaves

LEMMA CompleteJobKeeps ==
  ASSUME IInv, CompleteJob
  PROVE  IInv'
<1> DEFINE new == [wk.record EXCEPT !.status = "completed"]
           c == [key |-> Job(wk.job), read |-> wk.record, new |-> new]
<1>1. /\ Working("completing") /\ Store(c) /\ UNCHANGED <<writes, calls, crashes>>
      /\ wk' = Resting /\ Typed /\ StoreOK /\ WkOK
  BY DEF CompleteJob, Save, IInv
<1>2. /\ wk.record \in JobRow /\ wk.job \in Jobs /\ writes["worker"] = <<>> /\ wk # Resting
      /\ wk.id \in Candidates /\ wk.id[2] = wk.record.proposal /\ wk.pc = "completing"
  BY <1>1, AtStep
<1>3. /\ new \in JobRow /\ new.status = "completed" /\ new.proposal = wk.record.proposal
  BY <1>2 DEF JobRow, JobStatuses
<1> HIDE DEF new
<1>4. wk.record \in Rows
  BY <1>2 DEF Rows
<1>5. c \in Changes /\ Fitting(c) /\ c.key \in JobKeys /\ c.key \notin CandidateKeys
      /\ c.key = Job(wk.job) /\ c.new = new
  BY <1>1, <1>2, <1>3, <1>4, JobChange
<1> HIDE DEF c
<1>6. /\ row'[c.key] = c.new /\ c.key \in Keys /\ \A k \in Keys : k # c.key => row'[k] = row[k]
  BY <1>1, <1>5, StoreEffect
<1>7. \A x \in Candidates : row'[Candidate(x)] = row[Candidate(x)]
  BY <1>5, <1>6, KeyKinds
<1>8. OneCandidate'
  BY <1>1, <1>7 DEF StoreOK, OneCandidate, Stored
<1>9. Decided'
  <2> SUFFICES ASSUME NEW j \in Jobs, row'[Job(j)].status = "completed"
               PROVE  \E x \in Candidates :
                        /\ Stored(Candidate(x))' /\ x[2] = row'[Job(j)].proposal
                        /\ row'[Candidate(x)].status # "candidate"
    BY DEF Decided
  <2>1. CASE j = wk.job
    <3>1. Stored(Candidate(wk.id)) /\ row[Candidate(wk.id)].status # "candidate"
      BY <1>1, <1>2 DEF WkOK
    <3>2. wk.id[2] = row'[Job(j)].proposal
      BY <1>2, <1>3, <1>5, <1>6, <2>1
    <3>3. QED
      BY <1>2, <1>7, <3>1, <3>2 DEF Stored
  <2>2. CASE j # wk.job
    <3>1. row'[Job(j)] = row[Job(j)]
      BY <1>5, <1>6, <2>2, KeyKinds
    <3>2. PICK x \in Candidates : /\ Stored(Candidate(x)) /\ x[2] = row[Job(j)].proposal
                                  /\ row[Candidate(x)].status # "candidate"
      BY <1>1, <3>1 DEF StoreOK, Decided
    <3>3. QED
      BY <1>7, <3>1, <3>2 DEF Stored
  <2>3. QED
    BY <2>1, <2>2
<1>10. WkOK' /\ WkWaits'
  BY <1>1, <1>2 DEF WkOK, WkWaits
<1>11. QED
  BY <1>1, <1>5, <1>8, <1>9, <1>10, WorkerSaves

LEMMA ProposeKeeps ==
  ASSUME IInv, Propose
  PROVE  IInv'
<1> DEFINE new == [status |-> "candidate", made |-> FALSE]
           c == [key |-> Candidate(wk.id), read |-> NoRow, new |-> new]
<1>1. Working("classifying") /\ Typed /\ StoreOK
  BY DEF Propose, IInv
<1>2. /\ wk \in Work /\ wk.pc = "classifying" /\ writes["worker"] = <<>>
      /\ wk.id \in Candidates /\ wk.id[2] = wk.record.proposal
      /\ wk.record.attempts < MaxAttempts /\ wk # Resting
  BY <1>1, AtStep
<1>3. ASSUME NEW x \in Candidates, NEW copy \in CandidateRow, Stored(Candidate(x))',
             copy.made => copy.status # "candidate", x[2] = wk.id[2],
             wk' = [wk EXCEPT !.id = x, !.read = copy, !.copy = copy,
                              !.pc = IF copy.status = "candidate" THEN "making" ELSE "saving"],
             UNCHANGED writes
      PROVE  wk' \in Work /\ WkOK' /\ WkWaits'
  <2> DEFINE pc == IF copy.status = "candidate" THEN "making" ELSE "saving"
  <2>1. /\ wk' \in Work /\ wk'.id = x /\ wk'.read = copy /\ wk'.copy = copy /\ wk'.pc = pc
        /\ wk'.record = wk.record
    BY <1>2, <1>3 DEF Work
  <2>2. QED
    BY <1>2, <1>3, <2>1 DEF WkOK, WkWaits
<1>4. CASE /\ SameProposal(wk.id) = {}
           /\ Save(Candidate(wk.id), NoRow, new)
           /\ wk' = [wk EXCEPT !.id = wk.id, !.read = new, !.copy = new, !.pc = "making"]
  <2>1. new \in CandidateRow /\ new.status = "candidate" /\ ~new.made
    BY DEF CandidateRow, CandidateStatuses
  <2> HIDE DEF new
  <2>2. Store(c) /\ UNCHANGED <<writes, calls, crashes>>
    BY <1>4 DEF Save
  <2>3. Candidate(wk.id) \in Keys /\ Candidate(wk.id) \in CandidateKeys
    BY <1>2, KeyKinds
  <2>4. new # NoRow
    BY <2>1 DEF NoRow
  <2>5. c \in Changes /\ Fitting(c) /\ c.key = Candidate(wk.id) /\ c.new = new
    BY <2>1, <2>3, <2>4 DEF Changes, Rows, Fitting, Fits
  <2> HIDE DEF c
  <2>6. row'[c.key] = c.new /\ \A k \in Keys : k # c.key => row'[k] = row[k]
    BY <1>1, <2>2, <2>5, StoreEffect
  <2>7. \A x \in Candidates : x[2] = wk.id[2] => ~Stored(Candidate(x))
    BY <1>4 DEF SameProposal
  <2>8. /\ \A x \in Candidates : x # wk.id => row'[Candidate(x)] = row[Candidate(x)]
        /\ \A j \in Jobs : row'[Job(j)] = row[Job(j)]
    BY <2>3, <2>5, <2>6, KeyKinds, KindsApart
  <2>9. OneCandidate'
    <3> SUFFICES ASSUME NEW x \in Candidates, NEW y \in Candidates, Stored(Candidate(x))',
                        Stored(Candidate(y))', x[2] = y[2]
                 PROVE  x = y
      BY DEF OneCandidate
    <3>1. x # wk.id => Stored(Candidate(x))
      BY <2>8 DEF Stored
    <3>2. y # wk.id => Stored(Candidate(y))
      BY <2>8 DEF Stored
    <3>3. QED
      BY <1>1, <1>2, <2>7, <3>1, <3>2 DEF StoreOK, OneCandidate
  <2>10. Decided'
    <3> SUFFICES ASSUME NEW j \in Jobs, row'[Job(j)].status = "completed"
                 PROVE  \E x \in Candidates :
                          /\ Stored(Candidate(x))' /\ x[2] = row'[Job(j)].proposal
                          /\ row'[Candidate(x)].status # "candidate"
      BY DEF Decided
    <3>1. PICK x \in Candidates : /\ Stored(Candidate(x)) /\ x[2] = row[Job(j)].proposal
                                  /\ row[Candidate(x)].status # "candidate"
      BY <1>1, <2>8 DEF StoreOK, Decided
    <3>2. x # wk.id
      BY <1>2, <2>7, <3>1
    <3>3. QED
      BY <2>8, <3>1, <3>2 DEF Stored
  <2>11. \A x : x = wk.id => Stored(Candidate(x))'
    BY <2>1, <2>5, <2>6 DEF Stored
  <2>12. wk' = [wk EXCEPT !.id = wk.id, !.read = new, !.copy = new,
                  !.pc = IF new.status = "candidate" THEN "making" ELSE "saving"]
    BY <1>4, <2>1
  <2>13. wk' \in Work /\ WkOK' /\ WkWaits'
    BY <1>2, <1>3, <2>1, <2>2, <2>11, <2>12
  <2>14. QED
    BY <2>2, <2>3, <2>5, <2>9, <2>10, <2>13, WorkerSaves
<1>5. ASSUME NEW x \in SameProposal(wk.id), UNCHANGED <<storeVars, crashes>>,
             wk' = [wk EXCEPT !.id = x, !.read = row[Candidate(x)], !.copy = row[Candidate(x)],
                      !.pc = IF row[Candidate(x)].status = "candidate" THEN "making" ELSE "saving"]
      PROVE  IInv'
  <2>1. x \in Candidates /\ x[2] = wk.id[2] /\ Stored(Candidate(x))
        /\ row' = row /\ stale' = stale /\ UNCHANGED <<writes, calls, crashes>>
    BY <1>5 DEF SameProposal, storeVars
  <2>2. /\ row[Candidate(x)] \in CandidateRow
        /\ row[Candidate(x)].made => row[Candidate(x)].status # "candidate"
    BY <1>1, <2>1, StoredRows
  <2>3. Stored(Candidate(x))'
    BY <2>1 DEF Stored
  <2>4. wk' \in Work /\ WkOK' /\ WkWaits'
    BY <1>3, <1>5, <2>1, <2>2, <2>3
  <2>5. WorkerOK(writes'["worker"])
    BY <2>1 DEF IInv, ListsOK
  <2>6. QED
    BY <1>1, <2>1, <2>4, <2>5, WorkerMoves DEF Typed
<1>6. QED
  BY <1>4, <1>5 DEF Propose

\* The copy that _materialize returns is saved next.
LEMMA MadeKeeps ==
  ASSUME IInv, NEW w \in Seq(Changes), WorkerOK(w),
         row' = row, stale' = stale, UNCHANGED <<calls, crashes>>,
         writes' \in [Processes -> Seq(Changes)], writes'["worker"] = w,
         \A q \in Processes : q # "worker" => writes'[q] = writes[q],
         wk.pc \in {"making", "evaluating"}, wk \in Work, wk # Resting,
         NEW status \in {"rejected", "materialized"}, NEW made \in BOOLEAN,
         wk' = [wk EXCEPT !.pc = "saving", !.copy = [status |-> status, made |-> made]]
  PROVE  IInv'
<1> DEFINE copy == [status |-> status, made |-> made]
<1>1. copy \in CandidateRow /\ copy.status # "candidate"
  BY DEF CandidateRow, CandidateStatuses
<1> HIDE DEF copy
<1>2. wk' = [wk EXCEPT !.pc = "saving", !.copy = copy]
  BY DEF copy
<1>3. /\ wk' \in Work /\ wk'.pc = "saving" /\ wk'.copy = copy /\ wk'.id = wk.id
      /\ wk'.record = wk.record /\ wk'.read = wk.read
  BY <1>1, <1>2 DEF Work
<1>4. WkOK
  BY DEF IInv
<1>5. Stored(Candidate(wk.id)) /\ wk.id \in Candidates
  BY <1>4 DEF WkOK, Work
<1>6. Stored(Candidate(wk.id))'
  BY <1>3, <1>5 DEF Stored
<1>7. WkOK' /\ WkWaits'
  <2>1. wk' # Resting
    BY <1>3 DEF Resting
  <2>2. WkOK'
    BY <1>1, <1>3, <1>4, <1>6 DEF WkOK
  <2>3. QED
    BY <1>3, <2>1, <2>2 DEF WkWaits
<1>8. WorkerOK(writes'["worker"]) /\ crashes' \in 0..CrashBound
  BY DEF IInv, Typed
<1>9. QED
  BY <1>3, <1>7, <1>8, WorkerMoves

LEMMA OneWork ==
  ASSUME NEW c, Worked(c)
  PROVE  <<c>> \in Seq(Changes) /\ WorkerOK(<<c>>)
<1> DEFINE w == <<c>>
<1>1. Len(w) = 1 /\ w[1] = c /\ c \in Changes /\ w \in Seq(Changes)
  BY DEF Worked
<1> HIDE DEF w
<1>2. WorkerOK(w)
  BY <1>1 DEF WorkerOK
<1>3. QED
  BY <1>1, <1>2 DEF w

LEMMA MaterializeNothingKeeps ==
  ASSUME IInv, MaterializeNothing
  PROVE  IInv'
<1>1. /\ Working("making") /\ UNCHANGED <<row, writes, calls, stale, crashes>>
      /\ wk' = [wk EXCEPT !.pc = "saving", !.copy = [status |-> "rejected", made |-> FALSE]]
      /\ Typed
  BY DEF MaterializeNothing, Made, storeVars, IInv
<1>2. wk \in Work /\ wk.pc = "making" /\ wk # Resting /\ writes["worker"] = <<>>
  BY <1>1, AtStep
<1>3. writes' \in [Processes -> Seq(Changes)] /\ writes'["worker"] = <<>>
  BY <1>1, <1>2 DEF Typed
<1>4. QED
  BY <1>1, <1>2, <1>3, NoRequest, MadeKeeps

LEMMA MaterializeMemoryKeeps ==
  ASSUME IInv, MaterializeMemory
  PROVE  IInv'
<1> DEFINE x == wk.id
           r == NewMemory(x, x[2], {x}, {})
           c == Change(Memory(x), r)
           w == CreateChanges(x, x[2], {x}, {})
<1>1. /\ Working("making") /\ x[2] \in Facts /\ Begin("worker", w)
      /\ wk' = [wk EXCEPT !.pc = "saving", !.copy = [status |-> "materialized", made |-> TRUE]]
      /\ UNCHANGED <<calls, crashes>> /\ Typed
  BY DEF MaterializeMemory, Made, IInv
<1>2. /\ wk \in Work /\ wk.pc = "making" /\ wk # Resting /\ x \in Candidates
  BY <1>1, AtStep
<1>3. x \in MemoryIds
  BY <1>1, <1>2 DEF MemoryIds, Candidates
<1>4. r \in MemoryRow /\ r.status # "active"
  BY <1>1, <1>2, <1>3, NewMemoryRow
<1>5. w = <<>> \/ w = <<c>>
  BY DEF CreateChanges
<1>6. row' = row /\ stale' = stale /\ writes' = [writes EXCEPT !["worker"] = w]
  BY <1>1 DEF Begin
<1> HIDE DEF r, w
<1>7. Requested(c) /\ c.key = Memory(x) /\ c.new = r
  BY <1>1, <1>3, <1>4, MemoryChange
<1>8. c.key \in MemoryKeys /\ c.key \notin SkillKeys
  BY <1>3, <1>7, KeyKinds, KindsApart
<1>9. Worked(c)
  BY <1>4, <1>7, <1>8 DEF Worked, Requested
<1>10. w \in Seq(Changes) /\ WorkerOK(w)
  BY <1>5, <1>9, OneWork, NoRequest
<1>11. /\ writes' \in [Processes -> Seq(Changes)] /\ writes'["worker"] = w
       /\ \A q \in Processes : q # "worker" => writes'[q] = writes[q]
  BY <1>1, <1>6, <1>10, ProcessesApart DEF Typed
<1>12. QED
  BY <1>1, <1>2, <1>6, <1>10, <1>11, MadeKeeps

LEMMA SkillWorked ==
  ASSUME Typed, NEW v \in Versions, NEW r \in SkillRow, r.status # "active",
         \A x \in Candidates : \A u \in Drafted(x) :
           (r.key = {x} => u = v) /\ (u = v => r.key = {x})
  PROVE  Worked(Change(Skill(v), r)) /\ Change(Skill(v), r).key = Skill(v)
<1> DEFINE c == Change(Skill(v), r)
<1>1. c.key = Skill(v) /\ c.new = r /\ c.read = row[Skill(v)]
  BY DEF Change
<1>2. Skill(v) \in Keys /\ Skill(v) \in SkillKeys
  BY KeyKinds
<1>3. c \in Changes
  BY <1>2 DEF Changes, Change, Typed, Rows
<1>4. r # NoRow
  BY DEF SkillRow, SkillStatuses, NoRow
<1> HIDE DEF c
<1>5. Fitting(c)
  BY <1>1, <1>2, <1>4 DEF Fitting, Fits
<1>6. \A x \in Candidates : \A u \in Drafted(x) :
        /\ c.new.key = {x} => c.key = Skill(u)
        /\ c.key = Skill(u) => c.new.key = {x}
  BY <1>1, KeyKinds
<1>7. Worked(c)
  BY <1>1, <1>2, <1>3, <1>5, <1>6 DEF Worked
<1>8. QED
  BY <1>1, <1>7 DEF c

LEMMA EvaluateDraftKeeps ==
  ASSUME IInv, EvaluateDraft
  PROVE  IInv'
<1> DEFINE v == wk.version
           r == Evaluated(v)
           c == Change(Skill(v), r)
           w == <<c>>
<1>1. /\ Working("evaluating") /\ Begin("worker", w)
      /\ wk' = [wk EXCEPT !.pc = "saving", !.copy = [status |-> "materialized", made |-> TRUE]]
      /\ UNCHANGED <<calls, crashes>> /\ Typed /\ WkOK /\ OneDraft
  BY DEF EvaluateDraft, Made, IInv, StoreOK
<1>2. wk \in Work /\ wk.pc = "evaluating" /\ wk # Resting /\ writes["worker"] = <<>>
  BY <1>1, AtStep
<1>3. v \in Versions /\ Stored(Skill(v))
  BY <1>1, <1>2 DEF WkOK
<1>4. r \in SkillRow /\ r.status # "active" /\ r.key = row[Skill(v)].key
  BY <1>1, <1>3, EvaluatedRow
<1> HIDE DEF r
<1>5. \A x \in Candidates : \A u \in Drafted(x) :
        (r.key = {x} => u = v) /\ (u = v => r.key = {x})
  <2> SUFFICES ASSUME NEW x \in Candidates, NEW u \in Drafted(x)
               PROVE  (r.key = {x} => u = v) /\ (u = v => r.key = {x})
    OBVIOUS
  <2>1. r.key = {x} <=> v \in Drafted(x)
    BY <1>3, <1>4 DEF Drafted
  <2>2. QED
    BY <1>1, <2>1 DEF OneDraft
<1>6. Worked(c)
  BY <1>1, <1>3, <1>4, <1>5, SkillWorked
<1>7. row' = row /\ stale' = stale /\ writes' = [writes EXCEPT !["worker"] = w]
  BY <1>1 DEF Begin
<1> HIDE DEF c
<1>8. w \in Seq(Changes) /\ WorkerOK(w)
  BY <1>6, OneWork
<1> HIDE DEF w
<1>9. /\ writes' \in [Processes -> Seq(Changes)] /\ writes'["worker"] = w
      /\ \A q \in Processes : q # "worker" => writes'[q] = writes[q]
  BY <1>1, <1>7, <1>8, ProcessesApart DEF Typed
<1>10. QED
  BY <1>1, <1>2, <1>7, <1>8, <1>9, MadeKeeps

LEMMA AtMostOne ==
  ASSUME NEW S, \A x, y \in S : x = y
  PROVE  Cardinality(S) <= 1
<1>1. CASE S = {}
  BY <1>1, FS_EmptySet
<1>2. CASE S # {}
  <2>1. PICK x : S = {x}
    BY <1>2
  <2>2. QED
    BY <2>1, FS_Singleton
<1>3. QED
  BY <1>1, <1>2

\* The greatest of some version numbers.
LEMMA Greatest ==
  ASSUME NEW T, T \subseteq 0..VersionBound, T # {}
  PROVE  Max(T) \in T /\ \A y \in T : Max(T) >= y
<1> DEFINE U == {VersionBound - x : x \in T}
<1>1. U \subseteq Nat /\ U # {}
  <2>1. \A x \in T : VersionBound - x \in Nat
    BY LearningStoreAssumption
  <2>2. U # {}
    OBVIOUS
  <2>3. QED
    BY <2>1, <2>2
<1>2. PICK u \in U : \A w \in U : u <= w
  BY <1>1, LeastNatural
<1>3. PICK x \in T : u = VersionBound - x
  BY <1>2
<1>4. \A y \in T : x >= y
  BY <1>2, <1>3, LearningStoreAssumption
<1>5. QED
  BY <1>3, <1>4 DEF Max

LEMMA NextVersionFree == \A v \in Versions : Stored(Skill(v)) => v # NextVersion
<1> DEFINE T == {0} \cup {v \in Versions : Stored(Skill(v))}
<1>1. T \subseteq 0..VersionBound /\ T # {} /\ T \subseteq Int
  BY LearningStoreAssumption DEF Versions
<1>2. Max(T) \in T /\ \A y \in T : Max(T) >= y
  BY <1>1, Greatest
<1>3. NextVersion = Max(T) + 1
  BY DEF NextVersion
<1> HIDE DEF T
<1>4. \A y \in T : y # NextVersion
  <2> DEFINE m == Max(T)
  <2>1. m \in Int /\ NextVersion = m + 1 /\ \A y \in T : y \in Int /\ m >= y
    BY <1>1, <1>2, <1>3
  <2> HIDE DEF m
  <2>2. QED
    BY <2>1
<1>5. QED
  BY <1>4 DEF T

LEMMA DraftSkillKeeps ==
  ASSUME IInv, DraftSkill
  PROVE  IInv'
<1>1. Working("making") /\ Typed /\ WkOK /\ OneDraft /\ UNCHANGED <<calls, crashes>>
  BY DEF DraftSkill, IInv, StoreOK
<1>2. wk \in Work /\ wk.pc = "making" /\ wk # Resting /\ writes["worker"] = <<>>
      /\ wk.id \in Candidates
  BY <1>1, AtStep
<1>3. /\ Stored(Candidate(wk.id)) /\ wk.read \in CandidateRow /\ wk.read.status = "candidate"
      /\ ~wk.read.made
  BY <1>1, <1>2 DEF WkOK
<1>4. crashes' \in 0..CrashBound /\ calls' = calls
  BY <1>1 DEF Typed
<1>5. ASSUME NEW v \in Versions, wk' = [wk EXCEPT !.pc = "evaluating", !.version = v],
             row' = row,
             Stored(Skill(v)) \/ (writes'["worker"] # <<>> /\ writes'["worker"][1].key = Skill(v))
      PROVE  wk' \in Work /\ WkOK' /\ WkWaits'
  <2>1. v \in 0..VersionBound
    BY LearningStoreAssumption DEF Versions
  <2>2. /\ wk' \in Work /\ wk'.pc = "evaluating" /\ wk'.version = v /\ wk'.id = wk.id
        /\ wk'.record = wk.record /\ wk'.read = wk.read
    BY <1>2, <1>5, <2>1 DEF Work
  <2>3. wk' # Resting
    BY <2>2 DEF Resting
  <2>4. Stored(Candidate(wk.id))'
    BY <1>3, <1>5, <2>2 DEF Stored
  <2>5. \/ Stored(Skill(wk.version))'
        \/ writes'["worker"] # <<>> /\ writes'["worker"][1].key = Skill(wk'.version)
    BY <1>5, <2>2 DEF Stored
  <2>6. wk.id[2] = wk.record.proposal /\ wk.record.attempts < MaxAttempts
    BY <1>1, AtStep
  <2>7. WkOK'
    BY <1>3, <1>5, <2>2, <2>4, <2>5, <2>6 DEF WkOK
  <2>8. QED
    BY <2>2, <2>3, <2>7 DEF WkWaits
<1>6. ASSUME Drafted(wk.id) = {}, NextVersion \in Versions,
             Begin("worker", <<Change(Skill(NextVersion), Draft("high", TRUE, {wk.id}))>>),
             wk' = [wk EXCEPT !.pc = "evaluating", !.version = NextVersion]
      PROVE  IInv'
  <2> DEFINE v == NextVersion
             r == Draft("high", TRUE, {wk.id})
             c == Change(Skill(v), r)
             w == <<c>>
  <2>1. v \in Versions /\ ~Stored(Skill(v))
    BY <1>6, NextVersionFree
  <2>2. r \in SkillRow /\ r.status # "active" /\ r.key = {wk.id}
    BY <1>2, RequestedDraft
  <2>3. Begin("worker", w) /\ wk' = [wk EXCEPT !.pc = "evaluating", !.version = v]
    BY <1>6
  <2> HIDE DEF v, r
  <2>4. \A x \in Candidates : \A u \in Drafted(x) :
          (r.key = {x} => u = v) /\ (u = v => r.key = {x})
    BY <1>6, <2>1, <2>2 DEF Drafted
  <2>5. Worked(c) /\ c.key = Skill(v)
    BY <1>1, <2>1, <2>2, <2>4, SkillWorked
  <2>6. row' = row /\ stale' = stale /\ writes' = [writes EXCEPT !["worker"] = w]
    BY <2>3 DEF Begin
  <2> HIDE DEF c
  <2>7. w \in Seq(Changes) /\ WorkerOK(w) /\ w # <<>> /\ w[1] = c
    BY <2>5, OneWork
  <2> HIDE DEF w
  <2>8. /\ writes' \in [Processes -> Seq(Changes)] /\ writes'["worker"] = w
        /\ \A q \in Processes : q # "worker" => writes'[q] = writes[q]
    BY <1>1, <2>6, <2>7, ProcessesApart DEF Typed
  <2>9. wk' \in Work /\ WkOK' /\ WkWaits'
    BY <1>5, <2>1, <2>3, <2>5, <2>6, <2>7, <2>8
  <2>10. QED
    BY <1>4, <2>6, <2>7, <2>8, <2>9, WorkerMoves
<1>7. ASSUME NEW v \in Drafted(wk.id), wk' = [wk EXCEPT !.pc = "evaluating", !.version = v],
             UNCHANGED <<row, writes, stale>>
      PROVE  IInv'
  <2>1. v \in Versions /\ Stored(Skill(v))
    BY DEF Drafted
  <2>2. wk' \in Work /\ WkOK' /\ WkWaits'
    BY <1>5, <1>7, <2>1
  <2>3. WorkerOK(writes'["worker"]) /\ writes' \in [Processes -> Seq(Changes)]
    BY <1>7 DEF IInv, ListsOK, Typed
  <2>4. QED
    BY <1>4, <1>7, <2>2, <2>3, WorkerMoves
<1>8. QED
  BY <1>6, <1>7 DEF DraftSkill

LEMMA SaveCandidateKeeps ==
  ASSUME IInv, SaveCandidate
  PROVE  IInv'
<1> DEFINE c == [key |-> Candidate(wk.id), read |-> wk.read, new |-> wk.copy]
<1>1. /\ Working("saving") /\ Store(c) /\ UNCHANGED <<writes, calls, crashes>>
      /\ wk' = [wk EXCEPT !.pc = "completing"] /\ Typed /\ StoreOK /\ WkOK
  BY DEF SaveCandidate, Save, Goto, IInv
<1>2. /\ wk \in Work /\ wk.pc = "saving" /\ wk # Resting /\ writes["worker"] = <<>>
      /\ wk.id \in Candidates
      /\ wk.id[2] = wk.record.proposal /\ wk.record.attempts < MaxAttempts
  BY <1>1, AtStep
<1>3. /\ Stored(Candidate(wk.id)) /\ wk.copy \in CandidateRow /\ wk.copy.status # "candidate"
      /\ wk.read \in CandidateRow
  BY <1>1, <1>2 DEF WkOK
<1>4. Candidate(wk.id) \in Keys /\ Candidate(wk.id) \in CandidateKeys
      /\ Candidate(wk.id) \notin JobKeys
  BY <1>2, KeyKinds, KindsApart
<1>5. wk.copy # NoRow
  BY <1>3 DEF CandidateRow, CandidateStatuses, NoRow
<1>6. c \in Changes /\ Fitting(c) /\ c.key = Candidate(wk.id) /\ c.new = wk.copy
  BY <1>3, <1>4, <1>5 DEF Changes, Rows, Fitting, Fits
<1> HIDE DEF c
<1>7. CandidatesStay /\ OneCandidate' /\ Decided'
  BY <1>1, <1>3, <1>4, <1>6, CandidatesAfter DEF StoreOK
<1>8. row'[Candidate(wk.id)] = wk.copy
  BY <1>1, <1>6, StoreEffect
<1>9. /\ wk' \in Work /\ wk'.pc = "completing" /\ wk'.id = wk.id /\ wk'.record = wk.record
  BY <1>1, <1>2 DEF Work
<1>10. wk.copy.status # "absent"
  BY <1>3 DEF CandidateRow, CandidateStatuses
<1>11. WkOK' /\ WkWaits'
  BY <1>1, <1>2, <1>3, <1>8, <1>9, <1>10 DEF WkOK, WkWaits, Stored
<1>12. QED
  BY <1>1, <1>4, <1>6, <1>7, <1>9, <1>11, WorkerSaves

\* An exception or the worker's death drops what it was going to write.
LEMMA DropKeeps ==
  ASSUME IInv, Raise \/ Crash
  PROVE  IInv'
<1>1. /\ row' = row /\ stale' = stale /\ calls' = calls
      /\ writes' = [writes EXCEPT !["worker"] = <<>>]
      /\ wk # Resting
      /\ wk' = [wk EXCEPT !.pc = "failing"] \/ wk' = Resting
  BY DEF Raise, Crash, Goto
<1>2. Typed /\ WkOK
  BY DEF IInv
<1>3. wk \in Work
  BY <1>1, <1>2 DEF Typed
<1>4. crashes' \in 0..CrashBound
  BY <1>2, ReflectionAssumption DEF Raise, Crash, Typed
<1>5. /\ writes' \in [Processes -> Seq(Changes)] /\ writes'["worker"] = <<>>
      /\ \A q \in Processes : q # "worker" => writes'[q] = writes[q]
  BY <1>1, <1>2, NoRequest, ProcessesApart DEF Typed
<1>6. wk' = Resting \/ (/\ wk' \in Work /\ wk'.pc = "failing"
                        /\ wk'.id = wk.id /\ wk'.record = wk.record)
  BY <1>1, <1>3 DEF Work
<1>7. WkOK' /\ WkWaits'
  BY <1>1, <1>2, <1>5, <1>6 DEF WkOK, WkWaits
<1>8. QED
  BY <1>1, <1>4, <1>5, <1>6, <1>7, NoRequest, WorkerMoves

-----------------------------------------------------------------------------
(***************************************************************************)
(* What a step leaves of a reviewed candidate.                             *)
(***************************************************************************)
Stands(x) ==
  /\ \A decision \in {"approved", "rejected"} :
       row[Candidate(x)].status = decision =>
         \/ row'[Candidate(x)].status = decision
         \/ ReviewStores(x, CandidateRow)
         \/ WorkerStores(x, DecidedOtherwise(decision))
  /\ Stored(Candidate(x)) /\ row[Candidate(x)].made =>
       \/ row'[Candidate(x)].made
       \/ ReviewStores(x, Unmade) \/ WorkerStores(x, Unmade)

LEMMA StandsAside ==
  ASSUME NEW x, row'[Candidate(x)] = row[Candidate(x)]
  PROVE  Stands(x)
  BY DEF Stands

\* A store under another key, or of a new record.
LEMMA StandsApart ==
  ASSUME Typed, NEW c \in Changes, Fitting(c), Store(c), NEW x \in Candidates,
         c.key = Candidate(x) => ~Stored(Candidate(x))
  PROVE  Stands(x)
<1>1. row'[c.key] = c.new /\ \A k \in Keys : k # c.key => row'[k] = row[k]
  BY StoreEffect
<1>2. Candidate(x) \in Keys
  BY KeyKinds
<1>3. CASE c.key = Candidate(x)
  BY <1>3 DEF Stands, Stored
<1>4. CASE c.key # Candidate(x)
  BY <1>1, <1>2, <1>4, StandsAside
<1>5. QED
  BY <1>3, <1>4

LEMMA StandsWrite ==
  ASSUME IInv, NEW p \in Processes, Write(p), NEW x \in Candidates
  PROVE  Stands(x)
<1> DEFINE c == writes[p][1]
<1>1. /\ Typed /\ ApiOK(writes["api"]) /\ WorkerOK(writes["worker"])
      /\ \A t \in Threads : ThreadOK(writes[t])
  BY DEF IInv, ListsOK
<1>2. Len(writes[p]) \in Nat \ {0} /\ c \in Changes /\ Store(c)
  BY <1>1, HeadWritten
<1>3. CASE p = "api" /\ c.key = Candidate(x)
  <2>1. Requested(c)
    BY <1>1, <1>2, <1>3 DEF ApiOK
  <2>2. c.key \in CandidateKeys
    BY <1>3, KeyKinds
  <2>3. c.read \in CandidateRow /\ c.new.made = c.read.made
    BY <2>1, <2>2 DEF Requested
  <2>4. row'[Candidate(x)] = c.new
    BY <1>1, <1>2, <1>3, <2>1, StoreEffect DEF Requested
  <2>5. /\ writes["api"] # <<>> /\ Head(writes["api"]) = c
        /\ writes'["api"] = Tail(writes["api"])
    <3>1. writes["api"] # <<>> /\ writes' = [writes EXCEPT !["api"] = Tail(@)]
      BY <1>3 DEF Write, Free
    <3>2. "api" \in Processes /\ writes \in [Processes -> Seq(Changes)]
      BY <1>1 DEF Typed, Processes
    <3>3. Head(writes["api"]) = writes["api"][1]
      BY <3>1, <3>2
    <3> HIDE DEF c
    <3>4. writes'["api"] = Tail(writes["api"])
      BY <3>1, <3>2
    <3>5. QED
      BY <1>3, <3>1, <3>3, <3>4 DEF c
  <2> HIDE DEF c
  <2>6. ReviewStores(x, CandidateRow)
    BY <1>3, <2>3, <2>5 DEF ReviewStores
  <2>7. row'[Candidate(x)].made \/ ReviewStores(x, Unmade)
    BY <1>3, <2>3, <2>4, <2>5 DEF ReviewStores, Unmade
  <2>8. QED
    BY <2>6, <2>7 DEF Stands
<1>4. CASE p = "api" /\ c.key # Candidate(x)
  <2>1. Fitting(c)
    BY <1>1, <1>2, <1>4 DEF ApiOK, Requested
  <2> HIDE DEF c
  <2>2. QED
    BY <1>1, <1>2, <1>4, <2>1, StandsApart
<1>5. CASE p # "api"
  <2>1. Fitting(c) /\ c.key \notin CandidateKeys
    <3>1. CASE p = "worker"
      BY <1>1, <1>2, <3>1, KindsApart DEF WorkerOK, Worked
    <3>2. CASE p \in Threads
      BY <1>1, <1>2, <3>2, KindsApart DEF ThreadOK
    <3>3. QED
      BY <1>5, <3>1, <3>2 DEF Processes
  <2> HIDE DEF c
  <2>2. QED
    BY <1>1, <1>2, <2>1, KeyKinds, StandsApart
<1>6. QED
  BY <1>3, <1>4, <1>5

\* A job is stored in a row of its own.
LEMMA StandsJob ==
  ASSUME Typed, NEW x \in Candidates, NEW j \in Jobs, NEW read, NEW new,
         Store([key |-> Job(j), read |-> read, new |-> new])
  PROVE  Stands(x)
<1>1. row' = [row EXCEPT ![Job(j)] = new] /\ Candidate(x) # Job(j)
  BY DEF Store, Candidate, Job
<1>2. row'[Candidate(x)] = row[Candidate(x)]
  BY <1>1, KeyKinds DEF Typed
<1>3. QED
  BY <1>2, StandsAside

LEMMA StandsWorker ==
  ASSUME IInv, WorkerStep, NEW x \in Candidates
  PROVE  Stands(x)
<1>1. Typed /\ WkOK
  BY DEF IInv
<1>2. ASSUME NEW j \in Jobs, Take(j) PROVE Stands(x)
  BY <1>1, <1>2, StandsJob DEF Take, Save
<1>3. CASE Propose
  <2> DEFINE new == [status |-> "candidate", made |-> FALSE]
             c == [key |-> Candidate(wk.id), read |-> NoRow, new |-> new]
  <2>1. CASE SameProposal(wk.id) = {} /\ Save(Candidate(wk.id), NoRow, new)
    <3>1. wk.id \in Candidates
      BY <1>3, AtStep DEF Propose
    <3>2. ~Stored(Candidate(wk.id)) /\ Store(c)
      BY <2>1, <3>1 DEF SameProposal, Save
    <3>3. Candidate(wk.id) \in Keys /\ Candidate(wk.id) \in CandidateKeys
      BY <3>1, KeyKinds
    <3>4. new \in CandidateRow /\ new # NoRow /\ ~new.made
      BY DEF CandidateRow, CandidateStatuses, NoRow
    <3> HIDE DEF new
    <3>5. c \in Changes /\ Fitting(c) /\ c.key = Candidate(wk.id)
      BY <3>3, <3>4 DEF Changes, Rows, Fitting, Fits
    <3> HIDE DEF c
    <3>6. c.key = Candidate(x) => ~Stored(Candidate(x))
      BY <3>2, <3>5
    <3>7. QED
      BY <1>1, <3>2, <3>5, <3>6, StandsApart
  <2>2. CASE UNCHANGED row
    BY <2>2, StandsAside
  <2>3. QED
    BY <1>3, <2>1, <2>2 DEF Propose, storeVars
<1>4. CASE MaterializeNothing \/ MaterializeMemory \/ DraftSkill \/ EvaluateDraft
  <2>1. UNCHANGED row
    BY <1>4 DEF MaterializeNothing, MaterializeMemory, DraftSkill, EvaluateDraft, Begin, storeVars
  <2>2. QED
    BY <2>1, StandsAside
<1>5. CASE SaveCandidate
  <2> DEFINE c == [key |-> Candidate(wk.id), read |-> wk.read, new |-> wk.copy]
  <2>1. Store(c)
    BY <1>5 DEF SaveCandidate, Save
  <2>2. /\ wk \in Work /\ wk.pc = "saving" /\ wk # Resting /\ wk.id \in Candidates
    BY <1>5, AtStep DEF SaveCandidate
  <2>3. /\ wk.copy \in CandidateRow /\ wk.copy.status # "candidate" /\ wk.read \in CandidateRow
        /\ wk.read.made => wk.read.status # "candidate"
        /\ wk.read.status # "candidate" => wk.copy = wk.read
    BY <1>1, <2>2 DEF WkOK
  <2>4. Candidate(wk.id) \in Keys /\ Candidate(wk.id) \in CandidateKeys
    BY <2>2, KeyKinds
  <2>5. wk.copy # NoRow
    BY <2>3 DEF CandidateRow, CandidateStatuses, NoRow
  <2>6. c \in Changes /\ Fitting(c) /\ c.new = wk.copy /\ c.read = wk.read
    BY <2>3, <2>4, <2>5 DEF Changes, Rows, Fitting, Fits
  <2> HIDE DEF c
  <2>7. c.key = Candidate(wk.id)
    BY DEF c
  <2>8. CASE x = wk.id
    <3>1. row'[Candidate(x)] = wk.copy
      BY <1>1, <2>1, <2>6, <2>7, <2>8, StoreEffect
    <3>2. wk'.pc = "completing"
      BY <1>5, <2>2 DEF SaveCandidate, Goto, Work
    <3>3. \A copies : wk.read \in copies => WorkerStores(x, copies)
      BY <2>2, <2>8, <3>2 DEF WorkerStores
    <3>4. ASSUME NEW decision \in {"approved", "rejected"}
          PROVE  row'[Candidate(x)].status = decision \/ WorkerStores(x, DecidedOtherwise(decision))
      <4>1. CASE wk.read.status = decision
        BY <2>3, <3>1, <4>1
      <4>2. CASE wk.read.status # decision
        BY <2>3, <3>3, <4>2 DEF DecidedOtherwise
      <4>3. QED
        BY <4>1, <4>2
    <3>5. row'[Candidate(x)].made \/ WorkerStores(x, Unmade)
      <4>1. CASE wk.read.made
        BY <2>3, <3>1, <4>1
      <4>2. CASE ~wk.read.made
        BY <2>3, <3>3, <4>2 DEF Unmade
      <4>3. QED
        BY <4>1, <4>2
    <3>6. QED
      BY <3>4, <3>5 DEF Stands
  <2>9. CASE x # wk.id
    <3>1. c.key # Candidate(x)
      BY <2>7, <2>9, KeyKinds
    <3>2. QED
      BY <1>1, <2>1, <2>6, <3>1, StandsApart
  <2>10. QED
    BY <2>8, <2>9
<1>6. CASE CompleteJob
  <2>1. wk.job \in Jobs
    BY <1>6, AtStep DEF CompleteJob
  <2>2. QED
    BY <1>1, <1>6, <2>1, StandsJob DEF CompleteJob, Save
<1>7. CASE Fail
  <2>1. wk.job \in Jobs
    BY <1>7, AtStep DEF Fail
  <2>2. QED
    BY <1>1, <1>7, <2>1, StandsJob DEF Fail, Save
<1>8. QED
  BY <1>2, <1>3, <1>4, <1>5, <1>6, <1>7 DEF WorkerStep

LEMMA ReviewStandsStep ==
  ASSUME IInv, [Next]_learnVars, NEW x \in Candidates
  PROVE  Stands(x)
<1>1. CASE UNCHANGED row
  BY <1>1, StandsAside
<1>2. \A p, changes : Call(p, changes) => UNCHANGED row
  BY DEF Call, Begin
<1>3. CASE MemoryStep
  <2>1. UNCHANGED row
    BY <1>2, <1>3 DEF MemoryStep, CreateMemory, Validate, Promote, RollbackMemory, Withdraw,
       DeleteMemory, Resolve, Recall
  <2>2. QED
    BY <1>1, <2>1
<1>4. CASE SkillStep
  <2>1. UNCHANGED row
    BY <1>2, <1>4 DEF SkillStep, CreateDraft, UpdateSkill, RollbackSkill, EvaluateSkill,
       ActivateSkill, SuspendSkill, RequestApproval, DecideApproval
  <2>2. QED
    BY <1>1, <2>1
<1>5. CASE \/ \E p \in Processes \ {"worker"}, j \in Jobs, proposal \in Proposals :
                Enqueue(p, j, proposal)
           \/ \E c \in Candidates, decision \in {"approved", "rejected"} : Review(c, decision)
  BY <1>1, <1>2, <1>5 DEF Enqueue, Review
<1>6. CASE Raise \/ Crash \/ \E p \in Processes : Abandon(p)
  BY <1>1, <1>6 DEF Raise, Crash, Abandon
<1>7. CASE UNCHANGED learnVars
  BY <1>1, <1>7 DEF learnVars, storeVars
<1>8. QED
  BY <1>3, <1>4, <1>5, <1>6, <1>7, StandsWrite, StandsWorker DEF Next

-----------------------------------------------------------------------------
(***************************************************************************)
(* The theorems.                                                           *)
(***************************************************************************)
\* The records an earlier run may have left.
LEMMA InitialRows ==
  ASSUME Init
  PROVE  /\ row \in [Keys -> Rows] /\ \A k \in Keys : Fits(k, row[k])
         /\ OneActive(MemoryKeys) /\ OneActive(SkillKeys)
         /\ \A x \in Candidates : row[Candidate(x)] = NoRow
         /\ \A j \in Jobs : row[Job(j)] = NoRow
         /\ \A x \in Candidates : Drafted(x) = {}
<1> DEFINE Left(k, r) ==
      \/ r = NoRow
      \/ k = Memory(m1) /\ r = Held(f1, "active", {})
      \/ k = Skill(1) /\ r = Passed("active", "low")
      \/ \E m \in Posted \ {m1} : \E fact \in Facts :
           k = Memory(m) /\ r = Held(fact, "validated", {m1})
      \/ k = Skill(2) /\ r = Passed("candidate", "low")
<1>1. DOMAIN row = Keys /\ \A k \in Keys : Left(k, row[k])
  <2>1. EmptyStore \in [Keys -> {NoRow}] /\ \A k \in Keys : EmptyStore[k] = NoRow
    BY DEF EmptyStore
  <2>2. DOMAIN InUse = Keys /\ \A k \in Keys :
          InUse[k] = IF k = Skill(1) THEN Passed("active", "low")
                     ELSE IF k = Memory(m1) THEN Held(f1, "active", {}) ELSE NoRow
    <3> HIDE DEF Left
    <3> DEFINE a == Held(f1, "active", {})
    <3> DEFINE b == Passed("active", "low")
    <3>1. InUse = [EmptyStore EXCEPT ![Memory(m1)] = a, ![Skill(1)] = b]
      BY DEF InUse
    <3> HIDE DEF a, b
    <3>2. DOMAIN InUse = Keys /\ \A k \in Keys :
            InUse[k] = IF k = Skill(1) THEN b ELSE IF k = Memory(m1) THEN a ELSE NoRow
      BY <2>1, <3>1
    <3>3. QED
      BY <3>2 DEF a, b
  <2>3. CASE row \in InReserve
    <3>1. PICK m \in Posted \ {m1}, fact \in Facts :
            row = [InUse EXCEPT ![Memory(m)] = Held(fact, "validated", {m1}),
                                ![Skill(2)] = Passed("candidate", "low")]
      BY <2>3 DEF InReserve
    <3> DEFINE a == Held(fact, "validated", {m1})
    <3> DEFINE b == Passed("candidate", "low")
    <3>2. row = [InUse EXCEPT ![Memory(m)] = a, ![Skill(2)] = b]
      BY <3>1
    <3> HIDE DEF a, b, Left
    <3>3. DOMAIN row = Keys /\ \A k \in Keys :
            row[k] = IF k = Skill(2) THEN b ELSE IF k = Memory(m) THEN a ELSE InUse[k]
      BY <2>2, <3>2
    <3>4. \A k \in Keys : Left(k, InUse[k])
      BY <2>2 DEF Left
    <3>5. Left(Memory(m), a) /\ Left(Skill(2), b)
      BY DEF Left, a, b
    <3>6. QED
      BY <3>3, <3>4, <3>5
  <2>4. CASE row \in {EmptyStore, InUse}
    BY <2>1, <2>2, <2>4
  <2>5. QED
    BY <2>3, <2>4 DEF Init
<1>2. f1 \in Facts
  BY LearningStoreAssumption DEF f1
<1>3. Posted # {} => m1 \in Posted
  BY DEF m1
<1>4. ASSUME NEW fact \in Facts, NEW status \in MemoryStatuses, NEW s \in SUBSET MemoryIds
      PROVE  Held(fact, status, s) \in MemoryRow /\ Held(fact, status, s).status = status
  BY <1>4 DEF Held, MemoryRow
<1>5. /\ Passed("active", "low") \in SkillRow /\ Passed("active", "low").key = {}
      /\ Passed("candidate", "low") \in SkillRow /\ Passed("candidate", "low").key = {}
      /\ Passed("candidate", "low").status = "candidate"
  BY DEF Passed, Draft, SkillRow, SkillStatuses
<1>6. ASSUME NEW k \in Keys, row[k] # NoRow
      PROVE  /\ \/ k \in MemoryKeys /\ row[k] \in MemoryRow
                                    /\ (row[k].status = "active" => k = Memory(m1))
                \/ k \in SkillKeys /\ row[k] \in SkillRow /\ row[k].key = {}
                                   /\ (row[k].status = "active" => k = Skill(1))
  <2>1. CASE k = Memory(m1) /\ row[k] = Held(f1, "active", {})
    <3>1. k \notin SkillKeys /\ k \notin CandidateKeys /\ k \notin JobKeys
      BY <2>1 DEF Memory, Skill, Candidate, Job, SkillKeys, CandidateKeys, JobKeys
    <3>2. k \in MemoryKeys
      BY <3>1, KeyKinds
    <3>3. row[k] \in MemoryRow
      BY <1>2, <1>4, <2>1 DEF MemoryStatuses
    <3>4. QED
      BY <2>1, <3>2, <3>3
  <2>2. CASE k = Skill(1) /\ row[k] = Passed("active", "low")
    <3>1. k \notin MemoryKeys /\ k \notin CandidateKeys /\ k \notin JobKeys
      BY <2>2 DEF Memory, Skill, Candidate, Job, MemoryKeys, CandidateKeys, JobKeys
    <3>2. k \in SkillKeys
      BY <3>1, KeyKinds
    <3>3. QED
      BY <1>5, <2>2, <3>2
  <2>3. ASSUME NEW m \in Posted \ {m1}, NEW fact \in Facts,
               k = Memory(m), row[k] = Held(fact, "validated", {m1})
        PROVE  k \in MemoryKeys /\ row[k] \in MemoryRow /\ row[k].status # "active"
    <3>1. m \in MemoryIds /\ m1 \in MemoryIds
      BY <1>3 DEF MemoryIds
    <3>2. row[k] \in MemoryRow /\ row[k].status = "validated"
      BY <1>4, <2>3, <3>1 DEF MemoryStatuses
    <3>3. QED
      BY <2>3, <3>1, <3>2, KeyKinds
  <2>4. CASE k = Skill(2) /\ row[k] = Passed("candidate", "low")
    <3>1. k \notin MemoryKeys /\ k \notin CandidateKeys /\ k \notin JobKeys
      BY <2>4 DEF Memory, Skill, Candidate, Job, MemoryKeys, CandidateKeys, JobKeys
    <3>2. k \in SkillKeys
      BY <3>1, KeyKinds
    <3>3. QED
      BY <1>5, <2>4, <3>2
  <2>5. QED
    BY <1>1, <1>6, <2>1, <2>2, <2>3, <2>4
<1> HIDE DEF Left
<1>7. \A k \in Keys : Fits(k, row[k])
  BY <1>6 DEF Fits
<1>8. row \in [Keys -> Rows]
  <2>1. \A k \in Keys : row[k] \in Rows
    BY <1>6 DEF Rows
  <2>2. row = [k \in Keys |-> row[k]]
    <3>1. CASE row \in InReserve
      BY <1>1, <3>1 DEF InReserve, InUse, EmptyStore
    <3>2. CASE row \in {EmptyStore, InUse}
      BY <1>1, <3>2 DEF InUse, EmptyStore
    <3>3. QED
      BY <3>1, <3>2 DEF Init
  <2>3. QED
    BY <2>1, <2>2
<1>9. /\ \A k \in MemoryKeys : Active(k) => k = Memory(m1)
      /\ \A k \in SkillKeys : Active(k) => k = Skill(1)
  <2>1. NoRow.status # "active"
    BY DEF NoRow
  <2>2. QED
    BY <1>6, <2>1, KeyKinds, KindsApart DEF Active
<1>10. \A k \in CandidateKeys \cup JobKeys : row[k] = NoRow
  BY <1>6, KeyKinds, KindsApart
<1>11. ASSUME NEW x \in Candidates PROVE Drafted(x) = {}
  <2>1. ASSUME NEW v \in Versions, Stored(Skill(v)) PROVE row[Skill(v)].key # {x}
    <3>1. row[Skill(v)] # NoRow
      BY <2>1 DEF Stored, NoRow
    <3>2. row[Skill(v)].key = {}
      BY <1>6, <3>1, KeyKinds, KindsApart
    <3>3. QED
      BY <3>2
  <2>2. QED
    BY <2>1 DEF Drafted
<1>12. OneActive(MemoryKeys) /\ OneActive(SkillKeys)
  BY <1>9 DEF OneActive
<1>13. QED
  BY <1>7, <1>8, <1>10, <1>11, <1>12, KeyKinds

LEMMA IInvInit == Init => IInv
<1> SUFFICES ASSUME Init PROVE IInv
  OBVIOUS
<1>1. /\ writes = [p \in Processes |-> <<>>] /\ calls = 0 /\ stale = {}
      /\ wk = Resting /\ crashes = 0
  BY DEF Init, Quiet
<1>2. Typed
  BY <1>1, InitialRows, NoRequest, LearningStoreAssumption, ReflectionAssumption DEF Typed
<1>3. StoreOK
  BY InitialRows DEF StoreOK, OneCandidate, OneDraft, Decided, Stored, NoRow
<1>4. ListsOK
  BY <1>1, NoRequest, ProcessesApart DEF ListsOK
<1>5. WkOK /\ WkWaits
  BY <1>1, ProcessesApart DEF WkOK, WkWaits
<1>6. QED
  BY <1>2, <1>3, <1>4, <1>5 DEF IInv

LEMMA IInvStep == IInv /\ [Next]_learnVars => IInv'
<1> SUFFICES ASSUME IInv, [Next]_learnVars PROVE IInv'
  OBVIOUS
<1>1. CASE UNCHANGED learnVars
  <2>1. UNCHANGED <<row, writes, calls, stale, wk, crashes>>
    BY <1>1 DEF learnVars, storeVars
  <2>2. Typed /\ WkOK /\ WkWaits /\ WorkerOK(writes["worker"])
    BY DEF IInv, ListsOK
  <2>3. WkOK' /\ WkWaits'
    BY <2>1, <2>2, WorkAside, SameRows
  <2>4. QED
    BY <2>1, <2>2, <2>3, WorkerMoves DEF Typed
<1>2. ASSUME NEW p \in Processes, Write(p), UNCHANGED <<wk, crashes>>
      PROVE  IInv'
  BY <1>2, ApiWriteKeeps, ThreadWriteKeeps, WorkerWriteKeeps DEF Processes
<1>3. CASE WorkerStep
  BY <1>3, TakeKeeps, ProposeKeeps, MaterializeNothingKeeps, MaterializeMemoryKeeps,
     DraftSkillKeeps, EvaluateDraftKeeps, SaveCandidateKeeps, CompleteJobKeeps, FailKeeps
     DEF WorkerStep
<1>4. CASE \E p \in Processes \ {"worker"}, j \in Jobs, proposal \in Proposals :
             Enqueue(p, j, proposal)
  BY <1>4, EnqueueKeeps
<1>5. CASE \E x \in Candidates, decision \in {"approved", "rejected"} : Review(x, decision)
  BY <1>5, ReviewKeeps
<1>6. QED
  BY <1>1, <1>2, <1>3, <1>4, <1>5, MemoryStepKeeps, SkillStepKeeps, AbandonKeeps, DropKeeps
     DEF Next

\* Every table holds records of its own kind, and the invariant above.
THEOREM LearningInvariance == Spec => []IInv
  BY IInvInit, IInvStep, PTL DEF Spec

\* Types: each table holds records of its own kind, and the worker stands at a step.
THEOREM LearningTypes == Spec => []TypeOK
<1>1. IInv => TypeOK
  <2> SUFFICES ASSUME IInv PROVE TypeOK
    OBVIOUS
  <2>1. Typed
    BY DEF IInv
  <2>2. wk.pc \in {"idle", "classifying", "making", "evaluating", "saving", "completing", "failing"}
    BY <2>1 DEF Typed, Work, Resting
  <2>3. DOMAIN row = Keys /\ DOMAIN writes = Processes
    BY <2>1 DEF Typed
  <2>4. QED
    BY <2>1, <2>2, <2>3, StoredRows DEF TypeOK, Typed
<1>2. QED
  BY <1>1, LearningInvariance, PTL

\* However requests, recalls and the worker interleave, and whatever is cut off between
\* two writes, a fact has one active memory, unless some write replaced a memory that
\* its writer had not read, and a skill one active version, without exception.
THEOREM OneStaysActive == Spec => []OneActiveRecord
<1>1. IInv => OneActiveRecord
  <2> SUFFICES ASSUME IInv PROVE OneActiveRecord
    OBVIOUS
  <2>1. (MemoryFresh => OneActive(MemoryKeys)) /\ OneActive(SkillKeys)
    BY DEF IInv, StoreOK
  <2>2. OneActiveMemory
    <3>1. MemoryFresh \/ \E k \in MemoryIds : Memory(k) \in stale
      BY Names DEF MemoryFresh
    <3>2. MemoryFresh => \A m, n \in ActiveMemories : m = n
      BY <2>1, KeyKinds DEF OneActive, Active, ActiveMemories, HasStatus
    <3>3. QED
      BY <3>1, <3>2 DEF OneActiveMemory
  <2>3. \A u, v \in ActiveVersions : u = v
    BY <2>1, KeyKinds DEF OneActive, Active, ActiveVersions, IsActive
  <2>4. OneActiveVersion
    BY <2>3, AtMostOne DEF OneActiveVersion
  <2>5. QED
    BY <2>2, <2>4 DEF OneActiveRecord
<1>2. QED
  BY <1>1, LearningInvariance, PTL

\* A completed job has left its proposal decided.
THEOREM CompletedDecided == Spec => []CompletedIsDecided
<1>1. IInv => CompletedIsDecided
  <2> SUFFICES ASSUME IInv, NEW j \in Jobs, row[Job(j)].status = "completed"
               PROVE  \E c \in SameProposal(<<j, row[Job(j)].proposal>>) :
                        row[Candidate(c)].status # "candidate"
    BY DEF CompletedIsDecided
  <2>1. PICK c \in Candidates : /\ Stored(Candidate(c)) /\ c[2] = row[Job(j)].proposal
                                /\ row[Candidate(c)].status # "candidate"
    BY DEF IInv, StoreOK, Decided
  <2>2. c \in SameProposal(<<j, row[Job(j)].proposal>>)
    BY <2>1 DEF SameProposal
  <2>3. QED
    BY <2>1, <2>2
<1>2. QED
  BY <1>1, LearningInvariance, PTL

\* A proposal is learned once, for any number of jobs, retries and crashes.
THEOREM LearnsOnce == Spec => []LearnedOnce
<1>1. IInv => LearnedOnce
  <2> SUFFICES ASSUME IInv, NEW proposal \in Proposals
               PROVE  LET made == {c \in Candidates : c[2] = proposal /\ Stored(Candidate(c))}
                      IN Cardinality(made) <= 1 /\ \A c \in made : Cardinality(Drafted(c)) <= 1
    BY DEF LearnedOnce
  <2> DEFINE made == {c \in Candidates : c[2] = proposal /\ Stored(Candidate(c))}
  <2>1. OneCandidate /\ OneDraft
    BY DEF IInv, StoreOK
  <2>2. \A c, d \in made : c = d
    BY <2>1 DEF OneCandidate
  <2>3. \A c \in made : \A v, w \in Drafted(c) : v = w
    BY <2>1 DEF OneDraft
  <2> HIDE DEF made
  <2>4. Cardinality(made) <= 1 /\ \A c \in made : Cardinality(Drafted(c)) <= 1
    BY <2>2, <2>3, AtMostOne
  <2>5. QED
    BY <2>4 DEF made
<1>2. QED
  BY <1>1, LearningInvariance, PTL

\* However retries, repeated jobs and restarts come back to a candidate, a decision on it
\* gives way only to another review, or to a worker that read it before it was decided so
\* (review_candidate and the worker's last upsert, reflection/service.py:255).
THEOREM ReviewsStand == Spec => ReviewStands
<1>1. IInv /\ [Next]_learnVars => \A c \in Candidates : Stands(c)
  BY ReviewStandsStep
<1>2. (\A c \in Candidates : Stands(c)) <=>
        \A c \in Candidates :
          /\ \A decision \in {"approved", "rejected"} :
               row[Candidate(c)].status = decision =>
                 \/ row'[Candidate(c)].status = decision
                 \/ ReviewStores(c, CandidateRow)
                 \/ WorkerStores(c, DecidedOtherwise(decision))
          /\ Stored(Candidate(c)) /\ row[Candidate(c)].made =>
               \/ row'[Candidate(c)].made
               \/ ReviewStores(c, Unmade) \/ WorkerStores(c, Unmade)
  BY DEF Stands
<1>3. QED
  BY <1>1, <1>2, LearningInvariance, PTL DEF Spec, ReviewStands
=============================================================================
