------------------------ MODULE StyleAnalysisProofs ------------------------
(***************************************************************************)
(* Theorems about StyleAnalysisWorker for every number of jobs, projects,  *)
(* workers, editors, attempts, revisions and faults.                       *)
(*                                                                         *)
(* The two halves of the invariant rest on each other in one place: a      *)
(* number is a natural number because NextNumber is one more than the      *)
(* number of revisions.                                                    *)
(***************************************************************************)
EXTENDS StyleAnalysisInvariants, FiniteSetTheorems, TLAPS

Counts == 0..MaxAttempts
Steps  == {"down", "idle", "claiming", "analyzing", "completing", "reading",
           "writing", "failing"}
Locks  == {"reading", "writing"}

LEMMA CountRange ==
  /\ MaxAttempts \in Nat /\ 0 < MaxAttempts
  /\ 0 \in Counts /\ Counts \subseteq Nat
  /\ \A n \in Counts : n < MaxAttempts => n + 1 \in Counts
  BY StyleAssumption DEF Counts

\* The types of the two kinds of record, over opaque sets of values.
Statuses == {"ABSENT", "QUEUED", "RUNNING", "SUCCEEDED", "FAILED"}

LEMMA RowFields ==
  /\ Row = [status : Statuses, createdAt : Nat, attempts : Counts,
            expired : BOOLEAN, revision : Nat]
  /\ Process = [step : Steps, job : Jobs \cup {NoJob}, attempts : Counts,
                number : Nat, retryable : BOOLEAN]
  BY DEF Row, Active, Terminal, Counts, Process, Steps, Statuses

LEMMA AtType ==
  ASSUME NEW step \in Steps, NEW j \in Jobs \cup {NoJob}, NEW n \in Counts
  PROVE  /\ At(step) \in Process
         /\ [At(step) EXCEPT !.job = j, !.attempts = n] \in Process
  BY RowFields, CountRange DEF At

-----------------------------------------------------------------------------
(* Numbers.                                                                *)

\* The revisions of a project.
Of(p) == {r \in revisions : r.project = p}

\* NextNumber is one more than the number of revisions.
LEMMA NextNumberIs ==
  ASSUME NumberingInv, NEW p \in Projects
  PROVE  /\ IsFiniteSet(Of(p)) /\ Cardinality(Of(p)) \in Nat
         /\ Numbers(p) = 1 .. Cardinality(Of(p))
         /\ NextNumber(p) = Cardinality(Of(p)) + 1
         /\ NextNumber(p) \in Nat /\ NextNumber(p) \notin Numbers(p)
<1> DEFINE n == Cardinality(Of(p))
<1>1. IsFiniteSet(Of(p))
  BY FS_Subset DEF NumberingInv, Of
<1>2. n \in Nat
  BY <1>1, FS_CardinalityType
<1>3. Numbers(p) = 1 .. n
  BY DEF NumberingInv, RevisionsAreNumberedInTurn, Of
<1> HIDE DEF n
<1>4. NextNumber(p) = n + 1
  <2>1. CASE n = 0
    BY <1>3, <2>1 DEF NextNumber
  <2>2. CASE n # 0
    <3> DEFINE IsLast(m) == \A l \in 1 .. n : l <= m
    <3>1. n \in 1 .. n /\ IsLast(n)
      BY <1>2, <2>2
    <3>2. \A m \in 1 .. n : IsLast(m) => m = n
      BY <1>2, <2>2
    <3> DEFINE last == CHOOSE m \in 1 .. n : IsLast(m)
    <3>3. Numbers(p) # {}
      BY <1>3, <3>1
    <3>4. NextNumber(p) = 1 + last
      BY <1>3, <3>3 DEF NextNumber
    <3> HIDE DEF IsLast
    <3>5. last = n
      BY <3>1, <3>2
    <3> HIDE DEF last
    <3>6. QED
      BY <1>2, <3>4, <3>5
  <2>3. QED
    BY <2>1, <2>2
<1>5. QED
  BY <1>1, <1>2, <1>3, <1>4 DEF n

\* What an insert under the next number does to the numbers.
LEMMA Inserted ==
  ASSUME TypeOK, NumberingInv, NEW p \in Projects, NEW source,
         revisions' = revisions \cup
           {[project |-> p, number |-> NextNumber(p), source |-> source]},
         refused' = refused
  PROVE  /\ IsFiniteSet(revisions')
         /\ RevisionsAreNumberedInTurn'
         /\ \A q \in Projects : q # p => Numbers(q)' = Numbers(q)
<1> DEFINE r == [project |-> p, number |-> NextNumber(p), source |-> source]
<1>1. IsFiniteSet(revisions')
  BY FS_AddElement DEF NumberingInv
<1>2. ASSUME NEW q \in Projects, q # p
      PROVE  Of(q)' = Of(q) /\ Numbers(q)' = Numbers(q)
  BY <1>2 DEF Of, Numbers
<1>3. Numbers(p)' = 1 .. Cardinality(Of(p)')
  <2> DEFINE n == Cardinality(Of(p))
  <2>1. /\ n \in Nat /\ Numbers(p) = 1 .. n /\ IsFiniteSet(Of(p))
        /\ NextNumber(p) = n + 1
    BY NextNumberIs
  <2>2. Of(p)' = Of(p) \cup {r}
    BY DEF Of
  <2>3. r \notin Of(p)
    <3>1. r.number = NextNumber(p) /\ r.project = p
      OBVIOUS
    <3>2. r \in Of(p) => r.number \in Numbers(p)
      BY <3>1 DEF Of, Numbers
    <3>3. QED
      BY <3>1, <3>2, NextNumberIs
  <2>4. Cardinality(Of(p)') = n + 1
    BY <2>1, <2>2, <2>3, FS_AddElement
  <2>5. Numbers(p)' = Numbers(p) \cup {NextNumber(p)}
    <3>1. Numbers(p)' = {s.number : s \in Of(p)'} /\ Numbers(p) = {s.number : s \in Of(p)}
      BY DEF Numbers, Of
    <3>2. r.number = NextNumber(p)
      OBVIOUS
    <3> HIDE DEF r
    <3>3. QED
      BY <2>2, <3>1, <3>2
  <2> HIDE DEF n
  <2>6. QED
    BY <2>1, <2>4, <2>5
<1>4. QED
  BY <1>1, <1>2, <1>3 DEF NumberingInv, RevisionsAreNumberedInTurn, Of

-----------------------------------------------------------------------------
(* Type correctness.                                                       *)

\* The part of TypeOK about locks and those who hold them.
HoldersOK ==
  /\ lock \in [Projects -> Workers \cup Editors \cup {NoOne}]
  /\ worker \in [Workers -> Process]
  /\ editor \in [Editors -> Request]
  /\ \A w \in Workers : Busy(w) => worker[w].job \in Jobs
  /\ \A w \in Workers : worker[w].step \in Locks
                          => lock[ProjectOf[worker[w].job]] = w
  /\ \A e \in Editors : editor[e].step \in Locks => lock[editor[e].project] = e

\* A worker moves on and keeps the lock it has, or has none to keep.
LEMMA WorkerMoves ==
  ASSUME TypeOK, NEW w \in Workers, NEW q \in Process,
         q.step \notin {"down", "idle", "claiming"} => q.job \in Jobs,
         q.step \in Locks => worker[w].step \in Locks /\ q.job = worker[w].job,
         worker' = [worker EXCEPT ![w] = q], UNCHANGED <<lock, editor>>
  PROVE  HoldersOK'
  BY DEF TypeOK, HoldersOK, Locks, Busy

\* The project of a worker's job is one.
LEMMA ProjectOfJob ==
  ASSUME TypeOK, NEW w \in Workers, Busy(w)
  PROVE  worker[w].job \in Jobs /\ ProjectOf[worker[w].job] \in Projects
  BY StyleAssumption DEF TypeOK

\* A worker takes a lock nobody holds.
LEMMA WorkerLocks ==
  ASSUME TypeOK, NEW w \in Workers, NEW q \in Process, Busy(w),
         q.step \in Locks, q.job = worker[w].job,
         LockProject(ProjectOf[q.job], w),
         worker' = [worker EXCEPT ![w] = q], UNCHANGED editor
  PROVE  HoldersOK'
<1> DEFINE p == ProjectOf[q.job]
<1>1. p \in Projects /\ q.job \in Jobs /\ lock[p] = NoOne /\ lock' = [lock EXCEPT ![p] = w]
  BY ProjectOfJob DEF LockProject, Free
<1> HIDE DEF p
<1>2. \A v \in Workers : v # w => worker'[v] = worker[v]
  BY DEF TypeOK
<1>3. worker'[w] = q
  BY DEF TypeOK
<1>4. \A x \in Workers \cup Editors : x # NoOne
  BY StyleAssumption
<1>5. \A x \in Projects : lock[x] # NoOne => lock'[x] = lock[x]
  BY <1>1 DEF TypeOK
<1>6. lock' \in [Projects -> Workers \cup Editors \cup {NoOne}]
  BY <1>1 DEF TypeOK
<1>7. ASSUME NEW v \in Workers
      PROVE  /\ Busy(v)' => worker'[v].job \in Jobs
             /\ worker'[v].step \in Locks => lock'[ProjectOf[worker'[v].job]] = v
  <2>1. CASE v = w
    BY <1>1, <1>3, <2>1 DEF TypeOK, p
  <2>2. CASE v # w
    <3>1. worker'[v] = worker[v]
      BY <1>2, <2>2
    <3>2. Busy(v) => worker[v].job \in Jobs /\ ProjectOf[worker[v].job] \in Projects
      BY ProjectOfJob
    <3>3. worker[v].step \in Locks => Busy(v) /\ lock[ProjectOf[worker[v].job]] = v
      BY DEF TypeOK, Locks, Busy
    <3>4. QED
      BY <1>4, <1>5, <3>1, <3>2, <3>3 DEF Busy
  <2>3. QED
    BY <2>1, <2>2
<1>8. ASSUME NEW e \in Editors, editor[e].step \in Locks
      PROVE  lock'[editor[e].project] = e
  BY <1>4, <1>5, <1>8 DEF TypeOK, Locks, Request
<1>9. QED
  BY <1>6, <1>7, <1>8 DEF TypeOK, HoldersOK

\* A worker's transaction ends, and with it the lock it had.
LEMMA WorkerUnlocks ==
  ASSUME TypeOK, NEW w \in Workers, NEW q \in Process,
         q.step \notin Locks,
         q.step \notin {"down", "idle", "claiming"} => q.job \in Jobs,
         worker' = [worker EXCEPT ![w] = q], Unlock(w), UNCHANGED editor
  PROVE  HoldersOK'
<1>1. \A v \in Workers : worker'[v] = IF v = w THEN q ELSE worker[v]
  BY DEF TypeOK
<1>2. \A p \in Projects : lock[p] # w => lock'[p] = lock[p]
  BY DEF Unlock
<1>3. lock' \in [Projects -> Workers \cup Editors \cup {NoOne}]
  BY DEF Unlock, TypeOK
<1>4. ASSUME NEW v \in Workers
      PROVE  /\ Busy(v)' => worker'[v].job \in Jobs
             /\ worker'[v].step \in Locks => lock'[ProjectOf[worker'[v].job]] = v
  <2>1. CASE v = w
    BY <1>1, <2>1 DEF Busy
  <2>2. CASE v # w
    <3>1. worker'[v] = worker[v]
      BY <1>1, <2>2
    <3>2. Busy(v) => worker[v].job \in Jobs /\ ProjectOf[worker[v].job] \in Projects
      BY ProjectOfJob
    <3>3. worker[v].step \in Locks => Busy(v) /\ lock[ProjectOf[worker[v].job]] = v
      BY DEF TypeOK, Locks, Busy
    <3>4. QED
      BY <1>2, <2>2, <3>1, <3>2, <3>3 DEF Busy
  <2>3. QED
    BY <2>1, <2>2
<1>5. \A e \in Editors : e # w
  BY StyleAssumption
<1>6. ASSUME NEW e \in Editors, editor[e].step \in Locks
      PROVE  lock'[editor[e].project] = e
  BY <1>2, <1>5, <1>6 DEF TypeOK, Locks, Request
<1>7. QED
  BY <1>1, <1>3, <1>4, <1>6 DEF TypeOK, HoldersOK

LEMMA EditorLocks ==
  ASSUME TypeOK, NEW e \in Editors, NEW q \in Request, q.step \in Locks,
         LockProject(q.project, e),
         editor' = [editor EXCEPT ![e] = q], UNCHANGED worker
  PROVE  HoldersOK'
<1> DEFINE p == q.project
<1>1. p \in Projects /\ lock[p] = NoOne /\ lock' = [lock EXCEPT ![p] = e]
  BY DEF LockProject, Free, Request
<1>2. \A x \in Workers \cup Editors : x # NoOne
  BY StyleAssumption
<1>3. \A x \in Projects : lock[x] # NoOne => lock'[x] = lock[x]
  BY <1>1 DEF TypeOK
<1>4. lock' \in [Projects -> Workers \cup Editors \cup {NoOne}]
  BY <1>1 DEF TypeOK
<1>5. ASSUME NEW v \in Workers, worker[v].step \in Locks
      PROVE  lock'[ProjectOf[worker[v].job]] = v
  <2>1. Busy(v) /\ lock[ProjectOf[worker[v].job]] = v
    BY <1>5 DEF TypeOK, Locks, Busy
  <2>2. QED
    BY <1>2, <1>3, <2>1, ProjectOfJob
<1>6. ASSUME NEW d \in Editors, editor'[d].step \in Locks
      PROVE  lock'[editor'[d].project] = d
  <2>1. CASE d = e
    BY <1>1, <2>1 DEF TypeOK
  <2>2. CASE d # e
    BY <1>2, <1>3, <1>6, <2>2 DEF TypeOK, Locks, Request
  <2>3. QED
    BY <2>1, <2>2
<1>7. QED
  BY <1>4, <1>5, <1>6 DEF TypeOK, HoldersOK, Busy

LEMMA EditorUnlocks ==
  ASSUME TypeOK, NEW e \in Editors, NEW q \in Request, q.step \notin Locks,
         editor' = [editor EXCEPT ![e] = q], Unlock(e), UNCHANGED worker
  PROVE  HoldersOK'
<1>1. \A p \in Projects : lock[p] # e => lock'[p] = lock[p]
  BY DEF Unlock
<1>2. lock' \in [Projects -> Workers \cup Editors \cup {NoOne}]
  BY DEF Unlock, TypeOK
<1>3. ASSUME NEW v \in Workers, worker[v].step \in Locks
      PROVE  lock'[ProjectOf[worker[v].job]] = v
  <2>1. Busy(v) /\ lock[ProjectOf[worker[v].job]] = v
    BY <1>3 DEF TypeOK, Locks, Busy
  <2>2. v # e
    BY StyleAssumption
  <2>3. QED
    BY <1>1, <2>1, <2>2, ProjectOfJob
<1>4. ASSUME NEW d \in Editors, editor'[d].step \in Locks
      PROVE  lock'[editor'[d].project] = d
  <2>1. CASE d = e
    BY <1>4, <2>1 DEF TypeOK
  <2>2. CASE d # e
    BY <1>1, <1>4, <2>2 DEF TypeOK, Locks, Request
  <2>3. QED
    BY <2>1, <2>2
<1>5. QED
  BY <1>2, <1>3, <1>4 DEF TypeOK, HoldersOK, Busy

\* What a worker may become: a step of its turn with the job it has.
LEMMA Goes ==
  ASSUME NEW r \in Process, NEW step \in Steps
  PROVE  /\ [r EXCEPT !.step = step] \in Process
         /\ [r EXCEPT !.step = step].step = step
         /\ [r EXCEPT !.step = step].job = r.job
<1>1. r \in [step : Steps, job : Jobs \cup {NoJob}, attempts : Counts,
             number : Nat, retryable : BOOLEAN]
  BY RowFields
<1>2. QED
  BY <1>1, RowFields

LEMMA Fails ==
  ASSUME NEW r \in Process, NEW step \in Steps, NEW b \in BOOLEAN
  PROVE  /\ [r EXCEPT !.step = step, !.retryable = b] \in Process
         /\ [r EXCEPT !.step = step, !.retryable = b].step = step
         /\ [r EXCEPT !.step = step, !.retryable = b].job = r.job
<1>1. r \in [step : Steps, job : Jobs \cup {NoJob}, attempts : Counts,
             number : Nat, retryable : BOOLEAN]
  BY RowFields
<1>2. QED
  BY <1>1, RowFields

\* What may become of a row.
LEMMA Leased ==
  ASSUME NEW r \in Row, NEW b \in BOOLEAN
  PROVE  [r EXCEPT !.expired = b] \in Row
<1>1. r \in [status : Statuses, createdAt : Nat, attempts : Counts,
             expired : BOOLEAN, revision : Nat]
  BY RowFields
<1>2. QED
  BY <1>1, RowFields

LEMMA Moved ==
  ASSUME NEW r \in Row, NEW s \in Statuses, NEW b \in BOOLEAN
  PROVE  [r EXCEPT !.status = s, !.expired = b] \in Row
<1>1. r \in [status : Statuses, createdAt : Nat, attempts : Counts,
             expired : BOOLEAN, revision : Nat]
  BY RowFields
<1>2. QED
  BY <1>1, RowFields

LEMMA Queued ==
  ASSUME NEW r \in Row, NEW s \in Statuses, NEW n \in Nat
  PROVE  [r EXCEPT !.status = s, !.createdAt = n] \in Row
<1>1. r \in [status : Statuses, createdAt : Nat, attempts : Counts,
             expired : BOOLEAN, revision : Nat]
  BY RowFields
<1>2. QED
  BY <1>1, RowFields

LEMMA Claimed ==
  ASSUME NEW r \in Row, NEW s \in Statuses, NEW n \in Counts, NEW b \in BOOLEAN
  PROVE  [r EXCEPT !.status = s, !.attempts = n, !.expired = b] \in Row
<1>1. r \in [status : Statuses, createdAt : Nat, attempts : Counts,
             expired : BOOLEAN, revision : Nat]
  BY RowFields
<1>2. QED
  BY <1>1, RowFields

LEMMA Succeeded ==
  ASSUME NEW r \in Row, NEW s \in Statuses, NEW b \in BOOLEAN, NEW n \in Nat
  PROVE  [r EXCEPT !.status = s, !.revision = n, !.expired = b] \in Row
<1>1. r \in [status : Statuses, createdAt : Nat, attempts : Counts,
             expired : BOOLEAN, revision : Nat]
  BY RowFields
<1>2. QED
  BY <1>1, RowFields

LEMMA GotoIs ==
  ASSUME TypeOK, NEW w \in Workers, NEW step \in Steps, Goto(w, step)
  PROVE  worker' = [worker EXCEPT ![w] = [worker[w] EXCEPT !.step = step]]
  BY DEF Goto, TypeOK

LEMMA FailIs ==
  ASSUME TypeOK, NEW w \in Workers, NEW b \in BOOLEAN, Fail(w, b)
  PROVE  worker' = [worker EXCEPT ![w] =
                     [worker[w] EXCEPT !.step = "failing", !.retryable = b]]
  BY DEF Fail, TypeOK

\* A worker that goes on without a lock.
LEMMA GotoHolds ==
  ASSUME TypeOK, NEW w \in Workers, NEW step \in Steps \ Locks,
         Busy(w) \/ step \in {"down", "idle", "claiming"},
         Goto(w, step), UNCHANGED <<lock, editor>>
  PROVE  HoldersOK'
<1> DEFINE q == [worker[w] EXCEPT !.step = step]
<1>1. /\ q \in Process /\ q.step = step /\ q.job = worker[w].job
      /\ worker' = [worker EXCEPT ![w] = q]
  BY GotoIs, Goes DEF TypeOK
<1> HIDE DEF q
<1>2. QED
  BY <1>1, WorkerMoves DEF TypeOK

\* A failure ends the transaction, if there is one.
LEMMA FailHolds ==
  ASSUME TypeOK, NEW w \in Workers, NEW b \in BOOLEAN, Busy(w), Fail(w, b),
         Unlock(w) \/ UNCHANGED lock, UNCHANGED editor
  PROVE  HoldersOK'
<1> DEFINE q == [worker[w] EXCEPT !.step = "failing", !.retryable = b]
<1>1. /\ q \in Process /\ q.step = "failing" /\ q.job \in Jobs
      /\ worker' = [worker EXCEPT ![w] = q]
  <2>1. worker[w] \in Process /\ worker[w].job \in Jobs /\ "failing" \in Steps
    BY ProjectOfJob DEF TypeOK, Steps
  <2>2. q \in Process /\ q.step = "failing" /\ q.job = worker[w].job
    BY <2>1, Fails
  <2>3. QED
    BY <2>1, <2>2, FailIs
<1> HIDE DEF q
<1>2. QED
  BY <1>1, WorkerMoves, WorkerUnlocks DEF Locks

LEMMA IdleHolds ==
  ASSUME TypeOK, NEW w \in Workers, NEW step \in {"down", "idle"},
         worker' = [worker EXCEPT ![w] = At(step)],
         Unlock(w) \/ UNCHANGED lock, UNCHANGED editor
  PROVE  HoldersOK'
<1>1. At(step) \in Process /\ At(step).step = step
  BY AtType, CountRange DEF At, Steps
<1>2. QED
  BY <1>1, WorkerMoves, WorkerUnlocks DEF Locks

\* The rows, whoever changes them.
LEMMA RowsType ==
  ASSUME TypeOK, NEW j \in Jobs, NEW r \in Row, job' = [job EXCEPT ![j] = r]
  PROVE  job' \in [Jobs -> Row]
  BY DEF TypeOK

LEMMA RestOfType ==
  ASSUME TypeOK, HoldersOK', job' \in [Jobs -> Row],
         UNCHANGED <<clock, revisions, refused, saves, overran>>,
         Fault \/ NoFault \/ UNCHANGED faults
  PROVE  TypeOK'
  BY DEF TypeOK, HoldersOK, Locks, Fault, NoFault

\* The revision a transaction inserts.
LEMMA InsertType ==
  ASSUME TypeOK, NEW p \in Projects, NEW n \in Nat, NEW j \in Jobs \cup {NoJob},
         InsertRevision(p, n, j)
  PROVE  revisions' \subseteq Revision
  BY DEF InsertRevision, TypeOK, Revision

LEMMA TypeStep == ASSUME TypeOK, NumberingInv, [Next]_vars PROVE TypeOK'
<1>1. ASSUME NEW j \in Jobs, CreateJob(j) PROVE TypeOK'
  <2> DEFINE r == [AbsentRow EXCEPT !.status = "QUEUED", !.createdAt = clock]
  <2>1. r \in Row
    <3>1. AbsentRow \in Row
      BY RowFields, CountRange DEF AbsentRow, Statuses
    <3>2. QED
      BY <3>1, Queued DEF TypeOK, Statuses
  <2> HIDE DEF r
  <2>2. job' \in [Jobs -> Row]
    BY <1>1, <2>1, RowsType DEF CreateJob, r
  <2>3. QED
    BY <1>1, <2>2 DEF CreateJob, TypeOK, Busy
<1>2. ASSUME NEW j \in Jobs, LeaseExpires(j) PROVE TypeOK'
  <2>1. job' \in [Jobs -> Row]
    <3> DEFINE r == [job[j] EXCEPT !.expired = TRUE]
    <3>1. r \in Row /\ job' = [job EXCEPT ![j] = r]
      BY <1>2, Leased DEF LeaseExpires, TypeOK
    <3> HIDE DEF r
    <3>2. QED
      BY <3>1, RowsType
  <2>2. QED
    BY <1>2, <2>1 DEF LeaseExpires, TypeOK, Busy
<1>3. ASSUME NEW w \in Workers, RecoverExpiredJobs(w) PROVE TypeOK'
  <2>1. \A s \in Statuses, j \in Jobs :
          [job[j] EXCEPT !.status = s, !.expired = FALSE] \in Row
    BY Moved DEF TypeOK
  <2>2. job' \in [Jobs -> Row]
    BY <1>3, <2>1 DEF RecoverExpiredJobs, TypeOK, Statuses
  <2>3. HoldersOK'
    BY <1>3, GotoHolds DEF RecoverExpiredJobs, Steps, Locks
  <2>4. QED
    BY <1>3, <2>2, <2>3, RestOfType DEF RecoverExpiredJobs
<1>4. ASSUME NEW w \in Workers, ClaimNextJob(w) PROVE TypeOK'
  <2>1. PICK j \in Claimable(w) :
          /\ job' = [job EXCEPT ![j].status = "RUNNING",
                                ![j].attempts = @ + 1,
                                ![j].expired = FALSE]
          /\ worker' = [worker EXCEPT ![w] = [At("analyzing") EXCEPT
                                                !.job = j,
                                                !.attempts = job[j].attempts + 1]]
    BY <1>4 DEF ClaimNextJob
  <2> DEFINE n == job[j].attempts + 1
             q == [At("analyzing") EXCEPT !.job = j, !.attempts = n]
  <2>2. j \in Jobs /\ job[j] \in Row /\ n \in Counts
    BY <2>1, RowFields, CountRange DEF Claimable, TypeOK
  <2>3. job' \in [Jobs -> Row]
    <3> DEFINE r == [job[j] EXCEPT !.status = "RUNNING", !.attempts = n,
                                   !.expired = FALSE]
    <3>1. r \in Row
      BY <2>2, Claimed DEF Statuses
    <3>2. job' = [job EXCEPT ![j] = r]
      BY <2>1, <2>2 DEF TypeOK
    <3> HIDE DEF r
    <3>3. QED
      BY <2>2, <3>1, <3>2, RowsType
  <2> HIDE DEF n
  <2>4. q \in Process /\ q.step = "analyzing" /\ q.job = j
    BY <2>2, AtType DEF Steps, At
  <2>5. worker' = [worker EXCEPT ![w] = q]
    BY <2>1 DEF n
  <2> HIDE DEF q
  <2>6. HoldersOK'
    BY <1>4, <2>2, <2>4, <2>5, WorkerMoves DEF ClaimNextJob, Locks
  <2>7. QED
    BY <1>4, <2>3, <2>6, RestOfType DEF ClaimNextJob
<1>5. ASSUME NEW w \in Workers, NothingToClaim(w) \/ Restart(w) PROVE TypeOK'
  <2>1. HoldersOK'
    BY <1>5, GotoHolds DEF NothingToClaim, Restart, Steps, Locks
  <2>2. QED
    BY <1>5, <2>1, RestOfType DEF NothingToClaim, Restart, TypeOK
<1>6. ASSUME NEW w \in Workers, Analyze(w) PROVE TypeOK'
  <2>1. Busy(w)
    BY <1>6 DEF Analyze, Busy
  <2>2. HoldersOK'
    BY <1>6, <2>1, GotoHolds, FailHolds DEF Analyze, Steps, Locks
  <2>3. QED
    BY <1>6, <2>2, RestOfType DEF Analyze, TypeOK
<1>7. ASSUME NEW w \in Workers, BeginCompletion(w) PROVE TypeOK'
  <2>1. Busy(w)
    BY <1>7 DEF BeginCompletion, Busy
  <2>2. HoldersOK'
    <3>1. CASE LockProject(ProjectOf[worker[w].job], w) /\ Goto(w, "reading")
      <4> DEFINE q == [worker[w] EXCEPT !.step = "reading"]
      <4>1. /\ q \in Process /\ q.step = "reading" /\ q.job = worker[w].job
            /\ worker' = [worker EXCEPT ![w] = q]
        BY <3>1, GotoIs, Goes DEF TypeOK, Steps
      <4> HIDE DEF q
      <4>2. QED
        BY <1>7, <2>1, <3>1, <4>1, WorkerLocks DEF BeginCompletion, Locks
    <3>2. CASE Fail(w, FALSE) /\ UNCHANGED lock
      BY <1>7, <2>1, <3>2, FailHolds DEF BeginCompletion
    <3>3. QED
      BY <1>7, <3>1, <3>2 DEF BeginCompletion
  <2>3. QED
    BY <1>7, <2>2, RestOfType DEF BeginCompletion, TypeOK
<1>8. ASSUME NEW w \in Workers, NumberRevision(w) PROVE TypeOK'
  <2>1. Busy(w)
    BY <1>8 DEF NumberRevision, Busy
  <2>2. HoldersOK'
    <3>1. CASE Running(worker[w].job)
      <4>1. PICK n : n \in Nat /\ n = NextNumber(ProjectOf[worker[w].job])
        BY <2>1, NextNumberIs, ProjectOfJob
      <4>2. PICK q : q = [worker[w] EXCEPT !.step = "writing", !.number = n]
        OBVIOUS
      <4>3. worker' = [worker EXCEPT ![w] = q] /\ UNCHANGED <<lock, editor>>
        <5>1. worker' = [worker EXCEPT ![w].step = "writing", ![w].number = n]
              /\ UNCHANGED <<lock, editor>>
          BY <1>8, <3>1, <4>1 DEF NumberRevision
        <5>2. QED
          BY <4>2, <5>1 DEF TypeOK
      <4>4. q \in Process /\ q.step = "writing" /\ q.job = worker[w].job
        <5>1. worker[w] \in [step : Steps, job : Jobs \cup {NoJob},
                             attempts : Counts, number : Nat, retryable : BOOLEAN]
          BY RowFields DEF TypeOK
        <5>2. QED
          BY <4>1, <4>2, <5>1, RowFields DEF Steps
      <4>5. QED
        BY <1>8, <2>1, <4>3, <4>4, WorkerMoves, ProjectOfJob
        DEF NumberRevision, Locks
    <3>2. CASE ~Running(worker[w].job)
      BY <1>8, <2>1, <3>2, FailHolds DEF NumberRevision
    <3>3. QED
      BY <3>1, <3>2
  <2>3. QED
    BY <1>8, <2>2, RestOfType DEF NumberRevision, TypeOK
<1>9. ASSUME NEW w \in Workers, CommitCompletion(w) PROVE TypeOK'
  <2> DEFINE j == worker[w].job
             n == worker[w].number
  <2>1. Busy(w) /\ j \in Jobs /\ ProjectOf[j] \in Projects /\ n \in Nat
    BY <1>9, ProjectOfJob DEF CommitCompletion, Busy, TypeOK, Process
  <2>2. HoldersOK'
    <3>1. Fail(w, FALSE) => HoldersOK'
      BY <1>9, <2>1, FailHolds DEF CommitCompletion
    <3>2. worker' = [worker EXCEPT ![w] = At("idle")] => HoldersOK'
      BY <1>9, IdleHolds DEF CommitCompletion
    <3>3. QED
      BY <1>9, <3>1, <3>2 DEF CommitCompletion
  <2>3. job' \in [Jobs -> Row]
    <3> DEFINE r == [job[j] EXCEPT !.status = "SUCCEEDED", !.revision = n,
                                   !.expired = FALSE]
    <3>1. r \in Row
      BY <2>1, Succeeded DEF TypeOK, Statuses
    <3>2. job' = job \/ job' = [job EXCEPT ![j] = r]
      BY <1>9, <2>1 DEF CommitCompletion, TypeOK
    <3> HIDE DEF r
    <3>3. QED
      BY <2>1, <3>1, <3>2, RowsType DEF TypeOK
  <2>4. revisions' \subseteq Revision
    <3>1. revisions' = revisions \/ InsertRevision(ProjectOf[j], n, j)
      BY <1>9 DEF CommitCompletion
    <3>2. QED
      BY <2>1, <3>1, InsertType DEF TypeOK
  <2>5. refused' \in BOOLEAN /\ faults' \in Nat
    <3>1. refused' \in BOOLEAN
      BY <1>9, Zenon DEF CommitCompletion, TypeOK
    <3>2. faults' \in Nat
      <4>1. Fault \/ NoFault
        BY <1>9, Zenon DEF CommitCompletion
      <4>2. QED
        BY <4>1 DEF TypeOK, Fault, NoFault
    <3>3. QED
      BY <3>1, <3>2
  <2>6. QED
    BY <1>9, <2>2, <2>3, <2>4, <2>5 DEF CommitCompletion, TypeOK, HoldersOK, Locks
<1>10. ASSUME NEW w \in Workers, FailOrRetry(w) PROVE TypeOK'
  <2> DEFINE j == worker[w].job
  <2>1. j \in Jobs
    BY <1>10, ProjectOfJob DEF FailOrRetry, Busy
  <2>2. job' \in [Jobs -> Row]
    <3>1. \A s \in Statuses : [job[j] EXCEPT !.status = s, !.expired = FALSE] \in Row
      BY <2>1, Moved DEF TypeOK
    <3>2. PICK s \in Statuses :
            job' = job \/ job' = [job EXCEPT ![j] = [job[j] EXCEPT !.status = s,
                                                                 !.expired = FALSE]]
      BY <1>10, <2>1 DEF FailOrRetry, TypeOK, Statuses
    <3>3. QED
      BY <2>1, <3>1, <3>2, RowsType DEF TypeOK
  <2>3. HoldersOK'
    BY <1>10, IdleHolds DEF FailOrRetry
  <2>4. QED
    BY <1>10, <2>2, <2>3, RestOfType DEF FailOrRetry
<1>11. ASSUME NEW w \in Workers, Crash(w) PROVE TypeOK'
  <2>1. HoldersOK'
    BY <1>11, IdleHolds DEF Crash
  <2>2. QED
    BY <1>11, <2>1, RestOfType DEF Crash, TypeOK
<1>12. ASSUME NEW e \in Editors, BeginSave(e) PROVE TypeOK'
  <2>1. PICK p \in Projects :
          /\ LockProject(p, e)
          /\ editor' = [editor EXCEPT ![e].step = "reading", ![e].project = p]
    BY <1>12 DEF BeginSave
  <2> DEFINE q == [editor[e] EXCEPT !.step = "reading", !.project = p]
  <2>2. /\ q \in Request /\ q.step \in Locks /\ q.project = p
        /\ editor' = [editor EXCEPT ![e] = q]
    <3>1. editor[e] \in [step : {"idle", "reading", "writing"}, project : Projects,
                         number : Nat]
      BY DEF TypeOK, Request
    <3>2. q \in Request /\ q.step = "reading" /\ q.project = p
      BY <3>1 DEF Request
    <3>3. QED
      BY <2>1, <3>2 DEF TypeOK, Locks
  <2> HIDE DEF q
  <2>3. HoldersOK'
    BY <1>12, <2>1, <2>2, EditorLocks DEF BeginSave
  <2>4. QED
    BY <1>12, <2>3 DEF BeginSave, TypeOK, HoldersOK, Locks
<1>13. ASSUME NEW e \in Editors, NumberSave(e) PROVE TypeOK'
  <2> DEFINE n == NextNumber(editor[e].project)
  <2>1. n \in Nat
    BY NextNumberIs DEF TypeOK, Request
  <2>2. /\ editor[e].step = "reading"
        /\ editor' = [editor EXCEPT ![e].step = "writing", ![e].number = n]
        /\ UNCHANGED <<lock, worker>>
    BY <1>13 DEF NumberSave
  <2> HIDE DEF n
  <2>3. HoldersOK'
    BY <2>1, <2>2 DEF TypeOK, HoldersOK, Request, Locks, Busy
  <2>4. QED
    BY <1>13, <2>3, RestOfType DEF NumberSave, TypeOK
<1>14. ASSUME NEW e \in Editors, EndSave(e) PROVE TypeOK'
  <2> DEFINE q == [editor[e] EXCEPT !.step = "idle", !.number = 0]
  <2>1. q \in Request /\ q.step = "idle" /\ editor' = [editor EXCEPT ![e] = q]
    BY <1>14 DEF EndSave, TypeOK, Request
  <2> HIDE DEF q
  <2>2. HoldersOK'
    BY <1>14, <2>1, EditorUnlocks DEF EndSave, Locks
  <2>3. revisions' \subseteq Revision
    <3>1. editor[e].project \in Projects /\ editor[e].number \in Nat
      BY DEF TypeOK, Request
    <3>2. revisions' = revisions
          \/ InsertRevision(editor[e].project, editor[e].number, NoJob)
      BY <1>14 DEF EndSave
    <3>3. QED
      BY <3>1, <3>2, InsertType DEF TypeOK
  <2>4. refused' \in BOOLEAN
    BY <1>14 DEF EndSave, TypeOK
  <2>5. QED
    BY <1>14, <2>2, <2>3, <2>4 DEF EndSave, TypeOK, HoldersOK, Locks
<1>15. CASE UNCHANGED vars
  BY <1>15 DEF vars, TypeOK, Busy
<1>16. QED
  BY <1>1, <1>2, <1>3, <1>4, <1>5, <1>6, <1>7, <1>8, <1>9, <1>10, <1>11,
     <1>12, <1>13, <1>14, <1>15
  DEF Next, RunOnce, Save

-----------------------------------------------------------------------------
(* The kinds of step, by what they do to rows, turns and revisions.        *)

OtherRows(i)  == \A j \in Jobs : j # i => job'[j] = job[j]
OthersKeep(w) == \A v \in Workers : v # w => worker'[v] = worker[v]
SameNumbers   == revisions' = revisions /\ refused' = refused

\* The worker keeps its claim, or is at no turn any more.
SameTurn(w) == Busy(w)' => /\ Busy(w)
                           /\ worker'[w].job = worker[w].job
                           /\ worker'[w].attempts = worker[w].attempts

\* Who is about to write has just read the next number.
ReadsNumber(w) == worker'[w].step = "writing" =>
                    worker'[w].number = NextNumber(ProjectOf[worker'[w].job])

Queues(i) ==
  /\ job[i].status = "ABSENT" /\ job'[i].status = "QUEUED"
  /\ job'[i].attempts = 0
  /\ OtherRows(i) /\ SameNumbers /\ UNCHANGED <<worker, editor, overran>>

RunsOut(i) ==
  /\ job[i].status = "RUNNING" /\ job'[i].status = "RUNNING"
  /\ job'[i].attempts = job[i].attempts
  /\ ~overran' => ~overran /\ Unattended(i)
  /\ OtherRows(i) /\ SameNumbers /\ UNCHANGED <<worker, editor>>

Recovered(i) ==
  /\ job[i].status = "RUNNING" /\ job[i].expired
  /\ job'[i].attempts = job[i].attempts
  /\ \/ job'[i].status = "QUEUED" /\ job[i].attempts < MaxAttempts
     \/ job'[i].status = "FAILED"

Recovers(w) ==
  /\ ~Busy(w)' /\ OthersKeep(w)
  /\ \A j \in Jobs : job'[j] = job[j] \/ Recovered(j)
  /\ SameNumbers /\ UNCHANGED <<editor, overran>>

Claims(w, i) ==
  /\ job[i].status = "QUEUED" /\ job'[i].status = "RUNNING"
  /\ job[i].attempts < MaxAttempts
  /\ job'[i].attempts = job[i].attempts + 1 /\ job'[i].expired = FALSE
  /\ worker'[w].step = "analyzing" /\ worker'[w].job = i
  /\ worker'[w].attempts = job'[i].attempts
  /\ OthersKeep(w) /\ OtherRows(i) /\ SameNumbers /\ UNCHANGED <<editor, overran>>

Passes(w) ==
  /\ SameTurn(w) /\ ReadsNumber(w) /\ OthersKeep(w)
  /\ SameNumbers /\ UNCHANGED <<job, editor, overran>>

Succeeds(w) ==
  LET i == worker[w].job IN
  /\ worker[w].step = "writing" /\ worker'[w].step # "writing"
  /\ SameTurn(w) /\ OthersKeep(w)
  /\ job[i].status = "RUNNING" /\ job'[i].status = "SUCCEEDED"
  /\ job'[i].attempts = job[i].attempts
  /\ job'[i].revision = worker[w].number
  /\ revisions' = revisions \cup
       {[project |-> ProjectOf[i], number |-> worker[w].number, source |-> i]}
  /\ refused' = refused
  /\ OtherRows(i) /\ UNCHANGED <<editor, overran>>

GivesUp(w) ==
  LET i == worker[w].job IN
  /\ Busy(w) /\ ~Busy(w)' /\ OthersKeep(w)
  /\ job[i].status = "RUNNING" /\ job'[i].attempts = job[i].attempts
  /\ \/ job'[i].status = "QUEUED" /\ worker[w].attempts < MaxAttempts
     \/ job'[i].status = "FAILED"
  /\ OtherRows(i) /\ SameNumbers /\ UNCHANGED <<editor, overran>>

OtherEditors(e) == \A d \in Editors : d # e => editor'[d] = editor[d]

Edits(e) ==
  /\ editor'[e].step = "writing" =>
       editor'[e].number = NextNumber(editor'[e].project)
  /\ OtherEditors(e) /\ SameNumbers /\ UNCHANGED <<job, worker, overran>>

Saves(e) ==
  /\ editor[e].step = "writing" /\ editor'[e].step = "idle"
  /\ revisions' = revisions \cup
       {[project |-> editor[e].project, number |-> editor[e].number,
         source |-> NoJob]}
  /\ refused' = refused
  /\ OtherEditors(e) /\ UNCHANGED <<job, worker, overran>>

Idles == SameNumbers /\ UNCHANGED <<job, worker, editor, overran>>

KindOfStep ==
  \/ Idles
  \/ \E i \in Jobs : Queues(i) \/ RunsOut(i)
  \/ \E w \in Workers : \/ Recovers(w) \/ Passes(w) \/ Succeeds(w) \/ GivesUp(w)
                        \/ \E i \in Jobs : Claims(w, i)
  \/ \E e \in Editors : Edits(e) \/ Saves(e)

\* A worker at its turn goes on to another step that is not the write.
LEMMA GotoKeeps ==
  ASSUME TypeOK, NEW w \in Workers, NEW step \in Steps, step # "writing",
         Busy(w) \/ step \in {"down", "idle", "claiming"}, Goto(w, step)
  PROVE  SameTurn(w) /\ ReadsNumber(w) /\ OthersKeep(w)
<1>1. worker[w] \in Process
  BY DEF TypeOK
<1>2. PICK q : q = [worker[w] EXCEPT !.step = step]
  OBVIOUS
<1>3. worker' = [worker EXCEPT ![w] = q]
  BY <1>2, GotoIs
<1>4. q.step = step /\ q.job = worker[w].job /\ q.attempts = worker[w].attempts
  BY <1>1, <1>2, RowFields
<1>5. worker'[w] = q /\ OthersKeep(w)
  BY <1>3 DEF TypeOK, OthersKeep
<1>6. QED
  BY <1>4, <1>5 DEF SameTurn, ReadsNumber, Busy

LEMMA FailKeeps ==
  ASSUME TypeOK, NEW w \in Workers, NEW b \in BOOLEAN, Busy(w), Fail(w, b)
  PROVE  /\ SameTurn(w) /\ ReadsNumber(w) /\ OthersKeep(w)
         /\ worker'[w].step = "failing"
<1>1. worker[w] \in Process
  BY DEF TypeOK
<1>2. PICK q : q = [worker[w] EXCEPT !.step = "failing", !.retryable = b]
  OBVIOUS
<1>3. worker' = [worker EXCEPT ![w] = q]
  BY <1>2, FailIs
<1>4. q.step = "failing" /\ q.job = worker[w].job /\ q.attempts = worker[w].attempts
  BY <1>1, <1>2, RowFields
<1>5. worker'[w] = q /\ OthersKeep(w)
  BY <1>3 DEF TypeOK, OthersKeep
<1>6. QED
  BY <1>4, <1>5 DEF SameTurn, ReadsNumber, Busy

LEMMA IdleKeeps ==
  ASSUME TypeOK, NEW w \in Workers, NEW step \in {"down", "idle"},
         worker' = [worker EXCEPT ![w] = At(step)]
  PROVE  /\ SameTurn(w) /\ ReadsNumber(w) /\ OthersKeep(w) /\ ~Busy(w)'
         /\ worker'[w].step = step
<1>1. worker'[w] = At(step) /\ OthersKeep(w)
  BY DEF TypeOK, OthersKeep
<1>2. At(step).step = step
  BY DEF At
<1>3. QED
  BY <1>1, <1>2 DEF SameTurn, ReadsNumber, Busy

LEMMA CreateJobKind ==
  ASSUME TypeOK, NEW j \in Jobs, CreateJob(j) PROVE Queues(j)
<1>1. PICK r : r = [AbsentRow EXCEPT !.status = "QUEUED", !.createdAt = clock]
  OBVIOUS
<1>2. r.status = "QUEUED" /\ r.attempts = 0
  BY <1>1 DEF AbsentRow
<1>3. job' = [job EXCEPT ![j] = r]
  BY <1>1 DEF CreateJob
<1>4. job'[j] = r /\ OtherRows(j)
  BY <1>3 DEF TypeOK, OtherRows
<1>5. QED
  BY <1>2, <1>4 DEF CreateJob, Queues, SameNumbers

LEMMA LeaseExpiresKind ==
  ASSUME TypeOK, NEW j \in Jobs, LeaseExpires(j) PROVE RunsOut(j)
<1>1. PICK r : r = [job[j] EXCEPT !.expired = TRUE]
  OBVIOUS
<1>2. job[j] \in Row /\ job' = [job EXCEPT ![j] = r]
  BY <1>1 DEF LeaseExpires, TypeOK
<1>3. r.status = job[j].status /\ r.attempts = job[j].attempts
  BY <1>1, <1>2, RowFields
<1>4. job'[j] = r /\ OtherRows(j)
  BY <1>2 DEF TypeOK, OtherRows
<1>5. ~overran' => ~overran /\ Unattended(j)
  BY Zenon DEF LeaseExpires, TypeOK
<1>6. QED
  BY <1>3, <1>4, <1>5 DEF LeaseExpires, RunsOut, SameNumbers

LEMMA RecoverKind ==
  ASSUME TypeOK, NEW w \in Workers, RecoverExpiredJobs(w) PROVE Recovers(w)
<1>1. ASSUME NEW j \in Jobs, Expired(j) PROVE Recovered(j)
  <2>1. PICK s : s = IF job[j].attempts < MaxAttempts THEN "QUEUED" ELSE "FAILED"
    OBVIOUS
  <2>2. PICK r : r = [job[j] EXCEPT !.status = s, !.expired = FALSE]
    OBVIOUS
  <2>3. job[j] \in Row /\ job'[j] = r
    BY <1>1, <2>1, <2>2 DEF RecoverExpiredJobs, TypeOK
  <2>4. r.status = s /\ r.attempts = job[j].attempts
    BY <2>2, <2>3, RowFields
  <2>5. QED
    BY <1>1, <2>1, <2>3, <2>4 DEF Expired, Recovered
<1>2. ASSUME NEW j \in Jobs, ~Expired(j) PROVE job'[j] = job[j]
  BY <1>2 DEF RecoverExpiredJobs
<1>3. OthersKeep(w) /\ ~Busy(w)'
  BY DEF RecoverExpiredJobs, Goto, OthersKeep, Busy, TypeOK, Process
<1>4. QED
  BY <1>1, <1>2, <1>3 DEF RecoverExpiredJobs, Recovers, SameNumbers

LEMMA ClaimKind ==
  ASSUME TypeOK, NEW w \in Workers, ClaimNextJob(w)
  PROVE  \E i \in Jobs : Claims(w, i)
<1>1. PICK j \in Claimable(w) :
        /\ job' = [job EXCEPT ![j].status = "RUNNING",
                              ![j].attempts = @ + 1,
                              ![j].expired = FALSE]
        /\ worker' = [worker EXCEPT ![w] = [At("analyzing") EXCEPT
                                              !.job = j,
                                              !.attempts = job[j].attempts + 1]]
  BY DEF ClaimNextJob
<1>2. j \in Jobs /\ job[j] \in Row /\ job[j].status = "QUEUED"
      /\ job[j].attempts < MaxAttempts
  BY <1>1 DEF Claimable, TypeOK
<1>3. /\ job'[j].status = "RUNNING" /\ job'[j].attempts = job[j].attempts + 1
      /\ job'[j].expired = FALSE /\ OtherRows(j)
  BY <1>1, <1>2, RowFields DEF TypeOK, OtherRows
<1>4. /\ worker'[w].step = "analyzing" /\ worker'[w].job = j
      /\ worker'[w].attempts = job[j].attempts + 1 /\ OthersKeep(w)
  BY <1>1 DEF TypeOK, At, OthersKeep
<1>5. Claims(w, j)
  BY <1>2, <1>3, <1>4 DEF ClaimNextJob, Claims, SameNumbers
<1>6. QED
  BY <1>2, <1>5

LEMMA PassKind ==
  ASSUME TypeOK, NEW w \in Workers,
         NothingToClaim(w) \/ Restart(w) \/ Analyze(w) \/ BeginCompletion(w) \/ Crash(w)
  PROVE  Passes(w)
<1>1. CASE NothingToClaim(w) \/ Restart(w)
  BY <1>1, GotoKeeps DEF NothingToClaim, Restart, Passes, SameNumbers, Steps
<1>2. CASE Analyze(w)
  <2>1. Busy(w)
    BY <1>2 DEF Analyze, Busy
  <2>2. SameTurn(w) /\ ReadsNumber(w) /\ OthersKeep(w)
    BY <1>2, <2>1, GotoKeeps, FailKeeps DEF Analyze, Steps
  <2>3. QED
    BY <1>2, <2>2 DEF Analyze, Passes, SameNumbers
<1>3. CASE BeginCompletion(w)
  <2>1. Busy(w)
    BY <1>3 DEF BeginCompletion, Busy
  <2>2. SameTurn(w) /\ ReadsNumber(w) /\ OthersKeep(w)
    BY <1>3, <2>1, GotoKeeps, FailKeeps DEF BeginCompletion, Steps
  <2>3. QED
    BY <1>3, <2>2 DEF BeginCompletion, Passes, SameNumbers
<1>4. CASE Crash(w)
  BY <1>4, IdleKeeps DEF Crash, Passes, SameNumbers
<1>5. QED
  BY <1>1, <1>2, <1>3, <1>4

LEMMA NumberRevisionKind ==
  ASSUME TypeOK, NumberingInv, NEW w \in Workers, NumberRevision(w)
  PROVE  Passes(w)
<1>1. Busy(w)
  BY DEF NumberRevision, Busy
<1>2. CASE Running(worker[w].job)
  <2>1. PICK n : n = NextNumber(ProjectOf[worker[w].job])
    OBVIOUS
  <2>2. PICK q : q = [worker[w] EXCEPT !.step = "writing", !.number = n]
    OBVIOUS
  <2>3. worker' = [worker EXCEPT ![w].step = "writing", ![w].number = n]
    BY <1>2, <2>1 DEF NumberRevision
  <2>4. worker[w] \in Process
    BY DEF TypeOK
  <2>5. /\ q.step = "writing" /\ q.job = worker[w].job
        /\ q.attempts = worker[w].attempts /\ q.number = n
    BY <2>2, <2>4, RowFields
  <2>6. worker'[w] = q /\ OthersKeep(w)
    BY <2>2, <2>3 DEF TypeOK, OthersKeep
  <2>7. SameTurn(w) /\ ReadsNumber(w)
    BY <1>1, <2>1, <2>5, <2>6 DEF SameTurn, ReadsNumber
  <2>8. QED
    BY <2>6, <2>7 DEF NumberRevision, Passes, SameNumbers
<1>3. CASE ~Running(worker[w].job)
  <2>1. Fail(w, FALSE)
    BY <1>3 DEF NumberRevision
  <2>2. QED
    BY <1>1, <2>1, FailKeeps DEF NumberRevision, Passes, SameNumbers
<1>4. QED
  BY <1>2, <1>3

\* A number about to be written is free.
LEMMA WriterIsFree ==
  ASSUME TypeOK, NumberingInv, NEW w \in Workers, worker[w].step = "writing"
  PROVE  worker[w].number \notin Numbers(ProjectOf[worker[w].job])
<1>1. Busy(w)
  BY DEF Busy
<1>2. ProjectOf[worker[w].job] \in Projects
  BY <1>1, ProjectOfJob
<1>3. QED
  BY <1>2, NextNumberIs DEF NumberingInv

LEMMA CommitKind ==
  ASSUME TypeOK, NumberingInv, NEW w \in Workers, CommitCompletion(w)
  PROVE  Passes(w) \/ Succeeds(w)
<1> DEFINE j == worker[w].job
           n == worker[w].number
           Commit == /\ Running(j)
                     /\ InsertRevision(ProjectOf[j], n, j)
                     /\ job' = [job EXCEPT ![j].status = "SUCCEEDED",
                                           ![j].revision = n,
                                           ![j].expired = FALSE]
           Leaves == worker' = [worker EXCEPT ![w] = At("idle")] \/ Fail(w, FALSE)
<1>1. worker[w].step = "writing" /\ Busy(w) /\ j \in Jobs
  BY ProjectOfJob DEF CommitCompletion, Busy
<1>2. n \notin Numbers(ProjectOf[j])
  BY <1>1, WriterIsFree
<1>3. Leaves /\ (Commit \/ UNCHANGED <<job, revisions>>)
  BY DEF CommitCompletion
<1>4. refused' = refused /\ UNCHANGED <<editor, overran>>
  <2>1. refused' = (refused \/ n \in Numbers(ProjectOf[j]))
    BY DEF CommitCompletion
  <2>2. QED
    BY <1>2, <2>1, Zenon DEF CommitCompletion, TypeOK
<1>5. SameTurn(w) /\ ReadsNumber(w) /\ OthersKeep(w) /\ worker'[w].step # "writing"
  BY <1>1, <1>3, IdleKeeps, FailKeeps
<1> HIDE DEF Leaves
<1>6. CASE Commit
  <2>1. job[j].status = "RUNNING"
    BY <1>6 DEF Running
  <2>2. PICK r : r = [job[j] EXCEPT !.status = "SUCCEEDED", !.revision = n,
                                    !.expired = FALSE]
    OBVIOUS
  <2>3. job[j] \in Row /\ job'[j] = r /\ OtherRows(j)
    BY <1>1, <1>6, <2>2 DEF TypeOK, OtherRows
  <2>4. r.status = "SUCCEEDED" /\ r.attempts = job[j].attempts /\ r.revision = n
    BY <2>2, <2>3, RowFields
  <2>5. revisions' = revisions \cup
          {[project |-> ProjectOf[j], number |-> n, source |-> j]}
    BY <1>6 DEF InsertRevision
  <2>6. QED
    BY <1>1, <1>4, <1>5, <2>1, <2>3, <2>4, <2>5 DEF Succeeds
<1>7. CASE UNCHANGED <<job, revisions>>
  BY <1>4, <1>5, <1>7 DEF Passes, SameNumbers
<1>8. QED
  BY <1>3, <1>6, <1>7

LEMMA FailOrRetryKind ==
  ASSUME TypeOK, NEW w \in Workers, FailOrRetry(w)
  PROVE  Passes(w) \/ GivesUp(w)
<1> DEFINE j == worker[w].job
<1>1. Busy(w) /\ j \in Jobs
  BY ProjectOfJob DEF FailOrRetry, Busy
<1>2. SameTurn(w) /\ ReadsNumber(w) /\ OthersKeep(w) /\ ~Busy(w)'
  BY IdleKeeps DEF FailOrRetry
<1>3. CASE Running(j)
  <2>1. PICK s : s = IF Retries(w) THEN "QUEUED" ELSE "FAILED"
    OBVIOUS
  <2>2. PICK r : r = [job[j] EXCEPT !.status = s, !.expired = FALSE]
    OBVIOUS
  <2>3. job' = [job EXCEPT ![j] = r] /\ job[j] \in Row
    BY <1>1, <1>3, <2>1, <2>2 DEF FailOrRetry, TypeOK
  <2>4. r.status = s /\ r.attempts = job[j].attempts
    BY <2>2, <2>3, RowFields
  <2>5. job'[j] = r /\ OtherRows(j)
    BY <1>1, <2>3 DEF TypeOK, OtherRows
  <2>6. (s = "QUEUED" /\ worker[w].attempts < MaxAttempts) \/ s = "FAILED"
    BY <2>1 DEF Retries
  <2>7. QED
    BY <1>1, <1>2, <1>3, <2>4, <2>5, <2>6
    DEF FailOrRetry, GivesUp, Running, SameNumbers
<1>4. CASE ~Running(j)
  BY <1>2, <1>4 DEF FailOrRetry, Passes, SameNumbers
<1>5. QED
  BY <1>3, <1>4

LEMMA BeginSaveKind ==
  ASSUME TypeOK, NEW e \in Editors, BeginSave(e) PROVE Edits(e)
  BY DEF BeginSave, Edits, OtherEditors, SameNumbers, TypeOK, Request

LEMMA NumberSaveKind ==
  ASSUME TypeOK, NEW e \in Editors, NumberSave(e) PROVE Edits(e)
<1>1. PICK n : n = NextNumber(editor[e].project)
  OBVIOUS
<1>2. editor' = [editor EXCEPT ![e].step = "writing", ![e].number = n]
  BY <1>1 DEF NumberSave
<1>3. editor'[e].number = n /\ editor'[e].project = editor[e].project
  BY <1>2 DEF TypeOK, Request
<1>4. QED
  BY <1>1, <1>2, <1>3 DEF NumberSave, Edits, OtherEditors, SameNumbers, TypeOK

LEMMA EndSaveKind ==
  ASSUME TypeOK, NumberingInv, NEW e \in Editors, EndSave(e)
  PROVE  Edits(e) \/ Saves(e)
<1> DEFINE p == editor[e].project
           n == editor[e].number
<1>1. p \in Projects /\ editor[e].step = "writing"
  BY DEF EndSave, TypeOK, Request
<1>2. n \notin Numbers(p)
  BY <1>1, NextNumberIs DEF NumberingInv
<1>3. refused' = refused
  <2>1. refused' = (refused \/ n \in Numbers(p))
    BY DEF EndSave
  <2>2. QED
    BY <1>2, <2>1, Zenon DEF TypeOK
<1>4. editor'[e].step = "idle" /\ OtherEditors(e)
  BY DEF EndSave, OtherEditors, TypeOK, Request
<1>5. revisions' = revisions \cup {[project |-> p, number |-> n, source |-> NoJob]}
      \/ revisions' = revisions
  BY DEF EndSave, InsertRevision
<1>6. UNCHANGED <<job, worker, overran>>
  BY DEF EndSave
<1>7. QED
  BY <1>1, <1>3, <1>4, <1>5, <1>6 DEF Edits, Saves, SameNumbers

LEMMA Kinds == ASSUME TypeOK, NumberingInv, [Next]_vars PROVE KindOfStep
<1>1. ASSUME NEW j \in Jobs, CreateJob(j) \/ LeaseExpires(j) PROVE KindOfStep
  BY <1>1, CreateJobKind, LeaseExpiresKind DEF KindOfStep
<1>2. ASSUME NEW w \in Workers, RunOnce(w) \/ Crash(w) \/ Restart(w)
      PROVE  KindOfStep
  BY <1>2, RecoverKind, ClaimKind, PassKind, NumberRevisionKind, CommitKind,
     FailOrRetryKind
  DEF KindOfStep, RunOnce
<1>3. ASSUME NEW e \in Editors, Save(e) PROVE KindOfStep
  BY <1>3, BeginSaveKind, NumberSaveKind, EndSaveKind DEF KindOfStep, Save
<1>4. CASE UNCHANGED vars
  BY <1>4 DEF vars, KindOfStep, Idles, SameNumbers
<1>5. QED
  BY <1>1, <1>2, <1>3, <1>4 DEF Next

-----------------------------------------------------------------------------
(* Every kind of step preserves the invariant.                             *)

\* Nothing is inserted, and who is about to write read the latest number.
LEMMA NumbersStay ==
  ASSUME NumberingInv, SameNumbers,
         \A w \in Workers : worker'[w] = worker[w] \/ ReadsNumber(w),
         \A e \in Editors : editor'[e] = editor[e]
           \/ (editor'[e].step = "writing" =>
                 editor'[e].number = NextNumber(editor'[e].project))
  PROVE  NumberingInv'
<1>1. \A p : Numbers(p)' = Numbers(p) /\ NextNumber(p)' = NextNumber(p)
  BY DEF SameNumbers, Numbers, NextNumber
<1>2. IsFiniteSet(revisions)' /\ RevisionsAreNumberedInTurn'
  BY <1>1 DEF NumberingInv, RevisionsAreNumberedInTurn, SameNumbers
<1>3. \A w \in Workers : worker'[w].step = "writing" =>
        worker'[w].number = NextNumber(ProjectOf[worker'[w].job])
  BY DEF NumberingInv, ReadsNumber
<1>4. \A e \in Editors : editor'[e].step = "writing" =>
        editor'[e].number = NextNumber(editor'[e].project)
  BY DEF NumberingInv
<1>5. QED
  BY <1>1, <1>2, <1>3, <1>4 DEF NumberingInv

\* One revision is inserted under the project's lock: nobody else is about
\* to write to that project.
LEMMA NumbersGrow ==
  ASSUME TypeOK, NumberingInv, NEW p \in Projects, NEW source,
         revisions' = revisions \cup
           {[project |-> p, number |-> NextNumber(p), source |-> source]},
         refused' = refused,
         \A w \in Workers : worker'[w].step = "writing" =>
           /\ worker[w].step = "writing" /\ worker'[w] = worker[w]
           /\ ProjectOf[worker[w].job] # p,
         \A e \in Editors : editor'[e].step = "writing" =>
           /\ editor[e].step = "writing" /\ editor'[e] = editor[e]
           /\ editor[e].project # p
  PROVE  NumberingInv'
<1>1. /\ IsFiniteSet(revisions') /\ RevisionsAreNumberedInTurn'
      /\ \A q \in Projects : q # p => Numbers(q)' = Numbers(q)
  BY Inserted
<1>2. ASSUME NEW q \in Projects, q # p PROVE NextNumber(q)' = NextNumber(q)
  <2>1. Numbers(q)' = Numbers(q)
    BY <1>1, <1>2
  <2>2. QED
    BY <2>1 DEF NextNumber
<1>3. ASSUME NEW w \in Workers, worker'[w].step = "writing"
      PROVE  (worker[w].number = NextNumber(ProjectOf[worker[w].job]))'
  <2>1. /\ worker[w].step = "writing" /\ worker'[w] = worker[w]
        /\ ProjectOf[worker[w].job] # p
    BY <1>3
  <2>2. ProjectOf[worker[w].job] \in Projects
    BY <2>1, ProjectOfJob DEF Busy
  <2>3. QED
    BY <1>2, <2>1, <2>2 DEF NumberingInv
<1>4. ASSUME NEW e \in Editors, editor'[e].step = "writing"
      PROVE  (editor[e].number = NextNumber(editor[e].project))'
  BY <1>2, <1>4 DEF NumberingInv, TypeOK, Request
<1>5. QED
  BY <1>1, <1>3, <1>4 DEF NumberingInv

LEMMA NumberingStep ==
  ASSUME TypeOK, NumberingInv, KindOfStep PROVE NumberingInv'
<1>1. ASSUME NEW w \in Workers, Succeeds(w) PROVE NumberingInv'
  <2> DEFINE p == ProjectOf[worker[w].job]
  <2>1. /\ worker[w].step = "writing" /\ worker'[w].step # "writing"
        /\ OthersKeep(w) /\ UNCHANGED editor /\ refused' = refused
        /\ revisions' = revisions \cup
             {[project |-> p, number |-> worker[w].number, source |-> worker[w].job]}
    BY <1>1 DEF Succeeds
  <2>2. p \in Projects /\ lock[p] = w
    BY <2>1, ProjectOfJob DEF TypeOK, Busy
  <2>3. worker[w].number = NextNumber(p)
    BY <2>1 DEF NumberingInv
  <2>4. \A v \in Workers : worker'[v].step = "writing" =>
          /\ worker[v].step = "writing" /\ worker'[v] = worker[v]
          /\ ProjectOf[worker[v].job] # p
    BY <2>1, <2>2 DEF OthersKeep, TypeOK
  <2>5. \A e \in Editors : editor'[e].step = "writing" =>
          /\ editor[e].step = "writing" /\ editor'[e] = editor[e]
          /\ editor[e].project # p
    BY <2>1, <2>2, StyleAssumption DEF TypeOK
  <2> HIDE DEF p
  <2>6. QED
    BY <2>1, <2>2, <2>3, <2>4, <2>5, NumbersGrow
<1>2. ASSUME NEW e \in Editors, Saves(e) PROVE NumberingInv'
  <2> DEFINE p == editor[e].project
  <2>1. /\ editor[e].step = "writing" /\ editor'[e].step = "idle"
        /\ OtherEditors(e) /\ UNCHANGED worker /\ refused' = refused
        /\ revisions' = revisions \cup
             {[project |-> p, number |-> editor[e].number, source |-> NoJob]}
    BY <1>2 DEF Saves
  <2>2. p \in Projects /\ lock[p] = e
    BY <2>1 DEF TypeOK, Request
  <2>3. editor[e].number = NextNumber(p)
    BY <2>1 DEF NumberingInv
  <2>4. \A v \in Workers : worker'[v].step = "writing" =>
          /\ worker[v].step = "writing" /\ worker'[v] = worker[v]
          /\ ProjectOf[worker[v].job] # p
    BY <2>1, <2>2, StyleAssumption DEF TypeOK
  <2>5. \A d \in Editors : editor'[d].step = "writing" =>
          /\ editor[d].step = "writing" /\ editor'[d] = editor[d]
          /\ editor[d].project # p
    BY <2>1, <2>2 DEF OtherEditors, TypeOK
  <2> HIDE DEF p
  <2>6. QED
    BY <2>1, <2>2, <2>3, <2>4, <2>5, NumbersGrow
<1>3. CASE \/ Idles
           \/ \E i \in Jobs : Queues(i) \/ RunsOut(i)
           \/ \E e \in Editors : Edits(e)
  BY <1>3, NumbersStay DEF Idles, Queues, RunsOut, Edits, OtherEditors
<1>4. ASSUME NEW w \in Workers,
             Recovers(w) \/ Passes(w) \/ GivesUp(w) \/ \E i \in Jobs : Claims(w, i)
      PROVE  NumberingInv'
  <2>1. SameNumbers /\ OthersKeep(w) /\ ReadsNumber(w) /\ UNCHANGED editor
    BY <1>4 DEF Recovers, Passes, GivesUp, Claims, ReadsNumber, Busy
  <2>2. QED
    BY <2>1, NumbersStay DEF OthersKeep
<1>5. QED
  BY <1>1, <1>2, <1>3, <1>4 DEF KindOfStep

LEMMA AbsentStep ==
  ASSUME TypeOK, AbsentInv, KindOfStep PROVE AbsentInv'
<1> USE DEF AbsentInv
<1>1. CASE Idles
  BY <1>1 DEF Idles
<1>2. ASSUME NEW i \in Jobs, Queues(i) \/ RunsOut(i) PROVE AbsentInv'
  BY <1>2 DEF Queues, RunsOut, OtherRows
<1>3. ASSUME NEW w \in Workers, Recovers(w) \/ Passes(w) PROVE AbsentInv'
  BY <1>3 DEF Recovers, Passes, Recovered
<1>4. ASSUME NEW w \in Workers, Succeeds(w) \/ GivesUp(w) PROVE AbsentInv'
  BY <1>4 DEF Succeeds, GivesUp, OtherRows
<1>5. ASSUME NEW w \in Workers, NEW i \in Jobs, Claims(w, i) PROVE AbsentInv'
  BY <1>5 DEF Claims, OtherRows
<1>6. ASSUME NEW e \in Editors, Edits(e) \/ Saves(e) PROVE AbsentInv'
  BY <1>6 DEF Edits, Saves
<1>7. QED
  BY <1>1, <1>2, <1>3, <1>4, <1>5, <1>6 DEF KindOfStep

LEMMA SuccessesStay ==
  ASSUME OneRevisionPerSuccess, revisions' = revisions,
         \A j \in Jobs : job'[j] = job[j]
           \/ "SUCCEEDED" \notin {job[j].status, job'[j].status}
  PROVE  OneRevisionPerSuccess'
  BY DEF OneRevisionPerSuccess

LEMMA SuccessStep ==
  ASSUME TypeOK, OneRevisionPerSuccess, KindOfStep
  PROVE  OneRevisionPerSuccess'
<1>1. CASE Idles
  BY <1>1, SuccessesStay DEF Idles, SameNumbers
<1>2. ASSUME NEW i \in Jobs, Queues(i) \/ RunsOut(i) PROVE OneRevisionPerSuccess'
  BY <1>2, SuccessesStay DEF Queues, RunsOut, OtherRows, SameNumbers
<1>3. ASSUME NEW w \in Workers, Recovers(w) \/ Passes(w) \/ GivesUp(w)
      PROVE  OneRevisionPerSuccess'
  BY <1>3, SuccessesStay
  DEF Recovers, Recovered, Passes, GivesUp, OtherRows, SameNumbers
<1>4. ASSUME NEW w \in Workers, NEW i \in Jobs, Claims(w, i)
      PROVE  OneRevisionPerSuccess'
  BY <1>4, SuccessesStay DEF Claims, OtherRows, SameNumbers
<1>5. ASSUME NEW w \in Workers, Succeeds(w) PROVE OneRevisionPerSuccess'
  <2> DEFINE i == worker[w].job
  <2>1. PICK r : r = [project |-> ProjectOf[i], number |-> worker[w].number,
                      source |-> i]
    OBVIOUS
  <2>2. /\ i \in Jobs /\ OtherRows(i) /\ revisions' = revisions \cup {r}
        /\ job[i].status = "RUNNING" /\ job'[i].status = "SUCCEEDED"
        /\ r = [project |-> ProjectOf[i], number |-> job'[i].revision, source |-> i]
    BY <1>5, <2>1, ProjectOfJob DEF Succeeds, Busy
  <2>3. r.source = i
    BY <2>1
  <2>4. {s \in revisions : s.source = i} = {}
    BY <2>2 DEF OneRevisionPerSuccess
  <2>5. {s \in revisions' : s.source = i} = {r}
    BY <2>2, <2>3, <2>4
  <2>6. ASSUME NEW j \in Jobs, j # i
        PROVE  /\ {s \in revisions' : s.source = j} = {s \in revisions : s.source = j}
               /\ job'[j] = job[j]
    BY <2>2, <2>3, <2>6 DEF OtherRows
  <2> HIDE DEF i
  <2>7. QED
    BY <2>2, <2>5, <2>6 DEF OneRevisionPerSuccess
<1>6. ASSUME NEW e \in Editors, Edits(e) PROVE OneRevisionPerSuccess'
  BY <1>6, SuccessesStay DEF Edits, SameNumbers
<1>7. ASSUME NEW e \in Editors, Saves(e) PROVE OneRevisionPerSuccess'
  <2>1. PICK r : r = [project |-> editor[e].project, number |-> editor[e].number,
                      source |-> NoJob]
    OBVIOUS
  <2>2. revisions' = revisions \cup {r} /\ r.source = NoJob /\ job' = job
    BY <1>7, <2>1 DEF Saves
  <2>3. \A j \in Jobs :
          {s \in revisions' : s.source = j} = {s \in revisions : s.source = j}
    BY <2>2, StyleAssumption
  <2>4. QED
    BY <2>2, <2>3 DEF OneRevisionPerSuccess
<1>8. QED
  BY <1>1, <1>2, <1>3, <1>4, <1>5, <1>6, <1>7 DEF KindOfStep

\* Workers keep their turns or end them, and no row under a turn changes
\* unless it is decided.
LEMMA TurnsStay ==
  ASSUME TurnInv, overran' = overran \/ ~overran,
         \A v \in Workers : SameTurn(v),
         \A v \in Workers : Busy(v)' =>
           \/ job'[worker[v].job] = job[worker[v].job]
           \/ job'[worker[v].job].status \in Terminal
  PROVE  TurnInv'
<1> SUFFICES ASSUME ~overran' PROVE TurnInv'
  BY DEF TurnInv
<1>1. ~overran
  OBVIOUS
<1>2. ASSUME NEW v \in Workers, Busy(v)'
      PROVE  /\ job'[worker'[v].job].status \notin {"ABSENT", "QUEUED"}
             /\ job'[worker'[v].job].status = "RUNNING" =>
                  /\ worker'[v].attempts = job'[worker'[v].job].attempts
                  /\ ~job'[worker'[v].job].expired
  <2>1. /\ Busy(v) /\ worker'[v].job = worker[v].job
        /\ worker'[v].attempts = worker[v].attempts
    BY <1>2 DEF SameTurn
  <2>2. CASE job'[worker[v].job] = job[worker[v].job]
    BY <1>1, <2>1, <2>2 DEF TurnInv
  <2>3. CASE job'[worker[v].job].status \in Terminal
    BY <2>1, <2>3 DEF Terminal
  <2>4. QED
    BY <1>2, <2>2, <2>3
<1>3. ASSUME NEW u \in Workers, NEW v \in Workers, Busy(u)', Busy(v)',
             worker'[u].job = worker'[v].job
      PROVE  u = v
  BY <1>1, <1>3 DEF SameTurn, TurnInv
<1>4. QED
  BY <1>2, <1>3 DEF TurnInv

LEMMA TurnStep ==
  ASSUME TypeOK, TurnInv, KindOfStep, ~overran' PROVE TurnInv'
<1>1. worker' = worker => \A v \in Workers : SameTurn(v)
  BY DEF SameTurn, Busy
<1>2. ASSUME NEW w \in Workers, OthersKeep(w), SameTurn(w)
      PROVE  \A v \in Workers : SameTurn(v)
  BY <1>2 DEF OthersKeep, SameTurn, Busy
<1>3. CASE Idles \/ \E e \in Editors : Edits(e) \/ Saves(e)
  BY <1>1, <1>3, TurnsStay DEF Idles, Edits, Saves
<1>4. ASSUME NEW i \in Jobs, Queues(i) PROVE TurnInv'
  <2>1. ~overran /\ \A v \in Workers : Busy(v) => worker[v].job \in Jobs /\ worker[v].job # i
    BY <1>4 DEF Queues, TurnInv, TypeOK
  <2>2. \A v \in Workers : SameTurn(v)
    BY <1>1, <1>4 DEF Queues
  <2>3. QED
    BY <1>4, <2>1, <2>2, TurnsStay DEF Queues, OtherRows, SameTurn
<1>5. ASSUME NEW i \in Jobs, RunsOut(i) PROVE TurnInv'
  <2>1. ~overran /\ \A v \in Workers : Busy(v) => worker[v].job \in Jobs /\ worker[v].job # i
    BY <1>5 DEF RunsOut, Unattended, TypeOK
  <2>2. \A v \in Workers : SameTurn(v)
    BY <1>1, <1>5 DEF RunsOut
  <2>3. QED
    BY <1>5, <2>1, <2>2, TurnsStay DEF RunsOut, OtherRows, SameTurn
<1>6. ASSUME NEW w \in Workers, Recovers(w) PROVE TurnInv'
  <2>1. ~overran /\ \A v \in Workers : SameTurn(v)
    BY <1>2, <1>6 DEF Recovers, SameTurn
  <2>2. \A v \in Workers : Busy(v) => /\ worker[v].job \in Jobs
                                      /\ ~Recovered(worker[v].job)
    BY <2>1 DEF TurnInv, TypeOK, Recovered
  <2>3. QED
    BY <1>6, <2>1, <2>2, TurnsStay DEF Recovers, SameTurn
<1>7. ASSUME NEW w \in Workers, Passes(w) PROVE TurnInv'
  BY <1>2, <1>7, TurnsStay DEF Passes
<1>8. ASSUME NEW w \in Workers, Succeeds(w) PROVE TurnInv'
  <2>1. overran' = overran /\ \A v \in Workers : SameTurn(v)
    BY <1>2, <1>8 DEF Succeeds
  <2>2. \A v \in Workers : Busy(v)' => worker[v].job \in Jobs
    BY <2>1 DEF SameTurn, TypeOK
  <2>3. QED
    BY <1>8, <2>1, <2>2, TurnsStay DEF Succeeds, OtherRows, Terminal
<1>9. ASSUME NEW w \in Workers, GivesUp(w) PROVE TurnInv'
  <2>1. /\ overran' = overran /\ ~overran /\ Busy(w) /\ ~Busy(w)'
        /\ \A v \in Workers : SameTurn(v)
    BY <1>2, <1>9 DEF GivesUp, SameTurn
  <2>2. \A v \in Workers : Busy(v)' => /\ worker[v].job \in Jobs
                                       /\ worker[v].job # worker[w].job
    BY <2>1 DEF SameTurn, TypeOK, TurnInv
  <2>3. QED
    BY <1>9, <2>1, <2>2, TurnsStay DEF GivesUp, OtherRows
<1>10. ASSUME NEW w \in Workers, NEW i \in Jobs, Claims(w, i) PROVE TurnInv'
  <2>1. /\ overran' = overran /\ ~overran /\ OthersKeep(w) /\ OtherRows(i)
        /\ job[i].status = "QUEUED" /\ job'[i].status = "RUNNING"
        /\ job'[i].expired = FALSE
        /\ worker'[w].job = i /\ worker'[w].attempts = job'[i].attempts
    BY <1>10 DEF Claims
  <2>2. ASSUME NEW v \in Workers, v # w, Busy(v)'
        PROVE  /\ worker'[v] = worker[v] /\ Busy(v)
               /\ worker[v].job \in Jobs /\ worker[v].job # i
               /\ job'[worker[v].job] = job[worker[v].job]
    BY <2>1, <2>2 DEF OthersKeep, OtherRows, Busy, TurnInv, TypeOK
  <2>3. ASSUME NEW v \in Workers, Busy(v)'
        PROVE  /\ job'[worker'[v].job].status \notin {"ABSENT", "QUEUED"}
               /\ job'[worker'[v].job].status = "RUNNING" =>
                    /\ worker'[v].attempts = job'[worker'[v].job].attempts
                    /\ ~job'[worker'[v].job].expired
    <3>1. CASE v = w
      BY <2>1, <3>1
    <3>2. CASE v # w
      BY <2>1, <2>2, <2>3, <3>2 DEF TurnInv
    <3>3. QED
      BY <3>1, <3>2
  <2>4. ASSUME NEW u \in Workers, NEW v \in Workers, Busy(u)', Busy(v)',
               worker'[u].job = worker'[v].job
        PROVE  u = v
    BY <2>1, <2>2, <2>4 DEF TurnInv
  <2>5. QED
    BY <2>3, <2>4 DEF TurnInv
<1>11. QED
  BY <1>3, <1>4, <1>5, <1>6, <1>7, <1>8, <1>9, <1>10 DEF KindOfStep

-----------------------------------------------------------------------------
(* The theorems.                                                           *)

LEMMA StyleInit == Init => StyleInv
<1> SUFFICES ASSUME Init PROVE StyleInv
  OBVIOUS
<1>1. TypeOK
  <2>1. \A j \in Jobs : AbsentRow \in Row
    BY RowFields, CountRange DEF AbsentRow, Statuses
  <2>2. \A w \in Workers : At("idle") \in Process /\ At("idle").step = "idle"
    BY RowFields, CountRange DEF At, Steps
  <2>3. editor \in [Editors -> Request]
        /\ \A e \in Editors : editor[e].step = "idle"
    BY DEF Init, Request
  <2>4. QED
    BY <2>1, <2>2, <2>3 DEF Init, TypeOK, Busy
<1>2. NumberingInv
  <2>1. \A p \in Projects : {r \in revisions : r.project = p} = {} /\ Numbers(p) = {}
    BY DEF Init, Numbers
  <2>2. 1 .. Cardinality({}) = {} /\ IsFiniteSet({})
    BY FS_EmptySet
  <2>3. RevisionsAreNumberedInTurn
    BY <2>1, <2>2 DEF Init, RevisionsAreNumberedInTurn
  <2>4. QED
    BY <2>2, <2>3 DEF Init, NumberingInv, At
<1>3. OneRevisionPerSuccess /\ AbsentInv
  BY DEF Init, OneRevisionPerSuccess, AbsentInv, AbsentRow
<1>4. TurnInv
  BY DEF Init, TurnInv, Busy, At
<1>5. QED
  BY <1>1, <1>2, <1>3, <1>4 DEF StyleInv

\* The inductive invariant of the queue and of the revisions: what the row
\* lock on Project, the RUNNING conditions and the lease keep together.
THEOREM StyleInvariant == Spec => []StyleInv
<1>1. ASSUME StyleInv, [Next]_vars PROVE StyleInv'
  <2>1. TypeOK /\ NumberingInv /\ OneRevisionPerSuccess /\ AbsentInv /\ TurnInv
    BY <1>1 DEF StyleInv
  <2>2. TypeOK' /\ KindOfStep
    BY <1>1, <2>1, TypeStep, Kinds
  <2>3. overran' => TurnInv'
    BY DEF TurnInv
  <2>4. QED
    BY <2>1, <2>2, <2>3, NumberingStep, SuccessStep, AbsentStep, TurnStep
    DEF StyleInv
<1>2. QED
  BY <1>1, StyleInit, PTL DEF Spec

\* The revisions of a project are numbered 1, 2, 3, ... without a gap, and
\* the unique index never refuses one: completeJob(), saveUserRevision() and
\* GenerationService.createJob() number under the project's row lock.
THEOREM NumbersHaveNoGap == Spec => []RevisionsAreNumberedInTurn
<1>1. StyleInv => RevisionsAreNumberedInTurn
  BY DEF StyleInv, NumberingInv
<1>2. QED
  BY <1>1, StyleInvariant, PTL

\* Whatever workers are given a job, it wrote exactly the revision its row
\* names if it succeeded and none otherwise: completeJob().
THEOREM OneRevisionForASuccess == Spec => []OneRevisionPerSuccess
<1>1. StyleInv => OneRevisionPerSuccess
  BY DEF StyleInv
<1>2. QED
  BY <1>1, StyleInvariant, PTL

\* No step touches a row that is decided, a late worker's least of all.
THEOREM DecidedRowsStay == Spec => DecidedRowsAreFinal
<1>1. ASSUME StyleInv, [Next]_vars
      PROVE  [\A j \in Jobs : job[j].status \in Terminal => job'[j] = job[j]]_vars
  <2>1. KindOfStep
    BY <1>1, Kinds DEF StyleInv
  <2>2. \A j \in Jobs : job[j].status \in Terminal => job'[j] = job[j]
    BY <2>1
    DEF KindOfStep, Terminal, Idles, Queues, RunsOut, Recovers, Recovered, Passes,
        Succeeds, GivesUp, Claims, Edits, Saves, OtherRows
  <2>3. QED
    BY <2>2
<1>2. QED
  BY <1>1, StyleInvariant, PTL DEF Spec, DecidedRowsAreFinal

\* What one step does to one row is a step of the abstract lifecycle, unless
\* a worker has outlasted its lease.
LEMMA LifecycleRow ==
  ASSUME StyleInv, KindOfStep, ~overran', NEW j \in Jobs
  PROVE  \/ Lifecycle!Unchanged(j) \/ Lifecycle!Enqueue(j) \/ Lifecycle!Start(j)
         \/ Lifecycle!Requeue(j) \/ Lifecycle!Decide(j)
<1> USE DEF Lifecycle!Unchanged, Lifecycle!Enqueue, Lifecycle!Start,
            Lifecycle!Requeue, Lifecycle!Decide, Lifecycle!Moves, Lifecycle!Keeps,
            Lifecycle!Terminal
<1>1. job'[j] = job[j] => Lifecycle!Unchanged(j)
  OBVIOUS
<1>2. CASE Idles \/ \E e \in Editors : Edits(e) \/ Saves(e)
  BY <1>1, <1>2 DEF Idles, Edits, Saves
<1>3. ASSUME NEW i \in Jobs, Queues(i) \/ RunsOut(i)
      PROVE  Lifecycle!Unchanged(j) \/ Lifecycle!Enqueue(j)
  BY <1>1, <1>3 DEF Queues, RunsOut, OtherRows, StyleInv, AbsentInv
<1>4. ASSUME NEW w \in Workers, Recovers(w) \/ Passes(w)
      PROVE  Lifecycle!Unchanged(j) \/ Lifecycle!Requeue(j) \/ Lifecycle!Decide(j)
  BY <1>1, <1>4 DEF Recovers, Recovered, Passes
<1>5. ASSUME NEW w \in Workers, Succeeds(w)
      PROVE  Lifecycle!Unchanged(j) \/ Lifecycle!Decide(j)
  BY <1>1, <1>5 DEF Succeeds, OtherRows
<1>6. ASSUME NEW w \in Workers, GivesUp(w)
      PROVE  Lifecycle!Unchanged(j) \/ Lifecycle!Requeue(j) \/ Lifecycle!Decide(j)
  <2>1. worker[w].attempts = job[worker[w].job].attempts
    BY <1>6 DEF GivesUp, StyleInv, TurnInv
  <2>2. QED
    BY <1>1, <1>6, <2>1 DEF GivesUp, OtherRows
<1>7. ASSUME NEW w \in Workers, NEW i \in Jobs, Claims(w, i)
      PROVE  Lifecycle!Unchanged(j) \/ Lifecycle!Start(j)
  BY <1>1, <1>7 DEF Claims, OtherRows
<1>8. QED
  BY <1>2, <1>3, <1>4, <1>5, <1>6, <1>7 DEF KindOfStep

\* The style jobs implement JobLifecycle until a turn outlasts its lease: the
\* worker that gives up then is the one the row's attempt count belongs to.
THEOREM StyleLifecycleImplemented == Spec => ImplementsLifecycle
<1>1. Init => Lifecycle!Init
  BY DEF Init, AbsentRow, Lifecycle!Init
<1>2. ASSUME StyleInv, [Next]_vars PROVE [~overran' => Lifecycle!Next]_vars
  <2>1. KindOfStep
    BY <1>2, Kinds DEF StyleInv
  <2>2. ~overran' => Lifecycle!Next
    BY <1>2, <2>1, LifecycleRow DEF Lifecycle!Next
  <2>3. QED
    BY <2>2
<1>3. QED
  BY <1>1, <1>2, StyleInvariant, PTL DEF Spec, ImplementsLifecycle
=============================================================================
