------------------------- MODULE BenchmarkRunsProofs -------------------------
(***************************************************************************)
(* Theorems about BenchmarkRuns for every number of keys, experiments,     *)
(* workers, attempts and faults.                                           *)
(*                                                                         *)
(* The actions are first sorted into a few kinds of step, described by the *)
(* fields of the rows and of the workers the invariant speaks of; then     *)
(* each kind is shown to preserve the invariant.                           *)
(***************************************************************************)
EXTENDS BenchmarkInvariants, FiniteSetTheorems, TLAPS

-----------------------------------------------------------------------------
(* Type correctness.                                                       *)

Steps == {"down", "idle", "claiming"} \cup BusySteps

LEMMA CountRange ==
  /\ MaxAttempts \in Nat /\ 0 < MaxAttempts
  /\ 0 \in Counts /\ Counts \subseteq Nat
  /\ \A n \in Counts : n < MaxAttempts => n + 1 \in Counts /\ n + 1 # 0
  BY BenchmarkAssumption DEF Counts

\* The recovery queries map rows to rows.
LEMMA RecoveredType == ASSUME NEW r \in Row PROVE Recovered(r) \in Row
  BY CountRange DEF Recovered, Expired, Row, Active, Terminal, NeverSubmitted

\* Every answer of a provider yields a failure, and one that may be retried
\* says that nothing was submitted.
LEMMA FailureType ==
  ASSUME NEW a \in Answers
  PROVE  /\ NormalizeFailure(a) \in Failure
         /\ NormalizeFailure(a).retryable =>
              NormalizeFailure(a).state = "NOT_STARTED"
  BY DEF NormalizeFailure, Answers, Failure, Failed

\* What the plain prompt adapter answers is well typed, and it keeps to the
\* port's contract: only an error that may hide an acceptance is ambiguous.
LEMMA PlainAnswersHonest == PlainAnswers \subseteq Answers /\ Honest(PlainAnswers)
<1>1. Accepted \in Answers /\ Accepted.result = "OK"
  BY DEF Accepted, Answers, Dispositions
<1>2. ASSUME NEW acc \in BOOLEAN, NEW retry \in BOOLEAN, NEW id \in BOOLEAN,
             NEW d \in Dispositions
      PROVE  /\ AdapterError(acc, retry, id, d) \in Answers
             /\ AdapterError(acc, retry, id, d).accepted = acc
             /\ AdapterError(acc, retry, id, d).disposition = d
  BY DEF AdapterError, Answers
<1> DEFINE Hides(a) == a.disposition = "MAY_HAVE_BEEN_ACCEPTED"
<1>3. ASSUME NEW a \in PlainPostErrors
      PROVE  a \in Answers /\ (Hides(a) \/ a.accepted = FALSE)
  <2>1. PICK acc \in BOOLEAN, retry \in BOOLEAN, id \in BOOLEAN, d \in Dispositions :
          /\ a = AdapterError(acc, retry, id, d)
          /\ acc = FALSE \/ d = "MAY_HAVE_BEEN_ACCEPTED"
    BY DEF PlainPostErrors, InvalidResponse, TimedOut, DefaultDisposition,
       Dispositions
  <2>2. QED
    BY <1>2, <2>1
<1>4. ASSUME NEW a \in PlainDownloadErrors
      PROVE  a \in Answers /\ Hides(a)
  <2>1. PICK acc \in BOOLEAN, retry \in BOOLEAN, id \in BOOLEAN, d \in Dispositions :
          /\ a = AdapterError(acc, retry, id, d)
          /\ d = "MAY_HAVE_BEEN_ACCEPTED"
    BY DEF PlainDownloadErrors, InvalidResponse, TimedOut, DefaultDisposition,
       Dispositions
  <2>2. QED
    BY <1>2, <2>1
<1>5. QED
  BY <1>1, <1>3, <1>4 DEF PlainAnswers, Honest

\* Constant rows, processes and failures have their types.
LEMMA ConstantTypes ==
  /\ AbsentRow \in Row /\ [AbsentRow EXCEPT !.status = "QUEUED"] \in Row
  /\ Unsent \in Failure
  /\ \A id \in BOOLEAN : /\ Failed("AMBIGUOUS", id) \in Failure
                         /\ Failed("SUBMITTED", id) \in Failure
  /\ \A step \in Steps : At(step) \in Process
  BY CountRange DEF AbsentRow, Row, Active, Terminal, At, Process, Unsent,
     Failed, Failure, Steps

LEMMA KeyOfJob == \A j \in Jobs : j[1] \in Keys
  BY DEF Jobs

LEMMA ProcessSteps == Process = [step : Steps, job : Jobs \cup {NoJob},
                                 token : Counts, failure : Failure]
  BY DEF Process, Steps

WorkersTypeOK == /\ worker \in [Workers -> Process]
                 /\ \A w \in Workers : Busy(w) => worker[w].job \in Jobs

LEMMA TypeInit == Init => TypeOK
<1> SUFFICES ASSUME Init PROVE TypeOK
  OBVIOUS
<1>1. job \in [Jobs -> Row] /\ WorkersTypeOK
  BY ConstantTypes DEF Init, WorkersTypeOK, Busy, BusySteps, At, Steps
<1>2. run \in [Keys -> Run]
  BY DEF Init, Run
<1>3. QED
  BY <1>1, <1>2, CountRange DEF Init, TypeOK, WorkersTypeOK

\* A worker that only moves on stays well typed.
LEMMA GotoType ==
  ASSUME TypeOK, NEW w \in Workers, NEW step \in Steps, Goto(w, step),
         step \in BusySteps => Busy(w)
  PROVE  WorkersTypeOK'
  BY ProcessSteps DEF TypeOK, WorkersTypeOK, Goto, Busy

\* A worker that turns to its failure handling stays well typed.
LEMMA FailType ==
  ASSUME TypeOK, NEW w \in Workers, NEW f \in Failure, Fail(w, f), Busy(w)
  PROVE  WorkersTypeOK'
  BY ProcessSteps DEF TypeOK, WorkersTypeOK, Fail, Busy, Steps, BusySteps

\* A worker without a job is well typed.
LEMMA AtType ==
  ASSUME TypeOK, NEW w \in Workers, NEW step \in Steps \ BusySteps,
         worker' = [worker EXCEPT ![w] = At(step)]
  PROVE  WorkersTypeOK'
<1>1. At(step) \in Process /\ At(step).step \notin BusySteps
  BY ConstantTypes DEF At
<1>2. QED
  BY <1>1 DEF TypeOK, WorkersTypeOK, Busy

\* The row of a busy worker is a row, and may be replaced by any other.
LEMMA RowType ==
  ASSUME TypeOK, NEW w \in Workers, Busy(w)
  PROVE  /\ worker[w].job \in Jobs /\ worker[w].token \in Counts
         /\ worker[w].failure \in Failure
         /\ RowOf(w) \in Row
         /\ \A r \in Row : SetRow(w, r) => job' \in [Jobs -> Row]
  BY DEF TypeOK, RowOf, SetRow, Process

LEMMA FaultType == TypeOK /\ (Fault \/ NoFault) => faults' \in Nat
  BY DEF TypeOK, Fault, NoFault

\* The service numbers runs by the rows there are.
LEMMA CreateRunType ==
  ASSUME TypeOK, NEW k \in Keys, NEW e \in Experiments, CreateRun(k, e)
  PROVE  TypeOK'
<1>1. Cardinality({l \in Keys : Created(l)}) \in Nat
  BY BenchmarkAssumption, FS_Subset, FS_CardinalityType
<1>2. run' \in [Keys -> Run]
  BY <1>1 DEF CreateRun, TypeOK, Run
<1>3. job' \in [Jobs -> Row]
  BY ConstantTypes DEF CreateRun, TypeOK
<1>4. QED
  BY <1>2, <1>3 DEF CreateRun, TypeOK, Busy

\* Every action of the program and of its environment keeps the types.
LEMMA TypeStep == TypeOK /\ [Next]_vars => TypeOK'
<1> SUFFICES ASSUME TypeOK, [Next]_vars PROVE TypeOK'
  OBVIOUS
<1> USE ConstantTypes DEF WorkersTypeOK
<1>1. ASSUME NEW j \in Jobs, LeaseExpires(j) PROVE TypeOK'
  <2>1. job' \in [Jobs -> Row]
    BY <1>1 DEF LeaseExpires, TypeOK, Row
  <2>2. QED
    BY <1>1, <2>1 DEF LeaseExpires, TypeOK, Busy
<1>2. ASSUME NEW w \in Workers, RecoverExpiredJobs(w) PROVE TypeOK'
  <2>1. WorkersTypeOK'
    BY <1>2, GotoType DEF RecoverExpiredJobs, Steps, BusySteps
  <2>2. job' \in [Jobs -> Row]
    BY <1>2, RecoveredType DEF RecoverExpiredJobs, TypeOK
  <2>3. QED
    BY <1>2, <2>1, <2>2 DEF RecoverExpiredJobs, TypeOK
<1>3. ASSUME NEW w \in Workers, ClaimNextJob(w) PROVE TypeOK'
  <2>1. PICK j \in Claimable :
          /\ job' = [job EXCEPT ![j].status = "RUNNING",
                                ![j].attempts = @ + 1,
                                ![j].token = job[j].attempts + 1,
                                ![j].expired = FALSE]
          /\ worker' = [worker EXCEPT ![w] = [At("preparing") EXCEPT
                                                !.job = j,
                                                !.token = job[j].attempts + 1]]
    BY <1>3 DEF ClaimNextJob
  <2>2. j \in Jobs /\ job[j] \in Row /\ job[j].attempts + 1 \in Counts
    BY <2>1, CountRange DEF Claimable, TypeOK, Row
  <2>3. job' \in [Jobs -> Row]
    BY <2>1, <2>2 DEF TypeOK, Row, Active
  <2>4. [At("preparing") EXCEPT !.job = j, !.token = job[j].attempts + 1]
          \in Process
    BY <2>2 DEF At, Process, Steps, BusySteps
  <2>5. WorkersTypeOK'
    BY <2>1, <2>2, <2>4 DEF TypeOK, At, Busy
  <2>6. QED
    BY <1>3, <2>3, <2>5 DEF ClaimNextJob, TypeOK
<1>4. ASSUME NEW w \in Workers, NothingToClaim(w) \/ Restart(w) PROVE TypeOK'
  <2>1. WorkersTypeOK'
    BY <1>4, GotoType DEF NothingToClaim, Restart, Steps, BusySteps
  <2>2. QED
    BY <1>4, <2>1 DEF NothingToClaim, Restart, TypeOK
<1>5. ASSUME NEW w \in Workers, PreparationFails(w) PROVE TypeOK'
  <2>1. WorkersTypeOK'
    BY <1>5, FailType DEF PreparationFails, Busy, BusySteps
  <2>2. QED
    BY <1>5, <2>1 DEF PreparationFails, TypeOK
<1>6. ASSUME NEW w \in Workers, MarkSubmitting(w) PROVE TypeOK'
  <2> DEFINE marked == [RowOf(w) EXCEPT !.submission = "SUBMITTING",
                                        !.invoked = TRUE, !.expired = FALSE]
  <2>1. Busy(w) /\ worker[w].step = "preparing"
    BY <1>6 DEF MarkSubmitting, Busy, BusySteps
  <2>2. marked \in Row
    BY <2>1, RowType DEF Row
  <2>3. job' \in [Jobs -> Row]
    BY <1>6, <2>1, <2>2, RowType DEF MarkSubmitting, TypeOK
  <2>4. Goto(w, "calling") \/ Fail(w, Unsent)
    BY <1>6 DEF MarkSubmitting
  <2>5. WorkersTypeOK'
    BY <2>1, <2>4, GotoType, FailType DEF Steps, BusySteps
  <2>6. faults' \in Nat
    BY <1>6, FaultType DEF MarkSubmitting
  <2>7. QED
    BY <1>6, <2>3, <2>5, <2>6 DEF MarkSubmitting, TypeOK
<1>7. ASSUME NEW w \in Workers, CallProvider(w) PROVE TypeOK'
  <2>1. Busy(w)
    BY <1>7 DEF CallProvider, Busy, BusySteps
  <2>2. PICK a \in Answers :
          /\ accepted' = [accepted EXCEPT ![worker[w].job] =
                            IF a.accepted THEN @ + 1 ELSE @]
          /\ Goto(w, "called") \/ Fail(w, NormalizeFailure(a))
    BY <1>7, PlainAnswersHonest, BenchmarkAssumption DEF CallProvider
  <2>3. WorkersTypeOK'
    BY <2>1, <2>2, GotoType, FailType, FailureType DEF Steps, BusySteps
  <2>4. accepted' \in [Jobs -> Nat]
    BY <2>1, <2>2, RowType DEF TypeOK
  <2>5. QED
    BY <1>7, <2>3, <2>4 DEF CallProvider, TypeOK
<1>8. ASSUME NEW w \in Workers, MarkSubmitted(w) PROVE TypeOK'
  <2> DEFINE marked == [RowOf(w) EXCEPT !.submission = "SUBMITTED",
                                        !.requestId = TRUE, !.expired = FALSE]
  <2>1. Busy(w) /\ worker[w].step = "called"
    BY <1>8 DEF MarkSubmitted, Busy, BusySteps
  <2>2. marked \in Row
    BY <2>1, RowType DEF Row
  <2>3. job' \in [Jobs -> Row]
    BY <1>8, <2>1, <2>2, RowType DEF MarkSubmitted, TypeOK
  <2>4. Goto(w, "storing") \/ Fail(w, Failed("AMBIGUOUS", TRUE))
    BY <1>8 DEF MarkSubmitted
  <2>5. WorkersTypeOK'
    BY <2>1, <2>4, GotoType, FailType DEF Steps, BusySteps
  <2>6. faults' \in Nat
    BY <1>8, FaultType DEF MarkSubmitted
  <2>7. QED
    BY <1>8, <2>3, <2>5, <2>6 DEF MarkSubmitted, TypeOK
<1>9. ASSUME NEW w \in Workers, PutObject(w) \/ CompensateResult(w)
      PROVE  TypeOK'
  <2>1. Busy(w)
    BY <1>9 DEF PutObject, CompensateResult, Busy, BusySteps
  <2>2. \/ Goto(w, "reading")
        \/ \E state \in {"AMBIGUOUS", "SUBMITTED"} : Fail(w, Failed(state, TRUE))
    BY <1>9 DEF PutObject, CompensateResult
  <2>3. WorkersTypeOK'
    BY <2>1, <2>2, GotoType, FailType DEF Steps, BusySteps
  <2>4. ObjectKey(w) \in Jobs \X Counts
    BY <2>1, RowType DEF ObjectKey
  <2>5. objects' \subseteq Jobs \X Counts
    BY <1>9, <2>4 DEF PutObject, CompensateResult, TypeOK
  <2>6. faults' \in Nat
    BY <1>9, FaultType DEF PutObject, CompensateResult
  <2>7. QED
    BY <1>9, <2>3, <2>5, <2>6 DEF PutObject, CompensateResult, TypeOK
<1>10. ASSUME NEW w \in Workers, ReadActiveJob(w) PROVE TypeOK'
  <2>1. WorkersTypeOK'
    BY <1>10, GotoType DEF ReadActiveJob, Steps, BusySteps, Busy
  <2>2. QED
    BY <1>10, <2>1 DEF ReadActiveJob, TypeOK
<1>11. ASSUME NEW w \in Workers, CommitResult(w) PROVE TypeOK'
  <2>1. Busy(w)
    BY <1>11 DEF CommitResult, Busy, BusySteps
  <2>2. Finish(w) \/ Goto(w, "compensating")
    BY <1>11 DEF CommitResult
  <2>3. WorkersTypeOK'
    BY <2>1, <2>2, GotoType, AtType DEF Finish, Steps, BusySteps
  <2>4. [RowOf(w) EXCEPT !.status = "SUCCEEDED", !.token = 0,
                         !.submission = "COMPLETED", !.expired = FALSE] \in Row
    BY <2>1, RowType, CountRange DEF Row, Terminal
  <2>5. job' \in [Jobs -> Row]
    BY <1>11, <2>1, <2>4, RowType DEF CommitResult, Committed, TypeOK
  <2>6. result' \in [Jobs -> Counts] /\ ackLost' \subseteq Jobs
    BY <1>11, <2>1, RowType DEF CommitResult, Committed, TypeOK
  <2>7. faults' \in Nat
    BY <1>11, FaultType DEF CommitResult
  <2>8. QED
    BY <1>11, <2>3, <2>5, <2>6, <2>7 DEF CommitResult, TypeOK
<1>12. ASSUME NEW w \in Workers, FailOrRetry(w) PROVE TypeOK'
  <2>1. Busy(w)
    BY <1>12 DEF FailOrRetry, Busy, BusySteps
  <2>2. WorkersTypeOK'
    BY <1>12, AtType DEF FailOrRetry, Finish, Steps, BusySteps
  <2> DEFINE f == worker[w].failure
             to == IF Retries(w) THEN "QUEUED" ELSE "FAILED"
  <2>3. to \in Active \cup Terminal /\ f \in Failure /\ RowOf(w) \in Row
    BY <2>1, RowType DEF Active, Terminal
  <2> DEFINE left == [RowOf(w) EXCEPT !.status = to, !.submission = f.state,
                                      !.requestId = f.requestId,
                                      !.token = 0, !.expired = FALSE]
  <2>4. Held(w) => SetRow(w, left)
    BY <1>12 DEF FailOrRetry
  <2> HIDE DEF to
  <2>5. left \in Row
    BY <2>3, CountRange DEF Row, Failure
  <2> HIDE DEF left
  <2>6. job' \in [Jobs -> Row]
    BY <1>12, <2>1, <2>4, <2>5, RowType DEF FailOrRetry, TypeOK
  <2>7. QED
    BY <1>12, <2>2, <2>6 DEF FailOrRetry, TypeOK
<1>13. ASSUME NEW w \in Workers, Heartbeat(w) PROVE TypeOK'
  <2>1. [RowOf(w) EXCEPT !.expired = FALSE] \in Row /\ Busy(w)
    BY <1>13, RowType DEF Heartbeat, Row
  <2>2. job' \in [Jobs -> Row]
    BY <1>13, <2>1, RowType DEF Heartbeat
  <2>3. QED
    BY <1>13, <2>2 DEF Heartbeat, TypeOK, Busy
<1>14. ASSUME NEW w \in Workers, Crash(w) PROVE TypeOK'
  <2>1. WorkersTypeOK' /\ faults' \in Nat
    BY <1>14, AtType, FaultType DEF Crash, Steps, BusySteps
  <2>2. QED
    BY <1>14, <2>1 DEF Crash, TypeOK
<1>15. CASE UNCHANGED vars
  BY <1>15 DEF vars, TypeOK, Busy
<1>16. QED
  BY <1>1, <1>2, <1>3, <1>4, <1>5, <1>6, <1>7, <1>8, <1>9, <1>10, <1>11, <1>12,
     <1>13, <1>14, <1>15, CreateRunType DEF Next, RunOnce

-----------------------------------------------------------------------------
(* Kinds of step.                                                          *)

SameRow(j) == /\ job'[j].status     = job[j].status
              /\ job'[j].token      = job[j].token
              /\ job'[j].attempts   = job[j].attempts
              /\ job'[j].submission = job[j].submission

SameRows        == \A j \in Jobs : SameRow(j)
OtherRows(j)    == \A k \in Jobs : k # j => SameRow(k)
OtherWorkers(w) == \A v \in Workers : v # w => worker'[v] = worker[v]
SameTurn(w)     == /\ worker'[w].job = worker[w].job
                   /\ worker'[w].token = worker[w].token

\* No bill is written; the runs and the results are those of before.
NoBill   == accepted' = accepted
SameRuns == run' = run

\* The failure a worker keeps may be retried only before the submission.
Honours(w) == \/ worker'[w].failure = worker[w].failure
              \/ worker'[w].failure.retryable =>
                   worker'[w].failure.state = "NOT_STARTED"

\* The worker ends its turn, or goes on to a step the invariant leaves free.
Leaves(w) ==
  \/ ~Busy(w)'
  \/ /\ Busy(w) /\ Busy(w)' /\ SameTurn(w)
     /\ \/ worker'[w].step \notin {"preparing", "calling", "failing"}
        \/ /\ worker'[w].step = "failing"
           /\ worker'[w].failure.state # "NOT_STARTED"

\* No row and no bill changes; the worker may also stay where it is or give
\* up before the provider took anything on.
Passes(w) ==
  /\ SameRuns /\ SameRows /\ NoBill /\ OtherWorkers(w) /\ Honours(w)
  /\ \/ Leaves(w)
     \/ /\ Busy(w) /\ Busy(w)' /\ SameTurn(w)
        /\ \/ /\ worker'[w].step = worker[w].step
              /\ worker'[w].failure = worker[w].failure
           \/ /\ worker[w].step \in {"preparing", "calling"}
              /\ worker'[w].step = "failing"

\* A worker that holds its row changes it and nothing else.
ChangesItsRow(w) ==
  /\ Busy(w) /\ Held(w) /\ SameRuns
  /\ OtherRows(worker[w].job) /\ NoBill /\ OtherWorkers(w) /\ Honours(w)

\* It marks the row before the call ...
Marks(w) ==
  /\ ChangesItsRow(w)
  /\ worker[w].step = "preparing" /\ SameTurn(w)
  /\ worker'[w].step \in {"calling", "failing"}
  /\ LET r == RowOf(w) IN
       /\ job'[worker[w].job].status = r.status
       /\ job'[worker[w].job].token = r.token
       /\ job'[worker[w].job].attempts = r.attempts
       /\ job'[worker[w].job].submission = "SUBMITTING"

\* ... or after it ...
MarksAnswer(w) ==
  /\ ChangesItsRow(w) /\ Leaves(w)
  /\ LET r == RowOf(w) IN
       /\ job'[worker[w].job].status = r.status
       /\ job'[worker[w].job].token = r.token
       /\ job'[worker[w].job].attempts = r.attempts
       /\ job'[worker[w].job].submission = "SUBMITTED"

\* ... or completes the job ...
Completes(w) ==
  /\ ChangesItsRow(w) /\ Leaves(w)
  /\ job'[worker[w].job].status = "SUCCEEDED"
  /\ job'[worker[w].job].token = 0
  /\ job'[worker[w].job].attempts = RowOf(w).attempts

\* ... or fails it, or gives it back if nothing was submitted.
GivesUp(w) ==
  /\ ChangesItsRow(w) /\ Leaves(w)
  /\ worker[w].step = "failing"
  /\ job'[worker[w].job].token = 0
  /\ job'[worker[w].job].attempts = RowOf(w).attempts
  /\ \/ /\ job'[worker[w].job].status = "FAILED"
        /\ job'[worker[w].job].submission # "NOT_STARTED"
     \/ /\ worker[w].failure.state = "NOT_STARTED"
        /\ job'[worker[w].job].submission = "NOT_STARTED"
        /\ \/ job'[worker[w].job].status = "FAILED"
           \/ /\ job'[worker[w].job].status = "QUEUED"
              /\ worker[w].token < MaxAttempts

\* The provider takes a request on.
Bills(w) ==
  /\ SameRuns /\ SameRows /\ OtherWorkers(w) /\ Leaves(w) /\ Honours(w)
  /\ worker[w].step = "calling" /\ worker'[w].step # "calling"
  /\ accepted' = [accepted EXCEPT ![worker[w].job] = @ + 1]

\* A worker takes a job under a new token.
Claims(w) ==
  \E j \in Jobs :
    /\ OtherRows(j) /\ OtherWorkers(w) /\ NoBill /\ SameRuns /\ Honours(w)
    /\ job[j].status = "QUEUED" /\ job[j].attempts < MaxAttempts
    /\ job'[j].status = "RUNNING"
    /\ job'[j].attempts = job[j].attempts + 1
    /\ job'[j].token = job[j].attempts + 1
    /\ job'[j].submission = job[j].submission
    /\ worker'[w].step = "preparing"
    /\ worker'[w].job = j
    /\ worker'[w].token = job[j].attempts + 1

\* The recovery ends leases; the worker that runs it has no job.
RowRecovered(j) ==
  /\ job[j].status = "RUNNING"
  /\ job'[j].token = 0
  /\ job'[j].attempts = job[j].attempts
  /\ \/ /\ job'[j].status = "FAILED"
        /\ job'[j].submission = "NOT_STARTED" => job[j].submission = "NOT_STARTED"
     \/ /\ job'[j].status = "QUEUED" /\ job[j].attempts < MaxAttempts
        /\ job[j].submission = "NOT_STARTED"
        /\ job'[j].submission = "NOT_STARTED"

Recovers(w) ==
  /\ \A j \in Jobs : SameRow(j) \/ RowRecovered(j)
  /\ NoBill /\ SameRuns /\ OtherWorkers(w) /\ ~Busy(w)' /\ Honours(w)

\* The service creates a run with its two jobs.
RowQueued(j) ==
  /\ job[j].status = "ABSENT"
  /\ job'[j].status = "QUEUED"
  /\ job'[j].token = 0 /\ job'[j].attempts = 0
  /\ job'[j].submission = "NOT_STARTED"

Queues(k) ==
  /\ NoBill /\ worker' = worker
  /\ ~Created(k) /\ Created(k)'
  /\ \A l \in Keys : l # k => run'[l] = run[l]
  /\ \A j \in Jobs : IF j[1] = k THEN RowQueued(j) ELSE SameRow(j)

Idles == SameRuns /\ SameRows /\ NoBill /\ worker' = worker

KindOfStep ==
  \/ Idles
  \/ \E k \in Keys : Queues(k)
  \/ \E w \in Workers : \/ Passes(w) \/ Marks(w) \/ MarksAnswer(w)
                        \/ Completes(w) \/ GivesUp(w) \/ Bills(w)
                        \/ Claims(w) \/ Recovers(w)

\* The call of a provider that need not be honest: whatever is billed, the
\* rows stay.
Calls(w) == /\ SameRuns /\ SameRows /\ OtherWorkers(w) /\ Honours(w)
            /\ Busy(w) /\ SameTurn(w)

AnyStep == KindOfStep \/ \E w \in Workers : Calls(w)

-----------------------------------------------------------------------------
(* Every step is of one of these kinds.                                    *)

LEMMA GotoEffect ==
  ASSUME TypeOK, NEW w \in Workers, NEW step, Goto(w, step)
  PROVE  /\ OtherWorkers(w) /\ SameTurn(w) /\ Honours(w)
         /\ worker'[w].step = step
         /\ worker'[w].failure = worker[w].failure
  BY DEF TypeOK, Process, Goto, OtherWorkers, SameTurn, Honours

LEMMA FailEffect ==
  ASSUME TypeOK, NEW w \in Workers, NEW f, Fail(w, f)
  PROVE  /\ OtherWorkers(w) /\ SameTurn(w)
         /\ worker'[w].step = "failing"
         /\ worker'[w].failure = f
         /\ (f.retryable => f.state = "NOT_STARTED") => Honours(w)
  BY DEF TypeOK, Process, Fail, OtherWorkers, SameTurn, Honours

LEMMA AtEffect ==
  ASSUME TypeOK, NEW w \in Workers, NEW step \in Steps \ BusySteps,
         worker' = [worker EXCEPT ![w] = At(step)]
  PROVE  OtherWorkers(w) /\ ~Busy(w)' /\ worker'[w].step = step /\ Honours(w)
  BY DEF TypeOK, At, OtherWorkers, Busy, Honours, Unsent, Failed

LEMMA SetRowEffect ==
  ASSUME TypeOK, NEW w \in Workers, Busy(w), NEW r, SetRow(w, r)
  PROVE  job'[worker[w].job] = r /\ OtherRows(worker[w].job)
  BY RowType DEF TypeOK, SetRow, OtherRows, SameRow

LEMMA UnsentIsFinal == ~Unsent.retryable
  BY DEF Unsent, Failed

\* A failure after the submission leaves the invariant free.
LEMMA SubmittedFails ==
  ASSUME TypeOK, NEW w \in Workers, Busy(w),
         NEW state \in {"SUBMITTED", "AMBIGUOUS"}, Fail(w, Failed(state, TRUE))
  PROVE  /\ OtherWorkers(w) /\ SameTurn(w) /\ Honours(w) /\ Leaves(w)
         /\ worker'[w].step = "failing"
<1>1. PICK f : f = Failed(state, TRUE)
  OBVIOUS
<1>2. f.retryable = FALSE /\ f.state # "NOT_STARTED"
  BY <1>1 DEF Failed
<1>3. Fail(w, f)
  BY <1>1
<1>4. /\ worker'[w].step = "failing" /\ worker'[w].failure = f
      /\ OtherWorkers(w) /\ SameTurn(w) /\ Honours(w)
  BY <1>2, <1>3, FailEffect
<1>5. QED
  BY <1>2, <1>4 DEF Leaves, Busy, BusySteps

LEMMA CreateRunKind ==
  ASSUME TypeOK, RowInv, NEW k \in Keys, NEW e \in Experiments, CreateRun(k, e)
  PROVE  Queues(k)
<1>1. /\ NoBill /\ worker' = worker /\ ~Created(k)
      /\ \A l \in Keys : l # k => run'[l] = run[l]
  BY DEF CreateRun, TypeOK, NoBill
<1>2. Created(k)'
  BY BenchmarkAssumption DEF CreateRun, TypeOK, Created
<1>3. ASSUME NEW j \in Jobs PROVE IF j[1] = k THEN RowQueued(j) ELSE SameRow(j)
  BY <1>1 DEF CreateRun, AbsentRow, RowQueued, SameRow, RowInv
<1>4. QED
  BY <1>1, <1>2, <1>3 DEF Queues

LEMMA LeaseExpiresKind ==
  ASSUME TypeOK, NEW j \in Jobs, LeaseExpires(j) PROVE Idles
  BY DEF TypeOK, Row, LeaseExpires, Idles, SameRows, SameRow, SameRuns, NoBill

LEMMA RecoveredKind ==
  ASSUME NEW r \in Row
  PROVE  \/ Recovered(r) = r
         \/ /\ r.status = "RUNNING"
            /\ Recovered(r).token = 0
            /\ Recovered(r).attempts = r.attempts
            /\ \/ /\ Recovered(r).status = "FAILED"
                  /\ Recovered(r).submission = "NOT_STARTED"
                       => r.submission = "NOT_STARTED"
               \/ /\ Recovered(r).status = "QUEUED"
                  /\ r.attempts < MaxAttempts
                  /\ r.submission = "NOT_STARTED"
                  /\ Recovered(r).submission = "NOT_STARTED"
  BY DEF Row, Recovered, Expired, NeverSubmitted

LEMMA RecoverExpiredJobsKind ==
  ASSUME TypeOK, NEW w \in Workers, RecoverExpiredJobs(w) PROVE Recovers(w)
<1>1. ASSUME NEW j \in Jobs PROVE SameRow(j) \/ RowRecovered(j)
  <2>1. job[j] \in Row /\ job'[j] = Recovered(job[j])
    BY DEF TypeOK, RecoverExpiredJobs
  <2>2. QED
    BY <2>1, RecoveredKind DEF SameRow, RowRecovered
<1>2. QED
  BY <1>1, GotoEffect
  DEF RecoverExpiredJobs, Recovers, NoBill, SameRuns, Busy, BusySteps

LEMMA ClaimNextJobKind ==
  ASSUME TypeOK, NEW w \in Workers, ClaimNextJob(w) PROVE Claims(w)
<1>1. PICK j \in Claimable :
        /\ job' = [job EXCEPT ![j].status = "RUNNING",
                              ![j].attempts = @ + 1,
                              ![j].token = job[j].attempts + 1,
                              ![j].expired = FALSE]
        /\ worker' = [worker EXCEPT ![w] = [At("preparing") EXCEPT
                                              !.job = j,
                                              !.token = job[j].attempts + 1]]
  BY DEF ClaimNextJob
<1>2. j \in Jobs /\ job[j] \in Row /\ job[j].status = "QUEUED"
      /\ job[j].attempts < MaxAttempts
  BY <1>1 DEF Claimable, TypeOK
<1>3. OtherRows(j)
  BY <1>1, <1>2 DEF TypeOK, OtherRows, SameRow
<1>4. /\ job'[j].status = "RUNNING"
      /\ job'[j].attempts = job[j].attempts + 1
      /\ job'[j].token = job[j].attempts + 1
      /\ job'[j].submission = job[j].submission
  BY <1>1, <1>2 DEF TypeOK, Row
<1>5. /\ worker'[w].step = "preparing"
      /\ worker'[w].job = j
      /\ worker'[w].token = job[j].attempts + 1
      /\ OtherWorkers(w)
  BY <1>1, <1>2 DEF TypeOK, At, OtherWorkers
<1>6. Honours(w)
  BY <1>1 DEF TypeOK, At, Honours, Unsent, Failed
<1>7. QED
  BY <1>2, <1>3, <1>4, <1>5, <1>6 DEF ClaimNextJob, Claims, NoBill, SameRuns

LEMMA PassingKinds ==
  ASSUME TypeOK, NEW w \in Workers,
         \/ NothingToClaim(w) \/ PreparationFails(w) \/ PutObject(w)
         \/ ReadActiveJob(w) \/ CompensateResult(w) \/ Crash(w) \/ Restart(w)
  PROVE  Passes(w)
<1> USE UnsentIsFinal DEF Passes, Leaves, SameRows, SameRow, SameRuns, NoBill, Busy,
                          BusySteps
<1>1. CASE NothingToClaim(w) \/ Restart(w)
  BY <1>1, GotoEffect DEF NothingToClaim, Restart
<1>2. CASE PreparationFails(w)
  BY <1>2, FailEffect DEF PreparationFails
<1>3. CASE PutObject(w)
  <2>1. /\ worker[w].step = "storing"
        /\ \/ Goto(w, "reading")
           \/ \E state \in {"AMBIGUOUS", "SUBMITTED"} : Fail(w, Failed(state, TRUE))
    BY <1>3 DEF PutObject
  <2>2. OtherWorkers(w) /\ Honours(w) /\ Leaves(w)
    <3>1. CASE Goto(w, "reading")
      BY <2>1, <3>1, GotoEffect
    <3>2. ASSUME NEW state \in {"AMBIGUOUS", "SUBMITTED"},
                 Fail(w, Failed(state, TRUE))
          PROVE  OtherWorkers(w) /\ Honours(w) /\ Leaves(w)
      BY <2>1, <3>2, SubmittedFails
    <3>3. QED
      BY <2>1, <3>1, <3>2
  <2>3. QED
    BY <1>3, <2>2 DEF PutObject
<1>4. CASE ReadActiveJob(w)
  <2>1. /\ worker[w].step = "reading"
        /\ Goto(w, "committing") \/ Goto(w, "compensating")
    BY <1>4 DEF ReadActiveJob
  <2>2. QED
    BY <1>4, <2>1, GotoEffect DEF ReadActiveJob
<1>5. CASE CompensateResult(w)
  BY <1>5, SubmittedFails DEF CompensateResult
<1>6. CASE Crash(w)
  BY <1>6, AtEffect DEF Crash, Steps
<1>7. QED
  BY <1>1, <1>2, <1>3, <1>4, <1>5, <1>6

LEMMA HeartbeatKind ==
  ASSUME TypeOK, NEW w \in Workers, Heartbeat(w) PROVE Passes(w)
<1>1. Busy(w) /\ worker' = worker
  BY DEF Heartbeat
<1>2. SameRows
  BY <1>1, RowType DEF Heartbeat, SetRow, RowOf, TypeOK, Row, SameRows, SameRow
<1>3. QED
  BY <1>1, <1>2
  DEF Heartbeat, Passes, SameRuns, NoBill, OtherWorkers, Honours, SameTurn, Busy

LEMMA MarkSubmittingKind ==
  ASSUME TypeOK, NEW w \in Workers, MarkSubmitting(w)
  PROVE  Passes(w) \/ Marks(w)
<1> DEFINE marked == [RowOf(w) EXCEPT !.submission = "SUBMITTING",
                                      !.invoked = TRUE, !.expired = FALSE]
<1>1. Busy(w) /\ worker[w].step = "preparing" /\ NoBill /\ SameRuns
  BY DEF MarkSubmitting, Busy, BusySteps, NoBill, SameRuns
<1>2. \/ Goto(w, "calling") /\ Held(w) /\ SetRow(w, marked)
      \/ Fail(w, Unsent) /\ UNCHANGED job
      \/ Fail(w, Unsent) /\ Held(w) /\ SetRow(w, marked)
  BY DEF MarkSubmitting
<1>3. CASE SetRow(w, marked) /\ Held(w)
  <2>1. RowOf(w) \in Row /\ job'[worker[w].job] = marked
        /\ OtherRows(worker[w].job)
    BY <1>1, <1>3, SetRowEffect, RowType
  <2>2. /\ OtherWorkers(w) /\ SameTurn(w) /\ Honours(w)
        /\ worker'[w].step \in {"calling", "failing"}
    BY <1>2, GotoEffect, FailEffect, UnsentIsFinal
  <2>3. QED
    BY <1>1, <1>3, <2>1, <2>2 DEF Marks, ChangesItsRow, Row
<1>4. CASE Fail(w, Unsent) /\ UNCHANGED job
  BY <1>1, <1>4, FailEffect, UnsentIsFinal
  DEF Passes, SameRows, SameRow, Busy, BusySteps
<1>5. QED
  BY <1>2, <1>3, <1>4

LEMMA MarkSubmittedKind ==
  ASSUME TypeOK, NEW w \in Workers, MarkSubmitted(w)
  PROVE  Passes(w) \/ MarksAnswer(w)
<1> DEFINE marked == [RowOf(w) EXCEPT !.submission = "SUBMITTED",
                                      !.requestId = TRUE, !.expired = FALSE]
<1>1. Busy(w) /\ worker[w].step = "called" /\ NoBill /\ SameRuns
  BY DEF MarkSubmitted, Busy, BusySteps, NoBill, SameRuns
<1>2. /\ Goto(w, "storing") \/ Fail(w, Failed("AMBIGUOUS", TRUE))
      /\ UNCHANGED job \/ (Held(w) /\ SetRow(w, marked))
  BY DEF MarkSubmitted
<1>3. OtherWorkers(w) /\ Leaves(w) /\ Honours(w)
  <2>1. CASE Goto(w, "storing")
    BY <1>1, <2>1, GotoEffect DEF Leaves, Busy, BusySteps
  <2>2. CASE Fail(w, Failed("AMBIGUOUS", TRUE))
    BY <1>1, <2>2, SubmittedFails
  <2>3. QED
    BY <1>2, <2>1, <2>2
<1>4. CASE Held(w) /\ SetRow(w, marked)
  <2>1. RowOf(w) \in Row /\ job'[worker[w].job] = marked
        /\ OtherRows(worker[w].job)
    BY <1>1, <1>4, SetRowEffect, RowType
  <2>2. QED
    BY <1>1, <1>3, <1>4, <2>1 DEF MarksAnswer, ChangesItsRow, Row
<1>5. CASE UNCHANGED job
  BY <1>1, <1>3, <1>5 DEF Passes, SameRows, SameRow
<1>6. QED
  BY <1>2, <1>4, <1>5

LEMMA CommitResultKind ==
  ASSUME TypeOK, NEW w \in Workers, CommitResult(w)
  PROVE  \/ Passes(w) /\ UNCHANGED <<result, ackLost>>
         \/ Completes(w) /\ Committed(w)
<1> DEFINE done == [RowOf(w) EXCEPT !.status = "SUCCEEDED", !.token = 0,
                                    !.submission = "COMPLETED",
                                    !.expired = FALSE]
<1>1. /\ Busy(w) /\ worker[w].step = "committing" /\ NoBill /\ SameRuns
  BY DEF CommitResult, Busy, BusySteps, NoBill, SameRuns
<1>2. /\ Finish(w) \/ Goto(w, "compensating")
      /\ \/ UNCHANGED <<job, result, ackLost>>
         \/ Committed(w) /\ Held(w) /\ SetRow(w, done)
  BY DEF CommitResult, Committed, StillHeld
<1>3. OtherWorkers(w) /\ Leaves(w) /\ Honours(w)
  BY <1>1, <1>2, GotoEffect, AtEffect DEF Finish, Leaves, Busy, Steps, BusySteps
<1>4. CASE Committed(w) /\ Held(w) /\ SetRow(w, done)
  <2>1. RowOf(w) \in Row /\ job'[worker[w].job] = done
        /\ OtherRows(worker[w].job)
    BY <1>1, <1>4, SetRowEffect, RowType
  <2>2. QED
    BY <1>1, <1>3, <1>4, <2>1 DEF Completes, ChangesItsRow, Row
<1>5. CASE UNCHANGED <<job, result, ackLost>>
  BY <1>1, <1>3, <1>5 DEF Passes, SameRows, SameRow
<1>6. QED
  BY <1>2, <1>4, <1>5

LEMMA FailOrRetryKind ==
  ASSUME TypeOK, RetryInv, NEW w \in Workers, FailOrRetry(w)
  PROVE  Passes(w) \/ GivesUp(w)
<1>1. Busy(w) /\ worker[w].step = "failing" /\ NoBill /\ SameRuns
  BY DEF FailOrRetry, Busy, BusySteps, NoBill, SameRuns
<1>2. OtherWorkers(w) /\ Leaves(w) /\ Honours(w)
  BY <1>1, AtEffect DEF FailOrRetry, Finish, Leaves, Steps, BusySteps
<1>3. CASE Held(w)
  <2> DEFINE f  == worker[w].failure
             to == IF Retries(w) THEN "QUEUED" ELSE "FAILED"
             r  == [RowOf(w) EXCEPT !.status = to, !.submission = f.state,
                                    !.requestId = f.requestId,
                                    !.token = 0, !.expired = FALSE]
  <2>1. RowOf(w) \in Row /\ f \in Failure
    BY <1>1, RowType
  <2>2. job'[worker[w].job] = r /\ OtherRows(worker[w].job)
    BY <1>1, <1>3, SetRowEffect DEF FailOrRetry
  <2>3. \/ to = "FAILED"
        \/ /\ to = "QUEUED" /\ f.state = "NOT_STARTED"
           /\ worker[w].token < MaxAttempts
    BY DEF Retries, RetryInv
  <2> HIDE DEF to
  <2>4. /\ r.token = 0 /\ r.attempts = RowOf(w).attempts
        /\ r.status = to /\ r.submission = f.state
    BY <2>1 DEF Row
  <2> HIDE DEF r
  <2>5. QED
    BY <1>1, <1>2, <1>3, <2>2, <2>3, <2>4 DEF GivesUp, ChangesItsRow
<1>4. CASE ~Held(w)
  BY <1>1, <1>2, <1>4 DEF FailOrRetry, Passes, SameRows, SameRow
<1>5. QED
  BY <1>3, <1>4

\* Here honesty is needed: of a request that was taken on, no answer may say
\* that it was rejected or never sent.
LEMMA CallProviderKind ==
  ASSUME TypeOK, Honest(StyleAnswers), NEW w \in Workers, CallProvider(w)
  PROVE  Passes(w) \/ Bills(w)
<1>1. Busy(w) /\ worker[w].step = "calling" /\ SameRows /\ SameRuns
  BY DEF CallProvider, Busy, BusySteps, SameRows, SameRow, SameRuns
<1>2. PICK a \in PlainAnswers \cup StyleAnswers :
        /\ accepted' = [accepted EXCEPT ![worker[w].job] =
                          IF a.accepted THEN @ + 1 ELSE @]
        /\ IF a.result = "OK" THEN Goto(w, "called")
                              ELSE Fail(w, NormalizeFailure(a))
  BY DEF CallProvider
<1>3. a \in Answers /\ Honest({a})
  BY PlainAnswersHonest, BenchmarkAssumption DEF Honest
<1>4. /\ OtherWorkers(w) /\ SameTurn(w) /\ Honours(w)
      /\ \/ worker'[w].step = "called"
         \/ /\ worker'[w].step = "failing"
            /\ worker'[w].failure = NormalizeFailure(a)
  BY <1>2, <1>3, GotoEffect, FailEffect, FailureType
<1>5. CASE a.accepted
  <2>1. NormalizeFailure(a).state = "AMBIGUOUS"
    BY <1>3, <1>5 DEF Honest, NormalizeFailure, Failed
  <2>2. Leaves(w)
    BY <1>1, <1>4, <2>1 DEF Leaves, Busy, BusySteps
  <2>3. QED
    BY <1>1, <1>2, <1>4, <1>5, <2>2 DEF Bills
<1>6. CASE ~a.accepted
  <2>1. NoBill
    BY <1>1, <1>2, <1>6, RowType DEF TypeOK, NoBill
  <2>2. QED
    BY <1>1, <1>4, <2>1 DEF Passes, Leaves, Busy, BusySteps
<1>7. QED
  BY <1>5, <1>6

LEMMA CallProviderRows ==
  ASSUME TypeOK, NEW w \in Workers, CallProvider(w) PROVE Calls(w)
<1>1. Busy(w) /\ SameRows /\ SameRuns
  BY DEF CallProvider, Busy, BusySteps, SameRows, SameRow, SameRuns
<1>2. PICK a \in Answers : Goto(w, "called") \/ Fail(w, NormalizeFailure(a))
  BY PlainAnswersHonest, BenchmarkAssumption DEF CallProvider
<1>3. QED
  BY <1>1, <1>2, GotoEffect, FailEffect, FailureType DEF Calls

LEMMA Kinds ==
  ASSUME TypeOK, RowInv, RetryInv, [Next]_vars
  PROVE  KindOfStep \/ \E w \in Workers : CallProvider(w)
<1>1. CASE UNCHANGED vars
  BY <1>1 DEF vars, KindOfStep, Idles, SameRows, SameRow, SameRuns, NoBill
<1>2. ASSUME NEW k \in Keys, NEW e \in Experiments, CreateRun(k, e)
      PROVE  KindOfStep
  BY <1>2, CreateRunKind DEF KindOfStep
<1>3. ASSUME NEW j \in Jobs, LeaseExpires(j) PROVE KindOfStep
  BY <1>3, LeaseExpiresKind DEF KindOfStep
<1>4. ASSUME NEW w \in Workers,
             RunOnce(w) \/ Heartbeat(w) \/ Crash(w) \/ Restart(w)
      PROVE  KindOfStep \/ CallProvider(w)
  BY <1>4, RecoverExpiredJobsKind, ClaimNextJobKind, PassingKinds,
     MarkSubmittingKind, MarkSubmittedKind, CommitResultKind,
     FailOrRetryKind, HeartbeatKind
  DEF RunOnce, KindOfStep
<1>5. QED
  BY <1>1, <1>2, <1>3, <1>4 DEF Next

LEMMA AnyKinds ==
  ASSUME TypeOK, RowInv, RetryInv, [Next]_vars PROVE AnyStep
  BY Kinds, CallProviderRows DEF AnyStep

LEMMA HonestKinds ==
  ASSUME TypeOK, RowInv, RetryInv, Honest(StyleAnswers), [Next]_vars
  PROVE  KindOfStep
  BY Kinds, CallProviderKind DEF KindOfStep

-----------------------------------------------------------------------------
(* Every kind of step preserves the invariant.                             *)

\* The parts of the types the arguments use.
LEMMA Types ==
  ASSUME TypeOK
  PROVE  /\ MaxAttempts \in Nat
         /\ \A j \in Jobs : job[j].attempts \in Nat /\ job[j].token \in Nat
         /\ \A j \in Jobs : accepted[j] \in Nat /\ result[j] \in Nat
         /\ \A w \in Workers : worker[w].token \in Nat
         /\ \A w \in Workers : Busy(w) => worker[w].job \in Jobs
  BY CountRange DEF TypeOK, Row, Process

\* Only the creation of a run inserts its rows.
LEMMA RowStep ==
  ASSUME TypeOK, RowInv, AnyStep PROVE RowInv'
<1> USE Types, KeyOfJob DEF RowInv
<1> DEFINE RowOK(j) ==
      /\ job'[j].status = "RUNNING" => /\ job'[j].token = job'[j].attempts
                                       /\ job'[j].attempts # 0
      /\ job'[j].status # "RUNNING" => job'[j].token = 0
      /\ job'[j].status = "ABSENT" <=> ~Created(j[1])'
      /\ job'[j].status = "ABSENT" => job'[j].attempts = 0
      /\ job'[j].status \in {"ABSENT", "QUEUED"} =>
           job'[j].submission = "NOT_STARTED"
      /\ job'[j].status = "QUEUED" => job'[j].attempts < MaxAttempts
<1>1. ASSUME NEW j \in Jobs, SameRow(j), run'[j[1]] = run[j[1]] PROVE RowOK(j)
  BY <1>1 DEF SameRow, Created
<1>2. ASSUME NEW k \in Keys, Queues(k) PROVE RowInv'
  <2>1. ASSUME NEW j \in Jobs, j[1] = k PROVE RowOK(j)
    BY <1>2, <2>1, CountRange DEF Queues, RowQueued
  <2>2. ASSUME NEW j \in Jobs, j[1] # k PROVE RowOK(j)
    BY <1>1, <1>2, <2>2 DEF Queues
  <2>3. QED
    BY <2>1, <2>2
<1>3. ASSUME SameRuns,
             \A j \in Jobs :
               SameRow(j) \/ (RowOK(j) /\ "ABSENT" \notin {job[j].status, job'[j].status})
      PROVE  RowInv'
  BY <1>1, <1>3 DEF SameRuns
<1>4. CASE Idles
  BY <1>3, <1>4 DEF Idles, SameRows
<1>5. ASSUME NEW w \in Workers, Passes(w) \/ Bills(w) \/ Calls(w) PROVE RowInv'
  <2>1. SameRuns /\ SameRows
    BY <1>5 DEF NoBill, Passes, Bills, Calls
  <2>2. QED
    BY <1>3, <2>1 DEF SameRows
<1>6. ASSUME NEW j \in Jobs, OtherRows(j), SameRuns, job[j].status # "ABSENT",
             job'[j].status # "ABSENT",
             /\ job'[j].status = "RUNNING" => /\ job'[j].token = job'[j].attempts
                                              /\ job'[j].attempts # 0
             /\ job'[j].status # "RUNNING" => job'[j].token = 0
             /\ job'[j].status = "QUEUED" => /\ job'[j].attempts < MaxAttempts
                                             /\ job'[j].submission = "NOT_STARTED"
      PROVE  RowInv'
  <2>1. RowOK(j)
    BY <1>6 DEF SameRuns, Created
  <2>2. QED
    BY <1>3, <1>6, <2>1 DEF OtherRows
<1>7. ASSUME NEW w \in Workers,
             Marks(w) \/ MarksAnswer(w) \/ Completes(w) \/ GivesUp(w)
      PROVE  RowInv'
  <2> DEFINE j == worker[w].job
  <2>1. /\ j \in Jobs /\ OtherRows(j) /\ SameRuns
        /\ job[j].status = "RUNNING" /\ job[j].token = worker[w].token
        /\ job[j].token = job[j].attempts /\ job[j].attempts # 0
    BY <1>7 DEF NoBill, Marks, MarksAnswer, Completes, GivesUp, ChangesItsRow, Held, RowOf
  <2>2. /\ job'[j].attempts = job[j].attempts
        /\ \/ job'[j].status = "RUNNING" /\ job'[j].token = job[j].token
           \/ job'[j].status \in {"SUCCEEDED", "FAILED"} /\ job'[j].token = 0
           \/ /\ job'[j].status = "QUEUED" /\ job'[j].token = 0
              /\ job'[j].submission = "NOT_STARTED"
              /\ worker[w].token < MaxAttempts
    BY <1>7, <2>1 DEF NoBill, Marks, MarksAnswer, Completes, GivesUp, RowOf
  <2>3. QED
    BY <1>6, <2>1, <2>2
<1>8. ASSUME NEW w \in Workers, Claims(w) PROVE RowInv'
  <2>1. PICK j \in Jobs :
          /\ OtherRows(j) /\ SameRuns
          /\ job[j].status = "QUEUED" /\ job'[j].status = "RUNNING"
          /\ job'[j].attempts = job[j].attempts + 1
          /\ job'[j].token = job[j].attempts + 1
    BY <1>8 DEF Claims
  <2>2. QED
    BY <1>6, <2>1
<1>9. ASSUME NEW w \in Workers, Recovers(w) PROVE RowInv'
  <2>1. ASSUME NEW j \in Jobs, RowRecovered(j)
        PROVE  /\ "ABSENT" \notin {job[j].status, job'[j].status}
               /\ RowOK(j)
    BY <1>9, <2>1 DEF Recovers, RowRecovered, SameRuns, Created
  <2>2. QED
    BY <1>3, <1>9, <2>1 DEF Recovers
<1>10. QED
  BY <1>2, <1>4, <1>5, <1>7, <1>8, <1>9 DEF AnyStep, KindOfStep

\* No step lowers an attempt count, and only a claim hands out a token.
LEMMA LeaseStep ==
  ASSUME TypeOK, RowInv, LeaseInv, AnyStep
  PROVE  LeaseInv'
<1> DEFINE SameTurns    == \A v \in Workers : Busy(v)' => Busy(v) /\ SameTurn(v)
           SameAttempts == \A j \in Jobs : job'[j].attempts = job[j].attempts
<1>1. ASSUME SameTurns, SameAttempts PROVE LeaseInv'
  <2>1. ASSUME NEW v \in Workers, Busy(v)'
        PROVE  worker'[v].token <= RowOf(v)'.attempts /\ worker'[v].token # 0
    <3>1. Busy(v) /\ SameTurn(v)
      BY <1>1, <2>1 DEF Busy
    <3>2. worker[v].job \in Jobs
      BY <3>1, Types
    <3>3. /\ worker[v].token <= job[worker[v].job].attempts
          /\ worker[v].token # 0
      BY <3>1 DEF LeaseInv, RowOf
    <3>4. QED
      BY <1>1, <3>1, <3>2, <3>3 DEF SameTurn, RowOf
  <2>2. ASSUME NEW u \in Workers, NEW v \in Workers, Busy(u)', Busy(v)',
               worker'[u].job = worker'[v].job,
               worker'[u].token = worker'[v].token
        PROVE  u = v
    <3>1. Busy(u) /\ SameTurn(u) /\ Busy(v) /\ SameTurn(v)
      BY <1>1, <2>2
    <3>2. QED
      BY <2>2, <3>1 DEF LeaseInv, SameTurn
  <2>3. QED
    BY <2>1, <2>2 DEF LeaseInv
<1>2. ASSUME NEW w \in Workers, OtherWorkers(w),
             Leaves(w) \/ (Busy(w) /\ SameTurn(w)) \/ ~Busy(w)'
      PROVE  SameTurns
  <2>1. ASSUME NEW v \in Workers, Busy(v)' PROVE Busy(v) /\ SameTurn(v)
    <3>1. CASE v = w
      BY <1>2, <2>1, <3>1 DEF Leaves
    <3>2. CASE v # w
      BY <1>2, <2>1, <3>2 DEF OtherWorkers, Busy, SameTurn
    <3>3. QED
      BY <3>1, <3>2
  <2>2. QED
    BY <2>1
<1> HIDE DEF SameTurns
<1>3. worker' = worker => SameTurns
  BY DEF SameTurns, SameTurn, Busy
<1>4. CASE Idles
  BY <1>1, <1>3, <1>4 DEF Idles, SameRows, SameRow
<1>5. ASSUME NEW k \in Keys, Queues(k) PROVE LeaseInv'
  <2>1. SameAttempts
    BY <1>5 DEF Queues, RowQueued, SameRow, RowInv
  <2>2. QED
    BY <1>1, <1>3, <1>5, <2>1 DEF Queues
<1>6. ASSUME NEW w \in Workers, Passes(w) \/ Bills(w) \/ Calls(w) PROVE LeaseInv'
  <2>1. SameAttempts
    BY <1>6 DEF NoBill, Passes, Bills, Calls, SameRows, SameRow
  <2>2. SameTurns
    BY <1>2, <1>6 DEF NoBill, Passes, Bills, Calls
  <2>3. QED
    BY <1>1, <2>1, <2>2
<1>7. ASSUME NEW w \in Workers,
             Marks(w) \/ MarksAnswer(w) \/ Completes(w) \/ GivesUp(w)
      PROVE  LeaseInv'
  <2>1. SameAttempts
    BY <1>7 DEF NoBill, Marks, MarksAnswer, Completes, GivesUp, ChangesItsRow, OtherRows,
       SameRow, RowOf
  <2>2. SameTurns
    BY <1>2, <1>7 DEF NoBill, Marks, MarksAnswer, Completes, GivesUp, ChangesItsRow
  <2>3. QED
    BY <1>1, <2>1, <2>2
<1>8. ASSUME NEW w \in Workers, Recovers(w) PROVE LeaseInv'
  <2>1. SameAttempts
    BY <1>8 DEF Recovers, RowRecovered, SameRow
  <2>2. SameTurns
    BY <1>2, <1>8 DEF Recovers
  <2>3. QED
    BY <1>1, <2>1, <2>2
<1>9. ASSUME NEW w \in Workers, Claims(w) PROVE LeaseInv'
  <2>1. PICK j \in Jobs :
          /\ OtherRows(j) /\ OtherWorkers(w)
          /\ job'[j].attempts = job[j].attempts + 1
          /\ worker'[w].job = j /\ worker'[w].token = job[j].attempts + 1
    BY <1>9 DEF Claims
  <2>2. ASSUME NEW v \in Workers, v # w, Busy(v)'
        PROVE  /\ Busy(v) /\ worker'[v] = worker[v]
               /\ worker[v].token <= job[worker[v].job].attempts
               /\ worker[v].token # 0
               /\ worker[v].job \in Jobs
    <3>1. Busy(v) /\ worker'[v] = worker[v]
      BY <2>1, <2>2 DEF OtherWorkers, Busy
    <3>2. worker[v].job \in Jobs
      BY <3>1, Types
    <3>3. QED
      BY <3>1, <3>2 DEF LeaseInv, RowOf
  <2>3. ASSUME NEW v \in Workers, Busy(v)'
        PROVE  worker'[v].token <= RowOf(v)'.attempts /\ worker'[v].token # 0
    <3>1. CASE v = w
      BY <2>1, <3>1, Types DEF RowOf
    <3>2. CASE v # w
      <4>1. CASE worker[v].job = j
        <5>1. /\ worker'[v] = worker[v] /\ worker[v].token <= job[j].attempts
              /\ worker[v].token \in Nat /\ job[j].attempts \in Nat
              /\ worker[v].token # 0
          BY <2>2, <2>3, <3>2, <4>1, Types
        <5>2. RowOf(v)'.attempts = job[j].attempts + 1
          BY <2>1, <4>1, <5>1 DEF RowOf
        <5>3. QED
          BY <5>1, <5>2
      <4>2. CASE worker[v].job # j
        <5>1. /\ worker'[v] = worker[v] /\ worker[v].job \in Jobs
              /\ worker[v].token <= job[worker[v].job].attempts
              /\ worker[v].token # 0
          BY <2>2, <2>3, <3>2
        <5>2. job'[worker[v].job].attempts = job[worker[v].job].attempts
          BY <2>1, <4>2, <5>1 DEF OtherRows, SameRow
        <5>3. QED
          BY <5>1, <5>2 DEF RowOf
      <4>3. QED
        BY <4>1, <4>2
    <3>3. QED
      BY <3>1, <3>2
  <2>4. ASSUME NEW u \in Workers, NEW v \in Workers, Busy(u)', Busy(v)',
               worker'[u].job = worker'[v].job,
               worker'[u].token = worker'[v].token
        PROVE  u = v
    <3>1. job[j].attempts \in Nat
      BY Types
    <3>2. ASSUME NEW x \in Workers, x # w, Busy(x)', worker'[x].job = j
          PROVE  worker'[x].token # job[j].attempts + 1
      BY <2>2, <3>1, <3>2, Types
    <3>3. CASE u = w \/ v = w
      BY <2>1, <2>4, <3>2, <3>3
    <3>4. CASE u # w /\ v # w
      BY <2>2, <2>4, <3>4 DEF LeaseInv
    <3>5. QED
      BY <3>3, <3>4
  <2>5. QED
    BY <2>3, <2>4 DEF LeaseInv
<1>10. QED
  BY <1>4, <1>5, <1>6, <1>7, <1>8, <1>9 DEF AnyStep, KindOfStep

\* Two workers never hold the same row.
LEMMA OneHolder ==
  ASSUME TypeOK, LeaseInv, NEW v \in Workers, NEW w \in Workers,
         Busy(v), Busy(w), worker[v].job = worker[w].job, Held(v), Held(w)
  PROVE  v = w
  BY DEF LeaseInv, Held, RowOf

\* A worker that shares a job with the holder of its row neither holds the
\* row nor is about to call the provider.
LEMMA OthersAreLate ==
  ASSUME TypeOK, LeaseInv, CallerInv,
         NEW w \in Workers, Busy(w), Held(w),
         NEW v \in Workers, Busy(v), v # w, worker[v].job = worker[w].job
  PROVE  ~Held(v) /\ worker[v].step # "calling"
  BY OneHolder DEF CallerInv, Held, RowOf

\* Steps that change no row and no bill.
LEMMA QuietBilling ==
  ASSUME TypeOK, BillingInv, SameRows, accepted' = accepted,
         NEW w \in Workers, Passes(w)
  PROVE  BillingInv'
<1> USE Types
<1>1. ASSUME NEW v \in Workers, v # w PROVE worker'[v] = worker[v]
  BY <1>1 DEF NoBill, Passes, OtherWorkers
<1>2. \A v \in Workers : worker'[v].step \in {"calling", "preparing"} =>
        worker[v].step = worker'[v].step /\ SameTurn(v) /\ Busy(v)
  BY <1>1 DEF NoBill, Passes, Leaves, SameTurn, Busy, BusySteps
<1>3. CallerInv' /\ OneCaller' /\ PreparingInv'
  BY <1>2 DEF BillingInv, CallerInv, OneCaller, PreparingInv, Held, RowOf,
     SameTurn, SameRows, SameRow
<1>4. FailingInv'
  <2> SUFFICES ASSUME NEW v \in Workers, worker'[v].step = "failing", Held(v)',
                      worker'[v].failure.state = "NOT_STARTED"
               PROVE  accepted'[worker'[v].job] = 0
    BY DEF FailingInv
  <2>1. /\ Busy(v) /\ SameTurn(v)
        /\ \/ /\ worker[v].step = "failing"
              /\ worker[v].failure = worker'[v].failure
           \/ worker[v].step \in {"preparing", "calling"}
    BY <1>1 DEF NoBill, Passes, Leaves, SameTurn, Busy, BusySteps
  <2>2. Held(v) /\ worker[v].job \in Jobs
    BY <2>1 DEF Held, RowOf, SameTurn, SameRows, SameRow
  <2>3. CASE worker[v].step = "failing" /\ worker[v].failure = worker'[v].failure
    BY <2>1, <2>2, <2>3 DEF BillingInv, FailingInv, SameTurn
  <2>4. CASE worker[v].step = "calling"
    BY <2>1, <2>4 DEF BillingInv, CallerInv, SameTurn
  <2>5. CASE worker[v].step = "preparing"
    BY <2>1, <2>2, <2>5 DEF BillingInv, PreparingInv, AcceptedInv, SameTurn, Held,
       RowOf, Terminal
  <2>6. QED
    BY <2>1, <2>3, <2>4, <2>5
<1>5. AcceptedInv' /\ UnsubmittedFailureIsUnbilled'
  BY DEF BillingInv, AcceptedInv, UnsubmittedFailureIsUnbilled, SameRows, SameRow
<1>6. QED
  BY <1>3, <1>4, <1>5 DEF BillingInv

LEMMA QueueBilling ==
  ASSUME TypeOK, BillingInv, NEW k \in Keys, Queues(k) PROVE BillingInv'
<1> USE Types
<1>1. \A j \in Jobs : j[1] = k => /\ job[j].status = "ABSENT"
                                  /\ job'[j].status = "QUEUED"
                                  /\ accepted[j] = 0
  BY DEF Queues, RowQueued, BillingInv, AcceptedInv, Terminal
<1>2. /\ \A j \in Jobs : j[1] # k => SameRow(j)
      /\ worker' = worker /\ accepted' = accepted
  BY DEF Queues, NoBill
<1>3. ASSUME NEW w \in Workers, Busy(w)
      PROVE  /\ Held(w) \/ Held(w)' \/ RowOf(w).status = "FAILED" =>
                  SameRow(worker[w].job)
             /\ Held(w)' => Held(w)
  BY <1>1, <1>2, <1>3 DEF Held, RowOf, SameRow
<1>4. CallerInv'
  BY <1>2, <1>3 DEF BillingInv, CallerInv, SameRow, Held, RowOf, Busy, BusySteps
<1>5. OneCaller'
  BY <1>2 DEF BillingInv, OneCaller
<1>6. PreparingInv' /\ FailingInv'
  BY <1>2, <1>3 DEF BillingInv, PreparingInv, FailingInv, SameRow, Held, RowOf, Busy,
     BusySteps
<1>7. AcceptedInv' /\ UnsubmittedFailureIsUnbilled'
  BY <1>1, <1>2 DEF BillingInv, AcceptedInv, UnsubmittedFailureIsUnbilled, SameRow
<1>8. QED
  BY <1>4, <1>5, <1>6, <1>7 DEF BillingInv

\* What a holder's change of its row leaves to show: the other workers are
\* not disturbed by it.
LEMMA OthersUndisturbed ==
  ASSUME TypeOK, LeaseInv, BillingInv,
         NEW w \in Workers, ChangesItsRow(w),
         job'[worker[w].job].token \in {0, worker[w].token},
         NEW v \in Workers, v # w
  PROVE  /\ worker'[v] = worker[v]
         /\ worker[v].step = "calling" =>
              /\ accepted'[worker[v].job] = 0
              /\ \/ Held(v)' /\ RowOf(v)'.submission = "SUBMITTING"
                 \/ /\ RowOf(v)'.status = "FAILED"
                    /\ RowOf(v)'.submission # "NOT_STARTED"
         /\ Busy(v) /\ Held(v)' => /\ worker[v].job # worker[w].job
                                  /\ Held(v)
                                  /\ RowOf(v)'.submission = RowOf(v).submission
<1> USE Types
<1>1. worker'[v] = worker[v] /\ accepted' = accepted
  BY DEF NoBill, ChangesItsRow, OtherWorkers
<1>2. ASSUME Busy(v), worker[v].job = worker[w].job
      PROVE  worker[v].step # "calling" /\ ~Held(v)'
  <2>1. worker[v].step # "calling" /\ ~Held(v)
    BY <1>2, OthersAreLate DEF ChangesItsRow, BillingInv
  <2>2. worker[v].token # worker[w].token /\ worker[v].token # 0
    BY <1>2 DEF ChangesItsRow, LeaseInv
  <2>3. ~Held(v)'
    BY <1>1, <1>2, <2>2 DEF Held, RowOf
  <2>4. QED
    BY <2>1, <2>3
<1>3. ASSUME Busy(v), worker[v].job # worker[w].job
      PROVE  SameRow(worker[v].job)
  BY <1>3 DEF ChangesItsRow, OtherRows
<1>4. QED
  BY <1>1, <1>2, <1>3 DEF BillingInv, CallerInv, SameRow, Held, RowOf, Busy, BusySteps

LEMMA HolderBilling ==
  ASSUME TypeOK, RowInv, LeaseInv, BillingInv, NEW w \in Workers,
         Marks(w) \/ MarksAnswer(w) \/ Completes(w) \/ GivesUp(w)
  PROVE  BillingInv'
<1> USE Types
<1> DEFINE j == worker[w].job
<1>1. /\ Busy(w) /\ Held(w) /\ ChangesItsRow(w) /\ j \in Jobs
      /\ job[j].status = "RUNNING" /\ job[j].token = worker[w].token
      /\ accepted' = accepted
  BY DEF NoBill, Marks, MarksAnswer, Completes, GivesUp, ChangesItsRow, Held, RowOf
<1>2. job'[j].token \in {0, worker[w].token}
  BY <1>1 DEF NoBill, Marks, MarksAnswer, Completes, GivesUp, RowOf
<1>3. accepted[j] = 0 \/ job[j].submission # "NOT_STARTED"
  BY <1>1 DEF BillingInv, AcceptedInv, Terminal
<1>4. CASE Marks(w)
  <2>1. accepted[j] = 0
    BY <1>1, <1>3, <1>4 DEF NoBill, Marks, BillingInv, PreparingInv, RowOf
  <2>2. /\ Held(w)' /\ RowOf(w)'.submission = "SUBMITTING"
        /\ worker'[w].step \in {"calling", "failing"}
        /\ worker'[w].job = j
    BY <1>1, <1>4 DEF NoBill, Marks, Held, RowOf, SameTurn
  <2>3. \A v \in Workers : v # w /\ worker[v].step = "calling" => worker[v].job # j
    BY <1>1, OthersAreLate DEF BillingInv, Busy, BusySteps
  <2>4. CallerInv'
    BY <1>1, <1>2, <2>1, <2>2, OthersUndisturbed DEF CallerInv
  <2>5. OneCaller'
    BY <1>1, <1>2, <2>2, <2>3, OthersUndisturbed DEF BillingInv, OneCaller
  <2>6. PreparingInv'
    BY <1>1, <1>2, <2>2, OthersUndisturbed DEF BillingInv, PreparingInv, Busy, BusySteps
  <2>7. FailingInv'
    BY <1>1, <1>2, <2>1, <2>2, OthersUndisturbed DEF BillingInv, FailingInv, Busy, BusySteps
  <2>8. AcceptedInv' /\ UnsubmittedFailureIsUnbilled'
    BY <1>1, <1>4 DEF NoBill, Marks, ChangesItsRow, OtherRows, SameRow, RowOf,
       BillingInv, AcceptedInv, UnsubmittedFailureIsUnbilled
  <2>9. QED
    BY <2>4, <2>5, <2>6, <2>7, <2>8 DEF BillingInv
<1>5. CASE MarksAnswer(w) \/ Completes(w) \/ GivesUp(w)
  <2>1. /\ worker'[w].step \notin {"calling", "preparing"}
        /\ worker'[w].step = "failing" => worker'[w].failure.state # "NOT_STARTED"
    BY <1>5 DEF MarksAnswer, Completes, GivesUp, Leaves, Busy, BusySteps
  <2>2. CallerInv'
    BY <1>1, <1>2, <2>1, OthersUndisturbed DEF CallerInv
  <2>3. OneCaller'
    BY <1>1, <1>2, <2>1, OthersUndisturbed DEF BillingInv, OneCaller
  <2>4. PreparingInv'
    BY <1>1, <1>2, <2>1, OthersUndisturbed DEF BillingInv, PreparingInv, Busy, BusySteps
  <2>5. FailingInv'
    BY <1>1, <1>2, <2>1, OthersUndisturbed DEF BillingInv, FailingInv, Busy, BusySteps
  <2>6. \A k \in Jobs : k # j => SameRow(k)
    BY <1>1 DEF ChangesItsRow, OtherRows
  <2>7. \/ job'[j].status = "RUNNING" /\ job'[j].submission = "SUBMITTED"
        \/ job'[j].status = "SUCCEEDED"
        \/ job'[j].status = "FAILED" /\ job'[j].submission # "NOT_STARTED"
        \/ accepted[j] = 0
    <3>1. CASE GivesUp(w)
      BY <1>1, <3>1 DEF GivesUp, BillingInv, FailingInv
    <3>2. QED
      BY <1>1, <1>5, <3>1 DEF MarksAnswer, Completes, RowOf
  <2>8. AcceptedInv' /\ UnsubmittedFailureIsUnbilled'
    BY <1>1, <2>6, <2>7 DEF SameRow, BillingInv, AcceptedInv, Terminal,
       UnsubmittedFailureIsUnbilled
  <2>9. QED
    BY <2>2, <2>3, <2>4, <2>5, <2>8 DEF BillingInv
<1>6. QED
  BY <1>4, <1>5

LEMMA CallBilling ==
  ASSUME TypeOK, LeaseInv, BillingInv, NEW w \in Workers, Bills(w)
  PROVE  BillingInv'
<1> USE Types
<1> DEFINE j == worker[w].job
<1>1. /\ Busy(w) /\ j \in Jobs /\ accepted[j] = 0
      /\ \/ Held(w) /\ job[j].submission = "SUBMITTING"
         \/ job[j].status = "FAILED" /\ job[j].submission # "NOT_STARTED"
  BY DEF Bills, BillingInv, CallerInv, RowOf, Busy, BusySteps
<1>2. accepted' = [accepted EXCEPT ![j] = 1]
  BY <1>1 DEF Bills
<1>3. \A k \in Jobs : accepted'[k] = IF k = j THEN 1 ELSE accepted[k]
  BY <1>2 DEF TypeOK
<1>4. \A v \in Workers : v # w => worker'[v] = worker[v]
  BY DEF Bills, OtherWorkers
<1>5. /\ worker'[w].step \notin {"calling", "preparing"}
      /\ worker'[w].step = "failing" => worker'[w].failure.state # "NOT_STARTED"
  BY DEF Bills, Leaves, Busy, BusySteps
<1>6. \A v \in Workers :
        v # w /\ worker[v].step = "calling" => worker[v].job \in Jobs \ {j}
  BY DEF Bills, BillingInv, OneCaller, Busy, BusySteps
<1>7. CallerInv'
  BY <1>3, <1>4, <1>5, <1>6 DEF Bills, BillingInv, CallerInv, SameRows, SameRow,
     Held, RowOf
<1>8. OneCaller'
  BY <1>4, <1>5 DEF BillingInv, OneCaller
<1>9. PreparingInv'
  BY <1>4, <1>5 DEF Bills, BillingInv, PreparingInv, SameRows, SameRow, Held,
     RowOf, Busy, BusySteps
<1>10. FailingInv'
  <2> SUFFICES ASSUME NEW v \in Workers, worker'[v].step = "failing", Held(v)',
                      worker'[v].failure.state = "NOT_STARTED"
               PROVE  accepted'[worker'[v].job] = 0
    BY DEF FailingInv
  <2>1. v # w /\ worker'[v] = worker[v] /\ Busy(v) /\ worker[v].job \in Jobs
    BY <1>4, <1>5 DEF Busy, BusySteps
  <2>2. Held(v)
    BY <2>1 DEF Bills, SameRows, SameRow, Held, RowOf
  <2>3. worker[v].job # j
    BY <1>1, <2>1, <2>2, OneHolder DEF Held, RowOf
  <2>4. QED
    BY <1>3, <2>1, <2>2, <2>3 DEF BillingInv, FailingInv
<1>11. AcceptedInv' /\ UnsubmittedFailureIsUnbilled'
  BY <1>1, <1>3 DEF Bills, SameRows, SameRow, BillingInv, AcceptedInv, Terminal,
     UnsubmittedFailureIsUnbilled, Held, RowOf
<1>12. QED
  BY <1>7, <1>8, <1>9, <1>10, <1>11 DEF BillingInv

LEMMA ClaimBilling ==
  ASSUME TypeOK, RowInv, LeaseInv, BillingInv, NEW w \in Workers, Claims(w)
  PROVE  BillingInv'
<1> USE Types
<1>1. PICK j \in Jobs :
        /\ OtherRows(j) /\ OtherWorkers(w) /\ accepted' = accepted
        /\ job[j].status = "QUEUED"
        /\ job'[j].status = "RUNNING"
        /\ job'[j].token = job[j].attempts + 1
        /\ job'[j].submission = job[j].submission
        /\ worker'[w].step = "preparing" /\ worker'[w].job = j
  BY DEF NoBill, Claims
<1>2. job[j].submission = "NOT_STARTED" /\ accepted[j] = 0
  BY <1>1 DEF RowInv, BillingInv, AcceptedInv, Terminal
<1>3. ASSUME NEW v \in Workers, v # w
      PROVE  worker'[v] = worker[v]
  BY <1>1, <1>3 DEF OtherWorkers
<1>4. ASSUME NEW v \in Workers, v # w, Busy(v)
      PROVE  /\ worker[v].step = "calling" => worker[v].job # j
             /\ Held(v)' => worker[v].job # j
             /\ worker[v].job # j => SameRow(worker[v].job)
  <2>1. worker[v].step = "calling" => worker[v].job # j
    BY <1>1 DEF BillingInv, CallerInv, Held, RowOf
  <2>2. worker[v].job = j => ~Held(v)'
    BY <1>1, <1>3, <1>4 DEF LeaseInv, Held, RowOf
  <2>3. worker[v].job # j => SameRow(worker[v].job)
    BY <1>1, <1>4 DEF OtherRows
  <2>4. QED
    BY <2>1, <2>2, <2>3
<1>5. CallerInv'
  BY <1>1, <1>3, <1>4 DEF BillingInv, CallerInv, SameRow, Held, RowOf, Busy, BusySteps
<1>6. OneCaller'
  BY <1>1, <1>3 DEF BillingInv, OneCaller
<1>7. PreparingInv'
  BY <1>1, <1>2, <1>3, <1>4 DEF BillingInv, PreparingInv, SameRow, Held, RowOf,
     Busy, BusySteps
<1>8. FailingInv'
  BY <1>1, <1>3, <1>4 DEF BillingInv, FailingInv, SameRow, Held, RowOf, Busy, BusySteps
<1>9. AcceptedInv' /\ UnsubmittedFailureIsUnbilled'
  BY <1>1, <1>2 DEF OtherRows, SameRow, BillingInv, AcceptedInv,
     UnsubmittedFailureIsUnbilled
<1>10. QED
  BY <1>5, <1>6, <1>7, <1>8, <1>9 DEF BillingInv

LEMMA RecoveryBilling ==
  ASSUME TypeOK, RowInv, BillingInv, NEW w \in Workers, Recovers(w)
  PROVE  BillingInv'
<1> USE Types
<1>1. /\ accepted' = accepted
      /\ \A j \in Jobs : SameRow(j) \/ RowRecovered(j)
      /\ worker'[w].step \notin BusySteps
      /\ \A v \in Workers : v # w => worker'[v] = worker[v]
  BY DEF NoBill, Recovers, OtherWorkers, Busy
<1>2. ASSUME NEW v \in Workers, Busy(v), Held(v)', worker'[v] = worker[v]
      PROVE  Held(v) /\ RowOf(v)'.submission = RowOf(v).submission
  BY <1>1, <1>2 DEF RowRecovered, SameRow, Held, RowOf
<1>3. CallerInv'
  <2> SUFFICES ASSUME NEW v \in Workers, worker'[v].step = "calling"
               PROVE  /\ accepted'[worker'[v].job] = 0
                      /\ \/ Held(v)' /\ RowOf(v)'.submission = "SUBMITTING"
                         \/ /\ RowOf(v)'.status = "FAILED"
                            /\ RowOf(v)'.submission # "NOT_STARTED"
    BY DEF CallerInv
  <2>1. worker'[v] = worker[v] /\ worker[v].step = "calling" /\ worker[v].job \in Jobs
    BY <1>1 DEF Busy, BusySteps
  <2>2. /\ accepted[worker[v].job] = 0
        /\ \/ Held(v) /\ RowOf(v).submission = "SUBMITTING"
           \/ RowOf(v).status = "FAILED" /\ RowOf(v).submission # "NOT_STARTED"
    BY <2>1 DEF BillingInv, CallerInv
  <2>3. QED
    BY <1>1, <2>1, <2>2 DEF RowRecovered, SameRow, Held, RowOf
<1>4. OneCaller'
  BY <1>1 DEF BillingInv, OneCaller, BusySteps
<1>5. PreparingInv' /\ FailingInv'
  BY <1>1, <1>2 DEF BillingInv, PreparingInv, FailingInv, Busy, BusySteps
<1>6. AcceptedInv' /\ UnsubmittedFailureIsUnbilled'
  BY <1>1 DEF RowRecovered, SameRow, BillingInv, AcceptedInv, Terminal,
     UnsubmittedFailureIsUnbilled
<1>7. QED
  BY <1>3, <1>4, <1>5, <1>6 DEF BillingInv

LEMMA BillingStep ==
  ASSUME TypeOK, RowInv, LeaseInv, BillingInv, KindOfStep PROVE BillingInv'
<1>1. CASE Idles
  BY <1>1 DEF NoBill, Idles, SameRows, SameRow, BillingInv, CallerInv, OneCaller,
     PreparingInv, FailingInv, AcceptedInv, UnsubmittedFailureIsUnbilled, Held,
     RowOf, TypeOK, WorkersTypeOK, Busy, BusySteps
<1>2. ASSUME NEW w \in Workers, Passes(w) PROVE BillingInv'
  BY <1>2, QuietBilling DEF NoBill, Passes
<1>3. QED
  BY <1>1, <1>2, QueueBilling, HolderBilling, CallBilling, ClaimBilling,
     RecoveryBilling DEF KindOfStep

\* Whatever a worker keeps as its failure came from this code.
LEMMA RetryStep ==
  ASSUME TypeOK, RetryInv, AnyStep PROVE RetryInv'
<1>1. ASSUME worker' = worker PROVE RetryInv'
  BY <1>1 DEF RetryInv
<1>2. ASSUME NEW w \in Workers, OtherWorkers(w), Honours(w) PROVE RetryInv'
  BY <1>2 DEF RetryInv, OtherWorkers, Honours
<1>3. QED
  BY <1>1, <1>2 DEF AnyStep, KindOfStep, Idles, Queues, Passes, Marks, MarksAnswer,
     Completes, GivesUp, Bills, Claims, Recovers, Calls, ChangesItsRow

-----------------------------------------------------------------------------
(* Runs.                                                                   *)

LEMMA OneRunStep ==
  ASSUME TypeOK, OneRun, [Next]_vars PROVE OneRun'
<1>1. CASE run' = run
  BY <1>1 DEF OneRun, Created
<1>2. ASSUME NEW k \in Keys, NEW e \in Experiments, CreateRun(k, e) PROVE OneRun'
  <2>1. /\ ~Created(k)
        /\ \A l \in Keys : Created(l) => run[l].experiment # e
        /\ run'[k].experiment = e
        /\ \A l \in Keys : l # k => run'[l] = run[l]
    BY <1>2 DEF CreateRun, Fingerprint, TypeOK
  <2>2. QED
    BY <2>1, BenchmarkAssumption DEF OneRun, Created
<1>3. QED
  BY <1>1, <1>2 DEF Next, RunOnce, LeaseExpires, Heartbeat, Crash, Restart,
     RecoverExpiredJobs, ClaimNextJob, NothingToClaim, PreparationFails,
     MarkSubmitting, CallProvider, MarkSubmitted, PutObject, ReadActiveJob,
     CommitResult, CompensateResult, FailOrRetry, vars

-----------------------------------------------------------------------------
(* Results and objects.                                                    *)

\* What most steps do: store and results stay, attempts and successes too,
\* and no worker gets on the way to its COMMIT.
SameAttempts == \A j \in Jobs : job'[j].attempts = job[j].attempts
SameSuccess  == \A j \in Jobs :
                  job'[j].status = "SUCCEEDED" <=> job[j].status = "SUCCEEDED"

Writing == {"reading", "committing"}

NoWriter(w) ==
  /\ OtherWorkers(w)
  /\ Busy(w)' => Busy(w) /\ SameTurn(w)
  /\ worker'[w].step \in Writing => worker[w].step \in Writing

LEMMA QuietRows ==
  ASSUME TypeOK, RowInv, NEW w \in Workers,
         \/ Passes(w) \/ Marks(w) \/ MarksAnswer(w) \/ GivesUp(w) \/ Recovers(w)
  PROVE  SameAttempts /\ SameSuccess
<1> USE DEF SameAttempts, SameSuccess, SameRow
<1>1. CASE Passes(w)
  BY <1>1 DEF Passes, SameRows
<1>2. CASE Recovers(w)
  BY <1>2 DEF Recovers, RowRecovered
<1>3. CASE Marks(w) \/ MarksAnswer(w) \/ GivesUp(w)
  BY <1>3, Types DEF Marks, MarksAnswer, GivesUp, ChangesItsRow, OtherRows, Held, RowOf
<1>4. QED
  BY <1>1, <1>2, <1>3

LEMMA QuietResults ==
  ASSUME TypeOK, ResultInv, SameAttempts, SameSuccess,
         UNCHANGED <<result, objects, ackLost>>,
         \/ worker' = worker
         \/ \E w \in Workers : NoWriter(w)
  PROVE  ResultInv'
<1>1. ASSUME NEW v \in Workers
      PROVE  /\ Busy(v)' => Busy(v) /\ SameTurn(v)
             /\ worker'[v].step \in Writing => worker[v].step \in Writing
  BY DEF NoWriter, OtherWorkers, SameTurn, Busy
<1>2. \A v \in Workers :
        /\ Busy(v)' /\ result'[worker'[v].job] = worker'[v].token
             => worker'[v].job \in ackLost'
        /\ worker'[v].step \in Writing => ObjectKey(v)' \in objects'
  BY <1>1 DEF ResultInv, SameTurn, ObjectKey, Writing, Busy, BusySteps
<1>3. (\A j \in Jobs : result'[j] <= job'[j].attempts) /\ ResultsMatchRows'
  BY DEF ResultInv, ResultsMatchRows, SameAttempts, SameSuccess
<1>4. QED
  BY <1>2, <1>3 DEF ResultInv, Writing

LEMMA ClaimResults ==
  ASSUME TypeOK, ResultInv, NEW w \in Workers, ClaimNextJob(w)
  PROVE  ResultInv'
<1> USE Types DEF ResultInv
<1>1. UNCHANGED <<result, objects, ackLost>>
  BY DEF ClaimNextJob
<1>2. PICK j \in Jobs :
        /\ OtherRows(j) /\ OtherWorkers(w)
        /\ job[j].status = "QUEUED" /\ job'[j].status = "RUNNING"
        /\ job'[j].attempts = job[j].attempts + 1
        /\ worker'[w].step = "preparing"
        /\ worker'[w].job = j /\ worker'[w].token = job[j].attempts + 1
  BY ClaimNextJobKind DEF Claims
<1>3. \A k \in Jobs : result'[k] <= job'[k].attempts
  BY <1>1, <1>2 DEF OtherRows, SameRow
<1>4. result[j] # job[j].attempts + 1
  OBVIOUS
<1>5. \A v \in Workers : v # w => worker'[v] = worker[v]
  BY <1>2 DEF OtherWorkers
<1>6. \A v \in Workers :
        /\ Busy(v)' /\ result'[worker'[v].job] = worker'[v].token
             => worker'[v].job \in ackLost'
        /\ worker'[v].step \in {"reading", "committing"} =>
             ObjectKey(v)' \in objects'
  BY <1>1, <1>2, <1>4, <1>5 DEF Busy, ObjectKey
<1>7. ResultsMatchRows'
  BY <1>1, <1>2 DEF ResultsMatchRows, OtherRows, SameRow
<1>8. QED
  BY <1>3, <1>6, <1>7

LEMMA PutResults ==
  ASSUME TypeOK, ResultInv, NEW w \in Workers, PutObject(w)
  PROVE  ResultInv'
<1> USE Types DEF ResultInv
<1>1. /\ UNCHANGED <<job, result, ackLost>> /\ Busy(w)
      /\ objects \subseteq objects'
      /\ \/ Goto(w, "reading") /\ objects' = objects \cup {ObjectKey(w)}
         \/ \E state \in {"AMBIGUOUS", "SUBMITTED"} : Fail(w, Failed(state, TRUE))
  BY DEF PutObject, Busy, BusySteps
<1>2. /\ OtherWorkers(w) /\ SameTurn(w)
      /\ \/ worker'[w].step = "reading" /\ ObjectKey(w) \in objects'
         \/ worker'[w].step = "failing"
  <2>1. CASE Goto(w, "reading") /\ objects' = objects \cup {ObjectKey(w)}
    BY <2>1, GotoEffect
  <2>2. ASSUME NEW state \in {"AMBIGUOUS", "SUBMITTED"}, Fail(w, Failed(state, TRUE))
        PROVE  OtherWorkers(w) /\ SameTurn(w) /\ worker'[w].step = "failing"
    BY <1>1, <2>2, SubmittedFails
  <2>3. QED
    BY <1>1, <2>1, <2>2
<1>3. \A v \in Workers : /\ ObjectKey(v)' = ObjectKey(v)
                         /\ v # w => worker'[v] = worker[v]
  BY <1>2 DEF OtherWorkers, SameTurn, ObjectKey
<1>4. \A v \in Workers :
        /\ Busy(v)' /\ result'[worker'[v].job] = worker'[v].token
             => worker'[v].job \in ackLost'
        /\ worker'[v].step \in {"reading", "committing"} =>
             ObjectKey(v)' \in objects'
  BY <1>1, <1>2, <1>3 DEF Busy, SameTurn
<1>5. ResultsMatchRows'
  BY <1>1 DEF ResultsMatchRows
<1>6. QED
  BY <1>1, <1>4, <1>5

\* Only the holder commits, once per job, under a token nobody else has.
LEMMA CommitResults ==
  ASSUME TypeOK, RowInv, LeaseInv, ResultInv, NEW w \in Workers, CommitResult(w)
  PROVE  ResultInv'
<1> USE Types
<1> DEFINE j == worker[w].job
           t == worker[w].token
<1>1. /\ worker[w].step = "committing" /\ Busy(w) /\ objects' = objects
      /\ j \in Jobs /\ t # 0 /\ t <= job[j].attempts /\ ObjectKey(w) \in objects
  <2>1. worker[w].step = "committing" /\ Busy(w) /\ objects' = objects
    BY DEF CommitResult, Busy, BusySteps
  <2>2. QED
    BY <2>1 DEF LeaseInv, RowOf, ResultInv
<1>2. \/ ~Busy(w)'
      \/ worker'[w].step = "compensating" /\ SameTurn(w)
  BY GotoEffect, AtEffect DEF CommitResult, Finish, Steps, BusySteps
<1>3. CASE Passes(w) /\ UNCHANGED <<result, ackLost>>
  <2>1. NoWriter(w)
    BY <1>1, <1>2, <1>3 DEF Passes, NoWriter, Writing, Busy, BusySteps
  <2>2. QED
    BY <1>1, <1>3, <2>1, QuietRows, QuietResults
<1>4. CASE Completes(w) /\ Committed(w)
  <2>1. /\ OtherRows(j) /\ OtherWorkers(w)
        /\ job'[j].attempts = job[j].attempts
        /\ job'[j].status = "SUCCEEDED"
        /\ result[j] = 0
        /\ result' = [result EXCEPT ![j] = t]
    BY <1>4 DEF Completes, ChangesItsRow, RowOf, Committed
  <2>2. \A k \in Jobs : result'[k] = IF k = j THEN t ELSE result[k]
    BY <1>1, <2>1 DEF TypeOK
  <2>3. \A k \in Jobs : result'[k] <= job'[k].attempts
    BY <1>1, <2>1, <2>2 DEF ResultInv, OtherRows, SameRow
  <2>4. \/ ackLost' = ackLost /\ ~Busy(w)'
        \/ ackLost' = ackLost \cup {j}
    <3>1. CASE Finish(w) /\ UNCHANGED ackLost
      BY <3>1, AtEffect DEF Finish, Steps, BusySteps
    <3>2. result' # result
      BY <1>1, <2>1, <2>2
    <3>3. QED
      BY <3>1, <3>2 DEF CommitResult
  <2>5. ASSUME NEW v \in Workers, v # w, Busy(v), worker[v].job = j
        PROVE  worker[v].token # t
    BY <1>1, <2>5 DEF LeaseInv
  <2>6. ASSUME NEW v \in Workers
        PROVE  /\ Busy(v)' /\ result'[worker'[v].job] = worker'[v].token
                    => worker'[v].job \in ackLost'
               /\ worker'[v].step \in Writing => ObjectKey(v)' \in objects'
    <3>1. CASE v = w
      BY <1>2, <2>4, <3>1 DEF Busy, BusySteps, SameTurn, Writing
    <3>2. CASE v # w
      <4>1. worker'[v] = worker[v] /\ (Busy(v) => worker[v].job \in Jobs)
        BY <2>1, <3>2 DEF OtherWorkers
      <4>2. Busy(v)' => Busy(v)
        BY <4>1 DEF Busy
      <4>3. ackLost \subseteq ackLost'
        BY <2>4
      <4>4. worker[v].step \in Writing => ObjectKey(v) \in objects
        BY DEF ResultInv, Writing
      <4>5. Busy(v) /\ result[worker[v].job] = worker[v].token
              => worker[v].job \in ackLost
        BY DEF ResultInv
      <4>6. QED
        BY <1>1, <2>2, <2>5, <3>2, <4>1, <4>2, <4>3, <4>4, <4>5 DEF ObjectKey
    <3>3. QED
      BY <3>1, <3>2
  <2>7. ResultsMatchRows'
    <3>1. <<j, t>> \in objects'
      BY <1>1 DEF ObjectKey
    <3>2. ackLost \subseteq ackLost'
      BY <2>4
    <3>3. QED
      BY <1>1, <2>1, <2>2, <3>1, <3>2
      DEF ResultInv, ResultsMatchRows, OtherRows, SameRow
  <2>8. QED
    BY <2>3, <2>6, <2>7 DEF ResultInv, Writing
<1>5. QED
  BY <1>3, <1>4, CommitResultKind

\* A compensation deletes only what its worker put.
LEMMA CompensateResults ==
  ASSUME TypeOK, LeaseInv, ResultInv, NEW w \in Workers, CompensateResult(w)
  PROVE  ResultInv'
<1> USE Types DEF ResultInv
<1>1. /\ UNCHANGED <<job, result, ackLost>> /\ Busy(w)
      /\ objects' \in {objects, objects \ {ObjectKey(w)}}
  BY DEF CompensateResult, Busy, BusySteps
<1>2. OtherWorkers(w) /\ SameTurn(w) /\ worker'[w].step = "failing"
  BY <1>1, SubmittedFails DEF CompensateResult
<1>3. ASSUME NEW v \in Workers, v # w, Busy(v)
      PROVE  ObjectKey(v) # ObjectKey(w)
  BY <1>1, <1>3 DEF LeaseInv, ObjectKey
<1>4. \A v \in Workers : v # w => worker'[v] = worker[v] /\ ObjectKey(v)' = ObjectKey(v)
  BY <1>2 DEF OtherWorkers, ObjectKey
<1>5. \A v \in Workers :
        /\ Busy(v)' /\ result'[worker'[v].job] = worker'[v].token
             => worker'[v].job \in ackLost'
        /\ worker'[v].step \in {"reading", "committing"} =>
             ObjectKey(v)' \in objects'
  BY <1>1, <1>2, <1>3, <1>4 DEF Busy, BusySteps, SameTurn
<1>6. ResultsMatchRows'
  <2>1. ASSUME NEW k \in Jobs \ ackLost, result[k] # 0
        PROVE  <<k, result[k]>> \in objects'
    <3>1. <<k, result[k]>> \in objects
      BY <2>1 DEF ResultsMatchRows
    <3>2. <<k, result[k]>> # ObjectKey(w)
      BY <1>1, <2>1 DEF ObjectKey
    <3>3. QED
      BY <1>1, <3>1, <3>2
  <2>2. QED
    BY <1>1, <2>1 DEF ResultsMatchRows
<1>7. QED
  BY <1>1, <1>5, <1>6

\* Steps that neither write the store nor a result.
LEMMA OtherResults ==
  ASSUME TypeOK, RowInv, RetryInv, ResultInv, NEW w \in Workers,
         \/ RecoverExpiredJobs(w) \/ NothingToClaim(w) \/ PreparationFails(w)
         \/ MarkSubmitting(w) \/ CallProvider(w) \/ MarkSubmitted(w)
         \/ ReadActiveJob(w) \/ FailOrRetry(w) \/ Heartbeat(w)
         \/ Crash(w) \/ Restart(w)
  PROVE  ResultInv'
<1> USE DEF NoWriter, Busy, BusySteps, Writing
<1>1. UNCHANGED <<result, objects, ackLost>>
  BY DEF RecoverExpiredJobs, NothingToClaim, PreparationFails, MarkSubmitting,
     CallProvider, MarkSubmitted, ReadActiveJob, FailOrRetry, Heartbeat, Crash,
     Restart
<1>2. SameAttempts /\ SameSuccess
  <2>1. CASE CallProvider(w)
    BY <2>1 DEF CallProvider, SameAttempts, SameSuccess
  <2>2. CASE ~CallProvider(w)
    BY <2>2, QuietRows, RecoverExpiredJobsKind, PassingKinds, HeartbeatKind,
       MarkSubmittingKind, MarkSubmittedKind, FailOrRetryKind
  <2>3. QED
    BY <2>1, <2>2
<1>3. worker' = worker \/ NoWriter(w)
  <2>1. CASE RecoverExpiredJobs(w) \/ NothingToClaim(w) \/ Restart(w)
    BY <2>1, GotoEffect DEF RecoverExpiredJobs, NothingToClaim, Restart
  <2>2. CASE PreparationFails(w)
    BY <2>2, FailEffect DEF PreparationFails
  <2>3. CASE MarkSubmitting(w) \/ MarkSubmitted(w) \/ CallProvider(w)
    <3>1. /\ worker[w].step \in {"preparing", "called", "calling"}
          /\ \/ \E step \in {"calling", "storing", "called"} : Goto(w, step)
             \/ \E f : Fail(w, f)
      BY <2>3 DEF MarkSubmitting, MarkSubmitted, CallProvider
    <3>2. /\ OtherWorkers(w) /\ SameTurn(w)
          /\ worker'[w].step \in {"calling", "storing", "called", "failing"}
      BY <3>1, GotoEffect, FailEffect
    <3>3. QED
      BY <3>1, <3>2
  <2>4. CASE ReadActiveJob(w)
    <3>1. /\ worker[w].step = "reading"
          /\ Goto(w, "committing") \/ Goto(w, "compensating")
      BY <2>4 DEF ReadActiveJob
    <3>2. QED
      BY <3>1, GotoEffect
  <2>5. CASE FailOrRetry(w) \/ Crash(w)
    BY <2>5, AtEffect DEF FailOrRetry, Finish, Crash, Steps
  <2>6. CASE Heartbeat(w)
    BY <2>6 DEF Heartbeat
  <2>7. QED
    BY <2>1, <2>2, <2>3, <2>4, <2>5, <2>6
<1>4. QED
  BY <1>1, <1>2, <1>3, QuietResults

LEMMA ResultStep ==
  ASSUME TypeOK, RowInv, LeaseInv, RetryInv, ResultInv, [Next]_vars
  PROVE  ResultInv'
<1>1. ASSUME NEW k \in Keys, NEW e \in Experiments, CreateRun(k, e)
      PROVE  ResultInv'
  <2>1. SameAttempts /\ SameSuccess
    BY <1>1, CreateRunKind DEF Queues, RowQueued, SameRow, SameAttempts, SameSuccess,
       RowInv
  <2>2. QED
    BY <1>1, <2>1, QuietResults DEF CreateRun
<1>2. ASSUME NEW j \in Jobs, LeaseExpires(j) PROVE ResultInv'
  <2>1. SameAttempts /\ SameSuccess
    BY <1>2, LeaseExpiresKind DEF Idles, SameRows, SameRow, SameAttempts, SameSuccess
  <2>2. QED
    BY <1>2, <2>1, QuietResults DEF LeaseExpires
<1>3. ASSUME NEW w \in Workers,
             RunOnce(w) \/ Heartbeat(w) \/ Crash(w) \/ Restart(w)
      PROVE  ResultInv'
  BY <1>3, ClaimResults, PutResults, CommitResults, CompensateResults, OtherResults
  DEF RunOnce
<1>4. CASE UNCHANGED vars
  BY <1>4, QuietResults DEF vars, SameAttempts, SameSuccess
<1>5. QED
  BY <1>1, <1>2, <1>3, <1>4 DEF Next

-----------------------------------------------------------------------------
(* The theorems.                                                           *)

\* The part of the invariant that holds of any provider.
CoreInv == TypeOK /\ OneRun /\ RowInv /\ LeaseInv /\ ResultInv /\ RetryInv

LEMMA CoreInit == Init => CoreInv
<1> SUFFICES ASSUME Init PROVE CoreInv
  OBVIOUS
<1>1. OneRun /\ RowInv
  BY KeyOfJob DEF Init, OneRun, Created, RowInv, AbsentRow
<1>2. LeaseInv /\ ResultInv /\ RetryInv
  BY DEF Init, At, Unsent, Failed, AbsentRow, Busy, BusySteps, LeaseInv, ResultInv,
     ResultsMatchRows, RetryInv
<1>3. QED
  BY <1>1, <1>2, TypeInit DEF CoreInv

LEMMA CoreStep == ASSUME CoreInv, [Next]_vars PROVE CoreInv'
<1>1. TypeOK' /\ AnyStep
  BY TypeStep, AnyKinds DEF CoreInv
<1>2. QED
  BY <1>1, OneRunStep, RowStep, LeaseStep, ResultStep, RetryStep DEF CoreInv

LEMMA CoreInvariant == Spec => []CoreInv
  BY CoreInit, CoreStep, PTL DEF Spec

LEMMA BillingInit == Init => BillingInv
  BY DEF Init, At, AbsentRow, BillingInv, CallerInv, OneCaller, PreparingInv,
     FailingInv, AcceptedInv, UnsubmittedFailureIsUnbilled

\* A result exists exactly for the jobs that succeeded and keeps its object
\* unless the answer to its COMMIT was lost, whatever the provider answers:
\* the transaction of storeResult() and its compensation.
THEOREM ResultsAndRowsMatch == Spec => []ResultsMatchRows
<1>1. CoreInv => ResultsMatchRows
  BY DEF CoreInv, ResultInv
<1>2. QED
  BY <1>1, CoreInvariant, PTL

\* The inductive invariant of runs, rows, leases, results and bills: what
\* recoverExpiredJobs(), the claim, the fence and the conditional updates of
\* the benchmark worker keep together.
THEOREM BenchmarkInvariant ==
  ASSUME Honest(StyleAnswers) PROVE Spec => []BenchmarkInv
<1>1. ASSUME CoreInv, BillingInv, [Next]_vars PROVE BillingInv'
  BY <1>1, HonestKinds, BillingStep DEF CoreInv
<1>2. CoreInv /\ BillingInv => BenchmarkInv
  BY DEF CoreInv, BenchmarkInv
<1>3. QED
  BY <1>1, <1>2, BillingInit, CoreInvariant, PTL DEF Spec

\* A variant of an experiment is paid for at most once, whatever keys request
\* it (the fingerprint) and whatever happens to the workers (the fence).
THEOREM NoSampleIsPaidTwice ==
  ASSUME Honest(StyleAnswers) PROVE Spec => []OneSamplePerVariant
<1>1. BenchmarkInv => OneSamplePerVariant
  <2> SUFFICES ASSUME BenchmarkInv, NEW k \in Keys, NEW l \in Keys,
                      NEW v \in Variants, run[k].experiment = run[l].experiment
               PROVE  /\ accepted[<<k, v>>] <= 1
                      /\ accepted[<<k, v>>] > 0 /\ accepted[<<l, v>>] > 0 => k = l
    BY DEF OneSamplePerVariant
  <2>1. <<k, v>> \in Jobs /\ <<k, v>>[1] = k
    BY DEF Jobs
  <2>2. accepted[<<k, v>>] # 0 => Created(k)
    BY <2>1 DEF BenchmarkInv, BillingInv, AcceptedInv, RowInv, Terminal
  <2>3. accepted[<<k, v>>] \in Nat /\ accepted[<<k, v>>] <= 1
    BY <2>1 DEF BenchmarkInv, TypeOK, BillingInv, AcceptedInv
  <2>4. QED
    BY <2>2, <2>3 DEF BenchmarkInv, OneRun
<1>2. QED
  BY <1>1, BenchmarkInvariant, PTL

\* The steps of the lifecycle, read off the rows.
LEMMA LifecycleStep ==
  ASSUME TypeOK, RowInv, AnyStep PROVE Lifecycle!Next
<1> USE Types
<1> SUFFICES ASSUME NEW k \in Jobs
             PROVE  \/ Lifecycle!Unchanged(k) \/ Lifecycle!Enqueue(k)
                    \/ Lifecycle!Start(k) \/ Lifecycle!Requeue(k)
                    \/ Lifecycle!Decide(k)
  BY DEF Lifecycle!Next
<1> USE DEF Lifecycle!Unchanged, Lifecycle!Enqueue, Lifecycle!Start,
            Lifecycle!Requeue, Lifecycle!Decide, Lifecycle!Moves,
            Lifecycle!Keeps, Lifecycle!Terminal, RowInv
<1>1. ASSUME SameRow(k) PROVE Lifecycle!Unchanged(k)
  BY <1>1 DEF SameRow
<1>2. ASSUME NEW l \in Keys, Queues(l)
      PROVE  Lifecycle!Unchanged(k) \/ Lifecycle!Enqueue(k)
  BY <1>1, <1>2 DEF Queues, RowQueued
<1>3. ASSUME NEW w \in Workers, Recovers(w)
      PROVE  Lifecycle!Unchanged(k) \/ Lifecycle!Requeue(k) \/ Lifecycle!Decide(k)
  BY <1>1, <1>3 DEF Recovers, RowRecovered
<1>4. ASSUME NEW w \in Workers, Claims(w)
      PROVE  Lifecycle!Unchanged(k) \/ Lifecycle!Start(k)
  BY <1>1, <1>4 DEF Claims, OtherRows
<1>5. ASSUME NEW w \in Workers,
             Marks(w) \/ MarksAnswer(w) \/ Completes(w) \/ GivesUp(w)
      PROVE  Lifecycle!Unchanged(k) \/ Lifecycle!Requeue(k) \/ Lifecycle!Decide(k)
  BY <1>1, <1>5 DEF Marks, MarksAnswer, Completes, GivesUp, ChangesItsRow,
     OtherRows, Held, RowOf
<1>6. QED
  BY <1>1, <1>2, <1>3, <1>4, <1>5
  DEF AnyStep, KindOfStep, Idles, Passes, Bills, Calls, SameRows

\* The table BenchmarkJob implements JobLifecycle: a job is queued once,
\* attempted at most MaxAttempts times and decided once.
THEOREM BenchmarkLifecycleImplemented == Spec => ImplementsLifecycle
<1>1. Init => Lifecycle!Init
  BY DEF Init, AbsentRow, Lifecycle!Init
<1>2. ASSUME CoreInv, [Next]_vars PROVE [Lifecycle!Next]_(Lifecycle!vars)
  BY <1>2, AnyKinds, LifecycleStep DEF CoreInv
<1>3. QED
  BY <1>1, <1>2, CoreInvariant, PTL
  DEF Spec, ImplementsLifecycle, Lifecycle!Spec
=============================================================================
