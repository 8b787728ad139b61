----------------------- MODULE GenerationSafetyProofs -----------------------
(***************************************************************************)
(* The type and safety theorems of GenerationWorker, for every number of   *)
(* jobs, workers, attempts, polls and faults.                              *)
(*                                                                         *)
(* For safety the actions are first sorted into a few kinds of step,       *)
(* described by the fields of the rows and of the workers the invariant    *)
(* speaks of; then each kind is shown to preserve the invariant.           *)
(***************************************************************************)
EXTENDS GenerationInvariants, TLAPS

-----------------------------------------------------------------------------
(* Type correctness.                                                       *)

\* The ranges of the two bounded counters.
LEMMA Counts ==
  /\ 0 \in AttemptCounts /\ AttemptCounts \subseteq Nat
  /\ \A n \in AttemptCounts :
       n < MaxAttempts => n + 1 \in AttemptCounts /\ n + 1 # 0
  /\ 0 \in PollCounts
  /\ \A n \in PollCounts : n < MaxPolls => n + 1 \in PollCounts
  BY BoundsAssumption DEF AttemptCounts, PollCounts

\* The recovery queries map rows to rows.
LEMMA RecoveredType == ASSUME NEW r \in Row PROVE Recovered(r) \in Row
  BY Counts DEF Recovered, Expired, Row, Active, Terminal, NeverSubmitted

\* Every answer of the provider yields a failure.
LEMMA FailureType == ASSUME NEW a \in Answers PROVE FailureOf(a) \in Failure
  BY DEF FailureOf, Answers, Failure, Ambiguous

\* Constant rows, processes and failures have their types.
LEMMA ConstantTypes ==
  /\ AbsentRow \in Row
  /\ \A step \in Steps : At(step) \in Process
  /\ BeforeSubmission \in Failure
  /\ AfterSubmission \in Failure
  /\ \A id \in BOOLEAN : Ambiguous(id) \in Failure
  BY Counts DEF AbsentRow, Row, Active, Terminal, At, Process,
     BeforeSubmission, AfterSubmission, Ambiguous, Failure

LEMMA TypeInit == Init => TypeOK
<1> SUFFICES ASSUME Init PROVE TypeOK
  OBVIOUS
<1>1. job \in [Jobs -> Row] /\ WorkersTypeOK
  BY ConstantTypes DEF Init, WorkersTypeOK, Busy, BusySteps, At, Steps
<1>2. QED
  BY <1>1, Counts DEF Init, TypeOK

\* A worker that only moves on stays well typed.
LEMMA GotoType ==
  ASSUME TypeOK, NEW w \in Workers, NEW step \in Steps, Goto(w, step),
         step \in BusySteps => Busy(w)
  PROVE  WorkersTypeOK'
  BY DEF TypeOK, WorkersTypeOK, Goto, Process, Busy

\* A worker that turns to its failure handling stays well typed.
LEMMA FailType ==
  ASSUME TypeOK, NEW w \in Workers, NEW f \in Failure, Fail(w, f), Busy(w)
  PROVE  WorkersTypeOK'
  BY DEF TypeOK, WorkersTypeOK, Fail, Process, Busy, Steps, BusySteps

\* A worker without a job is well typed.
LEMMA AtType ==
  ASSUME TypeOK, NEW w \in Workers, NEW step \in Steps \ BusySteps,
         worker' = [worker EXCEPT ![w] = At(step)]
  PROVE  WorkersTypeOK'
<1>1. At(step) \in Process /\ At(step).step \notin BusySteps
  BY ConstantTypes DEF At
<1>2. QED
  BY <1>1 DEF TypeOK, WorkersTypeOK, Busy

\* The row of a busy worker is a row, and may be replaced by any other.
LEMMA RowType ==
  ASSUME TypeOK, NEW w \in Workers, Busy(w)
  PROVE  /\ worker[w].job \in Jobs
         /\ worker[w].token \in AttemptCounts /\ worker[w].token # 0
         /\ worker[w].failure \in Failure
         /\ RowOf(w) \in Row
         /\ \A r \in Row : SetRow(w, r) => job' \in [Jobs -> Row]
  BY DEF TypeOK, WorkersTypeOK, RowOf, SetRow, Process

\* The row a failure leaves behind is a row.
LEMMA FailedRowType ==
  ASSUME TypeOK, NEW w \in Workers, Busy(w)
  PROVE  FailedRow(w) \in Row
<1> DEFINE f == worker[w].failure
           status == IF Retries(w) THEN "QUEUED" ELSE "FAILED"
           submission == CASE f.ambiguous -> "AMBIGUOUS"
                           [] ~f.ambiguous /\ f.submitted -> "SUBMITTED"
                           [] OTHER -> "NOT_STARTED"
<1>1. f \in Failure /\ RowOf(w) \in Row
  BY RowType
<1>2. status \in {"QUEUED", "FAILED"} /\ f.requestId \in BOOLEAN
  BY <1>1 DEF Failure
<1>3. submission \in {"AMBIGUOUS", "SUBMITTED", "NOT_STARTED"}
  BY <1>1 DEF Failure
<1>4. FailedRow(w) = [RowOf(w) EXCEPT !.status = status,
                                      !.requestId = f.requestId,
                                      !.token = 0,
                                      !.expired = FALSE,
                                      !.submission = submission]
  BY DEF FailedRow
<1> HIDE DEF f, status, submission
<1>5. QED
  BY <1>1, <1>2, <1>3, <1>4, Counts DEF Row, Active, Terminal

\* Every action of the program and of its environment keeps the types.
LEMMA TypeStep == TypeOK /\ [Next]_vars => TypeOK'
<1> SUFFICES ASSUME TypeOK, [Next]_vars PROVE TypeOK'
  OBVIOUS
<1> USE Counts, ConstantTypes
<1>1. ASSUME NEW j \in Jobs, CreateJob(j) PROVE TypeOK'
  <2>1. [AbsentRow EXCEPT !.status = "QUEUED", !.createdAt = clock] \in Row
    BY DEF TypeOK, Row, Active
  <2>2. QED
    BY <1>1, <2>1 DEF CreateJob, TypeOK, WorkersTypeOK, Busy
<1>2. ASSUME NEW j \in Jobs, LeaseExpires(j) PROVE TypeOK'
  BY <1>2 DEF LeaseExpires, TypeOK, WorkersTypeOK, Row, Busy
<1>3. ASSUME NEW w \in Workers, RecoverExpiredJobs(w) PROVE TypeOK'
  <2>1. WorkersTypeOK'
    BY <1>3, GotoType DEF RecoverExpiredJobs, Steps, BusySteps
  <2>2. QED
    BY <1>3, <2>1, RecoveredType DEF RecoverExpiredJobs, TypeOK
<1>4. ASSUME NEW w \in Workers, ClaimNextJob(w) PROVE TypeOK'
  <2>1. PICK j \in Claimable(w) :
          /\ job' = [job EXCEPT ![j].status = "RUNNING",
                                ![j].attempts = @ + 1,
                                ![j].token = job[j].attempts + 1,
                                ![j].expired = FALSE]
          /\ worker' = [worker EXCEPT ![w] = [At("preparing") EXCEPT
                                                !.job = j,
                                                !.token = job[j].attempts + 1]]
    BY <1>4 DEF ClaimNextJob
  <2>2. j \in Jobs /\ job[j] \in Row /\ job[j].attempts + 1 \in AttemptCounts
      /\ job[j].attempts + 1 # 0
    BY <2>1 DEF Claimable, TypeOK, Row
  <2>3. job' \in [Jobs -> Row]
    BY <2>1, <2>2 DEF TypeOK, Row, Active
  <2>4. [At("preparing") EXCEPT !.job = j, !.token = job[j].attempts + 1]
          \in Process
    BY <2>2 DEF At, Process, Steps, BusySteps
  <2>5. WorkersTypeOK'
    BY <2>1, <2>2, <2>4 DEF TypeOK, WorkersTypeOK, Busy, At
  <2>6. QED
    BY <1>4, <2>3, <2>5 DEF ClaimNextJob, TypeOK
<1>5. ASSUME NEW w \in Workers, NothingToClaim(w) \/ Restart(w) PROVE TypeOK'
  <2>1. WorkersTypeOK'
    BY <1>5, GotoType DEF NothingToClaim, Restart, Steps, BusySteps
  <2>2. QED
    BY <1>5, <2>1 DEF NothingToClaim, Restart, TypeOK
<1>6. ASSUME NEW w \in Workers, PreparationFails(w) PROVE TypeOK'
  <2>1. WorkersTypeOK'
    BY <1>6, FailType DEF PreparationFails, Busy, BusySteps
  <2>2. QED
    BY <1>6, <2>1 DEF PreparationFails, TypeOK
<1>7. ASSUME NEW w \in Workers, MarkSubmitting(w) PROVE TypeOK'
  <2>1. Busy(w)
    BY <1>7 DEF MarkSubmitting, Busy, BusySteps
  <2>2. WorkersTypeOK'
    BY <1>7, <2>1, GotoType, FailType DEF MarkSubmitting, Steps, BusySteps
  <2>3. [RowOf(w) EXCEPT !.submission = "SUBMITTING", !.invoked = TRUE,
                         !.expired = FALSE] \in Row
    BY <2>1, RowType DEF Row
  <2>4. job' \in [Jobs -> Row]
    BY <1>7, <2>1, <2>3, RowType DEF MarkSubmitting, MaybeSetRow, TypeOK
  <2>5. QED
    BY <1>7, <2>2, <2>4 DEF MarkSubmitting, TypeOK, Fault, NoFault
<1>8. ASSUME NEW w \in Workers, GenerateBackground(w) PROVE TypeOK'
  <2>1. Busy(w)
    BY <1>8 DEF GenerateBackground, Busy, BusySteps
  <2>2. WorkersTypeOK'
    BY <1>8, <2>1, GotoType, FailType, AnswersAssumption, FailureType
    DEF GenerateBackground, Steps, BusySteps
  <2>3. accepted' \in [Jobs -> Nat]
    <3>1. worker[w].job \in Jobs /\ accepted \in [Jobs -> Nat]
      BY <2>1, RowType DEF TypeOK
    <3>2. \/ accepted' = accepted
          \/ accepted' = [accepted EXCEPT ![worker[w].job] = @ + 1]
      BY <1>8 DEF GenerateBackground
    <3>3. QED
      BY <3>1, <3>2
  <2>4. QED
    BY <1>8, <2>2, <2>3 DEF GenerateBackground, TypeOK
<1>9. ASSUME NEW w \in Workers, MarkSubmitted(w) PROVE TypeOK'
  <2>1. Busy(w)
    BY <1>9 DEF MarkSubmitted, Busy, BusySteps
  <2>2. WorkersTypeOK'
    <3>1. \/ Goto(w, "polling")
          \/ Fail(w, AfterSubmission)
          \/ Fail(w, Ambiguous(TRUE))
      BY <1>9 DEF MarkSubmitted
    <3>2. QED
      BY <2>1, <3>1, GotoType, FailType DEF Steps, BusySteps
  <2>3. [RowOf(w) EXCEPT !.submission = "SUBMITTED", !.requestId = TRUE,
                         !.expired = FALSE] \in Row
    BY <2>1, RowType DEF Row
  <2>4. job' \in [Jobs -> Row]
    BY <1>9, <2>1, <2>3, RowType DEF MarkSubmitted, MaybeSetRow, TypeOK
  <2>5. UNCHANGED <<clock, result, objects, accepted, ackLost>>
        /\ (Fault \/ NoFault)
    BY <1>9 DEF MarkSubmitted
  <2>6. QED
    BY <2>2, <2>4, <2>5 DEF TypeOK, Fault, NoFault
<1>10. ASSUME NEW w \in Workers, PollPending(w) PROVE TypeOK'
  <2>1. Busy(w)
    BY <1>10 DEF PollPending, Busy, BusySteps
  <2>2. WorkersTypeOK'
    BY <1>10, Counts DEF PollPending, PollsLeft, TypeOK, WorkersTypeOK, Process, Busy
  <2>3. [RowOf(w) EXCEPT !.expired = FALSE] \in Row
    BY <2>1, RowType DEF Row
  <2>4. job' \in [Jobs -> Row]
    BY <1>10, <2>1, <2>3, RowType DEF PollPending, TypeOK
  <2>5. QED
    BY <1>10, <2>2, <2>4 DEF PollPending, TypeOK
<1>11. ASSUME NEW w \in Workers, PollEnds(w) PROVE TypeOK'
  <2>1. WorkersTypeOK'
    BY <1>11, GotoType, FailType DEF PollEnds, Busy, Steps, BusySteps
  <2>2. QED
    BY <1>11, <2>1 DEF PollEnds, TypeOK
<1>12. ASSUME NEW w \in Workers, PutObject(w) \/ CompensateResult(w)
       PROVE  TypeOK'
  <2>1. Busy(w)
    BY <1>12 DEF PutObject, CompensateResult, Busy, BusySteps
  <2>2. WorkersTypeOK'
    BY <1>12, <2>1, GotoType, FailType DEF PutObject, CompensateResult, Steps,
       BusySteps
  <2>3. ObjectKey(w) \in Jobs \X AttemptCounts
    BY <2>1, RowType DEF ObjectKey
  <2>4. QED
    BY <1>12, <2>2, <2>3 DEF PutObject, CompensateResult, ObjectDeleted, TypeOK,
       Fault, NoFault
<1>13. ASSUME NEW w \in Workers, CommitResult(w) PROVE TypeOK'
  <2>1. Busy(w)
    BY <1>13 DEF CommitResult, Busy, BusySteps
  <2>2. WorkersTypeOK'
    BY <1>13, <2>1, GotoType, AtType DEF CommitResult, Finish, Steps, BusySteps
  <2>3. [RowOf(w) EXCEPT !.status = "SUCCEEDED", !.token = 0,
                         !.submission = "COMPLETED", !.requestId = TRUE,
                         !.expired = FALSE] \in Row
    BY <2>1, RowType DEF Row, Terminal
  <2>4. job' \in [Jobs -> Row]
    BY <1>13, <2>1, <2>3, RowType DEF CommitResult, TypeOK
  <2>5. QED
    BY <1>13, <2>1, <2>2, <2>4, RowType DEF CommitResult, TypeOK, Fault, NoFault
<1>14. ASSUME NEW w \in Workers, FailOrRetry(w) PROVE TypeOK'
  <2>1. Busy(w)
    BY <1>14 DEF FailOrRetry, Busy, BusySteps
  <2>2. WorkersTypeOK'
    BY <1>14, AtType DEF FailOrRetry, Finish, Steps, BusySteps
  <2>3. job' \in [Jobs -> Row]
    BY <1>14, <2>1, RowType, FailedRowType DEF FailOrRetry, TypeOK
  <2>4. QED
    BY <1>14, <2>2, <2>3 DEF FailOrRetry, TypeOK
<1>15. ASSUME NEW w \in Workers, Heartbeat(w) PROVE TypeOK'
  <2>1. Busy(w)
    BY <1>15 DEF Heartbeat
  <2>2. WorkersTypeOK'
    BY <1>15 DEF Heartbeat, TypeOK, WorkersTypeOK, Process, Busy
  <2>3. [RowOf(w) EXCEPT !.expired = FALSE] \in Row
    BY <2>1, RowType DEF Row
  <2>4. job' \in [Jobs -> Row]
    BY <1>15, <2>1, <2>3, RowType DEF Heartbeat, TypeOK
  <2>5. QED
    BY <1>15, <2>2, <2>4 DEF Heartbeat, TypeOK, Fault, NoFault
<1>16. ASSUME NEW w \in Workers, Crash(w) PROVE TypeOK'
  <2>1. WorkersTypeOK'
    BY <1>16, AtType DEF Crash, Steps, BusySteps
  <2>2. QED
    BY <1>16, <2>1 DEF Crash, TypeOK, Fault
<1>17. CASE UNCHANGED vars
  BY <1>17 DEF vars, TypeOK, WorkersTypeOK, Busy
<1>18. QED
  BY <1>1, <1>2, <1>3, <1>4, <1>5, <1>6, <1>7, <1>8, <1>9, <1>10, <1>11, <1>12,
     <1>13, <1>14, <1>15, <1>16, <1>17 DEF Next, RunOnce

\* Type correctness of the whole system.
THEOREM TypeCorrect == Spec => []TypeOK
<1>1. QED
  BY TypeInit, TypeStep, PTL DEF Spec

-----------------------------------------------------------------------------
(* Kinds of step.                                                          *)

SameRow(j) == /\ job'[j].status     = job[j].status
              /\ job'[j].token      = job[j].token
              /\ job'[j].attempts   = job[j].attempts
              /\ job'[j].submission = job[j].submission

SameRows        == \A j \in Jobs : SameRow(j)
OtherRows(j)    == \A k \in Jobs : k # j => SameRow(k)
OtherWorkers(w) == \A v \in Workers : v # w => worker'[v] = worker[v]
SameTurn(w)     == /\ worker'[w].job = worker[w].job
                   /\ worker'[w].token = worker[w].token

\* The worker ends its turn, or goes on to a step the invariant leaves free.
Leaves(w) ==
  \/ ~Busy(w)'
  \/ /\ Busy(w) /\ Busy(w)' /\ SameTurn(w)
     /\ \/ worker'[w].step \notin {"preparing", "calling", "failing"}
        \/ worker'[w].step = "failing" /\ worker'[w].failure.submitted

\* No row and no bill changes; the worker may also stay where it is or give
\* up before the provider took anything on.
Passes(w) ==
  /\ SameRows /\ accepted' = accepted /\ OtherWorkers(w)
  /\ \/ Leaves(w)
     \/ /\ Busy(w) /\ Busy(w)' /\ SameTurn(w)
        /\ \/ /\ worker'[w].step = worker[w].step
              /\ worker'[w].failure = worker[w].failure
           \/ /\ worker[w].step \in {"preparing", "calling"}
              /\ worker'[w].step = "failing"

\* A worker that holds its row changes it and nothing else.
ChangesItsRow(w) ==
  /\ Busy(w) /\ Held(w)
  /\ OtherRows(worker[w].job) /\ accepted' = accepted /\ OtherWorkers(w)

\* It marks the row before the call ...
Marks(w) ==
  /\ ChangesItsRow(w)
  /\ worker[w].step = "preparing" /\ SameTurn(w)
  /\ worker'[w].step \in {"calling", "failing"}
  /\ LET r == RowOf(w) IN
       /\ job'[worker[w].job].status = r.status
       /\ job'[worker[w].job].token = r.token
       /\ job'[worker[w].job].attempts = r.attempts
       /\ job'[worker[w].job].submission = "SUBMITTING"

\* ... or after it ...
MarksAnswer(w) ==
  /\ ChangesItsRow(w) /\ Leaves(w)
  /\ LET r == RowOf(w) IN
       /\ job'[worker[w].job].status = r.status
       /\ job'[worker[w].job].token = r.token
       /\ job'[worker[w].job].attempts = r.attempts
       /\ job'[worker[w].job].submission = "SUBMITTED"

\* ... or completes the job ...
Completes(w) ==
  /\ ChangesItsRow(w) /\ Leaves(w)
  /\ job'[worker[w].job].status = "SUCCEEDED"
  /\ job'[worker[w].job].token = 0
  /\ job'[worker[w].job].attempts = RowOf(w).attempts

\* ... or fails it, or gives it back if nothing was submitted.
GivesUp(w) ==
  /\ ChangesItsRow(w) /\ Leaves(w)
  /\ worker[w].step = "failing"
  /\ job'[worker[w].job].token = 0
  /\ job'[worker[w].job].attempts = RowOf(w).attempts
  /\ \/ /\ job'[worker[w].job].status = "FAILED"
        /\ job'[worker[w].job].submission # "NOT_STARTED"
     \/ /\ ~worker[w].failure.submitted /\ ~worker[w].failure.ambiguous
        /\ job'[worker[w].job].submission = "NOT_STARTED"
        /\ \/ job'[worker[w].job].status = "FAILED"
           \/ /\ job'[worker[w].job].status = "QUEUED"
              /\ worker[w].token < MaxAttempts

\* The provider takes a request on.
Bills(w) ==
  /\ SameRows /\ OtherWorkers(w) /\ Leaves(w)
  /\ worker[w].step = "calling" /\ worker'[w].step # "calling"
  /\ accepted' = [accepted EXCEPT ![worker[w].job] = @ + 1]

\* A worker takes a job under a new token.
Claims(w) ==
  \E j \in Jobs :
    /\ OtherRows(j) /\ OtherWorkers(w) /\ accepted' = accepted
    /\ job[j].status = "QUEUED" /\ job[j].attempts < MaxAttempts
    /\ job'[j].status = "RUNNING"
    /\ job'[j].attempts = job[j].attempts + 1
    /\ job'[j].token = job[j].attempts + 1
    /\ job'[j].submission = job[j].submission
    /\ worker'[w].step = "preparing"
    /\ worker'[w].job = j
    /\ worker'[w].token = job[j].attempts + 1

\* The recovery ends leases; the worker that runs it has no job.
RowRecovered(j) ==
  /\ job[j].status = "RUNNING"
  /\ job'[j].token = 0
  /\ job'[j].attempts = job[j].attempts
  /\ \/ /\ job'[j].status = "FAILED"
        /\ job'[j].submission = "NOT_STARTED" => job[j].submission = "NOT_STARTED"
     \/ /\ job'[j].status = "QUEUED" /\ job[j].attempts < MaxAttempts
        /\ job[j].submission = "NOT_STARTED"
        /\ job'[j].submission = "NOT_STARTED"

Recovers(w) ==
  /\ \A j \in Jobs : SameRow(j) \/ RowRecovered(j)
  /\ accepted' = accepted /\ OtherWorkers(w) /\ ~Busy(w)'

\* The service queues a job.
Queues(j) ==
  /\ OtherRows(j) /\ accepted' = accepted /\ worker' = worker
  /\ job[j].status = "ABSENT"
  /\ \A k \in Jobs : ProjectOf[k] = ProjectOf[j] => job[k].status \notin Active
  /\ job'[j].status = "QUEUED"
  /\ job'[j].token = 0 /\ job'[j].attempts = 0
  /\ job'[j].submission = "NOT_STARTED"

Idles == SameRows /\ accepted' = accepted /\ worker' = worker

KindOfStep ==
  \/ Idles
  \/ \E j \in Jobs : Queues(j)
  \/ \E w \in Workers : \/ Passes(w) \/ Marks(w) \/ MarksAnswer(w)
                        \/ Completes(w) \/ GivesUp(w) \/ Bills(w)
                        \/ Claims(w) \/ Recovers(w)

-----------------------------------------------------------------------------
(* Every step is of one of these kinds.                                    *)

LEMMA GotoEffect ==
  ASSUME TypeOK, NEW w \in Workers, NEW step, Goto(w, step)
  PROVE  /\ OtherWorkers(w) /\ SameTurn(w)
         /\ worker'[w].step = step
         /\ worker'[w].failure = worker[w].failure
  BY DEF TypeOK, WorkersTypeOK, Process, Goto, OtherWorkers, SameTurn

LEMMA FailEffect ==
  ASSUME TypeOK, NEW w \in Workers, NEW f, Fail(w, f)
  PROVE  /\ OtherWorkers(w) /\ SameTurn(w)
         /\ worker'[w].step = "failing"
         /\ worker'[w].failure = f
  BY DEF TypeOK, WorkersTypeOK, Process, Fail, OtherWorkers, SameTurn

LEMMA AtEffect ==
  ASSUME TypeOK, NEW w \in Workers, NEW step \in Steps \ BusySteps,
         worker' = [worker EXCEPT ![w] = At(step)]
  PROVE  OtherWorkers(w) /\ ~Busy(w)' /\ worker'[w].step = step
  BY DEF TypeOK, WorkersTypeOK, At, OtherWorkers, Busy

LEMMA SetRowEffect ==
  ASSUME TypeOK, NEW w \in Workers, Busy(w), NEW r, SetRow(w, r)
  PROVE  job'[worker[w].job] = r /\ OtherRows(worker[w].job)
  BY RowType DEF TypeOK, SetRow, OtherRows, SameRow

\* A failure after the submission may not be retried.
LEMMA SubmittedFailures ==
  /\ AfterSubmission.submitted
  /\ \A id : Ambiguous(id).submitted
  BY DEF AfterSubmission, BeforeSubmission, Ambiguous

LEMMA CreateJobKind ==
  ASSUME TypeOK, NEW j \in Jobs, CreateJob(j) PROVE Queues(j)
  BY DEF TypeOK, CreateJob, ActiveJob, AbsentRow, Queues, OtherRows, SameRow

LEMMA LeaseExpiresKind ==
  ASSUME TypeOK, NEW j \in Jobs, LeaseExpires(j) PROVE Idles
  BY DEF TypeOK, Row, LeaseExpires, Idles, SameRows, SameRow

LEMMA RecoveredKind ==
  ASSUME NEW r \in Row
  PROVE  \/ Recovered(r) = r
         \/ /\ r.status = "RUNNING"
            /\ Recovered(r).token = 0
            /\ Recovered(r).attempts = r.attempts
            /\ \/ /\ Recovered(r).status = "FAILED"
                  /\ Recovered(r).submission = "NOT_STARTED"
                       => r.submission = "NOT_STARTED"
               \/ /\ Recovered(r).status = "QUEUED"
                  /\ r.attempts < MaxAttempts
                  /\ r.submission = "NOT_STARTED"
                  /\ Recovered(r).submission = "NOT_STARTED"
  BY DEF Row, Recovered, Expired, NeverSubmitted

LEMMA RecoverExpiredJobsKind ==
  ASSUME TypeOK, NEW w \in Workers, RecoverExpiredJobs(w) PROVE Recovers(w)
<1>1. ASSUME NEW j \in Jobs PROVE SameRow(j) \/ RowRecovered(j)
  <2>1. job[j] \in Row /\ job'[j] = Recovered(job[j])
    BY DEF TypeOK, RecoverExpiredJobs
  <2>2. QED
    BY <2>1, RecoveredKind DEF SameRow, RowRecovered
<1>2. QED
  BY <1>1, GotoEffect DEF RecoverExpiredJobs, Recovers, Busy, BusySteps

LEMMA ClaimNextJobKind ==
  ASSUME TypeOK, NEW w \in Workers, ClaimNextJob(w) PROVE Claims(w)
<1>1. PICK j \in Claimable(w) :
        /\ job' = [job EXCEPT ![j].status = "RUNNING",
                              ![j].attempts = @ + 1,
                              ![j].token = job[j].attempts + 1,
                              ![j].expired = FALSE]
        /\ worker' = [worker EXCEPT ![w] = [At("preparing") EXCEPT
                                              !.job = j,
                                              !.token = job[j].attempts + 1]]
  BY DEF ClaimNextJob
<1>2. j \in Jobs /\ job[j] \in Row /\ job[j].status = "QUEUED"
      /\ job[j].attempts < MaxAttempts
  BY <1>1 DEF Claimable, TypeOK
<1>3. OtherRows(j)
  BY <1>1, <1>2 DEF TypeOK, OtherRows, SameRow
<1>4. /\ job'[j].status = "RUNNING"
      /\ job'[j].attempts = job[j].attempts + 1
      /\ job'[j].token = job[j].attempts + 1
      /\ job'[j].submission = job[j].submission
  BY <1>1, <1>2 DEF TypeOK, Row
<1>5. /\ worker'[w].step = "preparing"
      /\ worker'[w].job = j
      /\ worker'[w].token = job[j].attempts + 1
      /\ OtherWorkers(w)
  BY <1>1, <1>2 DEF TypeOK, WorkersTypeOK, At, OtherWorkers
<1>6. QED
  BY <1>2, <1>3, <1>4, <1>5 DEF ClaimNextJob, Claims

LEMMA PassingKinds ==
  ASSUME TypeOK, NEW w \in Workers,
         \/ NothingToClaim(w) \/ PreparationFails(w) \/ PollEnds(w)
         \/ PutObject(w) \/ CompensateResult(w) \/ Crash(w) \/ Restart(w)
  PROVE  Passes(w)
<1> USE DEF Passes, Leaves, SameRows, SameRow, Busy, BusySteps
<1>1. CASE NothingToClaim(w) \/ Restart(w)
  BY <1>1, GotoEffect DEF NothingToClaim, Restart
<1>2. CASE PreparationFails(w)
  BY <1>2, FailEffect DEF PreparationFails
<1>3. CASE PollEnds(w)
  <2>1. /\ worker[w].step = "polling"
        /\ \/ Goto(w, "storing")
           \/ \E f : f.submitted /\ Fail(w, f)
    BY <1>3, SubmittedFailures DEF PollEnds
  <2>2. QED
    BY <1>3, <2>1, GotoEffect, FailEffect DEF PollEnds
<1>4. CASE PutObject(w)
  BY <1>4, GotoEffect, FailEffect, SubmittedFailures DEF PutObject
<1>5. CASE CompensateResult(w)
  BY <1>5, FailEffect, SubmittedFailures DEF CompensateResult
<1>6. CASE Crash(w)
  BY <1>6, AtEffect DEF Crash, Steps
<1>7. QED
  BY <1>1, <1>2, <1>3, <1>4, <1>5, <1>6

LEMMA PollPendingKind ==
  ASSUME TypeOK, NEW w \in Workers, PollPending(w) PROVE Passes(w)
<1>1. Busy(w)
  BY DEF PollPending, Busy, BusySteps
<1>2. SameRows
  BY <1>1, RowType DEF PollPending, SetRow, RowOf, TypeOK, Row, SameRows, SameRow
<1>3. /\ OtherWorkers(w) /\ SameTurn(w)
      /\ worker'[w].step = worker[w].step
      /\ worker'[w].failure = worker[w].failure
  BY DEF PollPending, TypeOK, WorkersTypeOK, Process, OtherWorkers, SameTurn
<1>4. QED
  BY <1>1, <1>2, <1>3 DEF PollPending, Passes, Busy

LEMMA HeartbeatKind ==
  ASSUME TypeOK, NEW w \in Workers, Heartbeat(w) PROVE Passes(w)
<1>1. Busy(w)
  BY DEF Heartbeat
<1>2. SameRows
  BY <1>1, RowType DEF Heartbeat, SetRow, RowOf, TypeOK, Row, SameRows, SameRow
<1>3. /\ OtherWorkers(w) /\ SameTurn(w)
      /\ worker'[w].step = worker[w].step
      /\ worker'[w].failure = worker[w].failure
  BY DEF Heartbeat, TypeOK, WorkersTypeOK, Process, OtherWorkers, SameTurn
<1>4. QED
  BY <1>1, <1>2, <1>3 DEF Heartbeat, Passes, Busy

LEMMA MarkSubmittingKind ==
  ASSUME TypeOK, NEW w \in Workers, MarkSubmitting(w)
  PROVE  Passes(w) \/ Marks(w)
<1> DEFINE marked == [RowOf(w) EXCEPT !.submission = "SUBMITTING",
                                      !.invoked = TRUE, !.expired = FALSE]
<1>1. Busy(w) /\ worker[w].step = "preparing" /\ accepted' = accepted
  BY DEF MarkSubmitting, Busy, BusySteps
<1>2. \/ Goto(w, "calling") /\ Held(w) /\ SetRow(w, marked)
      \/ Fail(w, BeforeSubmission) /\ UNCHANGED job
      \/ Fail(w, BeforeSubmission) /\ Held(w) /\ SetRow(w, marked)
  BY DEF MarkSubmitting, MaybeSetRow
<1>3. CASE SetRow(w, marked) /\ Held(w)
  <2>1. RowOf(w) \in Row /\ job'[worker[w].job] = marked
        /\ OtherRows(worker[w].job)
    BY <1>1, <1>3, SetRowEffect, RowType
  <2>2. /\ OtherWorkers(w) /\ SameTurn(w)
        /\ worker'[w].step \in {"calling", "failing"}
    BY <1>2, GotoEffect, FailEffect
  <2>3. QED
    BY <1>1, <1>3, <2>1, <2>2 DEF Marks, ChangesItsRow, Row
<1>4. CASE Fail(w, BeforeSubmission) /\ UNCHANGED job
  BY <1>1, <1>4, FailEffect DEF Passes, SameRows, SameRow, Busy, BusySteps
<1>5. QED
  BY <1>2, <1>3, <1>4

LEMMA MarkSubmittedKind ==
  ASSUME TypeOK, NEW w \in Workers, MarkSubmitted(w)
  PROVE  Passes(w) \/ MarksAnswer(w)
<1> DEFINE marked == [RowOf(w) EXCEPT !.submission = "SUBMITTED",
                                      !.requestId = TRUE, !.expired = FALSE]
<1>1. Busy(w) /\ worker[w].step = "called" /\ accepted' = accepted
  BY DEF MarkSubmitted, Busy, BusySteps
<1>2. /\ \/ Goto(w, "polling")
         \/ \E f : f.submitted /\ Fail(w, f)
      /\ UNCHANGED job \/ (Held(w) /\ SetRow(w, marked))
  BY SubmittedFailures DEF MarkSubmitted, MaybeSetRow
<1>3. OtherWorkers(w) /\ Leaves(w)
  BY <1>1, <1>2, GotoEffect, FailEffect DEF Leaves, Busy, BusySteps
<1>4. CASE Held(w) /\ SetRow(w, marked)
  <2>1. RowOf(w) \in Row /\ job'[worker[w].job] = marked
        /\ OtherRows(worker[w].job)
    BY <1>1, <1>4, SetRowEffect, RowType
  <2>2. QED
    BY <1>1, <1>3, <1>4, <2>1 DEF MarksAnswer, ChangesItsRow, Row
<1>5. CASE UNCHANGED job
  BY <1>1, <1>3, <1>5 DEF Passes, SameRows, SameRow
<1>6. QED
  BY <1>2, <1>4, <1>5

LEMMA CommitResultKind ==
  ASSUME TypeOK, NEW w \in Workers, CommitResult(w)
  PROVE  Passes(w) \/ Completes(w)
<1> DEFINE done == [RowOf(w) EXCEPT !.status = "SUCCEEDED", !.token = 0,
                                    !.submission = "COMPLETED",
                                    !.requestId = TRUE, !.expired = FALSE]
<1>1. Busy(w) /\ worker[w].step = "committing" /\ accepted' = accepted
  BY DEF CommitResult, Busy, BusySteps
<1>2. /\ Finish(w) \/ Goto(w, "compensating")
      /\ UNCHANGED job \/ (Held(w) /\ SetRow(w, done))
  BY DEF CommitResult
<1>3. OtherWorkers(w) /\ Leaves(w)
  BY <1>1, <1>2, GotoEffect, AtEffect DEF Finish, Leaves, Busy, Steps, BusySteps
<1>4. CASE Held(w) /\ SetRow(w, done)
  <2>1. RowOf(w) \in Row /\ job'[worker[w].job] = done
        /\ OtherRows(worker[w].job)
    BY <1>1, <1>4, SetRowEffect, RowType
  <2>2. QED
    BY <1>1, <1>3, <1>4, <2>1 DEF Completes, ChangesItsRow, Row
<1>5. CASE UNCHANGED job
  BY <1>1, <1>3, <1>5 DEF Passes, SameRows, SameRow
<1>6. QED
  BY <1>2, <1>4, <1>5

LEMMA FailOrRetryKind ==
  ASSUME TypeOK, NEW w \in Workers, FailOrRetry(w)
  PROVE  Passes(w) \/ GivesUp(w)
<1>1. Busy(w) /\ worker[w].step = "failing" /\ accepted' = accepted
  BY DEF FailOrRetry, Busy, BusySteps
<1>2. OtherWorkers(w) /\ Leaves(w)
  BY <1>1, AtEffect DEF FailOrRetry, Finish, Leaves, Steps, BusySteps
<1>3. CASE Held(w)
  <2> DEFINE f == worker[w].failure
             r == FailedRow(w)
  <2>1. RowOf(w) \in Row /\ f \in Failure
    BY <1>1, RowType
  <2>2. job'[worker[w].job] = r /\ OtherRows(worker[w].job)
    BY <1>1, <1>3, SetRowEffect DEF FailOrRetry
  <2>3. r.token = 0 /\ r.attempts = RowOf(w).attempts
    BY <2>1 DEF FailedRow, Row
  <2>4. CASE f.ambiguous \/ f.submitted
    <3>1. r.status = "FAILED"
      BY <2>1, <2>4 DEF FailedRow, Retries, Row, Failure
    <3>2. r.submission # "NOT_STARTED"
      BY <2>1, <2>4 DEF FailedRow, Retries, Row, Failure
    <3>3. QED
      BY <1>1, <1>2, <1>3, <2>2, <2>3, <3>1, <3>2 DEF GivesUp, ChangesItsRow
  <2>5. CASE ~f.ambiguous /\ ~f.submitted
    <3>1. r.submission = "NOT_STARTED"
      BY <2>1, <2>5 DEF FailedRow, Retries, Row, Failure
    <3>2. \/ r.status = "FAILED"
          \/ r.status = "QUEUED" /\ worker[w].token < MaxAttempts
      BY <2>1, <2>5 DEF FailedRow, Retries, Row, Failure
    <3>3. QED
      BY <1>1, <1>2, <1>3, <2>2, <2>3, <2>5, <3>1, <3>2 DEF GivesUp, ChangesItsRow
  <2>6. QED
    BY <2>4, <2>5
<1>4. CASE ~Held(w)
  BY <1>1, <1>2, <1>4 DEF FailOrRetry, Passes, SameRows, SameRow
<1>5. QED
  BY <1>3, <1>4

\* Here the adapter's honesty is needed: of a request that was taken on, no
\* answer may say that it was rejected or never sent.
LEMMA GenerateBackgroundKind ==
  ASSUME TypeOK, Honest(ProviderAnswers),
         NEW w \in Workers, GenerateBackground(w)
  PROVE  Passes(w) \/ Bills(w)
<1>1. Busy(w) /\ worker[w].step = "calling" /\ SameRows
  BY DEF GenerateBackground, Busy, BusySteps, SameRows, SameRow
<1>2. PICK a \in ProviderAnswers :
        /\ accepted' = IF a.accepted
                         THEN [accepted EXCEPT ![worker[w].job] = @ + 1]
                         ELSE accepted
        /\ IF a.result = "OK" THEN Goto(w, "called") ELSE Fail(w, FailureOf(a))
  BY DEF GenerateBackground
<1>3. /\ OtherWorkers(w) /\ SameTurn(w)
      /\ \/ worker'[w].step = "called"
         \/ /\ worker'[w].step = "failing"
            /\ worker'[w].failure = FailureOf(a)
  BY <1>2, GotoEffect, FailEffect
<1>4. CASE a.accepted
  <2>1. FailureOf(a).submitted
    BY <1>4, SubmittedFailures DEF Honest, FailureOf
  <2>2. Leaves(w)
    BY <1>1, <1>3, <2>1 DEF Leaves, Busy, BusySteps
  <2>3. QED
    BY <1>1, <1>2, <1>3, <1>4, <2>2 DEF Bills
<1>5. CASE ~a.accepted
  BY <1>1, <1>2, <1>3, <1>5 DEF Passes, Leaves, Busy, BusySteps
<1>6. QED
  BY <1>4, <1>5

LEMMA Kinds ==
  ASSUME TypeOK, [Next]_vars
  PROVE  KindOfStep \/ \E w \in Workers : GenerateBackground(w)
<1>1. CASE UNCHANGED vars
  BY <1>1 DEF vars, KindOfStep, Idles, SameRows, SameRow
<1>2. ASSUME NEW j \in Jobs, CreateJob(j) \/ LeaseExpires(j) PROVE KindOfStep
  BY <1>2, CreateJobKind, LeaseExpiresKind DEF KindOfStep
<1>3. ASSUME NEW w \in Workers,
             RunOnce(w) \/ Heartbeat(w) \/ Crash(w) \/ Restart(w)
      PROVE  KindOfStep \/ GenerateBackground(w)
  BY <1>3, RecoverExpiredJobsKind, ClaimNextJobKind, PassingKinds,
     MarkSubmittingKind, MarkSubmittedKind, PollPendingKind, CommitResultKind,
     FailOrRetryKind, HeartbeatKind
  DEF RunOnce, KindOfStep
<1>4. QED
  BY <1>1, <1>2, <1>3 DEF Next

LEMMA HonestKinds ==
  ASSUME TypeOK, Honest(ProviderAnswers), [Next]_vars PROVE KindOfStep
  BY Kinds, GenerateBackgroundKind DEF KindOfStep

-----------------------------------------------------------------------------
(* Every kind of step preserves the invariant.                             *)

\* The parts of the types the arguments use.
LEMMA Types ==
  ASSUME TypeOK
  PROVE  /\ MaxAttempts \in Nat
         /\ \A j \in Jobs : job[j].attempts \in Nat /\ job[j].token \in Nat
         /\ \A j \in Jobs : accepted[j] \in Nat
         /\ \A w \in Workers : worker[w].token \in Nat
         /\ \A w \in Workers :
              Busy(w) => worker[w].job \in Jobs /\ worker[w].token # 0
  BY Counts, BoundsAssumption DEF TypeOK, WorkersTypeOK, Row, Process

LEMMA RowStep ==
  ASSUME TypeOK, RowInv, KindOfStep PROVE RowInv'
<1> USE Types DEF RowInv
<1>1. CASE Idles
  BY <1>1 DEF Idles, SameRows, SameRow
<1>2. ASSUME NEW j \in Jobs, Queues(j) PROVE RowInv'
  <2>1. 0 < MaxAttempts
    BY BoundsAssumption
  <2>2. QED
    BY <1>2, <2>1 DEF Queues, OtherRows, SameRow
<1>3. ASSUME NEW w \in Workers, Passes(w) \/ Bills(w) PROVE RowInv'
  BY <1>3 DEF Passes, Bills, SameRows, SameRow
<1>4. ASSUME NEW w \in Workers, Marks(w) \/ MarksAnswer(w) PROVE RowInv'
  BY <1>4 DEF Marks, MarksAnswer, ChangesItsRow, OtherRows, SameRow, Held, RowOf
<1>5. ASSUME NEW w \in Workers, Completes(w) PROVE RowInv'
  BY <1>5 DEF Completes, ChangesItsRow, OtherRows, SameRow
<1>6. ASSUME NEW w \in Workers, GivesUp(w) PROVE RowInv'
  BY <1>6 DEF GivesUp, ChangesItsRow, OtherRows, SameRow, Held, RowOf
<1>7. ASSUME NEW w \in Workers, Claims(w) PROVE RowInv'
  BY <1>7 DEF Claims, OtherRows, SameRow
<1>8. ASSUME NEW w \in Workers, Recovers(w) PROVE RowInv'
  BY <1>8 DEF Recovers, RowRecovered, SameRow
<1>9. QED
  BY <1>1, <1>2, <1>3, <1>4, <1>5, <1>6, <1>7, <1>8 DEF KindOfStep

\* No step lowers an attempt count, and only a claim hands out a token.
LEMMA LeaseStep ==
  ASSUME TypeOK, RowInv, LeaseInv,
         KindOfStep \/ \E w \in Workers : GenerateBackground(w)
  PROVE  LeaseInv'
<1> DEFINE SameTurns    == \A v \in Workers : Busy(v)' => Busy(v) /\ SameTurn(v)
           SameAttempts == \A j \in Jobs : job'[j].attempts = job[j].attempts
<1>1. ASSUME SameTurns, SameAttempts PROVE LeaseInv'
  <2>1. ASSUME NEW v \in Workers, Busy(v)'
        PROVE  worker'[v].token <= RowOf(v)'.attempts
    <3>1. Busy(v) /\ SameTurn(v)
      BY <1>1, <2>1 DEF Busy
    <3>2. worker[v].job \in Jobs
      BY <3>1, Types
    <3>3. worker[v].token <= job[worker[v].job].attempts
      BY <3>1 DEF LeaseInv, RowOf
    <3>4. QED
      BY <1>1, <3>1, <3>2, <3>3 DEF SameTurn, RowOf
  <2>2. ASSUME NEW u \in Workers, NEW v \in Workers, Busy(u)', Busy(v)',
               worker'[u].job = worker'[v].job,
               worker'[u].token = worker'[v].token
        PROVE  u = v
    <3>1. Busy(u) /\ SameTurn(u) /\ Busy(v) /\ SameTurn(v)
      BY <1>1, <2>2
    <3>2. QED
      BY <2>2, <3>1 DEF LeaseInv, SameTurn
  <2>3. QED
    BY <2>1, <2>2 DEF LeaseInv
<1>2. ASSUME NEW w \in Workers, OtherWorkers(w),
             Leaves(w) \/ (Busy(w) /\ SameTurn(w)) \/ ~Busy(w)'
      PROVE  SameTurns
  <2>1. ASSUME NEW v \in Workers, Busy(v)' PROVE Busy(v) /\ SameTurn(v)
    <3>1. CASE v = w
      BY <1>2, <2>1, <3>1 DEF Leaves
    <3>2. CASE v # w
      BY <1>2, <2>1, <3>2 DEF OtherWorkers, Busy, SameTurn
    <3>3. QED
      BY <3>1, <3>2
  <2>2. QED
    BY <2>1
<1> HIDE DEF SameTurns
<1>3. worker' = worker => SameTurns
  BY DEF SameTurns, SameTurn, Busy
<1>4. CASE Idles
  BY <1>1, <1>3, <1>4 DEF Idles, SameRows, SameRow
<1>5. ASSUME NEW j \in Jobs, Queues(j) PROVE LeaseInv'
  BY <1>1, <1>3, <1>5 DEF Queues, OtherRows, SameRow, RowInv
<1>6. ASSUME NEW w \in Workers, Passes(w) \/ Bills(w) PROVE LeaseInv'
  <2>1. SameAttempts
    BY <1>6 DEF Passes, Bills, SameRows, SameRow
  <2>2. SameTurns
    BY <1>2, <1>6 DEF Passes, Bills
  <2>3. QED
    BY <1>1, <2>1, <2>2
<1>7. ASSUME NEW w \in Workers,
             Marks(w) \/ MarksAnswer(w) \/ Completes(w) \/ GivesUp(w)
      PROVE  LeaseInv'
  <2>1. SameAttempts
    BY <1>7 DEF Marks, MarksAnswer, Completes, GivesUp, ChangesItsRow, OtherRows,
       SameRow, RowOf
  <2>2. SameTurns
    BY <1>2, <1>7 DEF Marks, MarksAnswer, Completes, GivesUp, ChangesItsRow
  <2>3. QED
    BY <1>1, <2>1, <2>2
<1>8. ASSUME NEW w \in Workers, Recovers(w) PROVE LeaseInv'
  <2>1. SameAttempts
    BY <1>8 DEF Recovers, RowRecovered, SameRow
  <2>2. SameTurns
    BY <1>2, <1>8 DEF Recovers
  <2>3. QED
    BY <1>1, <2>1, <2>2
<1>9. ASSUME NEW w \in Workers, Claims(w) PROVE LeaseInv'
  <2>1. PICK j \in Jobs :
          /\ OtherRows(j) /\ OtherWorkers(w)
          /\ job'[j].attempts = job[j].attempts + 1
          /\ worker'[w].job = j /\ worker'[w].token = job[j].attempts + 1
    BY <1>9 DEF Claims
  <2>2. ASSUME NEW v \in Workers, v # w, Busy(v)'
        PROVE  /\ Busy(v) /\ worker'[v] = worker[v]
               /\ worker[v].token <= job[worker[v].job].attempts
               /\ worker[v].job \in Jobs
    <3>1. Busy(v) /\ worker'[v] = worker[v]
      BY <2>1, <2>2 DEF OtherWorkers, Busy
    <3>2. worker[v].job \in Jobs
      BY <3>1, Types
    <3>3. QED
      BY <3>1, <3>2 DEF LeaseInv, RowOf
  <2>3. ASSUME NEW v \in Workers, Busy(v)'
        PROVE  worker'[v].token <= RowOf(v)'.attempts
    <3>1. CASE v = w
      BY <2>1, <3>1, Types DEF RowOf
    <3>2. CASE v # w
      <4>1. CASE worker[v].job = j
        <5>1. /\ worker'[v] = worker[v] /\ worker[v].token <= job[j].attempts
              /\ worker[v].token \in Nat /\ job[j].attempts \in Nat
          BY <2>2, <2>3, <3>2, <4>1, Types
        <5>2. RowOf(v)'.attempts = job[j].attempts + 1
          BY <2>1, <4>1, <5>1 DEF RowOf
        <5>3. QED
          BY <5>1, <5>2
      <4>2. CASE worker[v].job # j
        <5>1. /\ worker'[v] = worker[v] /\ worker[v].job \in Jobs
              /\ worker[v].token <= job[worker[v].job].attempts
          BY <2>2, <2>3, <3>2
        <5>2. job'[worker[v].job].attempts = job[worker[v].job].attempts
          BY <2>1, <4>2, <5>1 DEF OtherRows, SameRow
        <5>3. QED
          BY <5>1, <5>2 DEF RowOf
      <4>3. QED
        BY <4>1, <4>2
    <3>3. QED
      BY <3>1, <3>2
  <2>4. ASSUME NEW u \in Workers, NEW v \in Workers, Busy(u)', Busy(v)',
               worker'[u].job = worker'[v].job,
               worker'[u].token = worker'[v].token
        PROVE  u = v
    <3>1. job[j].attempts \in Nat
      BY Types
    <3>2. ASSUME NEW x \in Workers, x # w, Busy(x)', worker'[x].job = j
          PROVE  worker'[x].token # job[j].attempts + 1
      BY <2>2, <3>1, <3>2, Types
    <3>3. CASE u = w \/ v = w
      BY <2>1, <2>4, <3>2, <3>3
    <3>4. CASE u # w /\ v # w
      BY <2>2, <2>4, <3>4 DEF LeaseInv
    <3>5. QED
      BY <3>3, <3>4
  <2>5. QED
    BY <2>3, <2>4 DEF LeaseInv
<1>10. ASSUME NEW w \in Workers, GenerateBackground(w) PROVE LeaseInv'
  <2>1. SameAttempts
    BY <1>10 DEF GenerateBackground
  <2>2. OtherWorkers(w) /\ SameTurn(w) /\ Busy(w)
    BY <1>10, GotoEffect, FailEffect DEF GenerateBackground, Busy, BusySteps
  <2>3. QED
    BY <1>1, <1>2, <2>1, <2>2
<1>11. QED
  BY <1>4, <1>5, <1>6, <1>7, <1>8, <1>9, <1>10 DEF KindOfStep

\* Two workers never hold the same row.
LEMMA OneHolder ==
  ASSUME TypeOK, LeaseInv, NEW v \in Workers, NEW w \in Workers,
         Busy(v), Busy(w), worker[v].job = worker[w].job, Held(v), Held(w)
  PROVE  v = w
  BY DEF LeaseInv, Held

\* A worker that shares a job with the holder of its row neither holds the
\* row nor is about to call the provider.
LEMMA OthersAreLate ==
  ASSUME TypeOK, LeaseInv, CallerInv,
         NEW w \in Workers, Busy(w), Held(w),
         NEW v \in Workers, Busy(v), v # w, worker[v].job = worker[w].job
  PROVE  ~Held(v) /\ worker[v].step # "calling"
  BY OneHolder DEF CallerInv, Held, RowOf

\* Steps that change no row and no bill.
LEMMA QuietBilling ==
  ASSUME TypeOK, BillingInv, SameRows, accepted' = accepted,
         NEW w \in Workers, Passes(w)
  PROVE  BillingInv'
<1> USE Types
<1>1. ASSUME NEW v \in Workers, v # w PROVE worker'[v] = worker[v]
  BY <1>1 DEF Passes, OtherWorkers
<1>2. \A v \in Workers : worker'[v].step \in {"calling", "preparing"} =>
        worker[v].step = worker'[v].step /\ SameTurn(v) /\ Busy(v)
  BY <1>1 DEF Passes, Leaves, SameTurn, Busy, BusySteps
<1>3. CallerInv' /\ OneCaller' /\ PreparingInv'
  BY <1>2 DEF BillingInv, CallerInv, OneCaller, PreparingInv, Held, RowOf,
     SameTurn, SameRows, SameRow
<1>4. FailingInv'
  <2> SUFFICES ASSUME NEW v \in Workers, worker'[v].step = "failing", Held(v)',
                      ~worker'[v].failure.submitted,
                      ~worker'[v].failure.ambiguous
               PROVE  accepted'[worker'[v].job] = 0
    BY DEF FailingInv
  <2>1. /\ Busy(v) /\ SameTurn(v)
        /\ \/ /\ worker[v].step = "failing"
              /\ worker[v].failure = worker'[v].failure
           \/ worker[v].step \in {"preparing", "calling"}
    BY <1>1 DEF Passes, Leaves, SameTurn, Busy, BusySteps
  <2>2. Held(v) /\ worker[v].job \in Jobs
    BY <2>1 DEF Held, SameTurn, SameRows, SameRow
  <2>3. CASE worker[v].step = "failing" /\ worker[v].failure = worker'[v].failure
    BY <2>1, <2>2, <2>3 DEF BillingInv, FailingInv, SameTurn
  <2>4. CASE worker[v].step = "calling"
    BY <2>1, <2>4 DEF BillingInv, CallerInv, SameTurn
  <2>5. CASE worker[v].step = "preparing"
    BY <2>1, <2>2, <2>5 DEF BillingInv, PreparingInv, AcceptedInv, SameTurn, Held,
       RowOf, Terminal
  <2>6. QED
    BY <2>1, <2>3, <2>4, <2>5
<1>5. AcceptedInv' /\ UnsubmittedFailureIsUnbilled'
  BY DEF BillingInv, AcceptedInv, UnsubmittedFailureIsUnbilled, SameRows, SameRow
<1>6. QED
  BY <1>3, <1>4, <1>5 DEF BillingInv

LEMMA QueueBilling ==
  ASSUME TypeOK, BillingInv, NEW j \in Jobs, Queues(j) PROVE BillingInv'
<1> USE Types
<1>1. \A w \in Workers : Busy(w) => worker[w].job # j \/ ~Held(w)
  BY DEF Queues, Held
<1>2. accepted[j] = 0
  BY DEF Queues, BillingInv, AcceptedInv, Terminal
<1>3. CallerInv'
  BY DEF BillingInv, CallerInv, Queues, OtherRows, SameRow, Held, RowOf, Busy,
     BusySteps
<1>4. OneCaller'
  BY DEF BillingInv, OneCaller, Queues
<1>5. PreparingInv' /\ FailingInv'
  BY <1>2 DEF BillingInv, PreparingInv, FailingInv, Queues, OtherRows, SameRow,
     Held, RowOf, Busy, BusySteps
<1>6. AcceptedInv' /\ UnsubmittedFailureIsUnbilled'
  BY <1>2 DEF BillingInv, AcceptedInv, UnsubmittedFailureIsUnbilled, Queues,
     OtherRows, SameRow
<1>7. QED
  BY <1>3, <1>4, <1>5, <1>6 DEF BillingInv

\* What a holder's change of its row leaves to show: the other workers are
\* not disturbed by it.
LEMMA OthersUndisturbed ==
  ASSUME TypeOK, LeaseInv, BillingInv,
         NEW w \in Workers, ChangesItsRow(w),
         job'[worker[w].job].token \in {0, worker[w].token},
         NEW v \in Workers, v # w
  PROVE  /\ worker'[v] = worker[v]
         /\ worker[v].step = "calling" =>
              /\ accepted'[worker[v].job] = 0
              /\ \/ Held(v)' /\ RowOf(v)'.submission = "SUBMITTING"
                 \/ /\ RowOf(v)'.status = "FAILED"
                    /\ RowOf(v)'.submission # "NOT_STARTED"
         /\ Busy(v) /\ Held(v)' => /\ worker[v].job # worker[w].job
                                  /\ Held(v)
                                  /\ RowOf(v)'.submission = RowOf(v).submission
<1> USE Types
<1>1. worker'[v] = worker[v] /\ accepted' = accepted
  BY DEF ChangesItsRow, OtherWorkers
<1>2. ASSUME Busy(v), worker[v].job = worker[w].job
      PROVE  worker[v].step # "calling" /\ ~Held(v)'
  <2>1. worker[v].step # "calling" /\ ~Held(v)
    BY <1>2, OthersAreLate DEF ChangesItsRow, BillingInv
  <2>2. worker[v].token # worker[w].token
    BY <1>2 DEF ChangesItsRow, LeaseInv
  <2>3. ~Held(v)'
    BY <1>1, <1>2, <2>2 DEF Held
  <2>4. QED
    BY <2>1, <2>3
<1>3. ASSUME Busy(v), worker[v].job # worker[w].job
      PROVE  SameRow(worker[v].job)
  BY <1>3 DEF ChangesItsRow, OtherRows
<1>4. QED
  BY <1>1, <1>2, <1>3 DEF BillingInv, CallerInv, SameRow, Held, RowOf, Busy, BusySteps

LEMMA HolderBilling ==
  ASSUME TypeOK, RowInv, LeaseInv, BillingInv, NEW w \in Workers,
         Marks(w) \/ MarksAnswer(w) \/ Completes(w) \/ GivesUp(w)
  PROVE  BillingInv'
<1> USE Types
<1> DEFINE j == worker[w].job
<1>1. /\ Busy(w) /\ Held(w) /\ ChangesItsRow(w) /\ j \in Jobs
      /\ job[j].status = "RUNNING" /\ job[j].token = worker[w].token
      /\ accepted' = accepted
  BY DEF Marks, MarksAnswer, Completes, GivesUp, ChangesItsRow, Held
<1>2. job'[j].token \in {0, worker[w].token}
  BY <1>1 DEF Marks, MarksAnswer, Completes, GivesUp, RowOf
<1>3. accepted[j] = 0 \/ job[j].submission # "NOT_STARTED"
  BY <1>1 DEF BillingInv, AcceptedInv, Terminal
<1>4. CASE Marks(w)
  <2>1. accepted[j] = 0
    BY <1>1, <1>3, <1>4 DEF Marks, BillingInv, PreparingInv, RowOf
  <2>2. /\ Held(w)' /\ RowOf(w)'.submission = "SUBMITTING"
        /\ worker'[w].step \in {"calling", "failing"}
        /\ worker'[w].job = j
    BY <1>1, <1>4 DEF Marks, Held, RowOf, SameTurn
  <2>3. \A v \in Workers : v # w /\ worker[v].step = "calling" => worker[v].job # j
    BY <1>1, OthersAreLate DEF BillingInv, Busy, BusySteps
  <2>4. CallerInv'
    BY <1>1, <1>2, <2>1, <2>2, OthersUndisturbed DEF CallerInv
  <2>5. OneCaller'
    BY <1>1, <1>2, <2>2, <2>3, OthersUndisturbed DEF BillingInv, OneCaller
  <2>6. PreparingInv'
    BY <1>1, <1>2, <2>2, OthersUndisturbed DEF BillingInv, PreparingInv, Busy, BusySteps
  <2>7. FailingInv'
    BY <1>1, <1>2, <2>1, <2>2, OthersUndisturbed DEF BillingInv, FailingInv, Busy, BusySteps
  <2>8. AcceptedInv' /\ UnsubmittedFailureIsUnbilled'
    BY <1>1, <1>4 DEF Marks, ChangesItsRow, OtherRows, SameRow, RowOf,
       BillingInv, AcceptedInv, UnsubmittedFailureIsUnbilled
  <2>9. QED
    BY <2>4, <2>5, <2>6, <2>7, <2>8 DEF BillingInv
<1>5. CASE MarksAnswer(w) \/ Completes(w) \/ GivesUp(w)
  <2>1. /\ worker'[w].step \notin {"calling", "preparing"}
        /\ worker'[w].step = "failing" => worker'[w].failure.submitted
    BY <1>5 DEF MarksAnswer, Completes, GivesUp, Leaves, Busy, BusySteps
  <2>2. CallerInv'
    BY <1>1, <1>2, <2>1, OthersUndisturbed DEF CallerInv
  <2>3. OneCaller'
    BY <1>1, <1>2, <2>1, OthersUndisturbed DEF BillingInv, OneCaller
  <2>4. PreparingInv'
    BY <1>1, <1>2, <2>1, OthersUndisturbed DEF BillingInv, PreparingInv, Busy, BusySteps
  <2>5. FailingInv'
    BY <1>1, <1>2, <2>1, OthersUndisturbed DEF BillingInv, FailingInv, Busy, BusySteps
  <2>6. \A k \in Jobs : k # j => SameRow(k)
    BY <1>1 DEF ChangesItsRow, OtherRows
  <2>7. \/ job'[j].status = "RUNNING" /\ job'[j].submission = "SUBMITTED"
        \/ job'[j].status = "SUCCEEDED"
        \/ job'[j].status = "FAILED" /\ job'[j].submission # "NOT_STARTED"
        \/ accepted[j] = 0
    <3>1. CASE GivesUp(w)
      BY <1>1, <3>1 DEF GivesUp, BillingInv, FailingInv
    <3>2. QED
      BY <1>1, <1>5, <3>1 DEF MarksAnswer, Completes, RowOf
  <2>8. AcceptedInv' /\ UnsubmittedFailureIsUnbilled'
    BY <1>1, <2>6, <2>7 DEF SameRow, BillingInv, AcceptedInv, Terminal,
       UnsubmittedFailureIsUnbilled
  <2>9. QED
    BY <2>2, <2>3, <2>4, <2>5, <2>8 DEF BillingInv
<1>6. QED
  BY <1>4, <1>5

LEMMA CallBilling ==
  ASSUME TypeOK, LeaseInv, BillingInv, NEW w \in Workers, Bills(w)
  PROVE  BillingInv'
<1> USE Types
<1> DEFINE j == worker[w].job
<1>1. /\ Busy(w) /\ j \in Jobs /\ accepted[j] = 0
      /\ \/ Held(w) /\ job[j].submission = "SUBMITTING"
         \/ job[j].status = "FAILED" /\ job[j].submission # "NOT_STARTED"
  BY DEF Bills, BillingInv, CallerInv, RowOf, Busy, BusySteps
<1>2. accepted' = [accepted EXCEPT ![j] = 1]
  BY <1>1 DEF Bills
<1>3. \A k \in Jobs : accepted'[k] = IF k = j THEN 1 ELSE accepted[k]
  BY <1>2 DEF TypeOK
<1>4. \A v \in Workers : v # w => worker'[v] = worker[v]
  BY DEF Bills, OtherWorkers
<1>5. /\ worker'[w].step \notin {"calling", "preparing"}
      /\ worker'[w].step = "failing" => worker'[w].failure.submitted
  BY DEF Bills, Leaves, Busy, BusySteps
<1>6. \A v \in Workers :
        v # w /\ worker[v].step = "calling" => worker[v].job \in Jobs \ {j}
  BY DEF Bills, BillingInv, OneCaller, Busy, BusySteps
<1>7. CallerInv'
  BY <1>3, <1>4, <1>5, <1>6 DEF Bills, BillingInv, CallerInv, SameRows, SameRow,
     Held, RowOf
<1>8. OneCaller'
  BY <1>4, <1>5 DEF BillingInv, OneCaller
<1>9. PreparingInv'
  BY <1>4, <1>5 DEF Bills, BillingInv, PreparingInv, SameRows, SameRow, Held,
     RowOf, Busy, BusySteps
<1>10. FailingInv'
  <2> SUFFICES ASSUME NEW v \in Workers, worker'[v].step = "failing", Held(v)',
                      ~worker'[v].failure.submitted,
                      ~worker'[v].failure.ambiguous
               PROVE  accepted'[worker'[v].job] = 0
    BY DEF FailingInv
  <2>1. v # w /\ worker'[v] = worker[v] /\ Busy(v) /\ worker[v].job \in Jobs
    BY <1>4, <1>5 DEF Busy, BusySteps
  <2>2. Held(v)
    BY <2>1 DEF Bills, SameRows, SameRow, Held
  <2>3. worker[v].job # j
    BY <1>1, <2>1, <2>2, OneHolder DEF Held
  <2>4. QED
    BY <1>3, <2>1, <2>2, <2>3 DEF BillingInv, FailingInv
<1>11. AcceptedInv' /\ UnsubmittedFailureIsUnbilled'
  BY <1>1, <1>3 DEF Bills, SameRows, SameRow, BillingInv, AcceptedInv, Terminal,
     UnsubmittedFailureIsUnbilled, Held
<1>12. QED
  BY <1>7, <1>8, <1>9, <1>10, <1>11 DEF BillingInv

LEMMA ClaimBilling ==
  ASSUME TypeOK, RowInv, LeaseInv, BillingInv, NEW w \in Workers, Claims(w)
  PROVE  BillingInv'
<1> USE Types
<1>1. PICK j \in Jobs :
        /\ OtherRows(j) /\ OtherWorkers(w) /\ accepted' = accepted
        /\ job[j].status = "QUEUED"
        /\ job'[j].status = "RUNNING"
        /\ job'[j].token = job[j].attempts + 1
        /\ job'[j].submission = job[j].submission
        /\ worker'[w].step = "preparing" /\ worker'[w].job = j
  BY DEF Claims
<1>2. job[j].submission = "NOT_STARTED" /\ accepted[j] = 0
  BY <1>1 DEF RowInv, BillingInv, AcceptedInv, Terminal
<1>3. ASSUME NEW v \in Workers, v # w
      PROVE  worker'[v] = worker[v]
  BY <1>1, <1>3 DEF OtherWorkers
<1>4. ASSUME NEW v \in Workers, v # w, Busy(v)
      PROVE  /\ worker[v].step = "calling" => worker[v].job # j
             /\ Held(v)' => worker[v].job # j
             /\ worker[v].job # j => SameRow(worker[v].job)
  <2>1. worker[v].step = "calling" => worker[v].job # j
    BY <1>1 DEF BillingInv, CallerInv, Held, RowOf
  <2>2. worker[v].job = j => ~Held(v)'
    BY <1>1, <1>3, <1>4 DEF LeaseInv, Held, RowOf
  <2>3. worker[v].job # j => SameRow(worker[v].job)
    BY <1>1, <1>4 DEF OtherRows
  <2>4. QED
    BY <2>1, <2>2, <2>3
<1>5. CallerInv'
  BY <1>1, <1>3, <1>4 DEF BillingInv, CallerInv, SameRow, Held, RowOf, Busy, BusySteps
<1>6. OneCaller'
  BY <1>1, <1>3 DEF BillingInv, OneCaller
<1>7. PreparingInv'
  BY <1>1, <1>2, <1>3, <1>4 DEF BillingInv, PreparingInv, SameRow, Held, RowOf,
     Busy, BusySteps
<1>8. FailingInv'
  BY <1>1, <1>3, <1>4 DEF BillingInv, FailingInv, SameRow, Held, Busy, BusySteps
<1>9. AcceptedInv' /\ UnsubmittedFailureIsUnbilled'
  BY <1>1, <1>2 DEF OtherRows, SameRow, BillingInv, AcceptedInv,
     UnsubmittedFailureIsUnbilled
<1>10. QED
  BY <1>5, <1>6, <1>7, <1>8, <1>9 DEF BillingInv

LEMMA RecoveryBilling ==
  ASSUME TypeOK, RowInv, BillingInv, NEW w \in Workers, Recovers(w)
  PROVE  BillingInv'
<1> USE Types
<1>1. /\ accepted' = accepted
      /\ \A j \in Jobs : SameRow(j) \/ RowRecovered(j)
      /\ worker'[w].step \notin BusySteps
      /\ \A v \in Workers : v # w => worker'[v] = worker[v]
  BY DEF Recovers, OtherWorkers, Busy
<1>2. ASSUME NEW v \in Workers, Busy(v), Held(v)', worker'[v] = worker[v]
      PROVE  Held(v) /\ RowOf(v)'.submission = RowOf(v).submission
  BY <1>1, <1>2 DEF RowRecovered, SameRow, Held, RowOf
<1>3. CallerInv'
  <2> SUFFICES ASSUME NEW v \in Workers, worker'[v].step = "calling"
               PROVE  /\ accepted'[worker'[v].job] = 0
                      /\ \/ Held(v)' /\ RowOf(v)'.submission = "SUBMITTING"
                         \/ /\ RowOf(v)'.status = "FAILED"
                            /\ RowOf(v)'.submission # "NOT_STARTED"
    BY DEF CallerInv
  <2>1. worker'[v] = worker[v] /\ worker[v].step = "calling" /\ worker[v].job \in Jobs
    BY <1>1 DEF Busy, BusySteps
  <2>2. /\ accepted[worker[v].job] = 0
        /\ \/ Held(v) /\ RowOf(v).submission = "SUBMITTING"
           \/ RowOf(v).status = "FAILED" /\ RowOf(v).submission # "NOT_STARTED"
    BY <2>1 DEF BillingInv, CallerInv
  <2>3. QED
    BY <1>1, <2>1, <2>2 DEF RowRecovered, SameRow, Held, RowOf
<1>4. OneCaller'
  BY <1>1 DEF BillingInv, OneCaller, BusySteps
<1>5. PreparingInv' /\ FailingInv'
  BY <1>1, <1>2 DEF BillingInv, PreparingInv, FailingInv, Busy, BusySteps
<1>6. AcceptedInv' /\ UnsubmittedFailureIsUnbilled'
  BY <1>1 DEF RowRecovered, SameRow, BillingInv, AcceptedInv, Terminal,
     UnsubmittedFailureIsUnbilled
<1>7. QED
  BY <1>3, <1>4, <1>5, <1>6 DEF BillingInv

LEMMA BillingStep ==
  ASSUME TypeOK, RowInv, LeaseInv, BillingInv, KindOfStep PROVE BillingInv'
<1>1. CASE Idles
  BY <1>1 DEF Idles, SameRows, SameRow, BillingInv, CallerInv, OneCaller,
     PreparingInv, FailingInv, AcceptedInv, UnsubmittedFailureIsUnbilled, Held,
     RowOf, TypeOK, WorkersTypeOK, Busy, BusySteps
<1>2. ASSUME NEW w \in Workers, Passes(w) PROVE BillingInv'
  BY <1>2, QuietBilling DEF Passes
<1>3. QED
  BY <1>1, <1>2, QueueBilling, HolderBilling, CallBilling, ClaimBilling,
     RecoveryBilling DEF KindOfStep

-----------------------------------------------------------------------------
(* The store.                                                              *)

\* What most steps do: store and results stay, no worker gets to its COMMIT,
\* and without a fault none turns away from it.
NoWriter(w) ==
  /\ UNCHANGED <<result, objects, ackLost>>
  /\ OtherWorkers(w)
  /\ Busy(w)' => Busy(w) /\ SameTurn(w)
  /\ worker'[w].step = "committing" => worker[w].step = "committing"
  /\ faults' = 0 =>
       /\ faults = 0
       /\ worker[w].step \in {"committing", "compensating"} =>
            worker'[w].step = worker[w].step /\ SameTurn(w)

SameAttempts == \A j \in Jobs : job'[j].attempts = job[j].attempts

LEMMA QuietObjects ==
  ASSUME TypeOK, ObjectInv, SameAttempts,
         NEW w \in Workers, NoWriter(w)
  PROVE  ObjectInv'
<1> USE Types DEF ObjectInv, NoWriter
<1>1. \A v \in Workers : Busy(v)' => Busy(v) /\ SameTurn(v)
  BY DEF OtherWorkers, SameTurn, Busy
<1>2. \A v \in Workers :
        worker'[v].step = "committing" => worker[v].step = "committing" /\ SameTurn(v)
  BY <1>1 DEF OtherWorkers, SameTurn, Busy, BusySteps
<1>3. \A j \in Jobs : result'[j] <= job'[j].attempts
  BY DEF SameAttempts
<1>4. \A v \in Workers :
        /\ Busy(v)' /\ result'[worker'[v].job] = worker'[v].token
             => worker'[v].job \in ackLost'
        /\ worker'[v].step = "committing" => ObjectKey(v)' \in objects'
  BY <1>1, <1>2 DEF SameTurn, ObjectKey
<1>5. ResultsHaveObjects'
  BY DEF ResultsHaveObjects
<1>6. NoOrphanWithoutFaults'
  <2> SUFFICES ASSUME faults' = 0, NEW o \in objects, result[o[1]] # o[2]
               PROVE  \E v \in Workers :
                        /\ worker'[v].step \in {"committing", "compensating"}
                        /\ ObjectKey(v)' = o
    BY DEF NoOrphanWithoutFaults
  <2>1. PICK v \in Workers : /\ worker[v].step \in {"committing", "compensating"}
                             /\ ObjectKey(v) = o
    BY DEF NoOrphanWithoutFaults
  <2>2. worker'[v].step = worker[v].step /\ SameTurn(v)
    BY <2>1 DEF OtherWorkers, SameTurn
  <2>3. QED
    BY <2>1, <2>2 DEF SameTurn, ObjectKey
<1>7. QED
  BY <1>3, <1>4, <1>5, <1>6

LEMMA ClaimObjects ==
  ASSUME TypeOK, ObjectInv, NEW w \in Workers, ClaimNextJob(w)
  PROVE  ObjectInv'
<1> USE Types DEF ObjectInv
<1>1. UNCHANGED <<result, objects, ackLost, faults>> /\ worker[w].step = "claiming"
  BY DEF ClaimNextJob
<1>2. PICK j \in Jobs :
        /\ OtherRows(j) /\ OtherWorkers(w)
        /\ job'[j].attempts = job[j].attempts + 1
        /\ worker'[w].step = "preparing"
        /\ worker'[w].job = j /\ worker'[w].token = job[j].attempts + 1
  BY ClaimNextJobKind DEF Claims
<1>3. /\ \A k \in Jobs : result[k] <= job[k].attempts
      /\ \A k \in Jobs : result[k] \in Nat
  BY Counts DEF TypeOK
<1>4. \A k \in Jobs : result'[k] <= job'[k].attempts
  BY <1>1, <1>2, <1>3 DEF OtherRows, SameRow
<1>5. result[j] # job[j].attempts + 1
  BY <1>3
<1>6. \A v \in Workers : v # w => worker'[v] = worker[v]
  BY <1>2 DEF OtherWorkers
<1>7. \A v \in Workers :
        /\ Busy(v)' /\ result'[worker'[v].job] = worker'[v].token
             => worker'[v].job \in ackLost'
        /\ worker'[v].step = "committing" => ObjectKey(v)' \in objects'
  BY <1>1, <1>2, <1>5, <1>6 DEF Busy, ObjectKey
<1>8. ResultsHaveObjects' /\ NoOrphanWithoutFaults'
  BY <1>1, <1>2, <1>6 DEF ResultsHaveObjects, NoOrphanWithoutFaults, ObjectKey
<1>9. QED
  BY <1>1, <1>4, <1>7, <1>8

LEMMA PutObjects ==
  ASSUME TypeOK, ObjectInv, NEW w \in Workers, PutObject(w)
  PROVE  ObjectInv'
<1> USE Types DEF ObjectInv
<1>1. /\ UNCHANGED <<job, result, ackLost>> /\ worker[w].step = "storing" /\ Busy(w)
      /\ OtherWorkers(w) /\ SameTurn(w)
      /\ \/ /\ objects' = objects \cup {ObjectKey(w)}
            /\ worker'[w].step = "committing" /\ faults' = faults
         \/ /\ objects' \in {objects, objects \cup {ObjectKey(w)}}
            /\ worker'[w].step = "failing" /\ faults' # 0
  BY GotoEffect, FailEffect DEF PutObject, Busy, BusySteps, Fault, NoFault, TypeOK
<1>2. ObjectKey(w)[2] # 0 /\ ObjectKey(w)' = ObjectKey(w)
  BY <1>1 DEF ObjectKey, SameTurn
<1>3. \A v \in Workers : v # w => worker'[v] = worker[v] /\ ObjectKey(v)' = ObjectKey(v)
  BY <1>1 DEF OtherWorkers, ObjectKey
<1>4. \A v \in Workers :
        /\ Busy(v)' /\ result'[worker'[v].job] = worker'[v].token
             => worker'[v].job \in ackLost'
        /\ worker'[v].step = "committing" => ObjectKey(v)' \in objects'
  BY <1>1, <1>2, <1>3 DEF Busy, SameTurn
<1>5. ResultsHaveObjects'
  BY <1>1 DEF ResultsHaveObjects
<1>6. NoOrphanWithoutFaults'
  <2> SUFFICES ASSUME faults' = 0, NEW o \in objects', result[o[1]] # o[2]
               PROVE  \E v \in Workers :
                        /\ worker'[v].step \in {"committing", "compensating"}
                        /\ ObjectKey(v)' = o
    BY <1>1 DEF NoOrphanWithoutFaults
  <2>1. CASE o = ObjectKey(w)
    BY <1>1, <1>2, <2>1
  <2>2. CASE o \in objects
    <3>1. PICK v \in Workers : /\ worker[v].step \in {"committing", "compensating"}
                               /\ ObjectKey(v) = o
      BY <1>1, <2>2 DEF NoOrphanWithoutFaults
    <3>2. QED
      BY <1>1, <1>3, <3>1
  <2>3. QED
    BY <1>1, <2>1, <2>2
<1>7. QED
  BY <1>1, <1>2, <1>4, <1>5, <1>6

LEMMA CommitObjects ==
  ASSUME TypeOK, RowInv, LeaseInv, ObjectInv, NEW w \in Workers, CommitResult(w)
  PROVE  ObjectInv'
<1> USE Types DEF ObjectInv
<1> DEFINE j == worker[w].job
           t == worker[w].token
<1>1. /\ worker[w].step = "committing" /\ Busy(w) /\ objects' = objects
      /\ OtherWorkers(w) /\ j \in Jobs /\ t # 0 /\ ObjectKey(w) \in objects
      /\ SameAttempts
  <2>1. worker[w].step = "committing" /\ Busy(w) /\ objects' = objects
    BY DEF CommitResult, Busy, BusySteps
  <2>2. OtherWorkers(w) /\ SameAttempts
    BY <2>1, CommitResultKind DEF Passes, Completes, ChangesItsRow, SameRows, OtherRows,
       SameRow, SameAttempts, RowOf
  <2>3. QED
    BY <2>1, <2>2
<1>2. \A v \in Workers : v # w => worker'[v] = worker[v] /\ ObjectKey(v)' = ObjectKey(v)
  BY <1>1 DEF OtherWorkers, ObjectKey
<1>3. CASE /\ UNCHANGED <<result, ackLost>>
           /\ Goto(w, "compensating") /\ (faults' = 0 => faults = 0)
  <2>1. worker'[w].step = "compensating" /\ SameTurn(w) /\ ObjectKey(w)' = ObjectKey(w)
    BY <1>3, GotoEffect DEF ObjectKey, SameTurn
  <2>2. \A v \in Workers :
          /\ Busy(v)' /\ result'[worker'[v].job] = worker'[v].token
               => worker'[v].job \in ackLost'
          /\ worker'[v].step = "committing" => ObjectKey(v)' \in objects'
    BY <1>1, <1>2, <1>3, <2>1 DEF Busy, SameTurn
  <2>3. ResultsHaveObjects'
    BY <1>1, <1>3 DEF ResultsHaveObjects
  <2>4. NoOrphanWithoutFaults'
    BY <1>1, <1>2, <1>3, <2>1 DEF NoOrphanWithoutFaults
  <2>5. QED
    BY <1>1, <1>3, <2>2, <2>3, <2>4 DEF SameAttempts
<1>4. CASE /\ Held(w) /\ result[j] = 0 /\ result' = [result EXCEPT ![j] = t]
           /\ \/ Finish(w) /\ ackLost' = ackLost /\ faults' = faults
              \/ /\ Goto(w, "compensating") /\ ackLost' = ackLost \cup {j}
                 /\ faults' # 0
  <2>1. \A k \in Jobs : result'[k] = IF k = j THEN t ELSE result[k]
    BY <1>1, <1>4 DEF TypeOK
  <2>2. t <= job[j].attempts
    BY <1>1 DEF LeaseInv, RowOf
  <2>3. \A k \in Jobs : result'[k] <= job'[k].attempts
    BY <2>1, <2>2, <1>1 DEF SameAttempts
  <2>4. \/ ~Busy(w)' /\ ackLost' = ackLost /\ faults' = faults
        \/ /\ worker'[w].step = "compensating" /\ worker'[w].job = j
           /\ ackLost' = ackLost \cup {j} /\ faults' # 0
    BY <1>4, GotoEffect, AtEffect DEF Finish, Steps, BusySteps, SameTurn
  <2>5. ASSUME NEW v \in Workers, v # w, Busy(v), worker[v].job = j
        PROVE  worker[v].token # t
    BY <1>1, <2>5 DEF LeaseInv
  <2>6. ASSUME NEW v \in Workers
        PROVE  /\ Busy(v)' /\ result'[worker'[v].job] = worker'[v].token
                    => worker'[v].job \in ackLost'
               /\ worker'[v].step = "committing" => ObjectKey(v)' \in objects'
    <3>1. CASE v = w
      BY <2>4, <3>1 DEF Busy, BusySteps
    <3>2. CASE v # w
      <4>1. Busy(v)' => Busy(v) /\ worker[v].job \in Jobs
        BY <1>2, <3>2 DEF Busy
      <4>2. worker[v].step = "committing" => ObjectKey(v) \in objects
        OBVIOUS
      <4>3. QED
        BY <1>1, <1>2, <2>1, <2>4, <2>5, <3>2, <4>1, <4>2
    <3>3. QED
      BY <3>1, <3>2
  <2>7. ResultsHaveObjects'
    BY <1>1, <2>1, <2>4 DEF ResultsHaveObjects, ObjectKey
  <2>8. NoOrphanWithoutFaults'
    <3> SUFFICES ASSUME faults' = 0, NEW o \in objects, result'[o[1]] # o[2]
                 PROVE  \E v \in Workers :
                          /\ worker'[v].step \in {"committing", "compensating"}
                          /\ ObjectKey(v)' = o
      BY <1>1 DEF NoOrphanWithoutFaults
    <3>1. o[1] \in Jobs /\ o = <<o[1], o[2]>>
      BY DEF TypeOK
    <3>2. result[o[1]] # o[2]
      BY <1>4, <2>1, <3>1
    <3>3. PICK v \in Workers : /\ worker[v].step \in {"committing", "compensating"}
                               /\ ObjectKey(v) = o
      BY <2>4, <3>2 DEF NoOrphanWithoutFaults
    <3>4. v # w
      BY <2>1, <3>1, <3>3 DEF ObjectKey
    <3>5. QED
      BY <1>2, <3>3, <3>4
  <2>9. QED
    BY <1>1, <2>3, <2>6, <2>7, <2>8
<1>5. QED
  BY <1>3, <1>4 DEF CommitResult, Fault, NoFault, TypeOK

LEMMA CompensateObjects ==
  ASSUME TypeOK, LeaseInv, ObjectInv, NEW w \in Workers, CompensateResult(w)
  PROVE  ObjectInv'
<1> USE Types DEF ObjectInv
<1>1. /\ UNCHANGED <<job, result, ackLost>> /\ Busy(w)
      /\ worker[w].step = "compensating" /\ worker'[w].step = "failing"
      /\ OtherWorkers(w) /\ SameTurn(w)
      /\ objects' \in {objects, objects \ {ObjectKey(w)}}
      /\ faults' = 0 => faults = 0 /\ objects' = objects \ {ObjectKey(w)}
  BY FailEffect DEF CompensateResult, ObjectDeleted, Busy, BusySteps, Fault, NoFault, TypeOK
<1>2. \A v \in Workers : v # w => worker'[v] = worker[v] /\ ObjectKey(v)' = ObjectKey(v)
  BY <1>1 DEF OtherWorkers, ObjectKey
<1>3. ASSUME NEW v \in Workers, v # w, Busy(v)
      PROVE  ObjectKey(v) # ObjectKey(w)
  BY <1>1, <1>3 DEF LeaseInv, ObjectKey
<1>4. \A v \in Workers :
        /\ Busy(v)' /\ result'[worker'[v].job] = worker'[v].token
             => worker'[v].job \in ackLost'
        /\ worker'[v].step = "committing" => ObjectKey(v)' \in objects'
  BY <1>1, <1>2, <1>3 DEF Busy, BusySteps, SameTurn
<1>5. ResultsHaveObjects'
  <2> SUFFICES ASSUME NEW k \in Jobs \ ackLost, result[k] # 0
               PROVE  <<k, result[k]>> \in objects'
    BY <1>1 DEF ResultsHaveObjects
  <2>1. <<k, result[k]>> \in objects
    BY DEF ResultsHaveObjects
  <2>2. <<k, result[k]>> # ObjectKey(w)
    BY <1>1 DEF ObjectKey
  <2>3. QED
    BY <1>1, <2>1, <2>2
<1>6. NoOrphanWithoutFaults'
  <2> SUFFICES ASSUME faults' = 0, NEW o \in objects', result[o[1]] # o[2]
               PROVE  \E v \in Workers :
                        /\ worker'[v].step \in {"committing", "compensating"}
                        /\ ObjectKey(v)' = o
    BY <1>1 DEF NoOrphanWithoutFaults
  <2>1. PICK v \in Workers : /\ worker[v].step \in {"committing", "compensating"}
                             /\ ObjectKey(v) = o
    BY <1>1 DEF NoOrphanWithoutFaults
  <2>2. v # w
    BY <1>1, <2>1
  <2>3. QED
    BY <1>2, <2>1, <2>2
<1>7. QED
  BY <1>1, <1>4, <1>5, <1>6

\* Steps that neither write the store nor a result.
LEMMA OtherObjects ==
  ASSUME TypeOK, ObjectInv, NEW w \in Workers,
         \/ RecoverExpiredJobs(w) \/ NothingToClaim(w) \/ PreparationFails(w)
         \/ MarkSubmitting(w) \/ GenerateBackground(w) \/ MarkSubmitted(w)
         \/ PollPending(w) \/ PollEnds(w) \/ FailOrRetry(w) \/ Heartbeat(w)
         \/ Crash(w) \/ Restart(w)
  PROVE  ObjectInv'
<1> USE DEF NoWriter, Busy, BusySteps
<1>1. UNCHANGED <<result, objects, ackLost>> /\ (faults' = 0 => faults = 0)
  <2>1. UNCHANGED <<result, objects, ackLost>>
    BY DEF RecoverExpiredJobs, NothingToClaim, PreparationFails, MarkSubmitting,
       GenerateBackground, MarkSubmitted, PollPending, PollEnds, FailOrRetry,
       Heartbeat, Crash, Restart
  <2>2. Fault \/ NoFault
    <3>1. CASE MarkSubmitting(w) \/ MarkSubmitted(w) \/ Heartbeat(w) \/ Crash(w)
      BY <3>1 DEF MarkSubmitting, MarkSubmitted, Heartbeat, Crash
    <3>2. CASE ~(MarkSubmitting(w) \/ MarkSubmitted(w) \/ Heartbeat(w) \/ Crash(w))
      BY <3>2 DEF RecoverExpiredJobs, NothingToClaim, PreparationFails,
         GenerateBackground, PollPending, PollEnds, FailOrRetry, Restart, NoFault
    <3>3. QED
      BY <3>1, <3>2
  <2>3. QED
    BY <2>1, <2>2 DEF Fault, NoFault, TypeOK
<1>2. CASE RecoverExpiredJobs(w)
  <2>1. SameAttempts
    BY <1>2, RecoverExpiredJobsKind DEF Recovers, RowRecovered, SameRow, SameAttempts
  <2>2. NoWriter(w)
    BY <1>1, <1>2, GotoEffect DEF RecoverExpiredJobs
  <2>3. QED
    BY <2>1, <2>2, QuietObjects
<1>3. CASE NothingToClaim(w) \/ PreparationFails(w) \/ Restart(w)
  <2>1. NoWriter(w)
    BY <1>1, <1>3, GotoEffect, FailEffect DEF NothingToClaim, PreparationFails, Restart
  <2>2. QED
    BY <1>3, <2>1, QuietObjects DEF SameAttempts, NothingToClaim, PreparationFails, Restart
<1>4. CASE MarkSubmitting(w)
  <2>1. SameAttempts
    BY <1>4, MarkSubmittingKind DEF Passes, Marks, ChangesItsRow, SameRows, OtherRows,
       SameRow, SameAttempts, RowOf
  <2>2. NoWriter(w)
    BY <1>1, <1>4, GotoEffect, FailEffect DEF MarkSubmitting
  <2>3. QED
    BY <2>1, <2>2, QuietObjects
<1>5. CASE GenerateBackground(w)
  <2>1. NoWriter(w)
    BY <1>1, <1>5, GotoEffect, FailEffect DEF GenerateBackground
  <2>2. QED
    BY <1>5, <2>1, QuietObjects DEF GenerateBackground, SameAttempts
<1>6. CASE MarkSubmitted(w)
  <2>1. SameAttempts
    BY <1>6, MarkSubmittedKind DEF Passes, MarksAnswer, ChangesItsRow, SameRows, OtherRows,
       SameRow, SameAttempts, RowOf
  <2>2. worker[w].step = "called" /\ (Goto(w, "polling") \/ \E f : Fail(w, f))
    BY <1>6 DEF MarkSubmitted
  <2>3. OtherWorkers(w) /\ SameTurn(w) /\ worker'[w].step \in {"polling", "failing"}
    BY <2>2, GotoEffect, FailEffect
  <2>4. NoWriter(w)
    BY <1>1, <2>2, <2>3
  <2>5. QED
    BY <2>1, <2>4, QuietObjects
<1>7. CASE PollPending(w) \/ Heartbeat(w)
  <2>1. SameAttempts
    BY <1>7, PollPendingKind, HeartbeatKind DEF Passes, SameRows, SameRow, SameAttempts
  <2>2. /\ OtherWorkers(w) /\ SameTurn(w) /\ worker'[w].step = worker[w].step /\ Busy(w)
    BY <1>7 DEF PollPending, Heartbeat, TypeOK, WorkersTypeOK, Process, OtherWorkers,
       SameTurn
  <2>3. QED
    BY <1>1, <2>1, <2>2, QuietObjects
<1>8. CASE PollEnds(w)
  <2>1. worker[w].step = "polling" /\ (Goto(w, "storing") \/ \E f : Fail(w, f))
    BY <1>8 DEF PollEnds
  <2>2. OtherWorkers(w) /\ SameTurn(w) /\ worker'[w].step \in {"storing", "failing"}
    BY <2>1, GotoEffect, FailEffect
  <2>3. NoWriter(w)
    BY <1>1, <2>1, <2>2
  <2>4. QED
    BY <1>8, <2>3, QuietObjects DEF PollEnds, SameAttempts
<1>9. CASE FailOrRetry(w)
  <2>1. SameAttempts
    BY <1>9, FailOrRetryKind DEF Passes, GivesUp, ChangesItsRow, SameRows, OtherRows,
       SameRow, SameAttempts, RowOf
  <2>2. NoWriter(w)
    BY <1>1, <1>9, AtEffect DEF FailOrRetry, Finish, Steps
  <2>3. QED
    BY <2>1, <2>2, QuietObjects
<1>10. CASE Crash(w)
  <2>1. faults' # 0
    BY <1>10 DEF Crash, Fault, TypeOK
  <2>2. NoWriter(w)
    BY <1>1, <1>10, <2>1, AtEffect DEF Crash, Steps
  <2>3. QED
    BY <1>10, <2>2, QuietObjects DEF Crash, SameAttempts
<1>11. QED
  BY <1>2, <1>3, <1>4, <1>5, <1>6, <1>7, <1>8, <1>9, <1>10

LEMMA ObjectStep ==
  ASSUME TypeOK, RowInv, LeaseInv, ObjectInv, [Next]_vars PROVE ObjectInv'
<1>1. ASSUME UNCHANGED <<result, objects, ackLost, worker, faults>>, SameAttempts
      PROVE  ObjectInv'
  BY <1>1 DEF SameAttempts, ObjectInv, ResultsHaveObjects, NoOrphanWithoutFaults,
     ObjectKey, Busy
<1>2. ASSUME NEW j \in Jobs, CreateJob(j) \/ LeaseExpires(j) PROVE ObjectInv'
  <2>1. SameAttempts
    BY <1>2, CreateJobKind, LeaseExpiresKind
    DEF Queues, Idles, OtherRows, SameRows, SameRow, SameAttempts, RowInv
  <2>2. QED
    BY <1>1, <1>2, <2>1 DEF CreateJob, LeaseExpires
<1>3. ASSUME NEW w \in Workers,
             RunOnce(w) \/ Heartbeat(w) \/ Crash(w) \/ Restart(w)
      PROVE  ObjectInv'
  BY <1>3, ClaimObjects, PutObjects, CommitObjects, CompensateObjects, OtherObjects
  DEF RunOnce
<1>4. QED
  BY <1>1, <1>2, <1>3 DEF Next, vars, SameAttempts

-----------------------------------------------------------------------------
(* Theorems that hold of any provider.                                     *)

\* The steps of the lifecycle, read off the rows.
LEMMA LifecycleStep ==
  ASSUME TypeOK, RowInv, KindOfStep PROVE Lifecycle!Next
<1> USE Types
<1> SUFFICES ASSUME NEW k \in Jobs
             PROVE  \/ Lifecycle!Unchanged(k) \/ Lifecycle!Enqueue(k)
                    \/ Lifecycle!Start(k) \/ Lifecycle!Requeue(k)
                    \/ Lifecycle!Decide(k)
  BY DEF Lifecycle!Next
<1> USE DEF Lifecycle!Unchanged, Lifecycle!Enqueue, Lifecycle!Start,
            Lifecycle!Requeue, Lifecycle!Decide, Lifecycle!Moves,
            Lifecycle!Keeps, Lifecycle!Terminal, RowInv
<1>1. ASSUME SameRow(k) PROVE Lifecycle!Unchanged(k)
  BY <1>1 DEF SameRow
<1>2. ASSUME NEW j \in Jobs, Queues(j)
      PROVE  Lifecycle!Unchanged(k) \/ Lifecycle!Enqueue(k)
  BY <1>1, <1>2 DEF Queues, OtherRows
<1>3. ASSUME NEW w \in Workers, Recovers(w)
      PROVE  Lifecycle!Unchanged(k) \/ Lifecycle!Requeue(k) \/ Lifecycle!Decide(k)
  BY <1>1, <1>3 DEF Recovers, RowRecovered
<1>4. ASSUME NEW w \in Workers, Claims(w)
      PROVE  Lifecycle!Unchanged(k) \/ Lifecycle!Start(k)
  BY <1>1, <1>4 DEF Claims, OtherRows
<1>5. ASSUME NEW w \in Workers,
             Marks(w) \/ MarksAnswer(w) \/ Completes(w) \/ GivesUp(w)
      PROVE  Lifecycle!Unchanged(k) \/ Lifecycle!Requeue(k) \/ Lifecycle!Decide(k)
  BY <1>1, <1>5 DEF Marks, MarksAnswer, Completes, GivesUp, ChangesItsRow,
     OtherRows, Held, RowOf
<1>6. QED
  BY <1>1, <1>2, <1>3, <1>4, <1>5 DEF KindOfStep, Idles, Passes, Bills, SameRows

LEMMA GenerateBackgroundRows ==
  ASSUME TypeOK, NEW w \in Workers, GenerateBackground(w) PROVE SameRows
  BY DEF GenerateBackground, SameRows, SameRow

LEMMA RowInit == Init => RowInv
  BY BoundsAssumption DEF Init, AbsentRow, RowInv

LEMMA LeaseInit == Init => LeaseInv /\ ObjectInv
  BY DEF Init, At, AbsentRow, Busy, BusySteps, LeaseInv, ObjectInv, ObjectKey,
     ResultsHaveObjects, NoOrphanWithoutFaults

LEMMA RowInvariant == Spec => [](TypeOK /\ RowInv)
<1>1. ASSUME TypeOK, RowInv, [Next]_vars PROVE RowInv'
  <2>1. CASE KindOfStep
    BY <1>1, <2>1, RowStep
  <2>2. ASSUME NEW w \in Workers, GenerateBackground(w) PROVE RowInv'
    BY <1>1, <2>2, GenerateBackgroundRows DEF SameRows, SameRow, RowInv
  <2>3. QED
    BY <1>1, <2>1, <2>2, Kinds
<1>2. QED
  BY <1>1, RowInit, TypeCorrect, PTL DEF Spec

\* No row waits in the queue that the claim query would never select.
THEOREM QueuedJobsStayClaimable == Spec => []QueuedJobsAreClaimable
<1>1. RowInv => QueuedJobsAreClaimable
  BY DEF RowInv, QueuedJobsAreClaimable
<1>2. QED
  BY <1>1, RowInvariant, PTL

\* Whatever the workers do, the table of jobs implements JobLifecycle.
THEOREM LifecycleImplemented == Spec => ImplementsLifecycle
<1>1. Init => Lifecycle!Init
  BY DEF Init, AbsentRow, Lifecycle!Init
<1>2. ASSUME TypeOK, RowInv, [Next]_vars PROVE [Lifecycle!Next]_(Lifecycle!vars)
  <2>1. CASE KindOfStep
    BY <1>2, <2>1, LifecycleStep
  <2>2. ASSUME NEW w \in Workers, GenerateBackground(w)
        PROVE  UNCHANGED Lifecycle!vars
    BY <1>2, <2>2, GenerateBackgroundRows DEF SameRows, SameRow, Lifecycle!vars
  <2>3. QED
    BY <1>2, <2>1, <2>2, Kinds
<1>3. QED
  BY <1>1, <1>2, RowInvariant, PTL DEF Spec, ImplementsLifecycle, Lifecycle!Spec

LEMMA StoreInvariant == Spec => [](TypeOK /\ RowInv /\ LeaseInv /\ ObjectInv)
<1>1. ASSUME TypeOK, RowInv, LeaseInv, ObjectInv, [Next]_vars
      PROVE  LeaseInv' /\ ObjectInv'
  BY <1>1, Kinds, LeaseStep, ObjectStep
<1>2. QED
  BY <1>1, LeaseInit, RowInvariant, PTL DEF Spec

\* The object of a result is in the store, unless the answer to its COMMIT was
\* lost: the compensation of a late worker deletes only what it wrote itself.
THEOREM ResultsKeepTheirObjects == Spec => []ResultsHaveObjects
<1>1. ObjectInv => ResultsHaveObjects
  BY DEF ObjectInv
<1>2. QED
  BY <1>1, StoreInvariant, PTL

\* As long as the infrastructure keeps its word, every object has a result or
\* a worker that is about to commit or to delete it.
THEOREM NothingIsOrphaned == Spec => []NoOrphanWithoutFaults
<1>1. ObjectInv => NoOrphanWithoutFaults
  BY DEF ObjectInv
<1>2. QED
  BY <1>1, StoreInvariant, PTL

\* A project never has two jobs queued or running.
THEOREM OneActiveJob == Spec => []OneActiveJobPerProject
<1>1. Init => OneActiveJobPerProject
  BY DEF Init, AbsentRow, OneActiveJobPerProject, Active
<1>2. ASSUME TypeOK, OneActiveJobPerProject, [Next]_vars
      PROVE  OneActiveJobPerProject'
  <2>1. CASE \A k \in Jobs : job'[k].status \in Active => job[k].status \in Active
    BY <1>2, <2>1 DEF OneActiveJobPerProject
  <2>2. ASSUME NEW w \in Workers, GenerateBackground(w)
        PROVE  OneActiveJobPerProject'
    BY <1>2, <2>1, <2>2, GenerateBackgroundRows DEF SameRows, SameRow
  <2>3. ASSUME NEW j \in Jobs, Queues(j) PROVE OneActiveJobPerProject'
    BY <1>2, <2>3 DEF Queues, OtherRows, SameRow, OneActiveJobPerProject
  <2>4. ASSUME NEW w \in Workers,
               \/ Passes(w) \/ Marks(w) \/ MarksAnswer(w) \/ Completes(w)
               \/ GivesUp(w) \/ Bills(w) \/ Claims(w) \/ Recovers(w)
        PROVE  OneActiveJobPerProject'
    <3>1. \A k \in Jobs : job'[k].status \in Active => job[k].status \in Active
      BY <2>4 DEF Passes, Marks, MarksAnswer, Completes, GivesUp, Bills, Claims,
         Recovers, RowRecovered, ChangesItsRow, OtherRows, SameRows, SameRow,
         Held, RowOf, Active
    <3>2. QED
      BY <2>1, <3>1
  <2>5. CASE Idles
    BY <2>1, <2>5 DEF Idles, SameRows, SameRow
  <2>6. QED
    BY <1>2, <2>2, <2>3, <2>4, <2>5, Kinds DEF KindOfStep
<1>3. QED
  BY <1>1, <1>2, TypeCorrect, PTL DEF Spec

-----------------------------------------------------------------------------
(* Theorems that hold of an honest provider.                               *)

LEMMA BillingInit == Init => BillingInv
  BY DEF Init, At, AbsentRow, BillingInv, CallerInv, OneCaller, PreparingInv,
     FailingInv, AcceptedInv, UnsubmittedFailureIsUnbilled

\* The inductive invariant.
THEOREM InductiveInvariant ==
  ASSUME Honest(ProviderAnswers) PROVE Spec => []IInv
<1>1. Init => IInv
  BY TypeInit, RowInit, LeaseInit, BillingInit DEF IInv
<1>2. IInv /\ [Next]_vars => IInv'
  <2> SUFFICES ASSUME IInv, [Next]_vars PROVE IInv'
    OBVIOUS
  <2>1. TypeOK' /\ KindOfStep
    BY TypeStep, HonestKinds DEF IInv
  <2>2. QED
    BY <2>1, RowStep, LeaseStep, ObjectStep, BillingStep DEF IInv
<1>3. QED
  BY <1>1, <1>2, PTL DEF Spec

\* A job is handed to an honest provider at most once: no retry, recovery,
\* stalled worker or crash pays twice.
THEOREM NeverPaidTwice ==
  ASSUME Honest(ProviderAnswers) PROVE Spec => []AtMostOneSubmission
<1>1. IInv => AtMostOneSubmission
  BY DEF IInv, BillingInv, AcceptedInv, AtMostOneSubmission
<1>2. QED
  BY <1>1, InductiveInvariant, PTL

\* A job that failed without a submission on record cost nothing.
THEOREM UnsubmittedFailureIsFree ==
  ASSUME Honest(ProviderAnswers) PROVE Spec => []UnsubmittedFailureIsUnbilled
<1>1. IInv => UnsubmittedFailureIsUnbilled
  BY DEF IInv, BillingInv
<1>2. QED
  BY <1>1, InductiveInvariant, PTL
=============================================================================
