-------------------------- MODULE GenerationWorker --------------------------
(***************************************************************************)
(* The image generation queue: the service that queues jobs, any number of *)
(* worker processes that claim them under a lease, the paid provider they  *)
(* call, and the object store and database the result is written to.       *)
(*                                                                         *)
(* A worker's program is GenerationWorker.runOnce().  Each of its awaits   *)
(* that reaches the database, the provider or the store is an action, and  *)
(* between two of them anything else can happen: another worker's step, a  *)
(* lease that runs out, a crash.                                           *)
(***************************************************************************)
EXTENDS Naturals, FiniteSets, ImageProvider

CONSTANTS
  Jobs,            \* the (project, idempotencyKey) pairs clients may submit
  Projects,
  ProjectOf,       \* the project of a job
  Providers,
  ProviderOf,      \* Job.providerName
  Workers,
  ServedBy,        \* provider.name of a worker process
  MaxAttempts,     \* Job.maxAttempts
  MaxPolls,        \* MAX_STATUS_POLLS
  ProviderAnswers, \* what generateBackground() may answer
  MaxFaults,       \* bound: infrastructure faults in one behaviour
  NoJob

ASSUME JobsAssumption ==
  /\ IsFiniteSet(Jobs)
  /\ NoJob \notin Jobs
  /\ ProjectOf \in [Jobs -> Projects]
  /\ ProviderOf \in [Jobs -> Providers]
  /\ ServedBy \in [Workers -> Providers]

ASSUME BoundsAssumption ==
  /\ MaxAttempts \in Nat \ {0}
  /\ MaxPolls \in Nat \ {0}
  /\ MaxFaults \in Nat

ASSUME AnswersAssumption == ProviderAnswers \subseteq Answers

VARIABLES
  job,        \* the rows of table Job
  clock,      \* database time, advanced by every insert
  result,     \* GenerationResult.jobId: the attempt whose asset it names, or 0
  objects,    \* the keys in the bucket: <<job, attempt that wrote it>>
  worker,     \* the local state of every worker process
  accepted,   \* the requests the provider took on for a job (history)
  ackLost,    \* jobs whose committed result was answered by an error (history)
  faults      \* infrastructure faults so far

vars == <<job, clock, result, objects, worker, accepted, ackLost, faults>>

-----------------------------------------------------------------------------
(* Rows and processes.                                                     *)

Active   == {"QUEUED", "RUNNING"}
Terminal == {"SUCCEEDED", "FAILED"}

AttemptCounts == 0..MaxAttempts
PollCounts    == 0..MaxPolls

\* randomUUID() is fresh at every claim, and the claim that draws it also
\* raises attemptCount: the token is named by the attempt, 0 is NULL.
Row == [status     : {"ABSENT"} \cup Active \cup Terminal,
        createdAt  : Nat,
        attempts   : AttemptCounts,         \* attemptCount
        token      : AttemptCounts,         \* leaseToken
        expired    : BOOLEAN,               \* lockedAt is older than the lease
        submission : {"NOT_STARTED", "SUBMITTING", "SUBMITTED",
                      "AMBIGUOUS", "COMPLETED"},
        invoked    : BOOLEAN,               \* providerInvocationKey # null
        requestId  : BOOLEAN]               \* providerRequestId # null

AbsentRow == [status |-> "ABSENT", createdAt |-> 0, attempts |-> 0,
              token |-> 0, expired |-> FALSE, submission |-> "NOT_STARTED",
              invoked |-> FALSE, requestId |-> FALSE]

\* A WorkerFailure, by what failOrRetry() reads of it.
Failure == [submitted : BOOLEAN,   \* submissionState = "SUBMITTED"
            ambiguous : BOOLEAN,   \* code = PROVIDER_SUBMISSION_AMBIGUOUS
            retryable : BOOLEAN,
            requestId : BOOLEAN]

BeforeSubmission == [submitted |-> FALSE, ambiguous |-> FALSE,
                     retryable |-> FALSE, requestId |-> FALSE]
AfterSubmission  == [BeforeSubmission EXCEPT !.submitted = TRUE,
                                             !.requestId = TRUE]
Ambiguous(requestId) == [submitted |-> TRUE, ambiguous |-> TRUE,
                         retryable |-> FALSE, requestId |-> requestId]

\* Mutant of FailureOf: what the adapter threw counts as not submitted,
\* whatever it says of the request.
TrustingFailureOf(a) ==
  [submitted |-> FALSE, ambiguous |-> FALSE, retryable |-> FALSE,
   requestId |-> a.requestId]

\* toWorkerFailure() of an answer that arrives while the local
\* submissionState is SUBMITTING.
FailureOf(a) ==
  IF a.result = "ADAPTER_ERROR" /\ a.disposition # "MAY_HAVE_BEEN_ACCEPTED"
    THEN [submitted |-> FALSE, ambiguous |-> FALSE,
          retryable |-> a.retryable, requestId |-> a.requestId]
    ELSE Ambiguous(a.requestId)

\* Where a worker stands in runOnce(): the await it is about to perform.
BusySteps == {"preparing", "calling", "called", "polling", "storing",
              "committing", "compensating", "failing"}
Steps     == {"down", "idle", "claiming"} \cup BusySteps

Process == [step      : Steps,
            job       : Jobs \cup {NoJob},
            token     : AttemptCounts,    \* leaseToken of the claimed row
            leaseLost : BOOLEAN,
            polls     : PollCounts,
            failure   : Failure]

At(step) == [step |-> step, job |-> NoJob, token |-> 0, leaseLost |-> FALSE,
             polls |-> 0, failure |-> BeforeSubmission]

Busy(w) == worker[w].step \in BusySteps

\* Mutant of Held: an update that asks for RUNNING only.
HeldByAnyone(w) == job[worker[w].job].status = "RUNNING"

\* The WHERE clause of every fenced update: RUNNING under this lease token.
Held(w) == /\ job[worker[w].job].status = "RUNNING"
           /\ job[worker[w].job].token = worker[w].token

ObjectKey(w) == <<worker[w].job, worker[w].token>>

\* A busy worker has claimed a job, under a token.
WorkersTypeOK ==
  /\ worker \in [Workers -> Process]
  /\ \A w \in Workers : Busy(w) => /\ worker[w].job \in Jobs
                                   /\ worker[w].token # 0

TypeOK ==
  /\ job \in [Jobs -> Row]
  /\ clock \in Nat
  /\ result \in [Jobs -> AttemptCounts]
  /\ objects \subseteq Jobs \X AttemptCounts
  /\ WorkersTypeOK
  /\ accepted \in [Jobs -> Nat]
  /\ ackLost \subseteq Jobs
  /\ faults \in Nat

Init ==
  /\ job = [j \in Jobs |-> AbsentRow]
  /\ clock = 0
  /\ result = [j \in Jobs |-> 0]
  /\ objects = {}
  /\ worker = [w \in Workers |-> At("idle")]
  /\ accepted = [j \in Jobs |-> 0]
  /\ ackLost = {}
  /\ faults = 0

-----------------------------------------------------------------------------
(* Step helpers.                                                           *)

Goto(w, step) == worker' = [worker EXCEPT ![w].step = step]
Fail(w, f)    == worker' = [worker EXCEPT ![w].step = "failing",
                                          ![w].failure = f]
Finish(w)     == worker' = [worker EXCEPT ![w] = At("idle")]
SetRow(w, r)  == job' = [job EXCEPT ![worker[w].job] = r]
RowOf(w)      == job[worker[w].job]

Fault   == faults < MaxFaults /\ faults' = faults + 1
NoFault == faults' = faults

\* An autocommitted statement that reports an error was executed or was not.
MaybeSetRow(w, r) == SetRow(w, r) \/ UNCHANGED job

-----------------------------------------------------------------------------
(* The service.                                                            *)

\* Mutant of ActiveJob: a running job does not count.
QueuedJob(p) == \E k \in Jobs : ProjectOf[k] = p /\ job[k].status = "QUEUED"

ActiveJob(p) == \E k \in Jobs : ProjectOf[k] = p /\ job[k].status \in Active

\* GenerationService.createJob(), under the project's row lock: an
\* idempotency key already used returns its row and changes nothing; a
\* project with a queued or running job refuses another (JOB_CONFLICT).
CreateJob(j) ==
  /\ job[j].status = "ABSENT"
  /\ ~ActiveJob(ProjectOf[j])
  /\ job' = [job EXCEPT ![j] = [AbsentRow EXCEPT !.status = "QUEUED",
                                                 !.createdAt = clock]]
  /\ clock' = clock + 1
  /\ UNCHANGED <<result, objects, worker, accepted, ackLost, faults>>

-----------------------------------------------------------------------------
(* A worker's turn: recover, claim, execute.                               *)

\* Mutant of NeverSubmitted: a job without a request id was not submitted.
NoRequestId(r) == ~r.requestId

NeverSubmitted(r) == /\ r.submission = "NOT_STARTED"
                     /\ ~r.invoked
                     /\ ~r.requestId

\* Mutant of Expired: a lease under which something was submitted is left.
ExpiredUnsubmitted(r) == r.status = "RUNNING" /\ r.expired /\ NeverSubmitted(r)

Expired(r) == r.status = "RUNNING" /\ r.submission # "AMBIGUOUS" /\ r.expired

\* What the two UPDATEs of recoverExpiredJobs() make of a row.
Recovered(r) ==
  CASE r.status = "RUNNING" /\ r.submission = "AMBIGUOUS" ->
         [r EXCEPT !.status = "FAILED", !.token = 0, !.expired = FALSE]
    [] Expired(r) ->
         [r EXCEPT !.status = IF NeverSubmitted(r) /\ r.attempts < MaxAttempts
                                THEN "QUEUED" ELSE "FAILED",
                   !.submission = IF NeverSubmitted(r)
                                    THEN "NOT_STARTED" ELSE "AMBIGUOUS",
                   !.token = 0,
                   !.expired = FALSE]
    [] OTHER -> r

RecoverExpiredJobs(w) ==
  /\ worker[w].step = "idle"
  /\ job' = [j \in Jobs |-> Recovered(job[j])]
  /\ Goto(w, "claiming")
  /\ UNCHANGED <<clock, result, objects, accepted, ackLost, faults>>

Claimable(w) == {j \in Jobs : /\ job[j].status = "QUEUED"
                              /\ job[j].attempts < MaxAttempts
                              /\ ProviderOf[j] = ServedBy[w]}

\* claimNextJob(): the oldest claimable row, under FOR UPDATE SKIP LOCKED.
ClaimNextJob(w) ==
  /\ worker[w].step = "claiming"
  /\ \E j \in Claimable(w) :
       /\ \A k \in Claimable(w) : job[j].createdAt <= job[k].createdAt
       /\ job' = [job EXCEPT ![j].status = "RUNNING",
                             ![j].attempts = @ + 1,
                             ![j].token = job[j].attempts + 1,
                             ![j].expired = FALSE]
       /\ worker' = [worker EXCEPT ![w] = [At("preparing") EXCEPT
                                             !.job = j,
                                             !.token = job[j].attempts + 1]]
  /\ UNCHANGED <<clock, result, objects, accepted, ackLost, faults>>

\* claimNextJob() returned no row: runOnce() is over and the loop sleeps.
NothingToClaim(w) ==
  /\ worker[w].step = "claiming"
  /\ Claimable(w) = {}
  /\ Goto(w, "idle")
  /\ UNCHANGED <<job, clock, result, objects, accepted, ackLost, faults>>

\* The input, the style revision or a reference image is missing, invalid
\* or unreadable: nothing was sent, and nothing is retried.
PreparationFails(w) ==
  /\ worker[w].step = "preparing"
  /\ Fail(w, BeforeSubmission)
  /\ UNCHANGED <<job, clock, result, objects, accepted, ackLost, faults>>

\* markSubmitting(): the fence in front of the paid call.
MarkSubmitting(w) ==
  LET fenced == Held(w) /\ RowOf(w).submission = "NOT_STARTED"
      marked == [RowOf(w) EXCEPT !.submission = "SUBMITTING",
                                 !.invoked = TRUE, !.expired = FALSE]
  IN /\ worker[w].step = "preparing"
     /\ \/ fenced /\ SetRow(w, marked) /\ Goto(w, "calling") /\ NoFault
        \/ ~fenced /\ UNCHANGED job /\ Fail(w, BeforeSubmission) /\ NoFault
        \/ fenced /\ MaybeSetRow(w, marked) /\ Fail(w, BeforeSubmission) /\ Fault
     /\ UNCHANGED <<clock, result, objects, accepted, ackLost>>

\* provider.generateBackground() and the check of the id it resolves with.
GenerateBackground(w) ==
  /\ worker[w].step = "calling"
  /\ \E a \in ProviderAnswers :
       /\ accepted' = IF a.accepted
                        THEN [accepted EXCEPT ![worker[w].job] = @ + 1]
                        ELSE accepted
       /\ IF a.result = "OK" THEN Goto(w, "called") ELSE Fail(w, FailureOf(a))
  /\ UNCHANGED <<job, clock, result, objects, ackLost, faults>>

\* The leaseLost check and markSubmitted().
MarkSubmitted(w) ==
  LET fenced == Held(w) /\ RowOf(w).submission = "SUBMITTING"
      marked == [RowOf(w) EXCEPT !.submission = "SUBMITTED",
                                 !.requestId = TRUE, !.expired = FALSE]
  IN /\ worker[w].step = "called"
     /\ \/ /\ worker[w].leaseLost
           /\ UNCHANGED job /\ Fail(w, Ambiguous(TRUE)) /\ NoFault
        \/ /\ ~worker[w].leaseLost /\ fenced
           /\ SetRow(w, marked) /\ Goto(w, "polling") /\ NoFault
        \/ /\ ~worker[w].leaseLost /\ ~fenced
           /\ UNCHANGED job /\ Fail(w, AfterSubmission) /\ NoFault
        \/ /\ ~worker[w].leaseLost /\ fenced
           /\ MaybeSetRow(w, marked) /\ Fail(w, Ambiguous(TRUE)) /\ Fault
     /\ UNCHANGED <<clock, result, objects, accepted, ackLost>>

PollsLeft(w) == worker[w].polls < MaxPolls

\* waitForProvider(): a PENDING answer renews the lease and is counted.
PollPending(w) ==
  /\ worker[w].step = "polling"
  /\ PollsLeft(w)
  /\ IF Held(w) /\ RowOf(w).requestId
       THEN SetRow(w, [RowOf(w) EXCEPT !.expired = FALSE])
       ELSE UNCHANGED job
  /\ worker' = [worker EXCEPT ![w].polls = @ + 1]
  /\ UNCHANGED <<clock, result, objects, accepted, ackLost, faults>>

\* waitForProvider() and the validation of image and usage: the picture is
\* there, or the wait failed.  An error that knows the request id is
\* ambiguous by default; one that does not is a plain failure.
PollEnds(w) ==
  /\ worker[w].step = "polling"
  /\ \/ PollsLeft(w) /\ Goto(w, "storing")
     \/ Fail(w, Ambiguous(TRUE))
     \/ PollsLeft(w) /\ Fail(w, AfterSubmission)
  /\ UNCHANGED <<job, clock, result, objects, accepted, ackLost, faults>>

\* Mutant of PutObject: an error of the put is ignored.
PutUnchecked(w) ==
  /\ worker[w].step = "storing"
  /\ \/ objects' = objects \cup {ObjectKey(w)} /\ NoFault
     \/ objects' = objects /\ Fault
  /\ Goto(w, "committing")
  /\ UNCHANGED <<job, clock, result, accepted, ackLost>>

\* storeResult(), the object: a failed put leaves the object or does not.
PutObject(w) ==
  /\ worker[w].step = "storing"
  /\ \/ /\ objects' = objects \cup {ObjectKey(w)}
        /\ Goto(w, "committing") /\ NoFault
     \/ /\ objects' \in {objects, objects \cup {ObjectKey(w)}}
        /\ Fail(w, AfterSubmission) /\ Fault
  /\ UNCHANGED <<job, clock, result, accepted, ackLost>>

\* storeResult(), the transaction: asset, result and SUCCEEDED together, or
\* nothing.  Whatever rejects it leads to the compensation, a lost answer
\* to a COMMIT that took effect included.
CommitResult(w) ==
  LET open == Held(w) /\ result[worker[w].job] = 0
      done == [RowOf(w) EXCEPT !.status = "SUCCEEDED", !.token = 0,
                               !.submission = "COMPLETED",
                               !.requestId = TRUE, !.expired = FALSE]
      Commit == /\ SetRow(w, done)
                /\ result' = [result EXCEPT
                                ![worker[w].job] = worker[w].token]
  IN /\ worker[w].step = "committing"
     /\ \/ /\ open /\ Commit
           /\ Finish(w) /\ NoFault /\ UNCHANGED ackLost
        \/ /\ ~open /\ UNCHANGED <<job, result>>
           /\ Goto(w, "compensating") /\ NoFault /\ UNCHANGED ackLost
        \/ /\ open /\ UNCHANGED <<job, result>>
           /\ Goto(w, "compensating") /\ Fault /\ UNCHANGED ackLost
        \/ /\ open /\ Commit
           /\ Goto(w, "compensating") /\ Fault
           /\ ackLost' = ackLost \cup {worker[w].job}
     /\ UNCHANGED <<clock, objects, accepted>>

\* Mutant of ObjectDeleted: nothing is deleted.
ObjectKept(w) == objects

ObjectDeleted(w) == objects \ {ObjectKey(w)}

\* storeResult(), the compensation after a rejected transaction.
CompensateResult(w) ==
  /\ worker[w].step = "compensating"
  /\ \/ objects' = ObjectDeleted(w) /\ NoFault
     \/ objects' \in {objects, ObjectDeleted(w)} /\ Fault
  /\ Fail(w, AfterSubmission)
  /\ UNCHANGED <<job, clock, result, accepted, ackLost>>

\* Mutant of Retries: the last attempt is retried as well.
RetriesForever(w) == /\ ~worker[w].failure.submitted
                     /\ ~worker[w].failure.ambiguous
                     /\ worker[w].failure.retryable

\* maxAttempts is compared with the attemptCount of the row as claimed.
Retries(w) == /\ ~worker[w].failure.submitted
              /\ ~worker[w].failure.ambiguous
              /\ worker[w].failure.retryable
              /\ worker[w].token < MaxAttempts

\* failOrRetry(): providerInvocationKey is kept.
FailedRow(w) ==
  LET f == worker[w].failure
  IN [RowOf(w) EXCEPT
        !.status     = IF Retries(w) THEN "QUEUED" ELSE "FAILED",
        !.requestId  = f.requestId,
        !.token      = 0,
        !.expired    = FALSE,
        !.submission = CASE f.ambiguous -> "AMBIGUOUS"
                         [] ~f.ambiguous /\ f.submitted -> "SUBMITTED"
                         [] OTHER -> "NOT_STARTED"]

FailOrRetry(w) ==
  /\ worker[w].step = "failing"
  /\ IF Held(w) THEN SetRow(w, FailedRow(w)) ELSE UNCHANGED job
  /\ Finish(w)
  /\ UNCHANGED <<clock, result, objects, accepted, ackLost, faults>>

-----------------------------------------------------------------------------
(* What runs beside the program: the timer, time, crashes.                 *)

\* The interval timer of runOnce().  leaseLost is read once, after the
\* provider call; afterwards it is dead and not recorded.
Heartbeat(w) ==
  /\ Busy(w)
  /\ \/ /\ Held(w) /\ RowOf(w).expired
        /\ SetRow(w, [RowOf(w) EXCEPT !.expired = FALSE])
        /\ UNCHANGED worker /\ NoFault
     \/ /\ ~Held(w)
        /\ worker[w].step \in {"preparing", "calling", "called"}
        /\ worker' = [worker EXCEPT ![w].leaseLost = TRUE]
        /\ UNCHANGED job /\ NoFault
     \/ /\ Held(w)
        /\ worker[w].step \in {"preparing", "calling", "called"}
        /\ worker' = [worker EXCEPT ![w].leaseLost = TRUE]
        /\ UNCHANGED job /\ Fault
  /\ UNCHANGED <<clock, result, objects, accepted, ackLost>>

\* leaseTimeoutMs have passed since lockedAt: the owner is gone, stalled,
\* or the database was out of its reach.
LeaseExpires(j) ==
  /\ job[j].status = "RUNNING"
  /\ ~job[j].expired
  /\ job' = [job EXCEPT ![j].expired = TRUE]
  /\ UNCHANGED <<clock, result, objects, worker, accepted, ackLost, faults>>

\* The process dies between two awaits, or a database error outside the
\* try block ends it (the claim, the recovery, failOrRetry itself).
Crash(w) ==
  /\ worker[w].step # "down"
  /\ worker' = [worker EXCEPT ![w] = At("down")]
  /\ Fault
  /\ UNCHANGED <<job, clock, result, objects, accepted, ackLost>>

Restart(w) ==
  /\ worker[w].step = "down"
  /\ Goto(w, "idle")
  /\ UNCHANGED <<job, clock, result, objects, accepted, ackLost, faults>>

-----------------------------------------------------------------------------
RunOnce(w) ==
  \/ RecoverExpiredJobs(w) \/ ClaimNextJob(w) \/ NothingToClaim(w)
  \/ PreparationFails(w) \/ MarkSubmitting(w) \/ GenerateBackground(w)
  \/ MarkSubmitted(w) \/ PollPending(w) \/ PollEnds(w) \/ PutObject(w)
  \/ CommitResult(w) \/ CompensateResult(w) \/ FailOrRetry(w)

Next ==
  \/ \E j \in Jobs : CreateJob(j) \/ LeaseExpires(j)
  \/ \E w \in Workers : RunOnce(w) \/ Heartbeat(w) \/ Crash(w) \/ Restart(w)

Spec == Init /\ [][Next]_vars

\* A live process goes on (every await has a timeout or an answer), a dead
\* one is restarted, and the lease of a job nobody works on runs out.
Unattended(j) == \A w \in Workers : Busy(w) => worker[w].job # j

Fairness ==
  /\ \A w \in Workers : WF_vars(RunOnce(w)) /\ WF_vars(Restart(w))
  /\ \A j \in Jobs : WF_vars(LeaseExpires(j) /\ Unattended(j))

FairSpec == Spec /\ Fairness

-----------------------------------------------------------------------------
(* Properties.                                                             *)

\* The provider takes on (and bills) at most one request per job, across
\* retries, lease expiries, stalled workers and crashes: what
\* markSubmitting, the AMBIGUOUS state and the recovery rule are for.
AtMostOneSubmission == \A j \in Jobs : accepted[j] <= 1

\* A failed job whose row says NOT_STARTED never reached the provider, so
\* the user may submit it again without paying twice.
UnsubmittedFailureIsUnbilled ==
  \A j \in Jobs :
    job[j].status = "FAILED" /\ job[j].submission = "NOT_STARTED"
      => accepted[j] = 0

\* A queued job has an attempt left: no row waits in the queue that the
\* claim query will never select.
QueuedJobsAreClaimable ==
  \A j \in Jobs : job[j].status = "QUEUED" => job[j].attempts < MaxAttempts

\* The object a result names is in the store, unless the COMMIT that
\* recorded it was answered by an error.
ResultsHaveObjects ==
  \A j \in Jobs \ ackLost : result[j] # 0 => <<j, result[j]>> \in objects

\* Without infrastructure faults every object is named by a result or still
\* in the hands of the worker that wrote it: a lease lost between the put
\* and the transaction leaves no orphan.
NoOrphanWithoutFaults ==
  faults = 0 =>
    \A o \in objects :
      \/ result[o[1]] = o[2]
      \/ \E w \in Workers : /\ worker[w].step \in {"committing", "compensating"}
                            /\ ObjectKey(w) = o

\* A project never has two jobs queued or running.
OneActiveJobPerProject ==
  \A j, k \in Jobs :
    /\ ProjectOf[j] = ProjectOf[k]
    /\ job[j].status \in Active
    /\ job[k].status \in Active
    => j = k

\* The job table implements the abstract lifecycle, whatever the workers do.
Lifecycle == INSTANCE JobLifecycle
               WITH status   <- [j \in Jobs |-> job[j].status],
                    attempts <- [j \in Jobs |-> job[j].attempts]

ImplementsLifecycle == Lifecycle!Spec

\* Every queued job of a provider some worker serves is eventually decided.
EveryJobIsDecided ==
  \A j \in Jobs :
    (\E w \in Workers : ServedBy[w] = ProviderOf[j]) => Lifecycle!Terminates(j)
=============================================================================
