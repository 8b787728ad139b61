--------------------------- MODULE BenchmarkRuns ---------------------------
(***************************************************************************)
(* Generation benchmarks: a run sends one picture request per variant, the *)
(* plain prompt and the style spec, to the paid provider and keeps both    *)
(* results side by side.  Clients create runs, any number of benchmark     *)
(* workers claim the two jobs of each.                                     *)
(*                                                                         *)
(* A run is named by its idempotency key, the browser draws a new one for  *)
(* every click, so a request repeated after a lost answer has another key  *)
(* and the same experiment.  A worker's turn is BenchmarkWorker.runOnce(); *)
(* each await that reaches database, provider or store is an action.       *)
(***************************************************************************)
EXTENDS Naturals, FiniteSets, ImageProvider

CONSTANTS
  Keys,         \* idempotency keys
  Experiments,  \* inputs of a run, as they enter its fingerprint
  Workers,
  MaxAttempts,  \* BenchmarkJob.maxAttempts
  StyleAnswers, \* what the image generation adapter may answer
  MaxFaults,    \* bound: infrastructure faults in one behaviour
  NoExperiment, NoJob

Variants == {"PLAIN_PROMPT", "STYLE_SPEC"}
Jobs     == Keys \X Variants

ASSUME BenchmarkAssumption ==
  /\ IsFiniteSet(Keys)
  /\ NoExperiment \notin Experiments
  /\ NoJob \notin Jobs
  /\ MaxAttempts \in Nat \ {0}
  /\ StyleAnswers \subseteq Answers
  /\ MaxFaults \in Nat

VARIABLES
  run,       \* the rows of table BenchmarkRun, by idempotency key
  job,       \* the rows of table BenchmarkJob
  result,    \* BenchmarkResult: the attempt whose asset it names, or 0
  objects,   \* the keys in the bucket: <<job, attempt that wrote it>>
  worker,    \* the local state of every worker process
  accepted,  \* the requests the provider took on for a job (history)
  ackLost,   \* jobs whose committed result was answered by an error (history)
  faults     \* infrastructure faults so far

vars == <<run, job, result, objects, worker, accepted, ackLost, faults>>

-----------------------------------------------------------------------------
Run == [experiment : Experiments \cup {NoExperiment},
        createdAt  : Nat]                       \* its place in the queue

Active   == {"QUEUED", "RUNNING"}
Terminal == {"SUCCEEDED", "FAILED"}
Counts   == 0..MaxAttempts

\* The lease token is fresh at every claim: the attempt names it, 0 is NULL.
Row == [status     : {"ABSENT"} \cup Active \cup Terminal,
        attempts   : Counts,              \* attemptCount
        token      : Counts,              \* leaseToken
        expired    : BOOLEAN,             \* lockedAt is older than the lease
        submission : {"NOT_STARTED", "SUBMITTING", "SUBMITTED",
                      "AMBIGUOUS", "COMPLETED"},
        invoked    : BOOLEAN,             \* providerInvocationKey # null
        requestId  : BOOLEAN]             \* providerRequestId # null

AbsentRow == [status |-> "ABSENT", attempts |-> 0, token |-> 0,
              expired |-> FALSE, submission |-> "NOT_STARTED",
              invoked |-> FALSE, requestId |-> FALSE]

\* A BenchmarkFailure: the submission state it leaves, and whether the code
\* is one that may be retried.
Failure == [state     : {"NOT_STARTED", "SUBMITTED", "AMBIGUOUS"},
            retryable : BOOLEAN,
            requestId : BOOLEAN]

Failed(state, requestId) ==
  [state |-> state, retryable |-> FALSE, requestId |-> requestId]

Unsent == Failed("NOT_STARTED", FALSE)

\* The await of runOnce() a worker is about to perform.
BusySteps == {"preparing", "calling", "called", "storing", "reading",
              "committing", "compensating", "failing"}

Process == [step      : {"down", "idle", "claiming"} \cup BusySteps,
            job       : Jobs \cup {NoJob},
            token     : Counts,
            failure   : Failure]

At(step) == [step |-> step, job |-> NoJob, token |-> 0, failure |-> Unsent]

Init ==
  /\ run = [k \in Keys |-> [experiment |-> NoExperiment, createdAt |-> 0]]
  /\ job = [j \in Jobs |-> AbsentRow]
  /\ result = [j \in Jobs |-> 0]
  /\ objects = {}
  /\ worker = [w \in Workers |-> At("idle")]
  /\ accepted = [j \in Jobs |-> 0]
  /\ ackLost = {}
  /\ faults = 0

-----------------------------------------------------------------------------
Busy(w)  == worker[w].step \in BusySteps
RowOf(w) == job[worker[w].job]

Goto(w, step) == worker' = [worker EXCEPT ![w].step = step]
Fail(w, f)    == worker' = [worker EXCEPT ![w].step = "failing",
                                          ![w].failure = f]
Finish(w)     == worker' = [worker EXCEPT ![w] = At("idle")]
SetRow(w, r)  == job' = [job EXCEPT ![worker[w].job] = r]

Fault   == faults < MaxFaults /\ faults' = faults + 1
NoFault == faults' = faults

\* The WHERE clause of every update: RUNNING under this lease token.
Held(w) == RowOf(w).status = "RUNNING" /\ RowOf(w).token = worker[w].token

ObjectKey(w) == <<worker[w].job, worker[w].token>>

-----------------------------------------------------------------------------
(* BenchmarkService.createRun()                                            *)

\* Mutant of Fingerprint: the request's key enters it.
FingerprintOfRequest(k, e) == <<k, e>>

\* createExperimentFingerprint(): what it is computed from is the experiment,
\* read under the project's row lock; the key is not part of it.
Fingerprint(k, e) == e

Created(k) == run[k].experiment # NoExperiment

\* Under the lock, a known key or a known fingerprint answers with its run
\* and writes nothing; neither does a project without a second style
\* revision, a product image or a distinct reference image.
CreateRun(k, e) ==
  /\ ~Created(k)
  /\ \A l \in Keys :
       Created(l) => Fingerprint(l, run[l].experiment) # Fingerprint(k, e)
  /\ run' = [run EXCEPT ![k] = [experiment |-> e,
                                createdAt |-> Cardinality({l \in Keys : Created(l)})]]
  /\ job' = [j \in Jobs |-> IF j[1] = k
                              THEN [AbsentRow EXCEPT !.status = "QUEUED"]
                              ELSE job[j]]
  /\ UNCHANGED <<result, objects, worker, accepted, ackLost, faults>>

-----------------------------------------------------------------------------
(* BenchmarkWorker: recover, claim, call.                                  *)

NeverSubmitted(r) ==
  r.submission = "NOT_STARTED" /\ ~r.invoked /\ ~r.requestId

\* Mutant of Expired: only a job that reached the provider is recovered.
ExpiredSubmitted(r) == r.status = "RUNNING" /\ r.expired /\ ~NeverSubmitted(r)

Expired(r) == r.status = "RUNNING" /\ r.submission # "AMBIGUOUS" /\ r.expired

\* The two updates of recoverExpiredJobs().  The first one, for rows that
\* are RUNNING and AMBIGUOUS, finds none that this program wrote.
Recovered(r) ==
  IF ~Expired(r) THEN r
  ELSE [r EXCEPT
          !.status = IF NeverSubmitted(r) /\ r.attempts < MaxAttempts
                       THEN "QUEUED" ELSE "FAILED",
          !.submission = IF NeverSubmitted(r) THEN "NOT_STARTED"
                                              ELSE "AMBIGUOUS",
          !.token = 0,
          !.expired = FALSE]

RecoverExpiredJobs(w) ==
  /\ worker[w].step = "idle"
  /\ job' = [j \in Jobs |-> Recovered(job[j])]
  /\ Goto(w, "claiming")
  /\ UNCHANGED <<run, result, objects, accepted, ackLost, faults>>

Claimable == {j \in Jobs : /\ job[j].status = "QUEUED"
                           /\ job[j].attempts < MaxAttempts}

\* ORDER BY "createdAt", "variant".
Before(i, j) ==
  \/ run[i[1]].createdAt < run[j[1]].createdAt
  \/ /\ run[i[1]].createdAt = run[j[1]].createdAt
     /\ i[2] = "PLAIN_PROMPT" \/ j[2] = "STYLE_SPEC"

ClaimNextJob(w) ==
  /\ worker[w].step = "claiming"
  /\ \E j \in Claimable :
       /\ \A i \in Claimable : Before(j, i)
       /\ job' = [job EXCEPT ![j].status = "RUNNING",
                             ![j].attempts = @ + 1,
                             ![j].token = job[j].attempts + 1,
                             ![j].expired = FALSE]
       /\ worker' = [worker EXCEPT ![w] = [At("preparing") EXCEPT
                                             !.job = j,
                                             !.token = job[j].attempts + 1]]
  /\ UNCHANGED <<run, result, objects, accepted, ackLost, faults>>

NothingToClaim(w) ==
  /\ worker[w].step = "claiming"
  /\ Claimable = {}
  /\ Goto(w, "idle")
  /\ UNCHANGED <<run, job, result, objects, accepted, ackLost, faults>>

\* The stored input, the provider's name or model, the run's context or an
\* asset does not match its snapshot: nothing was sent, nothing is retried.
PreparationFails(w) ==
  /\ worker[w].step = "preparing"
  /\ Fail(w, Unsent)
  /\ UNCHANGED <<run, job, result, objects, accepted, ackLost, faults>>

\* The fence in front of the paid call; its answer may be lost.
MarkSubmitting(w) ==
  LET fenced == Held(w) /\ RowOf(w).submission = "NOT_STARTED"
      marked == [RowOf(w) EXCEPT !.submission = "SUBMITTING",
                                 !.invoked = TRUE, !.expired = FALSE]
  IN /\ worker[w].step = "preparing"
     /\ \/ fenced /\ SetRow(w, marked) /\ Goto(w, "calling") /\ NoFault
        \/ ~fenced /\ UNCHANGED job /\ Fail(w, Unsent) /\ NoFault
        \/ fenced /\ SetRow(w, marked) /\ Fail(w, Unsent) /\ Fault
     /\ UNCHANGED <<run, result, objects, accepted, ackLost>>

\* PlainPromptQwenProvider.generate(): the POST and the download have error
\* mappings of their own here.  Assumed of the service, as for the adapter:
\* only a timeout or a 5xx answer hides an accepted request.
PlainPostErrors ==
  {AdapterError(FALSE, FALSE, FALSE, "REJECTED"),              \* 401, 403
   AdapterError(FALSE, TRUE, FALSE, "REJECTED"),               \* 429
   InvalidResponse(FALSE, FALSE)}                              \* other 4xx
  \cup {TimedOut(sent, FALSE) : sent \in BOOLEAN}              \* 5xx, network

PlainDownloadErrors ==
  {AdapterError(TRUE, FALSE, FALSE, "MAY_HAVE_BEEN_ACCEPTED"), \* bad body
   InvalidResponse(TRUE, TRUE), TimedOut(TRUE, TRUE)}

PlainAnswers == {Accepted} \cup PlainPostErrors \cup PlainDownloadErrors

\* normalizeFailure() while the local submissionState is SUBMITTING.
NormalizeFailure(a) ==
  IF a.result = "ADAPTER_ERROR" /\ a.disposition # "MAY_HAVE_BEEN_ACCEPTED"
    THEN [state |-> "NOT_STARTED", retryable |-> a.retryable,
          requestId |-> a.requestId]
    ELSE Failed("AMBIGUOUS", a.requestId)

CallProvider(w) ==
  LET j == worker[w].job IN
  /\ worker[w].step = "calling"
  /\ \E a \in IF j[2] = "PLAIN_PROMPT" THEN PlainAnswers ELSE StyleAnswers :
       /\ accepted' = [accepted EXCEPT ![j] = IF a.accepted THEN @ + 1 ELSE @]
       /\ IF a.result = "OK" THEN Goto(w, "called")
                             ELSE Fail(w, NormalizeFailure(a))
  /\ UNCHANGED <<run, job, result, objects, ackLost, faults>>

\* markSubmitted(): a lost lease or a lost fence makes the attempt ambiguous,
\* and so does any error of the statement.  The timer's flag leaseLost is read
\* here only: set by a heartbeat that found the lease gone, it says what Held
\* says; set by one that failed, it is a fault after which nothing is written.
MarkSubmitted(w) ==
  LET fenced == Held(w) /\ RowOf(w).submission = "SUBMITTING"
      marked == [RowOf(w) EXCEPT !.submission = "SUBMITTED",
                                 !.requestId = TRUE, !.expired = FALSE]
      ambiguous == Fail(w, Failed("AMBIGUOUS", TRUE))
  IN /\ worker[w].step = "called"
     /\ \/ fenced /\ SetRow(w, marked) /\ Goto(w, "storing") /\ NoFault
        \/ ~fenced /\ UNCHANGED job /\ ambiguous /\ NoFault
        \/ fenced /\ (UNCHANGED job \/ SetRow(w, marked)) /\ ambiguous /\ Fault
     /\ UNCHANGED <<run, result, objects, accepted, ackLost>>

-----------------------------------------------------------------------------
(* storeResult() and failOrRetry().                                        *)

\* The style variant's single getJobStatus(), image and usage of either
\* variant, whose errors all know the request id and so are ambiguous, and
\* then the put.
PutObject(w) ==
  /\ worker[w].step = "storing"
  /\ \/ UNCHANGED objects /\ Fail(w, Failed("AMBIGUOUS", TRUE)) /\ NoFault
     \/ /\ objects' = objects \cup {ObjectKey(w)}
        /\ Goto(w, "reading") /\ NoFault
     \/ /\ objects' \in {objects, objects \cup {ObjectKey(w)}}
        /\ Fail(w, Failed("SUBMITTED", TRUE)) /\ Fault
  /\ UNCHANGED <<run, job, result, accepted, ackLost>>

\* The transaction first reads the job, without a lock.
ReadActiveJob(w) ==
  /\ worker[w].step = "reading"
  /\ Goto(w, IF Held(w) THEN "committing" ELSE "compensating")
  /\ UNCHANGED <<run, job, result, objects, accepted, ackLost, faults>>

\* Mutant of StillHeld: the row count of the update is not looked at.
UncheckedUpdate(w) == TRUE

\* updated.count === 1: the lease may have gone since the read.
StillHeld(w) == Held(w)

\* Asset, result and, if the row is still held, SUCCEEDED; all or nothing.
Committed(w) ==
  /\ StillHeld(w) /\ result[worker[w].job] = 0
  /\ result' = [result EXCEPT ![worker[w].job] = worker[w].token]
  /\ IF Held(w)
       THEN SetRow(w, [RowOf(w) EXCEPT
                         !.status = "SUCCEEDED", !.token = 0,
                         !.submission = "COMPLETED", !.expired = FALSE])
       ELSE UNCHANGED job

\* Any error leads to the compensation, the lost answer of a COMMIT that
\* took effect included.
CommitResult(w) ==
  /\ worker[w].step = "committing"
  /\ \/ Committed(w) /\ Finish(w) /\ NoFault /\ UNCHANGED ackLost
     \/ /\ Committed(w) /\ Goto(w, "compensating") /\ Fault
        /\ ackLost' = ackLost \cup {worker[w].job}
     \/ /\ ~StillHeld(w) /\ UNCHANGED <<job, result, ackLost>>
        /\ Goto(w, "compensating") /\ NoFault
     \/ /\ StillHeld(w) /\ UNCHANGED <<job, result, ackLost>>
        /\ Goto(w, "compensating") /\ Fault
  /\ UNCHANGED <<run, objects, accepted>>

CompensateResult(w) ==
  /\ worker[w].step = "compensating"
  /\ \/ objects' = objects \ {ObjectKey(w)} /\ NoFault
     \/ objects' \in {objects, objects \ {ObjectKey(w)}} /\ Fault
  /\ Fail(w, Failed("SUBMITTED", TRUE))
  /\ UNCHANGED <<run, job, result, accepted, ackLost>>

\* Mutant of Retries: the last attempt is retried as well.
RetriesForever(w) == worker[w].failure.retryable

Retries(w) == worker[w].failure.retryable /\ worker[w].token < MaxAttempts

FailOrRetry(w) ==
  LET f == worker[w].failure IN
  /\ worker[w].step = "failing"
  /\ IF Held(w)
       THEN SetRow(w, [RowOf(w) EXCEPT
                         !.status = IF Retries(w) THEN "QUEUED" ELSE "FAILED",
                         !.submission = f.state,
                         !.requestId = f.requestId,
                         !.token = 0, !.expired = FALSE])
       ELSE UNCHANGED job
  /\ Finish(w)
  /\ UNCHANGED <<run, result, objects, accepted, ackLost, faults>>

-----------------------------------------------------------------------------
(* The timer, time and crashes.                                            *)

Heartbeat(w) ==
  /\ Busy(w)
  /\ Held(w) /\ RowOf(w).expired
  /\ SetRow(w, [RowOf(w) EXCEPT !.expired = FALSE])
  /\ UNCHANGED <<run, result, objects, worker, accepted, ackLost, faults>>

LeaseExpires(j) ==
  /\ job[j].status = "RUNNING" /\ ~job[j].expired
  /\ job' = [job EXCEPT ![j].expired = TRUE]
  /\ UNCHANGED <<run, result, objects, worker, accepted, ackLost, faults>>

\* The process dies, or an error outside the try block ends it.
Crash(w) ==
  /\ worker[w].step # "down"
  /\ worker' = [worker EXCEPT ![w] = At("down")]
  /\ Fault
  /\ UNCHANGED <<run, job, result, objects, accepted, ackLost>>

Restart(w) ==
  /\ worker[w].step = "down"
  /\ Goto(w, "idle")
  /\ UNCHANGED <<run, job, result, objects, accepted, ackLost, faults>>

RunOnce(w) ==
  \/ RecoverExpiredJobs(w) \/ ClaimNextJob(w) \/ NothingToClaim(w)
  \/ PreparationFails(w) \/ MarkSubmitting(w) \/ CallProvider(w)
  \/ MarkSubmitted(w) \/ PutObject(w) \/ ReadActiveJob(w) \/ CommitResult(w)
  \/ CompensateResult(w) \/ FailOrRetry(w)

Next ==
  \/ \E k \in Keys, e \in Experiments : CreateRun(k, e)
  \/ \E j \in Jobs : LeaseExpires(j)
  \/ \E w \in Workers : RunOnce(w) \/ Heartbeat(w) \/ Crash(w) \/ Restart(w)

Spec == Init /\ [][Next]_vars

\* The loop goes on, a dead process is restarted, and the lease of a job
\* nobody works on runs out.
Unattended(j) == \A w \in Workers : Busy(w) => worker[w].job # j

Fairness ==
  /\ \A w \in Workers : WF_vars(RunOnce(w)) /\ WF_vars(Restart(w))
  /\ \A j \in Jobs : WF_vars(LeaseExpires(j) /\ Unattended(j))

FairSpec == Spec /\ Fairness

-----------------------------------------------------------------------------
(* Properties.                                                             *)

TypeOK ==
  /\ run \in [Keys -> Run]
  /\ job \in [Jobs -> Row]
  /\ result \in [Jobs -> Counts]
  /\ objects \subseteq Jobs \X Counts
  /\ worker \in [Workers -> Process]
  /\ \A w \in Workers : Busy(w) => worker[w].job \in Jobs
  /\ accepted \in [Jobs -> Nat]
  /\ ackLost \subseteq Jobs
  /\ faults \in Nat

\* An experiment is paid for at most once per variant, however often and
\* under whatever keys it is requested and whatever happens to the workers:
\* one run per fingerprint, and one accepted request per job of a run.
OneSamplePerVariant ==
  \A k, l \in Keys, v \in Variants :
    run[k].experiment = run[l].experiment =>
      /\ accepted[<<k, v>>] <= 1
      /\ accepted[<<k, v>>] > 0 /\ accepted[<<l, v>>] > 0 => k = l

\* A job that failed as never submitted was never billed, so the same
\* experiment may be tried again by hand.
UnsubmittedFailureIsUnbilled ==
  \A j \in Jobs :
    job[j].status = "FAILED" /\ job[j].submission = "NOT_STARTED"
      => accepted[j] = 0

\* A result exists exactly for the jobs that succeeded, and its object is in
\* the store unless the answer to its COMMIT was lost: also when the lease
\* ran out between the transaction's read and its update.
ResultsMatchRows ==
  \A j \in Jobs :
    /\ result[j] # 0 <=> job[j].status = "SUCCEEDED"
    /\ result[j] # 0 /\ j \notin ackLost => <<j, result[j]>> \in objects

Lifecycle == INSTANCE JobLifecycle
               WITH status   <- [j \in Jobs |-> job[j].status],
                    attempts <- [j \in Jobs |-> job[j].attempts]

\* The benchmark table keeps the promises of every job table.
ImplementsLifecycle == Lifecycle!Spec

\* Every run ends: both of its jobs are eventually decided.
EveryRunEnds == \A j \in Jobs : Lifecycle!Terminates(j)
=============================================================================
