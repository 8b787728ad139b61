------------------------ MODULE GenerationInvariants ------------------------
(***************************************************************************)
(* The inductive invariant behind the safety properties of                 *)
(* GenerationWorker: why a job is never handed to the provider twice.      *)
(***************************************************************************)
EXTENDS GenerationWorker

\* What a row says about itself.  The lease token of a running job is that
\* of its last claim, any other row has none; a job that waits was never
\* submitted and has an attempt left.
RowInv ==
  \A j \in Jobs :
    /\ job[j].status = "RUNNING" => /\ job[j].token = job[j].attempts
                                    /\ job[j].attempts # 0
    /\ job[j].status # "RUNNING" => job[j].token = 0
    /\ job[j].status = "ABSENT" => job[j].attempts = 0
    /\ job[j].status \in {"ABSENT", "QUEUED"} =>
         job[j].submission = "NOT_STARTED"
    /\ job[j].status = "QUEUED" => job[j].attempts < MaxAttempts

\* A worker's token is that of the job's last claim or an older one, and no
\* two workers ever got the same.
LeaseInv ==
  /\ \A w \in Workers : Busy(w) => worker[w].token <= RowOf(w).attempts
  /\ \A v, w \in Workers :
       /\ Busy(v) /\ Busy(w)
       /\ worker[v].job = worker[w].job /\ worker[v].token = worker[w].token
       => v = w

\* The store.  A result names an attempt that was made, and a worker that
\* still writes for that attempt lost the answer to its COMMIT; who is about
\* to commit has put its object; whatever is stored has a token for a name.
ObjectInv ==
  /\ \A j \in Jobs : result[j] <= job[j].attempts
  /\ \A w \in Workers :
       /\ Busy(w) /\ result[worker[w].job] = worker[w].token
            => worker[w].job \in ackLost
       /\ worker[w].step = "committing" => ObjectKey(w) \in objects
  /\ \A o \in objects : o[2] # 0
  /\ ResultsHaveObjects
  /\ NoOrphanWithoutFaults

\* A worker about to call the provider still holds the row it marked, or the
\* recovery has failed the job for good.
CallerInv ==
  \A w \in Workers : worker[w].step = "calling" =>
    /\ accepted[worker[w].job] = 0
    /\ \/ Held(w) /\ RowOf(w).submission = "SUBMITTING"
       \/ RowOf(w).status = "FAILED" /\ RowOf(w).submission # "NOT_STARTED"

\* No two workers are about to call the provider for the same job.
OneCaller ==
  \A v, w \in Workers :
    /\ worker[v].step = "calling" /\ worker[w].step = "calling"
    /\ worker[v].job = worker[w].job
    => v = w

\* A worker that holds a row it has not marked finds it unmarked.
PreparingInv ==
  \A w \in Workers :
    worker[w].step = "preparing" /\ Held(w) => RowOf(w).submission = "NOT_STARTED"

\* A failure that lets the job be submitted again is not that of a request
\* the provider took on.
FailingInv ==
  \A w \in Workers :
    /\ worker[w].step = "failing" /\ Held(w)
    /\ ~worker[w].failure.submitted /\ ~worker[w].failure.ambiguous
    => accepted[worker[w].job] = 0

\* A request the provider took on is never behind a row that may be claimed
\* or marked again.
AcceptedInv ==
  \A j \in Jobs :
    /\ accepted[j] <= 1
    /\ accepted[j] # 0 =>
         \/ job[j].status \in Terminal
         \/ job[j].status = "RUNNING" /\ job[j].submission # "NOT_STARTED"

BillingInv == /\ CallerInv /\ OneCaller /\ PreparingInv /\ FailingInv
              /\ AcceptedInv /\ UnsubmittedFailureIsUnbilled

IInv == TypeOK /\ RowInv /\ LeaseInv /\ ObjectInv /\ BillingInv
=============================================================================
