------------------------ MODULE StyleAnalysisWorker ------------------------
(***************************************************************************)
(* The style analysis queue and the numbered StyleSpec revisions of a      *)
(* project, which the analysis workers and the users' requests write.      *)
(*                                                                         *)
(* Unlike the generation worker this one has no lease token and no         *)
(* heartbeat: its updates ask for RUNNING only.  The row lock on Project   *)
(* that createJob, completeJob and saveUserRevision take is modelled, so a *)
(* transaction is several steps with other statements in between.          *)
(***************************************************************************)
EXTENDS Naturals, FiniteSets

CONSTANTS
  Jobs,            \* the (project, idempotencyKey) pairs clients may submit
  Projects,
  ProjectOf,       \* the project of a job
  Providers,
  ProviderOf,      \* Job.providerName
  Workers,
  ServedBy,        \* provider.name of a worker process
  Editors,         \* requests that write a revision: a user's save, or a
                   \* generation job created with a generation context
  MaxAttempts,     \* Job.maxAttempts
  MaxSaves,        \* bound: revisions written by requests in one behaviour
  MaxFaults,       \* bound: infrastructure faults in one behaviour
  NoJob, NoOne

ASSUME StyleAssumption ==
  /\ ProjectOf \in [Jobs -> Projects]
  /\ ProviderOf \in [Jobs -> Providers]
  /\ ServedBy \in [Workers -> Providers]
  /\ Workers \cap Editors = {}
  /\ NoJob \notin Jobs /\ NoOne \notin Workers \cup Editors
  /\ MaxAttempts \in Nat \ {0}
  /\ MaxSaves \in Nat /\ MaxFaults \in Nat

VARIABLES
  job,        \* the rows of table Job
  clock,      \* database time, advanced by every insert
  revisions,  \* the rows of table StyleSpecRevision
  lock,       \* who holds the row lock on a project
  worker,     \* the local state of every worker process
  editor,     \* the local state of every saving request
  refused,    \* a revision met @@unique([projectId, revisionNumber]) (history)
  saves,      \* revisions requests began to write so far
  overran,    \* a lease ran out under a worker still at its turn (history)
  faults      \* infrastructure faults so far

vars == <<job, clock, revisions, lock, worker, editor, refused, saves, overran, faults>>

-----------------------------------------------------------------------------
Active   == {"QUEUED", "RUNNING"}
Terminal == {"SUCCEEDED", "FAILED"}

Row == [status    : {"ABSENT"} \cup Active \cup Terminal,
        createdAt : Nat,
        attempts  : 0..MaxAttempts,    \* attemptCount
        expired   : BOOLEAN,           \* lockedAt is older than the lease
        revision  : Nat]               \* styleSpecRevisionId, 0 is NULL

AbsentRow == [status |-> "ABSENT", createdAt |-> 0, attempts |-> 0,
              expired |-> FALSE, revision |-> 0]

\* source: the job whose analysis wrote it, NoJob when a request did.
Revision == [project : Projects, number : Nat, source : Jobs \cup {NoJob}]

Process == [step      : {"down", "idle", "claiming", "analyzing",
                         "completing", "reading", "writing", "failing"},
            job       : Jobs \cup {NoJob},
            attempts  : 0..MaxAttempts,   \* attemptCount of the claimed row
            number    : Nat,              \* the revision number it will write
            retryable : BOOLEAN]          \* of its WorkerFailure

At(step) == [step |-> step, job |-> NoJob, attempts |-> 0, number |-> 0,
             retryable |-> FALSE]

Request == [step    : {"idle", "reading", "writing"},
            project : Projects,
            number  : Nat]

Busy(w) == worker[w].step \notin {"down", "idle", "claiming"}

\* A transaction that numbers a revision holds the lock of its project.
TypeOK ==
  /\ job \in [Jobs -> Row]
  /\ clock \in Nat /\ saves \in Nat /\ faults \in Nat
  /\ revisions \subseteq Revision
  /\ lock \in [Projects -> Workers \cup Editors \cup {NoOne}]
  /\ worker \in [Workers -> Process]
  /\ editor \in [Editors -> Request]
  /\ refused \in BOOLEAN /\ overran \in BOOLEAN
  /\ \A w \in Workers : Busy(w) => worker[w].job \in Jobs
  /\ \A w \in Workers : worker[w].step \in {"reading", "writing"}
                          => lock[ProjectOf[worker[w].job]] = w
  /\ \A e \in Editors : editor[e].step \in {"reading", "writing"}
                          => lock[editor[e].project] = e

Init ==
  /\ job = [j \in Jobs |-> AbsentRow]
  /\ clock = 0
  /\ revisions = {}
  /\ lock = [p \in Projects |-> NoOne]
  /\ worker = [w \in Workers |-> At("idle")]
  /\ editor \in [Editors -> [step : {"idle"}, project : Projects, number : {0}]]
  /\ refused = FALSE
  /\ overran = FALSE
  /\ saves = 0
  /\ faults = 0

-----------------------------------------------------------------------------
(* Step helpers.                                                           *)

Goto(w, step)      == worker' = [worker EXCEPT ![w].step = step]
Fail(w, retryable) == worker' = [worker EXCEPT ![w].step = "failing",
                                               ![w].retryable = retryable]
Fault   == faults < MaxFaults /\ faults' = faults + 1
NoFault == faults' = faults

\* Mutant of Free: the row is read without FOR UPDATE.
FreeForAll(p) == TRUE

\* SELECT ... FROM "Project" ... FOR UPDATE, held to the transaction's end.
Free(p) == lock[p] = NoOne

LockProject(p, who) == Free(p) /\ lock' = [lock EXCEPT ![p] = who]
Unlock(who)         == lock' = [p \in Projects |-> IF lock[p] = who
                                                 THEN NoOne ELSE lock[p]]

Numbers(p)    == {r.number : r \in {s \in revisions : s.project = p}}
NextNumber(p) == IF Numbers(p) = {} THEN 1
                 ELSE 1 + CHOOSE n \in Numbers(p) : \A m \in Numbers(p) : m <= n

\* The INSERT and the unique index that may refuse it.
InsertRevision(p, number, source) ==
  /\ number \notin Numbers(p)
  /\ revisions' = revisions \cup
                    {[project |-> p, number |-> number, source |-> source]}

-----------------------------------------------------------------------------
(* The services.                                                           *)

\* StyleAnalysisJobService.createJob(): nothing happens between its lock and
\* its commit that the lock does not keep out, so it is one step.
CreateJob(j) ==
  /\ Free(ProjectOf[j])
  /\ job[j].status = "ABSENT"
  /\ \A k \in Jobs : ProjectOf[k] = ProjectOf[j] => job[k].status \notin Active
  /\ job' = [job EXCEPT ![j] = [AbsentRow EXCEPT !.status = "QUEUED",
                                                 !.createdAt = clock]]
  /\ clock' = clock + 1
  /\ UNCHANGED <<revisions, lock, worker, editor, refused, saves, overran, faults>>

\* StyleSpecService.saveUserRevision(), and the revision that
\* GenerationService.createJob() derives from a generation context: lock,
\* number, insert and commit.
BeginSave(e) ==
  /\ editor[e].step = "idle"
  /\ saves < MaxSaves
  /\ \E p \in Projects :
       /\ LockProject(p, e)
       /\ editor' = [editor EXCEPT ![e].step = "reading", ![e].project = p]
  /\ saves' = saves + 1
  /\ UNCHANGED <<job, clock, revisions, worker, refused, overran, faults>>

NumberSave(e) ==
  /\ editor[e].step = "reading"
  /\ editor' = [editor EXCEPT ![e].step = "writing",
                              ![e].number = NextNumber(editor[e].project)]
  /\ UNCHANGED <<job, clock, revisions, lock, worker, refused, saves, overran, faults>>

\* The transaction ends: committed, or rolled back (the index refuses the
\* number, or createJob() finds the product's asset missing).
EndSave(e) ==
  LET p == editor[e].project
      n == editor[e].number
  IN
  /\ editor[e].step = "writing"
  /\ InsertRevision(p, n, NoJob) \/ UNCHANGED revisions
  /\ refused' = (refused \/ n \in Numbers(p))
  /\ editor' = [editor EXCEPT ![e].step = "idle", ![e].number = 0]
  /\ Unlock(e)
  /\ UNCHANGED <<job, clock, worker, saves, overran, faults>>

-----------------------------------------------------------------------------
(* A worker's turn: StyleAnalysisWorker.runOnce().                         *)

\* Mutant of Running: the update asks for the id only.
Existing(j) == job[j].status # "ABSENT"

Running(j) == job[j].status = "RUNNING"

\* Mutant of Expired: a job without attempts left is not recovered.
ExpiredWithAttemptsLeft(j) == /\ job[j].status = "RUNNING" /\ job[j].expired
                              /\ job[j].attempts < MaxAttempts

Expired(j) == job[j].status = "RUNNING" /\ job[j].expired

RecoverExpiredJobs(w) ==
  /\ worker[w].step = "idle"
  /\ job' = [j \in Jobs |->
               IF Expired(j)
                 THEN [job[j] EXCEPT
                         !.status = IF job[j].attempts < MaxAttempts
                                      THEN "QUEUED" ELSE "FAILED",
                         !.expired = FALSE]
                 ELSE job[j]]
  /\ Goto(w, "claiming")
  /\ UNCHANGED <<clock, revisions, lock, editor, refused, saves, overran, faults>>

Claimable(w) == {j \in Jobs : /\ job[j].status = "QUEUED"
                              /\ job[j].attempts < MaxAttempts
                              /\ ProviderOf[j] = ServedBy[w]}

ClaimNextJob(w) ==
  /\ worker[w].step = "claiming"
  /\ \E j \in Claimable(w) :
       /\ \A k \in Claimable(w) : job[j].createdAt <= job[k].createdAt
       /\ job' = [job EXCEPT ![j].status = "RUNNING",
                             ![j].attempts = @ + 1,
                             ![j].expired = FALSE]
       /\ worker' = [worker EXCEPT ![w] = [At("analyzing") EXCEPT
                                             !.job = j,
                                             !.attempts = job[j].attempts + 1]]
  /\ UNCHANGED <<clock, revisions, lock, editor, refused, saves, overran, faults>>

NothingToClaim(w) ==
  /\ worker[w].step = "claiming"
  /\ Claimable(w) = {}
  /\ Goto(w, "idle")
  /\ UNCHANGED <<job, clock, revisions, lock, editor, refused, saves, overran, faults>>

\* The input, the reference images, the provider's answer and its schema:
\* nothing shared changes.  Rate limits and timeouts are retryable.
Analyze(w) ==
  /\ worker[w].step = "analyzing"
  /\ \/ Goto(w, "completing")
     \/ \E retryable \in BOOLEAN : Fail(w, retryable)
  /\ UNCHANGED <<job, clock, revisions, lock, editor, refused, saves, overran, faults>>

\* completeJob(): the project's lock, or a transaction that cannot get it.
BeginCompletion(w) ==
  /\ worker[w].step = "completing"
  /\ \/ /\ LockProject(ProjectOf[worker[w].job], w)
        /\ Goto(w, "reading") /\ NoFault
     \/ Fail(w, FALSE) /\ UNCHANGED lock /\ Fault
  /\ UNCHANGED <<job, clock, revisions, editor, refused, saves, overran>>

\* completeJob(): is the job still running, and what is the latest number?
NumberRevision(w) ==
  /\ worker[w].step = "reading"
  /\ IF Running(worker[w].job)
       THEN /\ worker' = [worker EXCEPT
                            ![w].step = "writing",
                            ![w].number = NextNumber(ProjectOf[worker[w].job])]
            /\ UNCHANGED lock
       ELSE Fail(w, FALSE) /\ Unlock(w)
  /\ UNCHANGED <<job, clock, revisions, editor, refused, saves, overran, faults>>

\* completeJob(): revision and SUCCEEDED together, or nothing; the answer
\* to a COMMIT that took effect may be lost.
CommitCompletion(w) ==
  LET j       == worker[w].job
      taken   == worker[w].number \in Numbers(ProjectOf[j])
      Commit  == /\ Running(j)
                 /\ InsertRevision(ProjectOf[j], worker[w].number, j)
                 /\ job' = [job EXCEPT ![j].status = "SUCCEEDED",
                                       ![j].revision = worker[w].number,
                                       ![j].expired = FALSE]
  IN /\ worker[w].step = "writing"
     /\ \/ /\ Commit /\ worker' = [worker EXCEPT ![w] = At("idle")]
           /\ NoFault
        \/ Commit /\ Fail(w, FALSE) /\ Fault
        \/ /\ ~Running(j) \/ taken
           /\ UNCHANGED <<job, revisions>> /\ Fail(w, FALSE) /\ NoFault
        \/ UNCHANGED <<job, revisions>> /\ Fail(w, FALSE) /\ Fault
     /\ refused' = (refused \/ taken)
     /\ Unlock(w)
     /\ UNCHANGED <<clock, editor, saves, overran>>

\* Mutant of Retries: the last attempt is retried as well.
RetriesForever(w) == worker[w].retryable

\* maxAttempts is compared with the count of the worker's own claim.
Retries(w) == worker[w].retryable /\ worker[w].attempts < MaxAttempts

\* failOrRetry(): the row is asked for RUNNING, not for whose it is.
FailOrRetry(w) ==
  LET j == worker[w].job
  IN /\ worker[w].step = "failing"
     /\ IF Running(j)
          THEN job' = [job EXCEPT ![j].status = IF Retries(w) THEN "QUEUED"
                                                              ELSE "FAILED",
                                  ![j].expired = FALSE]
          ELSE UNCHANGED job
     /\ worker' = [worker EXCEPT ![w] = At("idle")]
     /\ UNCHANGED <<clock, revisions, lock, editor, refused, saves, overran, faults>>

-----------------------------------------------------------------------------
(* Time and crashes.                                                       *)

Unattended(j) == \A w \in Workers : Busy(w) => worker[w].job # j

LeaseExpires(j) ==
  /\ job[j].status = "RUNNING"
  /\ ~job[j].expired
  /\ job' = [job EXCEPT ![j].expired = TRUE]
  /\ overran' = (overran \/ ~Unattended(j))
  /\ UNCHANGED <<clock, revisions, lock, worker, editor, refused, saves, faults>>

\* A dead process loses its connection and with it its open transaction.
Crash(w) ==
  /\ worker[w].step # "down"
  /\ worker' = [worker EXCEPT ![w] = At("down")]
  /\ Unlock(w)
  /\ Fault
  /\ UNCHANGED <<job, clock, revisions, editor, refused, saves, overran>>

Restart(w) ==
  /\ worker[w].step = "down"
  /\ Goto(w, "idle")
  /\ UNCHANGED <<job, clock, revisions, lock, editor, refused, saves, overran, faults>>

-----------------------------------------------------------------------------
RunOnce(w) ==
  \/ RecoverExpiredJobs(w) \/ ClaimNextJob(w) \/ NothingToClaim(w)
  \/ Analyze(w) \/ BeginCompletion(w) \/ NumberRevision(w)
  \/ CommitCompletion(w) \/ FailOrRetry(w)

Save(e) == BeginSave(e) \/ NumberSave(e) \/ EndSave(e)

Next ==
  \/ \E j \in Jobs : CreateJob(j) \/ LeaseExpires(j)
  \/ \E w \in Workers : RunOnce(w) \/ Crash(w) \/ Restart(w)
  \/ \E e \in Editors : Save(e)

Spec == Init /\ [][Next]_vars

\* Live processes go on, dead ones are restarted, the lease of a job nobody
\* works on runs out, and a transaction waiting for a lock that is free
\* again and again gets it (PostgreSQL queues the waiters of a row).
Fairness ==
  /\ \A w \in Workers : /\ WF_vars(RunOnce(w)) /\ WF_vars(Restart(w))
                        /\ SF_vars(BeginCompletion(w))
  /\ \A e \in Editors : WF_vars(NumberSave(e) \/ EndSave(e))
  /\ \A j \in Jobs : WF_vars(LeaseExpires(j) /\ Unattended(j))

FairSpec == Spec /\ Fairness

-----------------------------------------------------------------------------
(* Properties.                                                             *)

\* Analyses and requests number the revisions of a project 1, 2, 3, ... with no
\* gap, and the unique index never has to refuse one: what the project lock
\* around "latest + 1" is for.
RevisionsAreNumberedInTurn ==
  /\ ~refused
  /\ \A p \in Projects :
       Numbers(p) = 1 .. Cardinality({r \in revisions : r.project = p})

\* A job wrote one revision if it succeeded, the one its row names, and none
\* otherwise, whatever the workers that were given the job did.
OneRevisionPerSuccess ==
  \A j \in Jobs :
    {r \in revisions : r.source = j} =
      IF job[j].status = "SUCCEEDED"
        THEN {[project |-> ProjectOf[j], number |-> job[j].revision,
               source |-> j]}
        ELSE {}

\* A job that was decided is never touched again: not by a worker that
\* finishes late, nor by one that lost the answer to its COMMIT.
DecidedRowsAreFinal ==
  [][\A j \in Jobs : job[j].status \in Terminal => job'[j] = job[j]]_vars

\* A queued job has an attempt left for the claim query to select it by.
QueuedJobsAreClaimable ==
  \A j \in Jobs : job[j].status = "QUEUED" => job[j].attempts < MaxAttempts

\* The job table implements the abstract lifecycle as long as no worker has
\* outlasted its lease.
Lifecycle == INSTANCE JobLifecycle
               WITH status   <- [j \in Jobs |-> job[j].status],
                    attempts <- [j \in Jobs |-> job[j].attempts]

ImplementsLifecycle ==
  Lifecycle!Init /\ [][~overran' => Lifecycle!Next]_vars

\* Every job of a provider some worker serves is eventually decided, as long
\* as no worker has outlasted its lease.
EveryJobIsDecided ==
  \A j \in Jobs :
    (\E w \in Workers : ServedBy[w] = ProviderOf[j])
      => (job[j].status \in Active ~> job[j].status \in Terminal \/ overran)
=============================================================================
