# Formal models of the image generation MVP

TLA+ modules, TLC configurations and TLAPS proofs for the state-changing core of this
repository: a Next.js application over PostgreSQL (Prisma) and an S3 bucket, with queue
workers that call a paid image provider.

## How to run

```
tlc  -config GenerationSafety.cfg MCGenerationWorker     # one model-checking run
tlapm GenerationSafetyProofs.tla                         # the proofs of a module
```

`PROJECT.json` lists every run with its module and properties, the source lines each
definition stands for, the mutants that show a property can fail, the hazards and the findings.

## Inventory

Database rows are shared by every process; PostgreSQL runs at its default isolation (READ
COMMITTED) and the code's own fences are row locks (`SELECT ... FOR UPDATE`), unique indexes
and conditional updates (`UPDATE ... WHERE status = ... AND "leaseToken" = ...`, then the count).

| Component | State it keeps | Operations | Hard behaviour | What makes it correct |
| --- | --- | --- | --- | --- |
| Generation queue and worker (`worker/generation-worker.ts`, `src/services/generation-service.ts`) | `Job` rows (status, attemptCount, lease token and time, submission state), `GenerationResult`, `Asset`, bucket objects, the local variables of `runOnce` | create; recover, claim, mark submitting, call the provider, mark submitted, poll, store, commit, compensate, fail or retry; heartbeat | stalled workers, lost leases, crashes around a paid call, lost answers to COMMIT, two workers on one job | a job is paid for at most once; a result has its object; decided jobs stay so; no project is blocked |
| Image providers (`src/providers/*`) | completed pictures in memory | generate, status, usage | what an error says of a request that may have been accepted | NOT_SENT and REJECTED only when nothing was accepted |
| Style analysis queue and revisions (`worker/style-analysis-worker.ts`, `src/services/style-*.ts`) | `Job` rows, `StyleSpecRevision` numbers | create; recover, claim, analyse, complete, fail or retry; save a revision | no lease token: stale workers; "latest + 1" numbering by three writers | numbers without gap or collision; one revision for a success |
| Product truth (`src/truth/product-truth-revision.ts`) | `ProductTruthRevision`, source links, the active pointer of a project, events | create a revision, activate one | stale expectations, concurrent activations, sources revoked between check and use | one active revision, the one the pointer names; no lost update; eligible sources |
| HTTP idempotency of truth and task requests (`src/http/p2-truth-api.ts`, `src/http/p2-asset-task-api.ts`) | `P2IdempotencyRecord` | run once, replay, conflict | two requests with one key, repeated requests, lost answers, a deadlock of two keys | a key takes effect once; everyone gets the same answer; everyone gets one |
| Asset tasks and internal execution (`src/tasks/*`) | `AssetTask`, attempts, artifacts, artifact revisions, objects | create, get, execute | claim, execute, put, finalize in separate transactions; unknown COMMIT outcome | one execution; row and object decided together |
| Source snapshots (`src/sources/source-snapshot.ts`), product projects (`src/projects/product-project.ts`) | `SourceSnapshot`, `ProductProject` | register, create, card | idempotent creation, an object put inside the transaction | a row has its object; one project per key and SKU |
| Asset upload (`src/services/asset-service.ts`, `src/storage/persist-stored-record.ts`) | `Asset` rows, objects | upload, preview | capacity checked before and under the project lock; compensation | capacity never exceeded; a row has its object |
| Benchmark (`worker/benchmark-worker.ts`, `src/benchmarks/*`) | `BenchmarkRun`, `BenchmarkJob`, `BenchmarkResult`, objects | create a run with two jobs; the same worker protocol | as generation, with two variants per run | as generation; one run per experiment |
| Authentication and workspace scope (`src/auth/*`) | sessions, verification tokens, memberships | sign in, use token, resolve principal, open a scope | revocation between check and use, expiry | a token is used once; a scope is open only for an active member |
| Design editor and versions (`design-editor.tsx`, `src/editor/*`, `src/services/design-version-service.ts`) | the design three times: canvas, document, history; `DesignVersion` numbers | draw, edit, drag, undo, redo, switch the background, paste JSON, save | drawings that wait for pictures while the user goes on; aborted and failed drawings; numbering under the project lock | canvas, document and history agree when nothing overlapped; bounded history; a drag loses nothing; numbers without gap |
| CI control gate (`.github/scripts/autonomous-control-gate-v2.mjs` and its workflow) | none between runs; it reads a pull request, its issue, comments, timelines, CI runs and the program's issues from GitHub | resolve the event, read everything twice, compare, read the pull request once more, decide | evidence read piecemeal while owner and CI change it; timestamps of whole seconds; old green runs | what passes was true at one moment and rests on a run younger than everything that put it in doubt |
| Projects, job and result queries, health, pages other than the editor, vision contracts | read-only or single-statement writes, pure validation, rendering | - | little: listed in `PROJECT.json` with the reason | - |

The components meet in the database: services insert jobs that workers claim; analysis,
editing and generation requests number the same `StyleSpecRevision` rows under one project
lock; generation and benchmark write assets that design versions refer to. The control gate stands
outside the program: it judges the pull requests that change it.

## Modules

| Module | What it models |
| --- | --- |
| `JobLifecycle` | The abstract promise of a job table: queued once, at most `MaxAttempts` attempts, requeued only while one is left, SUCCEEDED and FAILED final. |
| `ImageProvider` | The answers of one `generateBackground()` call: a hidden fact, `accepted`, and what the worker sees (id, error class, disposition). `Honest` is the port's contract. |
| `GenerationWorker` | Generation service and workers. One action per awaited statement of `runOnce`. |
| `GenerationInvariants` | The inductive strengthening, as named conjuncts. |
| `GenerationSafetyProofs` | Their theorems. |
| `StyleAnalysisWorker` | Style analysis service and workers, and the requests that write revisions, with the project row lock. |
| `StyleAnalysisInvariants`, `StyleAnalysisProofs` | The inductive strengthening and the theorems. |
| `TaskOutcome` | The abstract promise of an asset task: row and stored object are decided in one step. |
| `InternalExecution` | `executeInternalAssetTask()`: claim, executor, object store, finalizing, compensation and rereads, with transactions in doubt. |
| `InternalExecutionProofs` | Its theorems. |
| `TruthLedger` | The abstract promise of the requests of a project: one after the other, once for a key. |
| `TruthRequests` | Truth creation and activation and asset task creation with their idempotency records, locks and deadlocks. |
| `TruthRequestsProofs` | Its theorems. |
| `BenchmarkRuns` | Benchmark service and workers: runs of two jobs, one for each variant. |
| `BenchmarkInvariants`, `BenchmarkRunsProofs` | The inductive strengthening and the theorems. |
| `WorkspaceIntake` | Sign-in, the workspace scope, product projects, source snapshots and asset uploads. |
| `WorkspaceIntakeProofs` | Its theorems. |
| `DesignEditor` | The layered editor of one page, and the versions it saves. |
| `DesignEditorProofs` | Its theorems. |
| `ControlGate` | One run of the control gate against a GitHub that changes. |
| `ControlGateProofs` | Its theorems. |
| `MC*` | Instances for TLC, one per component. |

`GenerationWorker` and `BenchmarkRuns` take the answers of `ImageProvider`; both and
`StyleAnalysisWorker` implement `JobLifecycle`; `InternalExecution` starts from the
QUEUED task that `TruthRequests` creates.

### GenerationWorker and the code

`job` is the `Job` table, one row per (project, idempotency key) a client may submit; `result`
is `GenerationResult.jobId` with the attempt whose object it names; `objects` is the bucket;
`worker[w]` holds the local variables of `runOnce` and the await it stands at. `accepted`
counts requests the provider took on, which no process can see; `ackLost` remembers jobs whose
COMMIT took effect and was answered by an error.

* The lease token is a fresh UUID drawn with the claim that raises `attemptCount`; it is named
  by that count. `expired` says that `lockedAt` is older than the lease.
* `runOnce` runs from await to await: recover, claim (`FOR UPDATE SKIP LOCKED`, oldest
  first), prepare, `markSubmitting`, `generateBackground`, the `leaseLost` check with
  `markSubmitted`, `waitForProvider`, `putObject`, the result transaction, its compensation,
  `failOrRetry`. The two UPDATEs of the recovery are one action: the first finds no row,
  because no step leaves a RUNNING row AMBIGUOUS (conjunct `RowInv` of `IInv`).
* `leaseLost` is read once; heartbeats after that read do not record it.
* An infrastructure fault (bounded by `MaxFaults`) makes a statement report an error after it
  was or was not executed, ends a process, fails a put or a delete. Leases may expire at any
  time without a fault: a stalled process is enough.
* Left out: error codes and texts, the timestamps, the contents of jobs and pictures, the
  in-memory result cache of the Qwen adapter (its loss is one of the failures of `PollEnds`).

### StyleAnalysisWorker and the code

There is no lease token and no heartbeat; every update asks for RUNNING only. `completeJob`
and `saveUserRevision` are several statements under `SELECT ... FOR UPDATE` on `Project`, so
`lock` is modelled and the read of the latest number, the insert and the commit are separate
steps. `Editors` stand for the requests that write a revision.

### InternalExecution and the code

`status` stands for the task with its attempt, links, artifact, revision and events: one
transaction writes them together and `graphState()` refuses any other combination. Every
transaction begins with `FOR UPDATE` on the task's row, so it is one step, unless its client
loses it: then it committed, was rolled back, or is still open in the database with the row
lock (`pending`, the status it sets if it commits) until `EndOpenTransaction`.

* `stored` is what the store holds under the task's key. The store is modelled by the comments
  and types of its interface: ABSENT guarantees that nothing was stored, a put of UNKNOWN outcome
  guarantees nothing, a read that answers is authoritative, a delete spares an object that is
  not the expected one. A put that lands after the read that follows it is outside this contract.
* `StoreSurvives = FALSE` is the default runtime, whose store is the memory of the process.
* Serialization failures, lock timeouts and refused scopes of the claim count as faults: they
  are answered at once and leave nothing.
* Left out: the reads (`readInternalArtifactContent`, the task GET) and the digests.

### TruthRequests and the code

One project, its truth revisions, the idempotency records of its keys. A request is one
transaction; its step says where it stands and which locks it holds (`HoldsKey`,
`HoldsProject`, `SharesProject`, `SharesSource`). The statements between a lock and the COMMIT
touch rows that only the holder of the lock writes, so `Operate` is one action: it decides,
and `Commit` makes what was decided visible.

* `P2IdempotencyRecord` has a unique index: an insertion waits for the open transaction that
  inserted the same key, and fails if that one commits. It also has a foreign key to the project:
  a truth request that inserted its record holds the project `FOR KEY SHARE` and then asks for
  `FOR UPDATE`. Two requests with different keys can so wait for each other; PostgreSQL aborts one
  (`AbortDeadlocked`), its client gets INTERNAL_ERROR and nothing is written. A task request locks
  first and inserts last, and has no such wait.
* A client that gives up and repeats a request is another request with the same key. `told`
  remembers what clients were answered with success.
* `Revoke` is external: no code here changes a source, and the triggers of `SourceSnapshot` allow it.
* The parent of a draft is the active revision of the time the draft is made. The code lets it be
  activated later, on another active revision, when the client expects that one; the event records the
  true previous revision. The model has these behaviours and `TruthLedger` allows them.
* Left out: the texts, supporting sources (checked as primary ones are), drafts that are not
  SAME_PRODUCT (never activated), the membership scope, projects that are not writable (no code
  changes the status of a project), build evidence in the fingerprint of an activation.

### BenchmarkRuns and the code

`run` and `job` are the tables, a job for each variant of a run; the variables of a worker and its
awaits are those of `BenchmarkWorker.runOnce`, which differs from the generation worker: there is no
polling, every failure after the provider answered is ambiguous, the result transaction first reads the
job without a lock and then updates it under its lease token, and the plain prompt variant has an
adapter with error mappings of its own (`PlainAnswers`).

* A browser draws a new idempotency key for every click; only the fingerprint of the experiment keeps a
  repeated click from paying twice. `createRun` runs under the project lock and is one action.
* A job's timer that failed to renew counts as a fault after which nothing is written.

### WorkspaceIntake and the code

A person, a workspace and an older project. A request (`request[r]`) is named by its identifier, and so
is the row or the object it makes; its `step` is the await it stands at.

* The principal is resolved by plain reads; the scope then locks actor, membership and workspace
  `FOR SHARE` in the transaction of the operation (`SharedBy`). `Disable` is an administrator's UPDATE,
  which waits for these locks.
* Product projects insert their row and then the idempotency record. The unique index of the record
  makes a second request wait and then fail (`InsertRecord`); it reads the answer of the first in a new
  scope (`replaying`).
* A source's object is put inside the transaction that inserts its row, an asset's before it. Either is
  deleted when the transaction fails, a COMMIT with a lost answer included (`inDoubt`).
* Left out: the contents of pictures, MIME types and digests, `updateUser` and `updateSession`, which
  confirm what they find, and reads for display.

### DesignEditor and the code

`canvas`, `document` and the history are what the page holds; `renders` are the calls of
`renderOnCanvas` that wait for a picture. Drawing clears the canvas and adds the layers from the bottom;
a later drawing aborts an earlier one, whose awaits then end without an effect (`Superseded`).

* An operation of the user computes the next document at once and stores it after the drawing
  (`CommitAndRender`, `Drawn`), except the inspector, which edits canvas and document in place, and the
  mouse, whose drag reads the document back from the canvas and keeps it only when it is valid.
* `undo` and `redo` move the history before the drawing they wait for, so a failed drawing leaves it
  ahead of the document until the next edit. `settled`, `whole` and `touched` remember what overlapped.
* Left out: the attributes of a layer (one `look` stands for all), the job the page starts and the
  automatic load of its result, which the page refuses for results of the current worker.

### ControlGate and the code

`hub` is what GitHub would answer now. `ReadRest` and `ReadContext` stand for requests sent together
(`Promise.all`): each is answered as of some moment since they were sent, so each piece is taken from
some state of `window`, the states `hub` went through meanwhile. The jobs of a CI run are asked for
after the list of runs, so they come from the same or a later state; when the run was deleted meanwhile
that request fails (`JobThere`).

* `Accepted` and `SafeChild` are the conjunctions of the validators the code calls, one operator for each;
  every throw is a HOLD, so their order does not matter.
* The list of files is what is changed between base and head of some state of `window` (`Listing`). It is
  checked as the code checks it (`Readable`): as many files as the pull request has, each one in the trees
  of base and head as its status asks. A list taken at another head with as many files is read on; that
  it is nevertheless the list of the head judged is part of what is checked and proved.
* Comments (`Delete`), CI runs that ended (`DeleteRun`) and issues of the program (`DeleteIssue`) can be
  deleted, and nothing GitHub answers tells that they were. What was there before the gate began and is
  deleted meanwhile is missing from the second reading, which then differs from the first or finds the same
  without it. What is written after the gate began and deleted before it ended can stay unseen: an approval
  more, that would have made a HOLD, comes after the first pass read the comments and goes before the
  second does. The two readings are then equal although something else was there in between. No reader
  without a history can tell, so the properties say exactly what remains: a PASS was true of the state
  between the passes but for such comments, reviews, runs and issues (`Fleeting`: an id not yet given when
  the gate resolved the pull request, and gone when it read it for the last time).
* Timestamps are whole seconds and ids grow in the order things happened; the gate compares the first,
  the properties the second. `hub.next` is the id GitHub gives next and `hub.at` the second in which it gave
  the last; the gate sees neither. One assumption on the owner: no text is edited, and no issue closed
  or reopened, twice in one second, which the gate could not see (GitHub's `updated_at` is all it has). It holds of
  the issue, of the text of the pull request and of each comment (`edits` remembers when); without it a
  comment that is edited and put back within a second passes the comparison of the two readings.
* Assumed of the constants (`GateAssumption`): heads are numbers, and a push forward goes to a greater
  one (what matters is that a branch comes back to an earlier head only by force, which leaves an event); the
  bases are commits of main, numbered as it moves. `Contracts`, `Diffs`, `Trees`, `Bases`, `Frozen` and the rest
  are free: the trees need not even fit the diffs.
* Lifecycle files (package and lock files) may be changed by the class P2_AUTH_IMPLEMENTATION alone.
* The gate keeps nothing between two runs, so a behaviour has one run and ends with it.
* The evidence on an earlier child of the program (its pull request, its issue, the CI of its merge) is
  read as one piece.
* Left out: renames in the list of files, the shape checks of P2 changes to the database and to authentication, the repair ledger
  (nothing writes one), the one-off records of the program (migration, refreeze, CRLF bridge), the
  identity constants, and the parsing of marked JSON. What the orchestrator does with a PASS is not in
  the repository.

## Runs

| Run | Instance | Shows |
| --- | --- | --- |
| `GenerationSafety` | 2 jobs of one project, 2 workers, 2 attempts, 1 poll, 1 fault | the inductive invariant, at most one accepted request per job, unsubmitted failures unbilled, one active job per project, no orphaned object without faults, queued rows claimable, results have objects, refinement of `JobLifecycle`, every job is decided |
| `StyleSafety` | 2 jobs, 2 workers, 1 editor, 2 saves, 1 fault, leases may expire under a live worker | the inductive invariant; revision numbers have no gap and never collide; one revision per success; decided rows are final; until a turn outlasts its lease, refinement of `JobLifecycle` and every job is decided |
| `ExecutionOutcome` | 1 task, 3 requests in 2 processes, store that survives, 3 faults | the inductive invariant, one execution, answers stay true, refinement of `TaskOutcome`, nothing left over without faults, a claimed task is decided or a fault intervened |
| `TruthSafety` | 2 creations, 2 activations, 1 task request (5 keys), 1 source, 2 requests at a time, 2 revisions, 1 fault | types, the inductive invariant, no lost update, refinement of `TruthLedger` |
| `TruthSources` | 3 keys, one of each operation, 2 sources, 1 revision, 2 requests at a time, no fault | replays agree; nothing is committed on revoked sources; every request is answered, deadlocks included |
| `BenchmarkSafety` | 2 keys for one experiment, 2 workers, 2 attempts, 1 fault | the inductive invariant, objects and results agree, one paid sample for a variant of an experiment, refinement of `JobLifecycle`, every run ends |
| `IntakeSafety` | 1 token followed by 2 sign-ins, 3 requests of any kind, 1 key, 2 names, limits 1 and 2, 1 fault | store and tables agree, capacity, single use of tokens and keys, no write for who was disabled |
| `EditorSafety` | 1 background, history of 2, 4 layers, 4 edits, 1 saved version | the inductive invariant: canvas, document and history agree but for failed and overlapped drawings and half-done undos, the history is bounded; a drag loses no layer |
| `GateSafety` | an ordinary task with a variant for authentication, children 2 and 3 of the program, 3 heads, 2 bases, 2 reviewers (symmetric), 2 changes besides the ends of CI runs, 3 seconds | what GitHub knows fits together; a PASS was true of GitHub at one moment, and its CI run is the last one and younger than what put the pull request in doubt: both but for what came and went while the gate read |
| `QwenDownloadRateLimited` | all Qwen answers | finding 1 |
| `StyleStaleRetry` | leases expire under a live worker | finding 2 |
| `EditorEditLost` | 1 background, 3 layers, 3 edits | finding 3 |

Why the bounds are enough: the conflicts are between two holders of one job, and a third party
that recovers it; two workers and two attempts give both, three of each a stale worker that
meets a row requeued and claimed again; the fault may be anywhere in an attempt or in what cleans up
after it. One poll separates the outcomes of the polling loop.
In `ExecutionOutcome` three faults allow an open claim, an open finalizing and a failed
compensation in one behaviour, and the third request meets the rows of the other two. In the
truth runs conflicts are between two transactions: a third waits as the second does. Two
activations of two drafts give a superseded revision and a stale expectation.

`BenchmarkSafety` has one experiment asked for under two keys, which is the case the fingerprint
decides, and two workers for the two jobs of the run. In `IntakeSafety` two of the three requests
conflict (on a key, or on the last place of a kind) and the third meets the result; limits of one and
two tell "full" from "one left". In `EditorSafety` four edits let two drawings of the canvas
overlap an undo and a redo, and a history of two is full after two of them. In `GateSafety` two
changes are the least that deceive a reader: one that puts the pull request in doubt and one
that hides it again, be it a forced push and back or an approval and its deletion; the ends of CI runs are
not counted, and three seconds give a time that is the same, earlier or later. Two of the three heads
change one file each, so a list of files of the wrong head passes its own checks. A CI run that comes and
goes while the gate reads takes three changes (a push that asks for it, its beginning, its deletion), one
more than the run has: that case of the exemption is in the theorems only.

TLC's deadlock check is on in every run but `GateSafety`, whose job ends after one run of the gate
while the owner may have stopped changing things. No bound of another instance stops the system.

## Fairness

A live process goes on: every await ends with an answer, an error or a timeout, so
`WF(RunOnce)`. A dead worker is restarted by its supervisor (`WF(Restart)`, external). The
lease of a job that nobody works on runs out, since time passes. No fairness is assumed of
faults, heartbeats, clients or of leases under a live worker. In the style worker a waiting
transaction gets a row lock that is freed again and again (`SF(BeginCompletion)`): PostgreSQL
queues the waiters of a row.

`InternalExecution` assumes `WF(Proceed)` of live requests and `WF(EndOpenTransaction)`:
PostgreSQL ends the transaction of a client that is gone. Nothing resumes a task that a crash
left RUNNING, so `ClaimedTaskIsDecided` makes an exception for faults; that is what the code does.
In `TruthRequests` live requests go on (`WF(Proceed)`) and the waiters of a row or an index entry are
served in turn (`SF` of the three steps that wait).

`BenchmarkRuns` is fair as the generation worker is: `WF` of the loop of every worker, of its
restart, and of the end of a lease nobody attends; a lease under a live worker may end or not.
`WorkspaceIntake`, `DesignEditor` and `ControlGate` state no liveness and assume no fairness:
a person may close the page, and a request, or the gate's job, may die at any await.

## Proofs

Every component has an inductive invariant, checked by TLC on a small instance first
(all but one conjunct of `ControlGate`'s, see there) and then proved; the safety and action properties follow from it. The step of a proof has one lemma
per action. Where actions are many, each is first shown to be one of a few kinds of step (a row is
leased, a worker moves on, a drawing begins), and each kind keeps each conjunct.

For every number of jobs, workers, attempts, polls and faults of `GenerationWorker`:

* `TypeCorrect`, `OneActiveJob`, `QueuedJobsStayClaimable`, `ResultsKeepTheirObjects`,
  `NothingIsOrphaned` and `LifecycleImplemented` (refinement of `JobLifecycle`) assume only the named
  assumptions on the constants.
* `InductiveInvariant`, `NeverPaidTwice`, `UnsubmittedFailureIsFree` also assume
  `Honest(ProviderAnswers)`: an adapter that says NOT_SENT or REJECTED tells the truth. Finding 1
  shows that the Qwen adapter breaks this contract, and how.

"At most one accepted request" is not inductive: nothing in it says why a job that was
accepted is not called for again. `IInv` adds what the row, the lease and the worker know of
each other: a held token is the present attempt (`LeaseInv`), a worker about to call holds the
SUBMITTING row or its job is past retry (`CallerInv`), there is one such worker (`OneCaller`),
a worker in preparation or with an unsubmitted failure has not been accepted (`PreparingInv`,
`FailingInv`), after acceptance the row is never NOT_STARTED (`AcceptedInv`, `BillingInv`).
"Results have objects" needs `ObjectInv`: an object is named by its attempt, so the only worker whose
compensation could delete a result's object is the one that wrote the result and lost the answer to its
COMMIT, which is the exception the property makes.

For every number of runs, experiments, workers, attempts and faults of `BenchmarkRuns`:

* `ResultsAndRowsMatch` and `BenchmarkLifecycleImplemented` hold with any provider.
* `BenchmarkInvariant` and `NoSampleIsPaidTwice` assume `Honest(StyleAnswers)`. The answers to the
  plain-prompt variant (`PlainAnswers`) are proved honest, so the assumption is about the answers to the
  other variant only, which come from the adapter. `BenchmarkInv` follows the argument of `IInv`, with one run for an
  experiment (`OneRun`) and retries only before the submission (`RetryInv`).

For every number of jobs, workers, editors and faults of `StyleAnalysisWorker`, where rows have no
lease token:

* `StyleInvariant`, `NumbersHaveNoGap`, `OneRevisionForASuccess`, `DecidedRowsStay`. The next number is
  right because who has read the latest one holds the lock of the project until it commits, the
  number it is about to write is therefore still the next (`NumberingInv`).
* `StyleLifecycleImplemented`: until a worker outlasts its lease (`overran`), the jobs implement
  `JobLifecycle`. `TurnInv` is why: a worker at its turn has its job to itself and knows its attempts.
  Finding 2 is what happens afterwards.

For every number of tasks, requests, processes and faults of `InternalExecution`, both stores included:

* `ExecutionTypeCorrect`, `ExecutionInvariant`, `ExecutedOnlyOnce`, `AnswersStayTrue`,
  `CleanUnlessFaulty` and `ExecutionOutcomeAtomic` (refinement of `TaskOutcome`). That row and object
  agree is not inductive: it rests on there being one worker of a task (`OneWorker`), on what it may
  rely on at each await (`WorkerInv`: a task whose worker finalizes has its object, and one that is
  failed has none), and on what an open transaction may still commit (`RowInv`). The compensation
  deletes only after a reread that found no open transaction. `CleanInv` says what no fault means for each
  await: nothing is in doubt.

For every number of keys, sources, requests, revisions and faults of `TruthRequests`:

* `TruthTypeCorrect`, `TruthInvariant`, `RepeatsAgree`, `NoUpdateIsLost`,
  `TruthRestsOnEligibleSources` and `LedgerImplemented` (refinement of `TruthLedger`). `IInv` says that
  locks exclude each other (`LockInv`), that the pointer and the states of the revisions agree
  (`RowInv`), that a key is done exactly when the log has it (`LogInv`), and, for each request, that what
  it read is still so when it commits (`PlanInv`). The last is why serialization works under READ
  COMMITTED: whoever could disturb it needs a lock that conflicts with one the request holds.

For every number of tokens, sign-ins, requests, keys and faults of `WorkspaceIntake`, and all limits:

* `IntakeInvariant`, `CapacityKept`, `TokensAndKeysUsedOnce` and `NoWriteAfterDisable`. None of the
  properties is inductive. `IntakeInv` adds why each holds: an open scope stands on rows that are
  still ACTIVE, since it shares their locks (`ScopeInv`); who bears a token took its row away
  (`TokenInv`); the insert of a record holds its key until the transaction ends, and rows, records
  and answers of a key name one project (`KeyInv`); only one upload is past the project lock, and it
  counted room for itself (`CapacityInv`, with `FS_AddElement` for the count after the insert);
  which awaits have stored their object (`ObjectInv`). `RequestInv` says what a request is, by the
  await it stands at.

For every number of pictures, layers, edits and versions of `DesignEditor`, and every length of the
history:

* `EditorInvariant` and `DraggingKeepsLayers`. Canvas and document are claimed to agree at rest unless the
  last drawing failed or something was edited meanwhile (`whole`), document and history unless an undo or a
  redo was left half done or overlapped by an edit (`settled`). That is not inductive: `DrawingInv` says what a drawing under way is to the canvas (its first layers are
  there, as drawn unless they were edited since, and the next one is a picture), that there is one
  drawing, and that what undo and a refused drag draw is the present and the document. A drag could
  lose layers when a failed drawing has left the canvas half empty; `CanvasInv` is why it does not: the
  product is the last picture of a design, so a canvas at rest that shows it shows every layer
  of the document, and one that does not is refused by the schema. `MaxLayers` is at least 3 (the code
  has 64): the first document has up to three layers. `MinExists` proves from the well-foundedness of
  < that the next picture exists.

For every set of contracts, diffs, trees, frozen paths and reviewers, every number of changes on GitHub and
every second of `ControlGate`:

* `GateIsConsistent` and `AcceptedRunsAreFresh`. A PASS says nothing of the moment it was read, so the
  proof is about what two readings of the same value tell of the time between them. `Before(h, k)`
  relates two states of GitHub, piece by piece, and looks back from k: an event of h is still in k; a text
  that is edited has a later second; a comment, run or issue of k whose id had been given in h was there
  in h, and an edited comment has left its edit, a run or the CI of a merge has only gone on to later
  attempts; a pull request whose text, head or base changed either went forward or has an event that
  makes the gate hold (`Doubted`), and shows a second in which it changed no earlier than the last change
  before. Nothing is said of what h had and k has not: it may have been deleted. `Before` is a preorder
  (`BeforeReflexive`, `BeforeTransitive`), and each of the 26 changes of GitHub, sorted into one kind of
  step (`HubStep`), takes a state to a later one. The window of a pass is then in that order.
* `PassesMeet`: what both passes read alike was so at the moment m between them, but for what came and
  went. An element both read is in m, looking back from the second reading, and nothing happened to it on
  either side. An element of m they did not read was not there in the first reading, so its id was given
  after the gate began; it is not there in the second, so it is not there at the end: it is `Fleeting`. The
  pull request and the list of files need the decision as well (`PrOfPasses`, `FilesOfPasses`): one that is
  pushed away and back by force agrees with itself at both readings, and only the event that remains, or
  the second in which it changed, later than the CI run, says so.
* `AcceptedRunIsFresh` needs `HubInv`: of a run and an approval or event with a greater id, the run
  is not the younger. A run that is strictly younger by the second has therefore the greater id.
* The strengthening says of every await what has been read and between which states (`FirstPass`,
  `Reading`), and that nothing is read after a PASS (`PassIsLast`). It quantifies over all states GitHub may have been in, which TLC cannot enumerate; TLC checks its
  other parts, `TypeOK` and `HubInv`, as parts of `GateInv`.

Only proved: the in-memory store of `InternalExecution`, whose objects die with the process. The
run has the store that survives, and the theorems have both.

Only model-checked: liveness (fairness and ENABLED are outside the prover). The
violation runs show a behaviour and have nothing to prove.

## Plan

What is left, the most important first:

1. The result cache of the Qwen adapter: what a pruned entry costs when its job is polled again.

New questions about a component join the run of its instance, to stay within few runs.

## Not modelled, and why

Object storage and database clients are pure I/O, used by what they promise; the bounded result
cache of the Qwen adapter is left out, and the failure a pruned entry causes is one of the outcomes of
`PollEnds`; domain schemas, vision contracts and skills are stateless
validation of one value; project, job and result queries are reads or single statements; HTTP
helpers, health and configuration only format and read. The pages other than the editor mostly
render: what they keep is the answer of the last request, one poll at a time is under way, and a
flag drops the answers that arrive after the page moved on. `PROJECT.json` lists each with its
sources.

## Findings

1. A rate-limited picture download is retried as if the request had been refused, and paid twice
   (`src/providers/qwen-image-generation-provider.ts:572`, run `QwenDownloadRateLimited`).
2. A stale style worker requeues the last attempt of another worker, and the project is blocked
   (`worker/style-analysis-worker.ts:254`, run `StyleStaleRetry`).
3. An edit that overlaps a switch of the background is lost
   (`app/projects/[projectId]/design-editor.tsx:284`, run `EditorEditLost`).

A limit rather than a finding, since no document says otherwise: when COMMIT took effect and its
answer was lost, the compensation deletes the object of a row that stays. The generation worker
(`worker/generation-worker.ts:593`), the benchmark worker, asset uploads and source snapshots share it;
the object properties except exactly these rows (`ackLost`, `inDoubt`).
