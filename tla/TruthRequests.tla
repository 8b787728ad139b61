--------------------------- MODULE TruthRequests ---------------------------
(***************************************************************************)
(* The requests of one product project: create a draft of its truth,       *)
(* activate a draft, create an asset task that rests on the active truth.  *)
(* Each carries an idempotency key and runs as one READ COMMITTED          *)
(* transaction; two requests may carry the same key (a client that         *)
(* repeats a request), and a client may repeat one that is still open.     *)
(*                                                                         *)
(* Locks are read off the step a request stands at.  The idempotency       *)
(* record is in a unique index, so an insertion waits for an open          *)
(* transaction that inserted the same key; and it refers to the project    *)
(* by a foreign key, so it holds the project FOR KEY SHARE, which the      *)
(* FOR UPDATE of another request waits for.                                *)
(***************************************************************************)
EXTENDS Naturals, Sequences

CONSTANTS
  Keys,         \* idempotency keys, each of one operation
  OperationOf,
  Sources,      \* product sources registered for the project
  Requests,     \* requests the servers may be working on at a time
  MaxRevisions, \* bound: revisions of the project
  MaxFaults     \* bound: infrastructure faults in one behaviour

ASSUME TruthAssumption ==
  /\ OperationOf \in [Keys -> {"create", "activate", "task"}]
  /\ MaxRevisions \in Nat \ {0}
  /\ MaxFaults \in Nat

VARIABLES
  active,   \* ProductProject.activeTruthRevisionId, 0 for NULL
  revision, \* the project's revisions, in the order of revisionNumber
  eligible, \* sources that are ACTIVE and VALID
  record,   \* the committed idempotency record of every key
  log,      \* what was committed, in order: revisions, events and tasks
  request,  \* the local state of every request
  told,     \* the successes clients were told of, by key (history)
  faults    \* infrastructure faults so far

vars == <<active, revision, eligible, record, log, request, told, faults>>

-----------------------------------------------------------------------------
\* What a request names: the active revision its client expects, the
\* revision it is about (the parent of a draft) and sources.
Numbers == 0 .. MaxRevisions
Input   == [expected : Numbers, about : Numbers, sources : SUBSET Sources]

Revision == [status  : {"DRAFT", "ACTIVE", "SUPERSEDED"},
             parent  : Numbers,
             sources : SUBSET Sources] \* its active PRODUCT_PRIMARY links

\* The stored fingerprint and response: the revision a request was answered.
Record   == [done : BOOLEAN, input : Input, revision : Numbers]
NoInput  == [expected |-> 0, about |-> 0, sources |-> {}]
NoRecord == [done |-> FALSE, input |-> NoInput, revision |-> 0]

\* previous: the active revision as the transaction read it.
Entry == [key : Keys, revision : Numbers, previous : Numbers]

Steps   == {"idle", "finding", "inserting", "locking", "operating",
            "committing", "replaying"}
Request == [step     : Steps,
            key      : Keys,
            input    : Input,
            seen     : Numbers,  \* the active revision the transaction read
            revision : Numbers]  \* the revision it is to write


Asks(step, k, i) == [step |-> step, key |-> k, input |-> i,
                     seen |-> 0, revision |-> 0]

TypeOK ==
  /\ active \in Numbers
  /\ revision \in Seq(Revision) /\ Len(revision) <= MaxRevisions
  /\ eligible \in SUBSET Sources
  /\ record \in [Keys -> Record]
  /\ log \in Seq(Entry)
  /\ request \in [Requests -> Request]
  /\ told \in [Keys -> SUBSET [input : Input, revision : Numbers]]
  /\ faults \in Nat

Init ==
  /\ active = 0
  /\ revision = <<>>
  /\ eligible = Sources
  /\ record = [k \in Keys |-> NoRecord]
  /\ log = <<>>
  /\ \E k \in Keys : request = [r \in Requests |-> Asks("idle", k, NoInput)]
  /\ told = [k \in Keys |-> {}]
  /\ faults = 0

-----------------------------------------------------------------------------
Operation(r) == OperationOf[request[r].key]

\* Inputs the parsers let through.
Inputs(k) ==
  CASE OperationOf[k] = "create" ->
         {i \in Input : i.sources # {}}
    [] OperationOf[k] = "activate" ->
         {i \in Input : i.about # 0 /\ i.sources = {}}
    [] OperationOf[k] = "task" ->
         {i \in Input : /\ i.expected = 0 /\ i.about # 0
                        /\ \E s \in Sources : i.sources = {s}}

\* On to the next step, or answered: nothing of the request remains.
Goto(r, step) == request' = [request EXCEPT ![r].step = step] /\ UNCHANGED told
Forget(r)     == request' = [request EXCEPT ![r] =
                               Asks("idle", request[r].key, NoInput)]
Refuse(r)     == Forget(r) /\ UNCHANGED told
Succeed(r, n) == /\ Forget(r)
                 /\ told' = [told EXCEPT ![request[r].key] = @ \cup
                              {[input |-> request[r].input, revision |-> n]}]
Fault     == faults < MaxFaults /\ faults' = faults + 1
Unchanged == UNCHANGED <<active, revision, eligible, record, log, faults>>

-----------------------------------------------------------------------------
(* Locks.  A truth request inserts its record first and locks the project  *)
(* then; a task request locks the project first.                           *)

HoldsKey(r, k) ==
  /\ request[r].key = k
  /\ request[r].step \in IF OperationOf[k] = "task" THEN {"committing"}
                         ELSE {"locking", "operating", "committing"}

\* FOR UPDATE of the project.
HoldsProject(r) == /\ Operation(r) # "task"
                   /\ request[r].step \in {"operating", "committing"}

\* FOR SHARE, or FOR KEY SHARE through the foreign key of the record.
SharesProject(r) == IF Operation(r) = "task"
                      THEN request[r].step \in {"inserting", "committing"}
                      ELSE request[r].step = "locking"

\* FOR SHARE of the sources that were checked.
SharesSource(r, s) ==
  /\ \/ request[r].step = "committing"
     \/ request[r].step = "inserting" /\ Operation(r) = "task"
  /\ s \in IF Operation(r) = "activate"
             THEN revision[request[r].input.about].sources
             ELSE request[r].input.sources

\* Mutant of MayUpdateProject: the project is read without a lock.
ReadsProject(r) == TRUE

MayUpdateProject(r) ==
  \A q \in Requests \ {r} : ~HoldsProject(q) /\ ~SharesProject(q)

\* Mutant of MayShareProject: dependencies are read without FOR SHARE.
ReadsDependencies(r) == TRUE

MayShareProject(r) == \A q \in Requests \ {r} : ~HoldsProject(q)

-----------------------------------------------------------------------------
Begin(r, k, i) ==
  /\ request[r].step = "idle"
  /\ request' = [request EXCEPT ![r] = Asks("finding", k, i)]
  /\ UNCHANGED told /\ Unchanged

\* Mutant of Matches: the fingerprint is not compared.
MatchesAnything(r) == TRUE

Matches(r) == record[request[r].key].input = request[r].input

\* replayStored(): the stored response, or IDEMPOTENCY_CONFLICT.
Replay(r) == IF Matches(r) THEN Succeed(r, record[request[r].key].revision)
             ELSE Refuse(r)

\* The first read of a run: a committed record is replayed.
FindRecord(r) ==
  /\ request[r].step = "finding"
  /\ IF record[request[r].key].done THEN Replay(r)
     ELSE Goto(r, IF Operation(r) = "task" THEN "locking" ELSE "inserting")
  /\ Unchanged

Taken(r) == record[request[r].key].done

\* The insertion of the record IN_PROGRESS waits for the transaction that
\* holds the key.  If that one commits, this one is rolled back; if not, the
\* foreign key is checked.
InsertRecord(r) ==
  /\ request[r].step = "inserting"
  /\ \A q \in Requests \ {r} : ~HoldsKey(q, request[r].key)
  /\ IF Taken(r) THEN Goto(r, "replaying")
     ELSE /\ MayShareProject(r)
          /\ Goto(r, IF Operation(r) = "task" THEN "committing" ELSE "locking")
  /\ Unchanged

\* readConcurrentReplay(), in a transaction of its own.
ReadConcurrentReplay(r) ==
  /\ request[r].step = "replaying"
  /\ Replay(r)
  /\ Unchanged

\* lockWritableProject()
LockProject(r) ==
  /\ request[r].step = "locking" /\ Operation(r) # "task"
  /\ MayUpdateProject(r)
  /\ Goto(r, "operating")
  /\ Unchanged

\* Mutant of Eligible: activation does not look at the sources again.
TrustSources(r) ==
  IF Operation(r) = "activate" THEN TRUE
  ELSE request[r].input.sources \subseteq eligible

\* assertEligibleSources(), assertEligiblePrimarySource()
Eligible(r) ==
  LET i == request[r].input
  IN IF Operation(r) = "activate"
       THEN revision[i.about].sources \cap eligible # {}
       ELSE i.sources \subseteq eligible

\* Mutant of Expected: a client's expectation is not compared.
AnyExpected(r) == TRUE

\* assertExpectedRevision()
Expected(r) == request[r].input.expected = active

\* What a draft and an activation ask of the project they have locked.
Acceptable(r) ==
  LET i == request[r].input
  IN /\ Expected(r)
     /\ IF Operation(r) = "create" THEN i.about = active
        ELSE /\ i.about <= Len(revision)
             /\ revision[i.about].status = "DRAFT"
     /\ Eligible(r)

\* Rolled back with an error of its own, or on to the COMMIT.
Decide(r, accepted, n, step) ==
  IF accepted
    THEN /\ request' = [request EXCEPT ![r].step = step, ![r].seen = active,
                                       ![r].revision = n]
         /\ UNCHANGED told
    ELSE Refuse(r)

\* The statements of create and activate under the project lock.
Operate(r) ==
  LET n == IF Operation(r) = "create" THEN Len(revision) + 1
           ELSE request[r].input.about
  IN /\ request[r].step = "operating"
     /\ n <= MaxRevisions
     /\ Decide(r, Acceptable(r), n, "committing")
     /\ Unchanged

\* lockAssetTaskDependencies() and the check that follows.
LockDependencies(r) ==
  LET i == request[r].input
  IN /\ request[r].step = "locking" /\ Operation(r) = "task"
     /\ MayShareProject(r)
     /\ Decide(r, /\ i.about = active
                  /\ i.sources \subseteq revision[i.about].sources
                  /\ Eligible(r), i.about, "inserting")
     /\ Unchanged

-----------------------------------------------------------------------------
\* Mutant of Supersede: the previous revision is marked INVALIDATED.
Invalidate(n, m) ==
  [k \in 1 .. Len(revision) |->
     [revision[k] EXCEPT !.status = IF k = m THEN "ACTIVE"
                                    ELSE IF k = n THEN "INVALIDATED" ELSE @]]

\* Revision m takes the place of n.
Supersede(n, m) ==
  [k \in 1 .. Len(revision) |->
     [revision[k] EXCEPT !.status = IF k = m THEN "ACTIVE"
                                    ELSE IF k = n THEN "SUPERSEDED" ELSE @]]

\* What the transaction of r writes.
Effect(r) ==
  LET q == request[r]
  IN /\ CASE Operation(r) = "create" ->
               /\ revision' = Append(revision, [status  |-> "DRAFT",
                                                parent  |-> q.input.about,
                                                sources |-> q.input.sources])
               /\ UNCHANGED active
          [] Operation(r) = "activate" ->
               /\ revision' = Supersede(q.seen, q.revision)
               /\ active' = q.revision
          [] Operation(r) = "task" -> UNCHANGED <<revision, active>>
     /\ record' = [record EXCEPT ![q.key] =
                     [done |-> TRUE, input |-> q.input,
                      revision |-> q.revision]]
     /\ log' = Append(log, [key |-> q.key, revision |-> q.revision,
                            previous |-> q.seen])

\* COMMIT: acknowledged, or executed and its answer lost.
Commit(r) ==
  /\ request[r].step = "committing"
  /\ Effect(r)
  /\ \/ Succeed(r, request[r].revision) /\ UNCHANGED faults
     \/ Refuse(r) /\ Fault
  /\ UNCHANGED eligible

\* A statement or the COMMIT fails, or the process ends: rolled back.
RollBack(r) ==
  /\ request[r].step # "idle"
  /\ Refuse(r) /\ Fault
  /\ UNCHANGED <<active, revision, eligible, record, log>>

\* Two requests share the project and wait to update it.  PostgreSQL aborts
\* one of them.
AbortDeadlocked(r) ==
  /\ request[r].step = "locking" /\ Operation(r) # "task"
  /\ \E q \in Requests \ {r} :
       request[q].step = "locking" /\ Operation(q) # "task"
  /\ Refuse(r)
  /\ Unchanged

\* A source is revoked or found invalid: no code of the repository does it,
\* the triggers of SourceSnapshot allow it.
Revoke(s) ==
  /\ s \in eligible
  /\ \A r \in Requests : ~SharesSource(r, s)
  /\ eligible' = eligible \ {s}
  /\ UNCHANGED <<active, revision, record, log, request, told, faults>>

\* Mutant of Proceed: nobody handles the conflict of an insertion.
ProceedWithoutReplay(r) ==
  \/ FindRecord(r) \/ InsertRecord(r)
  \/ LockProject(r) \/ Operate(r) \/ LockDependencies(r) \/ Commit(r)
  \/ AbortDeadlocked(r)

Proceed(r) ==
  \/ FindRecord(r) \/ InsertRecord(r) \/ ReadConcurrentReplay(r)
  \/ LockProject(r) \/ Operate(r) \/ LockDependencies(r) \/ Commit(r)
  \/ AbortDeadlocked(r)

Next ==
  \/ \E r \in Requests :
       \/ \E k \in Keys : \E i \in Inputs(k) : Begin(r, k, i)
       \/ Proceed(r)
       \/ RollBack(r)
  \/ \E s \in Sources : Revoke(s)

Spec == Init /\ [][Next]_vars

\* A live request goes on; the waiters of a lock are queued, so that one that
\* is free again and again is given to each of them.
Fairness == \A r \in Requests : /\ WF_vars(Proceed(r))
                                /\ SF_vars(InsertRecord(r))
                                /\ SF_vars(LockProject(r))
                                /\ SF_vars(LockDependencies(r))

FairSpec == Spec /\ Fairness

-----------------------------------------------------------------------------
(* What makes the properties inductive.                                    *)

\* One holder of a key and of the project, none beside a holder FOR UPDATE.
LockInv ==
  \A q, r \in Requests :
    q # r => /\ ~(HoldsKey(q, request[r].key) /\ HoldsKey(r, request[r].key))
             /\ HoldsProject(q) => ~HoldsProject(r)
             /\ HoldsProject(q) => ~SharesProject(r)

\* The pointer of the project and the states of its revisions agree.
RowInv ==
  /\ active <= Len(revision)
  /\ \A n \in 1 .. Len(revision) :
       (revision[n].status = "ACTIVE") <=> (n = active)

\* A key is done exactly when its request took effect.
LogInv ==
  \A k \in Keys : record[k].done <=> \E i \in 1 .. Len(log) : log[i].key = k

\* What a transaction read is still so when it commits.
Planned(r) ==
  LET q == request[r]
  IN /\ q.step # "idle" => q.input \in Inputs(q.key)
     /\ HoldsKey(r, q.key) => ~record[q.key].done
     /\ q.step = "replaying" => record[q.key].done
     /\ q.step = "operating" => Operation(r) # "task"
     /\ q.step = "committing" \/ (q.step = "inserting" /\ Operation(r) = "task")
          => /\ q.seen = active
             /\ Operation(r) # "task" => q.input.expected = active
             /\ Eligible(r)
             /\ Operation(r) = "create" =>
                  q.input.about = active /\ q.revision = Len(revision) + 1
             /\ Operation(r) = "activate" =>
                  /\ q.revision = q.input.about
                  /\ q.revision \in 1 .. Len(revision)
                  /\ revision[q.revision].status = "DRAFT"
             /\ Operation(r) = "task" => q.revision = active /\ active # 0

PlanInv == \A r \in Requests : Planned(r)

-----------------------------------------------------------------------------
(* Properties.                                                             *)

\* Requests that overlap, repeat each other or lose the answer of their
\* COMMIT take effect as if one after the other, at most once for a key.
Ledger == INSTANCE TruthLedger
            WITH revision <- [n \in 1 .. Len(revision) |->
                                [status |-> revision[n].status,
                                 parent |-> revision[n].parent]]

ImplementsLedger == Ledger!Spec

\* Everyone who is told of a success for a key is told the same, and what they
\* are told did take effect: replays and first answers agree.
AnswersAgree ==
  \A k \in Keys : \A a \in told[k] :
    record[k] = [done |-> TRUE, input |-> a.input, revision |-> a.revision]

\* No update is lost: what a draft or an activation follows is the revision its
\* client said it had seen, whoever activated another one meanwhile.
ExpectationsHonoured ==
  \A i \in 1 .. Len(log) :
    OperationOf[log[i].key] # "task" =>
      log[i].previous = record[log[i].key].input.expected

IInv == LockInv /\ RowInv /\ LogInv /\ PlanInv /\ AnswersAgree
        /\ ExpectationsHonoured

\* A source revoked meanwhile never gets into what is committed: a draft and a
\* task rest on eligible sources only, an activated revision on one at least.
RestsOnEligibleSources ==
  [][\A k \in Keys :
       ~record[k].done /\ record'[k].done =>
         IF OperationOf[k] = "activate"
           THEN revision[record'[k].revision].sources \cap eligible # {}
           ELSE record'[k].input.sources \subseteq eligible]_vars

\* No request waits for ever, although truth requests with different keys can
\* wait for each other's foreign key lock on the project.
EveryRequestIsAnswered ==
  \A r \in Requests : request[r].step = "finding" ~> request[r].step = "idle"
=============================================================================
