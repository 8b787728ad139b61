------------------------- MODULE InternalExecution -------------------------
(***************************************************************************)
(* executeInternalAssetTask(): a request claims a queued asset task, runs  *)
(* the executor, puts the picture into the object store and finalizes the  *)
(* task, each in a transaction or a call of its own.                       *)
(*                                                                         *)
(* Every transaction begins with SELECT ... FOR UPDATE on the task's row,  *)
(* so it is one step, unless its client loses it: then it may stay open in *)
(* the database, with the row lock, and be decided later ("pending").      *)
(***************************************************************************)
EXTENDS Naturals

CONSTANTS
  Tasks,
  Requests,      \* requests the server may be working on at a time
  Processes,
  ProcessOf,     \* the server process of a request
  StoreSurvives, \* the object store is not the memory of the process
  MaxFaults      \* bound: infrastructure faults in one behaviour

\* The memory store is shared by the requests of one process only.
ASSUME ExecutionAssumption ==
  /\ ProcessOf \in [Requests -> Processes]
  /\ StoreSurvives \in BOOLEAN
  /\ ~StoreSurvives => \A r, s \in Requests : ProcessOf[r] = ProcessOf[s]
  /\ MaxFaults \in Nat

VARIABLES
  status,    \* AssetTask.status, with the attempt, links, artifact, revision
             \* and events graphState() requires of it
  pending,   \* the status an open transaction sets if it commits, or "none"
  stored,    \* what the store holds under the task's storage key
  request,   \* the local state of every request
  executed,  \* runs of the executor (history)
  faults     \* infrastructure faults so far

vars == <<status, pending, stored, request, executed, faults>>

-----------------------------------------------------------------------------
Decided  == {"SUCCEEDED", "FAILED", "HARD_BLOCKED"}
Status   == {"QUEUED", "RUNNING"} \cup Decided
Contents == {"none", "exact", "other"}

\* 201, 202, 409, 503 AMBIGUOUS, 503 COMMIT_OUTCOME_UNKNOWN, other errors.
Answers == {"succeeded", "running", "failed", "ambiguous", "unknown", "error"}

\* Steps only the request that claimed the task reaches.
Working == {"executing", "putting", "reading", "finalizing",
            "finalizeUnknown", "deleting", "failing", "blocking",
            "terminalUnknown"}

Request == [step   : {"idle", "claiming", "claimUnknown", "answered"}
                       \cup Working,
            task   : Tasks,
            put    : {"CONFIRMED", "UNKNOWN"},
            answer : Answers]

\* An open transaction can only decide what is not decided yet.
TypeOK ==
  /\ status \in [Tasks -> Status]
  /\ pending \in [Tasks -> Status \cup {"none"}]
  /\ stored \in [Tasks -> Contents]
  /\ request \in [Requests -> Request]
  /\ executed \in [Tasks -> Nat]
  /\ faults \in Nat
  /\ \A t \in Tasks : pending[t] # "none" => status[t] \notin Decided

Init ==
  /\ status = [t \in Tasks |-> "QUEUED"]
  /\ pending = [t \in Tasks |-> "none"]
  /\ stored = [t \in Tasks |-> "none"]
  /\ request \in [Requests -> [step : {"idle"}, task : Tasks,
                               put : {"UNKNOWN"}, answer : {"error"}]]
  /\ executed = [t \in Tasks |-> 0]
  /\ faults = 0

-----------------------------------------------------------------------------
Goto(r, step)   == request' = [request EXCEPT ![r].step = step]
Reply(r, answer) == request' = [request EXCEPT ![r].step = "answered",
                                               ![r].answer = answer]
Fault   == faults < MaxFaults /\ faults' = faults + 1
NoFault == faults' = faults

\* Mutant of Locks: the row is read without FOR UPDATE.
ReadsOnly(t) == TRUE

\* SELECT ... FOR UPDATE: waits for an open transaction to end.
Locks(t) == pending[t] = "none"

\* result(): what a coherent graph in this state answers.
AnswerOf(s) == CASE s = "SUCCEEDED"    -> "succeeded"
                 [] s = "RUNNING"      -> "running"
                 [] s = "FAILED"       -> "failed"
                 [] s = "HARD_BLOCKED" -> "ambiguous"
                 [] s = "QUEUED"       -> "unknown"

\* The end of a transaction that sets the status of t to s: it committed, or
\* its client got an error and it committed, was rolled back or is open.
Committed(t, s) == status' = [status EXCEPT ![t] = s] /\ UNCHANGED pending
InDoubt(t, s) ==
  /\ Fault
  /\ \/ Committed(t, s)
     \/ UNCHANGED <<status, pending>>
     \/ pending' = [pending EXCEPT ![t] = s] /\ UNCHANGED status

-----------------------------------------------------------------------------
Begin(r, t) ==
  /\ request[r].step \in {"idle", "answered"}
  /\ request' = [request EXCEPT ![r].step = "claiming", ![r].task = t]
  /\ UNCHANGED <<status, pending, stored, executed, faults>>

\* Mutant of Claimable: any undecided task is claimed.
ClaimableAgain(t) == status[t] \in {"QUEUED", "RUNNING"}

Claimable(t) == status[t] = "QUEUED"

\* The claim.  Serialization failures, lock timeouts and refused scopes are
\* answered at once, other errors after a reread.
Claim(r) ==
  LET t == request[r].task
  IN /\ request[r].step = "claiming"
     /\ \/ /\ Locks(t) /\ Claimable(t)
           /\ \/ Committed(t, "RUNNING") /\ Goto(r, "executing") /\ NoFault
              \/ InDoubt(t, "RUNNING") /\ Goto(r, "claimUnknown")
        \/ /\ Locks(t) /\ ~Claimable(t)
           /\ \/ Reply(r, AnswerOf(status[t])) /\ NoFault
              \/ Goto(r, "claimUnknown") /\ Fault
           /\ UNCHANGED <<status, pending>>
        \/ /\ Reply(r, "error") /\ Fault
           /\ UNCHANGED <<status, pending>>
     /\ UNCHANGED <<stored, executed>>

\* reread() and result(), after a claim or a terminal write that failed.
Reread(r) ==
  LET t == request[r].task
  IN /\ request[r].step \in {"claimUnknown", "terminalUnknown"}
     /\ \/ Locks(t) /\ Reply(r, AnswerOf(status[t])) /\ NoFault
        \/ Reply(r, "unknown") /\ Fault
     /\ UNCHANGED <<status, pending, stored, executed>>

\* Mutant of Execute: an executor's error escapes to the caller.
ExecuteOrThrow(r) ==
  LET t == request[r].task
  IN /\ request[r].step = "executing"
     /\ Goto(r, "putting") \/ Reply(r, "error")
     /\ executed' = [executed EXCEPT ![t] = @ + 1]
     /\ UNCHANGED <<status, pending, stored, faults>>

\* The executor, and the check that its output is the expected picture.
Execute(r) ==
  LET t == request[r].task
  IN /\ request[r].step = "executing"
     /\ Goto(r, "putting") \/ Goto(r, "failing")
     /\ executed' = [executed EXCEPT ![t] = @ + 1]
     /\ UNCHANGED <<status, pending, stored, faults>>

\* putObject(): ABSENT guarantees that nothing was stored; an unknown
\* outcome guarantees nothing.
PutObject(r) ==
  LET t     == request[r].task
      fresh == stored[t] = "none"
      After(outcome) == request' = [request EXCEPT ![r].step = "reading",
                                                   ![r].put = outcome]
  IN /\ request[r].step = "putting"
     /\ \/ /\ stored' = [stored EXCEPT ![t] = IF fresh THEN "exact" ELSE @]
           /\ After(IF fresh THEN "CONFIRMED" ELSE "UNKNOWN") /\ NoFault
        \/ UNCHANGED stored /\ Goto(r, "failing") /\ Fault
        \/ /\ \E o \in {stored[t], "exact", "other"} :
                stored' = [stored EXCEPT ![t] = o]
           /\ After("UNKNOWN") /\ Fault
     /\ UNCHANGED <<status, pending, executed>>

\* Mutant of Verdict: a confirmed put needs no look at the object.
TrustThePut(r, o) == IF request[r].put = "CONFIRMED" THEN "finalizing"
                     ELSE "failing"

\* What the exact-key read decides.
Verdict(r, o) == CASE o = "exact" -> "finalizing"
                   [] o = "other" -> "blocking"
                   [] o = "none"  -> IF request[r].put = "CONFIRMED"
                                       THEN "blocking" ELSE "failing"

ReadObject(r) ==
  /\ request[r].step = "reading"
  /\ \/ Goto(r, Verdict(r, stored[request[r].task])) /\ NoFault
     \/ Goto(r, "blocking") /\ Fault
  /\ UNCHANGED <<status, pending, stored, executed>>

\* The transaction that creates artifact, revision, link and event and sets
\* attempt and task SUCCEEDED.
Finalize(r) ==
  LET t == request[r].task
  IN /\ request[r].step = "finalizing"
     /\ Locks(t)
     /\ IF status[t] = "RUNNING"
          THEN \/ Committed(t, "SUCCEEDED") /\ Reply(r, "succeeded") /\ NoFault
               \/ InDoubt(t, "SUCCEEDED") /\ Goto(r, "finalizeUnknown")
          ELSE /\ Goto(r, "finalizeUnknown")
               /\ UNCHANGED <<status, pending, faults>>
     /\ UNCHANGED <<stored, executed>>

\* The authoritative reread that precedes any deletion.
RereadBeforeDeletion(r) ==
  LET t == request[r].task
  IN /\ request[r].step = "finalizeUnknown"
     /\ \/ /\ Locks(t) /\ NoFault
           /\ IF status[t] = "RUNNING" THEN Goto(r, "deleting")
              ELSE Reply(r, AnswerOf(status[t]))
        \/ Reply(r, "unknown") /\ Fault
     /\ UNCHANGED <<status, pending, stored, executed>>

\* deleteExact(): an object that is not the expected one is kept.
DeleteExact(r) ==
  LET t == request[r].task
  IN /\ request[r].step = "deleting"
     /\ \/ /\ IF stored[t] = "other"
                THEN UNCHANGED stored /\ Goto(r, "blocking")
                ELSE /\ stored' = [stored EXCEPT ![t] = "none"]
                     /\ Goto(r, "failing")
           /\ NoFault
        \/ /\ \/ UNCHANGED stored
              \/ stored[t] = "exact" /\ stored' = [stored EXCEPT ![t] = "none"]
           /\ Goto(r, "blocking") /\ Fault
     /\ UNCHANGED <<status, pending, executed>>

\* terminal(): FAILED, or HARD_BLOCKED when the object's fate is unknown.
Terminal(r) ==
  LET t == request[r].task
      s == IF request[r].step = "blocking" THEN "HARD_BLOCKED" ELSE "FAILED"
  IN /\ request[r].step \in {"failing", "blocking"}
     /\ Locks(t)
     /\ IF status[t] = "RUNNING"
          THEN \/ Committed(t, s) /\ Reply(r, AnswerOf(s)) /\ NoFault
               \/ InDoubt(t, s) /\ Goto(r, "terminalUnknown")
          ELSE /\ Goto(r, "terminalUnknown")
               /\ UNCHANGED <<status, pending, faults>>
     /\ UNCHANGED <<stored, executed>>

-----------------------------------------------------------------------------
\* PostgreSQL ends an open transaction whose client is gone.
EndOpenTransaction(t) ==
  /\ pending[t] # "none"
  /\ status' = [status EXCEPT ![t] = pending[t]] \/ UNCHANGED status
  /\ pending' = [pending EXCEPT ![t] = "none"]
  /\ UNCHANGED <<stored, request, executed, faults>>

\* A process ends: its requests are never resumed, and an in-memory store is
\* gone with it.
Crash(p) ==
  /\ \E r \in Requests : ProcessOf[r] = p
  /\ request' = [r \in Requests |-> IF ProcessOf[r] = p
                                      THEN [request[r] EXCEPT !.step = "idle"]
                                      ELSE request[r]]
  /\ stored' = IF StoreSurvives THEN stored ELSE [t \in Tasks |-> "none"]
  /\ Fault
  /\ UNCHANGED <<status, pending, executed>>

Proceed(r) ==
  \/ Claim(r) \/ Reread(r) \/ Execute(r) \/ PutObject(r) \/ ReadObject(r)
  \/ Finalize(r) \/ RereadBeforeDeletion(r) \/ DeleteExact(r) \/ Terminal(r)

Next ==
  \/ \E r \in Requests : Proceed(r) \/ \E t \in Tasks : Begin(r, t)
  \/ \E t \in Tasks : EndOpenTransaction(t)
  \/ \E p \in Processes : Crash(p)

Spec == Init /\ [][Next]_vars

\* A live request goes on, and the database ends what was left open.
Fairness ==
  /\ \A r \in Requests : WF_vars(Proceed(r))
  /\ \A t \in Tasks : WF_vars(EndOpenTransaction(t))

FairSpec == Spec /\ Fairness

-----------------------------------------------------------------------------
(* What makes the properties inductive.                                    *)

Works(r, t) == request[r].step \in Working /\ request[r].task = t

\* Only the request whose claim was confirmed works on a task.
OneWorker ==
  \A r, s \in Requests : \A t \in Tasks : Works(r, t) /\ Works(s, t) => r = s

\* What the row, an open transaction and the store say of each other.
RowInv ==
  \A t \in Tasks :
    /\ status[t] = "QUEUED" => /\ executed[t] = 0
                               /\ stored[t] = "none"
                               /\ pending[t] \in {"none", "RUNNING"}
    /\ status[t] = "RUNNING" => pending[t] \in {"none"} \cup Decided
    /\ "SUCCEEDED" \in {status[t], pending[t]} =>
         stored[t] = "exact" \/ (~StoreSurvives /\ stored[t] = "none")
    /\ "FAILED" \in {status[t], pending[t]} => stored[t] = "none"

\* What the worker of a task may rely on at each of its awaits.
WorkerInv ==
  \A r \in Requests :
    LET t    == request[r].task
        step == request[r].step
    IN /\ step \in Working => status[t] # "QUEUED"
       /\ step \in Working \ {"finalizeUnknown", "terminalUnknown"} =>
            status[t] = "RUNNING" /\ pending[t] = "none"
       /\ step = "executing" => executed[t] = 0
       /\ step \in {"executing", "putting", "failing"} => stored[t] = "none"
       /\ step \in {"finalizing", "finalizeUnknown"} => stored[t] = "exact"

\* Without faults nothing is ever in doubt: the put is confirmed, the read
\* finds the object, the finalize transaction answers.
CleanInv ==
  faults = 0 =>
    /\ \A t \in Tasks : /\ pending[t] = "none"
                        /\ status[t] # "HARD_BLOCKED"
                        /\ stored[t] # "none" =>
                             status[t] \in {"RUNNING", "SUCCEEDED"}
    /\ \A r \in Requests :
         /\ request[r].step \notin {"claimUnknown", "finalizeUnknown",
                                    "deleting", "blocking", "terminalUnknown"}
         /\ request[r].step = "reading" => stored[request[r].task] = "exact"

-----------------------------------------------------------------------------
(* Properties.                                                             *)

\* Task row and object are decided as if in one step: a task that succeeded
\* has exactly its object, one that failed has left none behind, and neither
\* a late COMMIT nor a deletion after a lost answer can separate the two.
Outcome == INSTANCE TaskOutcome
             WITH kept <- [t \in Tasks |-> IF status[t] \in Decided
                                             THEN stored[t] ELSE "none"]

OutcomeIsAtomic == Outcome!Spec

\* Whatever is lost, retried or requested twice, the executor runs at most
\* once for a task.
ExecutedOnce == \A t \in Tasks : executed[t] <= 1

\* A final answer stays true: who was told that the task succeeded, failed or
\* is blocked never finds it in another state.
AnswersAreFinal ==
  \A r \in Requests :
    request[r].step = "answered" =>
      LET s == status[request[r].task]
      IN /\ request[r].answer = "succeeded" => s = "SUCCEEDED"
         /\ request[r].answer = "failed"    => s = "FAILED"
         /\ request[r].answer = "ambiguous" => s = "HARD_BLOCKED"

\* The inductive invariant behind these.
CoreInv == OneWorker /\ RowInv /\ WorkerInv /\ ExecutedOnce /\ AnswersAreFinal
IInv    == CoreInv /\ CleanInv

\* As long as the infrastructure keeps its word, no task is blocked and no
\* object is left that no task refers to.
CleanWithoutFaults ==
  faults = 0 =>
    \A t \in Tasks : /\ status[t] # "HARD_BLOCKED"
                     /\ stored[t] # "none" => status[t] \in {"RUNNING", "SUCCEEDED"}

\* A claimed task is decided, unless a fault intervened: then it may stay
\* RUNNING, since no request ever takes up the work of another.
ClaimedTaskIsDecided ==
  \A t \in Tasks : status[t] = "RUNNING" ~> status[t] \in Decided \/ faults > 0
=============================================================================
