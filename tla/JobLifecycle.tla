---------------------------- MODULE JobLifecycle ----------------------------
(***************************************************************************)
(* What the Job table promises, whichever worker serves it: a job is       *)
(* queued once, is attempted at most MaxAttempts times, goes back to the   *)
(* queue only while attempts are left, and never leaves SUCCEEDED or       *)
(* FAILED.  One step may move several jobs, as one recovery query does.    *)
(* The worker modules are checked to implement this module.                *)
(***************************************************************************)
EXTENDS Naturals

CONSTANTS
  Jobs,
  MaxAttempts   \* Job.maxAttempts; both services create jobs with 2

VARIABLES
  status,      \* Job.status, "ABSENT" until the service inserts the row
  attempts     \* Job.attemptCount

vars == <<status, attempts>>

Active   == {"QUEUED", "RUNNING"}
Terminal == {"SUCCEEDED", "FAILED"}
Statuses == {"ABSENT"} \cup Active \cup Terminal

Init == /\ status = [j \in Jobs |-> "ABSENT"]
        /\ attempts = [j \in Jobs |-> 0]

Moves(j, from, to) == status[j] = from /\ status'[j] = to
Keeps(j)           == attempts'[j] = attempts[j]

Unchanged(j) == status'[j] = status[j] /\ Keeps(j)

\* The service inserts the row.
Enqueue(j) == Moves(j, "ABSENT", "QUEUED") /\ Keeps(j)

\* A worker claims the job: one attempt is spent.
Start(j) == /\ Moves(j, "QUEUED", "RUNNING")
            /\ attempts[j] < MaxAttempts
            /\ attempts'[j] = attempts[j] + 1

\* The attempt is given up and another one is left.
Requeue(j) == /\ Moves(j, "RUNNING", "QUEUED")
              /\ attempts[j] < MaxAttempts
              /\ Keeps(j)

\* The attempt decides the job.
Decide(j) == /\ \E to \in Terminal : Moves(j, "RUNNING", to)
             /\ Keeps(j)

Next == \A j \in Jobs :
          \/ Unchanged(j) \/ Enqueue(j) \/ Start(j) \/ Requeue(j) \/ Decide(j)

Spec == Init /\ [][Next]_vars

\* Every queued or running job is eventually decided.
Terminates(j) == (status[j] \in Active) ~> (status[j] \in Terminal)
=============================================================================
