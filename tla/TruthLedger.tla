---------------------------- MODULE TruthLedger ----------------------------
(***************************************************************************)
(* What the requests of a product project promise: they take effect one    *)
(* after the other, each on the state the one before it left, and the      *)
(* requests of one idempotency key take effect once.                       *)
(***************************************************************************)
EXTENDS Naturals, Sequences

CONSTANTS Keys, OperationOf

VARIABLES
  active,   \* the active truth revision, 0 for none
  revision, \* the revisions in the order of their numbers
  log       \* what took effect, in order

vars == <<active, revision, log>>

Init == active = 0 /\ revision = <<>> /\ log = <<>>

Fresh(k) == \A i \in 1 .. Len(log) : log[i].key # k
Took(k, n) == log' = Append(log, [key |-> k, revision |-> n,
                                  previous |-> active])

\* A draft gets the next number, and its parent is the active revision.
Draft(k) ==
  /\ OperationOf[k] = "create" /\ Fresh(k)
  /\ revision' = Append(revision, [status |-> "DRAFT", parent |-> active])
  /\ Took(k, Len(revision) + 1)
  /\ UNCHANGED active

\* A draft takes the place of the active revision.
Activate(k, n) ==
  /\ OperationOf[k] = "activate" /\ Fresh(k)
  /\ revision[n].status = "DRAFT"
  /\ revision' = [m \in 1 .. Len(revision) |->
                    [revision[m] EXCEPT !.status =
                       IF m = n THEN "ACTIVE"
                       ELSE IF m = active THEN "SUPERSEDED" ELSE @]]
  /\ active' = n
  /\ Took(k, n)

\* A task rests on the active revision.
Task(k) ==
  /\ OperationOf[k] = "task" /\ Fresh(k)
  /\ active # 0
  /\ Took(k, active)
  /\ UNCHANGED <<active, revision>>

Next == \E k \in Keys :
          \/ Draft(k) \/ Task(k)
          \/ \E n \in 1 .. Len(revision) : Activate(k, n)

Spec == Init /\ [][Next]_vars
=============================================================================
