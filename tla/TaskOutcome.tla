---------------------------- MODULE TaskOutcome ----------------------------
(***************************************************************************)
(* What the execution of an asset task promises of the task row and its    *)
(* stored object together: they appear to be decided in one step, although *)
(* the code writes them in separate transactions and calls.                *)
(***************************************************************************)
CONSTANTS
  Tasks,
  StoreSurvives  \* FALSE: the store is the process memory a restart empties

VARIABLES
  status,  \* AssetTask.status
  kept     \* the object a decided task left behind; "none" before

vars == <<status, kept>>

Contents == {"none", "exact", "other"}

Undecided == {"QUEUED", "RUNNING"}
Decided   == {"SUCCEEDED", "FAILED", "HARD_BLOCKED"}

\* A success has its object, a failure has none, and only a hard block
\* leaves the question open.
Leaves(s) == CASE s = "SUCCEEDED"    -> {"exact"} \cup
                                        IF StoreSurvives THEN {} ELSE {"none"}
               [] s = "FAILED"       -> {"none"}
               [] s = "HARD_BLOCKED" -> Contents

Init ==
  /\ status = [t \in Tasks |-> "QUEUED"]
  /\ kept = [t \in Tasks |-> "none"]

Claim(t) ==
  /\ status[t] = "QUEUED"
  /\ status' = [status EXCEPT ![t] = "RUNNING"]
  /\ UNCHANGED kept

Decide(t) ==
  /\ status[t] = "RUNNING"
  /\ \E s \in Decided : \E o \in Leaves(s) :
       /\ status' = [status EXCEPT ![t] = s]
       /\ kept' = [kept EXCEPT ![t] = o]

\* A restart loses availability; it never fabricates a stored object.
Lose ==
  /\ ~StoreSurvives
  /\ kept' = [t \in Tasks |-> "none"]
  /\ UNCHANGED status

Next == (\E t \in Tasks : Claim(t) \/ Decide(t)) \/ Lose

Spec == Init /\ [][Next]_vars
=============================================================================
