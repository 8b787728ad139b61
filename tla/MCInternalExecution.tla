------------------------ MODULE MCInternalExecution ------------------------
(* Instances of InternalExecution for TLC. *)
EXTENDS InternalExecution, TLC

CONSTANTS t1, t2, r1, r2, r3, p1, p2

OneTask       == {t1}
ThreeRequests == {r1, r2, r3}
InTwoProcesses == r1 :> p1 @@ r2 :> p2 @@ r3 :> p2
=============================================================================
