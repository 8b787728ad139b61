------------------------- MODULE MCWorkspaceIntake -------------------------
(* An instance of WorkspaceIntake for TLC. *)
EXTENDS WorkspaceIntake, TLC

\* One product picture, as in the code; the limit of the reference pictures
\* is 2 here and 6 in the code.
Limits == [PRODUCT |-> 1, REFERENCE |-> 2]

\* Sign-ins and requests are interchangeable.
Symmetry == Permutations(SignIns) \cup Permutations(Requests)
=============================================================================
