--------------------------- MODULE MCControlGate ---------------------------
(* An instance of ControlGate for TLC: an ordinary task whose text may ask  *)
(* for a change of authentication instead, and the two children of the      *)
(* program.                                                                 *)
EXTENDS ControlGate, TLC

Ask(ordinal, class, base, paths) ==
  [ordinal |-> ordinal, class |-> class, base |-> base, paths |-> paths,
   activatedAt |-> 0, expiresAt |-> 3, registration |-> base]

TheContracts ==
  [task |-> Ask(0, "ORDINARY_TASK", 1, {"code"}),
   wider |-> Ask(0, "P2_AUTH_IMPLEMENTATION", 1, {"code", "lock"}),
   second |-> Ask(2, "CONTROL_PLANE_CHANGE", 1, {"rules"}),
   third |-> Ask(3, "P2_IMPLEMENTATION", 2, {"code"})]

TheDiffs == <<{"code"}, {"rules"}, {"code", "lock"}>>

\* The third head adds the lock file, which main has by the second base.
TheTrees == <<{"code", "rules"}, {"code", "rules"}, {"code", "rules", "lock"}>>
TheBases == <<{"code", "rules"}, {"code", "rules", "lock"}>>

TheFrozen == [n \in {2, 3} |-> IF n = 2 THEN {"rules"} ELSE {"code"}]

SameReviewers == Permutations(Sessions)
=============================================================================
