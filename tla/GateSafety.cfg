SPECIFICATION Spec
CONSTANTS
  Contracts <- TheContracts
  Diffs <- TheDiffs
  Trees <- TheTrees
  Bases <- TheBases
  Protected = {"rules"}
  Lifecycle = {"lock"}
  Frozen <- TheFrozen
  Sessions = {v1, v2}
  MaxTime = 2
  MaxChanges = 2
  None = None
SYMMETRY SameReviewers
INVARIANTS GateInv AcceptedRunIsFresh
\* The job ends after one run, and the owner may stop changing things.
CHECK_DEADLOCK FALSE
