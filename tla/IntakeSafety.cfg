\* One mail followed twice, three requests of any kind at a time.
SPECIFICATION Spec
CONSTANTS
  Tokens = {t1}
  SignIns = {s1, s2}
  Requests = {r1, r2, r3}
  Keys = {k1}
  Names = {n1, n2}
  AssetLimit <- Limits
  MaxFaults = 1
  None = None
SYMMETRY Symmetry
INVARIANTS
  IntakeInv
  AssetsWithinLimit
  UsedOnce
PROPERTY
  NoWriteWhenDisabled
