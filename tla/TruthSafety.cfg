SPECIFICATION Spec
CONSTANTS
  c1 = c1
  c2 = c2
  a1 = a1
  a2 = a2
  t1 = t1
  r1 = r1
  r2 = r2
  r3 = r3
  Keys = {c1, c2, a1, a2, t1}
  OperationOf <- TruthKeys
  Sources = {s1}
  Requests = {r1, r2}
  MaxRevisions = 2
  MaxFaults = 1
SYMMETRY Symmetry
INVARIANTS TypeOK IInv ExpectationsHonoured
PROPERTY ImplementsLedger
