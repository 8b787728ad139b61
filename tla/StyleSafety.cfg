\* Two jobs, two workers and a user; leases may run out under a live worker.
SPECIFICATION FairSpec
CONSTANTS
  j1 = j1
  j2 = j2
  p1 = p1
  mock = mock
  NoJob = NoJob
  NoOne = NoOne
  Jobs = {j1, j2}
  Projects = {p1}
  ProjectOf <- OneProject
  Providers = {mock}
  ProviderOf <- AllMock
  Workers = {w1, w2}
  ServedBy <- WorkersMock
  Editors = {e1}
  MaxAttempts = 2
  MaxSaves = 2
  MaxFaults = 1
INVARIANTS
  StyleInv
  RevisionsAreNumberedInTurn
  OneRevisionPerSuccess
PROPERTIES
  DecidedRowsAreFinal
  ImplementsLifecycle
  EveryJobIsDecided
