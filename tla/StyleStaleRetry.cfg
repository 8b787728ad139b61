\* A worker outlives its lease, without any fault.
SPECIFICATION Spec
CONSTANTS
  j1 = j1
  j2 = j2
  p1 = p1
  mock = mock
  NoJob = NoJob
  NoOne = NoOne
  Jobs = {j1}
  Projects = {p1}
  ProjectOf <- OneProject
  Providers = {mock}
  ProviderOf <- AllMock
  Workers = {w1, w2}
  ServedBy <- WorkersMock
  Editors = {}
  MaxAttempts = 2
  MaxSaves = 0
  MaxFaults = 0
INVARIANTS
  QueuedJobsAreClaimable
