\* Two jobs of one project, two workers, one infrastructure fault.
SPECIFICATION FairSpec
CONSTANTS
  j1 = j1
  j2 = j2
  w1 = w1
  w2 = w2
  w3 = w3
  p1 = p1
  p2 = p2
  qwen = qwen
  mock = mock
  NoJob = NoJob
  Jobs = {j1, j2}
  Workers = {w1, w2}
  Projects = {p1, p2}
  Providers = {qwen, mock}
  ProjectOf <- OneProject
  ProviderOf <- AllQwen
  ServedBy <- WorkersQwen
  ProviderAnswers <- HonestQwen
  MaxAttempts = 2
  MaxPolls = 1
  MaxFaults = 1
INVARIANTS
  IInv
  AtMostOneSubmission
  UnsubmittedFailureIsUnbilled
  OneActiveJobPerProject
  NoOrphanWithoutFaults
  QueuedJobsAreClaimable
  ResultsHaveObjects
PROPERTIES
  ImplementsLifecycle
  EveryJobIsDecided
