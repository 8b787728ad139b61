\* Every answer of the Qwen adapter, one worker, no infrastructure fault.
SPECIFICATION Spec
CONSTANTS
  j1 = j1
  j2 = j2
  w1 = w1
  w2 = w2
  w3 = w3
  p1 = p1
  p2 = p2
  qwen = qwen
  mock = mock
  NoJob = NoJob
  Jobs = {j1}
  Workers = {w1}
  Projects = {p1, p2}
  Providers = {qwen, mock}
  ProjectOf <- OneProject
  ProviderOf <- AllQwen
  ServedBy <- WorkersQwen
  ProviderAnswers <- QwenAll
  MaxAttempts = 2
  MaxPolls = 1
  MaxFaults = 0
INVARIANTS
  AtMostOneSubmission
