\* Three requests in two processes over one task, three faults.
SPECIFICATION FairSpec
CONSTANTS
  t1 = t1  t2 = t2  r1 = r1  r2 = r2  r3 = r3  p1 = p1  p2 = p2
  Tasks <- OneTask
  Requests <- ThreeRequests
  Processes = {p1, p2}
  ProcessOf <- InTwoProcesses
  StoreSurvives = TRUE
  MaxFaults = 3
INVARIANTS IInv ExecutedOnce AnswersAreFinal CleanWithoutFaults
PROPERTIES OutcomeIsAtomic ClaimedTaskIsDecided
