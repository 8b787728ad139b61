\* Two requests for one experiment under different keys, two workers.
SPECIFICATION FairSpec
CONSTANTS
  Keys = {k1, k2}
  Experiments = {e1}
  Workers = {w1, w2}
  MaxAttempts = 2
  StyleAnswers <- HonestQwen
  MaxFaults = 1
  NoExperiment = NoExperiment
  NoJob = NoJob
INVARIANTS
  BenchmarkInv
  OneSamplePerVariant
PROPERTIES
  ImplementsLifecycle
  EveryRunEnds
