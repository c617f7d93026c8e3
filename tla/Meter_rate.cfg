SPECIFICATION Spec
CONSTANTS
  t1 = t1
  t2 = t2
  Thread <- TwoThreads
  Configs <- SomeConfigs
  Sizes = {1, 2}
  MaxBatch = 2
  Thousand = 3
  MaxTime = 3
  MaxSets = 2
INVARIANTS RateKept WithinRatePasses
SYMMETRY AnyThread
