SPECIFICATION FairSpec
CONSTANTS
  k1 = k1
  k2 = k2
  Key <- KeySet
  Mega <- MegaSet
  Simple <- SimpleSet
  MaxFlows = 2
  Burst = {2}
INVARIANTS NoUseAfterFree NoDuplicate CoveredByFlow EachOnce InOrder
PROPERTY DeadReclaimed
