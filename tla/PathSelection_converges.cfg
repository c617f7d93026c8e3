SPECIFICATION FairSpec
CONSTANTS
  PATH_NB = 3
  DST_PORT_PATH_1 = 5678
  MOD = 32
  OFFSET = 4
  UNMEASURED = 16
  Skew <- SkewBehind
  MayFail <- AllPaths
  Prompt = TRUE
  MaxAge = 2
  MaxFlight = 5
  MaxChanges = 1
INVARIANTS OptIsFastest
PROPERTIES Converges ImplementsBestPath
