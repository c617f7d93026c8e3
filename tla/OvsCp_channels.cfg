SPECIFICATION FairSpec
CONSTANTS
  n1 = n1
  n2 = n2
  c1 = c1
  c2 = c2
  c3 = c3
  c4 = c4
  p1 = p1
  NULL = NULL
  NicMbuf <- OneNic
  CpMbuf <- FourCp
  Pmd <- OnePmd
  Poller = p1
  Roles <- BothRoles
  PATH_NB = 2
  Burst = 2
  OutSize = 3
  InSize = 1
  MaxBehind = 1
  HeapHdrs = 4
  MayFail <- AnyFailure
  Arriving <- FromPeer
  MaxRounds = 2
  MaxArrive = 5
INVARIANTS CrashHasCause PointersConserved
PROPERTIES ImplementsChannels AllDelivered
CHECK_DEADLOCK FALSE
