SPECIFICATION Spec
CONSTANTS
  cq = cq
  yy = yy
  Host <- TwoHosts
  Senders <- CqSends
  Verdicts <- AlwaysStay
  NumMbufs = 8
  RingSize = 1
  BURST_SIZE = 1
  RxDesc = 1
  TxDesc = 1
  Lossy = FALSE
  Arriving <- TsOnly
  MaxArrive = 3
  MaxWire = 1
  PATH_NB = 1
  Paced = FALSE
  DST_PORT_PATH_1 = 5678
INVARIANT ExitOnlyAfterLeak
CHECK_DEADLOCK FALSE
