SPECIFICATION FairSpec
CONSTANTS
  cq = cq
  yy = yy
  Host <- TwoHosts
  Senders <- NoSenders
  Verdicts <- AlwaysRepath
  NumMbufs = 8
  RingSize = 4
  BURST_SIZE = 2
  RxDesc = 2
  TxDesc = 1
  Lossy = FALSE
  Arriving <- TsAndOther
  MaxArrive = 2
  MaxWire = 2
  PATH_NB = 2
  Paced = FALSE
  DST_PORT_PATH_1 = 5678
PROPERTIES RepathAcked AllReclaimed
CHECK_DEADLOCK FALSE
