SPECIFICATION Spec
CONSTANTS
  cq = cq
  yy = yy
  Host <- TwoHosts
  Senders <- NoSenders
  Verdicts <- RepathOrTrap
  NumMbufs = 3
  RingSize = 1
  BURST_SIZE = 2
  RxDesc = 2
  TxDesc = 1
  Lossy = TRUE
  Arriving <- TsAndOther
  MaxArrive = 3
  MaxWire = 2
  PATH_NB = 2
  Paced = FALSE
  DST_PORT_PATH_1 = 5678
INVARIANTS MbufsConserved AcksAnswerRepaths
PROPERTY LeakOnlyWhenRingFull
CHECK_DEADLOCK FALSE
