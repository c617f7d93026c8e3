SPECIFICATION CheckSpec
CONSTANTS
  MOD = 4
  Thres <- ExactThres
INVARIANT SlowestPacketSwitches
CHECK_DEADLOCK FALSE
