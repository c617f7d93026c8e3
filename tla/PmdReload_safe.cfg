SPECIFICATION FairSpec
CONSTANTS
  Core <- Cores
  NoCore = NoCore
  NonPmd = NonPmd
  NumaOf <- Nodes
  PortNuma <- PortNodes
  Pin <- PinOne
  Port <- TwoPorts
  MaxRxq = 2
  HwTxq <- TxqLimits
  Masks <- SomeMasks
  Iso <- AnyIso
  MaxCycles <- CycleBounds
  MaxChanges = 2
  MaxRequests <- RequestBounds
INVARIANTS OnePollerPerRxq StaticTxqOwn XpsCounts ScheduleSound GroupBalanced
PROPERTIES UnusedWhenReconfigured ScheduledIsPolled
CHECK_DEADLOCK FALSE
