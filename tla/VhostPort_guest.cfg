SPECIFICATION FairSpec
CONSTANTS
  MaxQueues = 2
  Pmd <- Threads2
  Batch = 2
  MaxRetries = 1
INVARIANTS VidNotUsedAfterDestroy MapSound OneSender SentOnce
PROPERTIES AttachedRuns DestroyEnds
