SPECIFICATION FairSpec
CONSTANTS
  MaxL1A = 5
  HighThreshold = 5
  FirstL1A = {0, 4}
  MaxGap = 2
  MaxReads = 4
  MaxRuns = 2
INVARIANTS TypeOK SentWhole ContiguousButForZero PendingBlocksExistUnlessDropped
PROPERTY PendingIsSent
CHECK_DEADLOCK FALSE
