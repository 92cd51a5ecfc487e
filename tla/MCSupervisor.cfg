SPECIFICATION FairSpec
CONSTANTS
  Calibrations = 2
  Steps = 1
  MaxRequests = 4
  MaxFaults = 1
INVARIANTS TypeOK SequenceTakesAll
PROPERTIES SequenceEndsAtLast HaltsItself
CHECK_DEADLOCK FALSE
