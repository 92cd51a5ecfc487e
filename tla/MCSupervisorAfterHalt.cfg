SPECIFICATION Spec
CONSTANTS
  Calibrations = 2
  Steps = 1
  MaxRequests = 2
  MaxFaults = 0
INVARIANT TakesAllRuns
CHECK_DEADLOCK FALSE
