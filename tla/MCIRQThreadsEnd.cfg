SPECIFICATION FairSpec
CONSTANTS
  Crates = {c1, c2}
  Chambers = {0}
  Threshold = 1
  Faults = FALSE
  KeepData = TRUE
  MaxFailures = 1
  MaxResyncs = 0
  MaxRuns = 1
PROPERTY EndsThreads
CHECK_DEADLOCK FALSE
