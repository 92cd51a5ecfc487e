SPECIFICATION Spec
CONSTANTS
  Crates = {c1, c2}
  Chambers = {0, 1}
  Threshold = 2
  Faults = TRUE
  KeepData = TRUE
  MaxFailures = 3
  MaxResyncs = 1
  MaxRuns = 2
SYMMETRY Symmetry
INVARIANTS TypeOK NotMissed
PROPERTY ReleasedForCause
CHECK_DEADLOCK FALSE
