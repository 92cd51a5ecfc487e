\* Events longer than a buffer, a rate limiter that may veto any event, and a prescaling
\* of bad events that starts with the second one.
SPECIFICATION Spec
CONSTANTS
  Capacity = 3
  BeforeChoices = {1, 3}
  NToWriteAfterBadEvent = 1
  Verdicts = {TRUE, FALSE}
  PrescaleBase = 2
  MaxBlocks = 6
  MaxRuns = 2
INVARIANTS TypeOK RingInOrder FileInOrder WindowContiguous NoTailWithoutHead
CHECK_DEADLOCK FALSE
