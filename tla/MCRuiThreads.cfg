SPECIFICATION FairSpec
CONSTANTS
  Servers = {s1}
  Commands = {"Configure", "Enable", "Halt", "Reset", "Access"}
  Faults = TRUE
  MaxConfigures = 3
INVARIANTS TypeOK MutualExclusion ReadsOnlyWhenEnabled SemaphoreNotLost LoopAlive
PROPERTY MessagesAnswered
CHECK_DEADLOCK FALSE
