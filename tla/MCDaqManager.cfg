SPECIFICATION FairSpec
CONSTANTS
  TA = TA
  RUIs = {r1}
  r1 = r1
  Drivers = {"loop", "request"}
  Requests = {"Reset"}
  MaxFaults = 2
INVARIANTS TypeOK AppsFollow
PROPERTY HerdedBack
CHECK_DEADLOCK FALSE
