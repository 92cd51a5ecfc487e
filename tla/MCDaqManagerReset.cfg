SPECIFICATION Spec
CONSTANTS
  TA = TA
  RUIs = {r1}
  r1 = r1
  Drivers = {"request"}
  Requests = {"Configure", "Enable", "Halt", "Reset"}
  MaxFaults = 0
INVARIANT HeldBack
CHECK_DEADLOCK FALSE
