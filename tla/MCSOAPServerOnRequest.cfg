\* Clients that need not ask for data.
SPECIFICATION Spec
CONSTANTS
  MaxMessages = 3
  CreditGrants = {1}
  Prescalings = {1}
  MaxReads = 2
  MaxGranted = 1
  MaxRuns = 1
PROPERTY KeepsTransmitting
CHECK_DEADLOCK FALSE
