SPECIFICATION FairSpec
CONSTANTS
  PoolSize = 6
  HighThreshold = 3
  CreditGrants = {1, 2}
  Prescalings = {1, 2}
  MaxReads = 5
  MaxGranted = 3
  MaxRuns = 2
INVARIANTS TypeOK EndsAreCounted CreditsBalance CreditsReported EventsNotMixed EventsInOrder
PROPERTY CompleteEventsAreSent
PROPERTY ImplementsDataServer
CHECK_DEADLOCK FALSE
