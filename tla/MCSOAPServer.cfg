\* Credits for more messages than may wait, and blocks for four events, whole and
\* without trailer or header.
SPECIFICATION FairSpec
CONSTANTS
  MaxMessages = 2
  CreditGrants = {1, 3}
  Prescalings = {1, 2}
  MaxReads = 5
  MaxGranted = 4
  MaxRuns = 2
INVARIANT TypeOK
INVARIANT CreditsBalance
INVARIANT EventsNotMixed
INVARIANT EventsInOrder
PROPERTY CompleteEventsAreSent
PROPERTY ImplementsDataServer
CHECK_DEADLOCK FALSE
