CONSTANTS
  QueueLength = 7
  Limits = {1}
  DefaultLimit = 1
  CountCap = 3
  MaxRequests = 1
  MaxEvents = 1
SPECIFICATION FairSpec
PROPERTIES
  AttemptInProgress
