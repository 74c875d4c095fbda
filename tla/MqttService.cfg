CONSTANTS
  QueueLength = 3
  Limits = {2}
  DefaultLimit = 2
  CountCap = 4
  MaxRequests = 1
  MaxEvents = 2
SPECIFICATION FairSpec
INVARIANTS
  TypeOK
  OneClient
  BackedByClient
  RetriesWithinLimit
PROPERTIES
  NoAttemptWithoutWifi
  AttemptsEnd
  NeverStranded
