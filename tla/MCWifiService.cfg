CONSTANTS
  QueueLength = 3
  Configs <- MCConfigs
  DefaultConfig <- MCDefaultConfig
  Word = 16
  Scale = 4
  CountCap = 4
  MaxRequests = 2
  MaxPending = 2
SPECIFICATION FairSpec
INVARIANTS
  TypeOK
  ToldOnlyConnected
  TriesWithinLimit
  AgreesWithStation
PROPERTIES
  BackoffWithinBounds
  NoAttemptAfterDisconnect
  Settles
  NeverStranded
