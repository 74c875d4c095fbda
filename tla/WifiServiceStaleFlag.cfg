CONSTANTS
  QueueLength = 7
  Configs <- MCConfigs
  DefaultConfig <- MCDefaultConfig
  Word = 16
  Scale = 4
  CountCap = 4
  MaxRequests = 2
  MaxPending = 2
SPECIFICATION Spec
INVARIANT
  FlagMeansDisconnect
