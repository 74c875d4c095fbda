CONSTANTS
  QueueLength = 2
  Limits = {0}
  DefaultLimit = 0
  CountCap = 2
  MaxRequests = 3
  MaxEvents = 1
  WifiQueueLength = 2
  Configs <- MCConfigs
  DefaultConfig <- MCDefaultConfig
  Word = 16
  Scale = 4
  WifiCountCap = 3
  MaxPending = 1
  MaxPublications = 1
SPECIFICATION MqttFairSpec
INVARIANTS
  AllTypeOK
  ReportsArrive
PROPERTIES
  NoBlindAttempt
  NoGhostConnection
  UplinkSpec
