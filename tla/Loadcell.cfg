CONSTANTS
  Window = 3
  Pulses = 2
  Attempts = 2
  Tasks = {t1, t2}
  Null = null
  Commander = commander
SPECIFICATION FairSpec
INVARIANTS
  TypeOK
  AverageOverSamples
  OneSampler
  ClockRests
PROPERTIES
  ReadsEnd
CHECK_DEADLOCK FALSE
