CONSTANTS
  QueueLength = 2
  Registered <- MCRegistered
  Inputs <- MCInputs
SPECIFICATION FairSpec
INVARIANTS
  TypeOK
  ParachuteOnce
  CommandsMatchState
  FaultMeansError
  DecisionOnCurrentData
PROPERTIES
  AbortIsFinal
  MissionSpec
