SPECIFICATION FairSpec
INVARIANTS
  TypeOK
  EnableIsTimed
  NoTimerAfterDisable
PROPERTY
  AutoShutOff
