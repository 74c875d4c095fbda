SPECIFICATION Spec
INVARIANTS
  TypeOK
  ReadyMeansWired
  NothingUnserved
  NoStaleOrder
CHECK_DEADLOCK FALSE
