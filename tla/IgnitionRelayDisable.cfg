SPECIFICATION Spec
INVARIANT
  DisableTurnsOff
