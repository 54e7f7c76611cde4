SPECIFICATION Spec
CONSTANTS
  Callers = {c1, c2, c3}
  COUNT_MAX = 2
  MAX_CALLS = 7
INVARIANTS
  TypeOK
  CountExact
  ReadyWhileHeld
  NothingImpossible
PROPERTY
  CallsReturn
CHECK_DEADLOCK FALSE
