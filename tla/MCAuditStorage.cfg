SPECIFICATION Spec
CONSTANTS
  Loggers = {a, b}
  MaxEvents = 2
  MaxTime = 1
  MaxSkew = 1
INVARIANTS
  TypeOK
  ExactlyOnce
  OwnOrder
  LateRows
PROPERTY
  ImplementsTrail
SYMMETRY LoggerSymmetry
CHECK_DEADLOCK FALSE
