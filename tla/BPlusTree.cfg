SPECIFICATION MCSpec
CONSTANTS
  Key <- MCKey
  Size <- MCSize
  MAX_FREE_SPACE = 10
  MAX_KEY_NUMBER = 6
  P_NUMBER = 26
  THRESHOLD = 8
  Int32 <- SmallKey
CHECK_DEADLOCK FALSE
INVARIANTS
  DeletionTypeOK
  ShapeKept
  OrderKept
  FillKept
PROPERTIES
  ImplementsTableUndamaged
