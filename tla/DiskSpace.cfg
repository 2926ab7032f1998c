SPECIFICATION Spec
CONSTANTS
  P_NUMBER = 3
  MaxPages = 6
  Parent = {0, 1}
CHECK_DEADLOCK FALSE
INVARIANTS
  TypeOK
  FreeListExact
