SPECIFICATION Spec
CONSTANTS
  P_NUMBER = 2
  MaxPages = 4
  NumFrames = 2
  Parent = {0, 1}
CHECK_DEADLOCK FALSE
INVARIANTS
  TypeOK
  HeadersAgree
  NeverTwice
