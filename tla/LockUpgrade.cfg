SPECIFICATION Spec
CONSTANTS
  Trx = {t1, t2}
  Rec = {r1}
CHECK_DEADLOCK FALSE
INVARIANTS
  NeverWaitsAlone
