SPECIFICATION AccessSpec
CONSTANTS
  Trx = {t1, t2, t3}
  Rec = {r1, r2}
  PageOf <- OwnPages
  Initial = Initial
SYMMETRY Symmetry
CHECK_DEADLOCK FALSE
INVARIANTS
  AccessTypeOK
  UpdatesStay
  AccessInv
PROPERTIES
  NoDirtyRead
