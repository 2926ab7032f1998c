SPECIFICATION AccessSpec
CONSTANTS
  Trx = {t1, t2}
  Rec = {r1, r2}
  PageOf <- OnePage
  Initial = Initial
SYMMETRY Symmetry
CHECK_DEADLOCK FALSE
INVARIANTS
  UpdatesStay
