SPECIFICATION OrderedSpec
CONSTANTS
  Trx = {t1, t2, t3}
  Rec = {1, 2}
CHECK_DEADLOCK FALSE
INVARIANTS
  WaitsForOthers
PROPERTIES
  EveryWaitEnds
