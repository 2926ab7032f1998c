SPECIFICATION Spec
CONSTANTS
  Trx = {t1, t2, t3}
  Rec = {r1, r2}
SYMMETRY Symmetry
CHECK_DEADLOCK FALSE
INVARIANTS
  TypeOK
  MutualExclusion
  NoOvertaking
  HeadGranted
  ListsAgree
  LockTableInv
  WaitInv
PROPERTIES
  HeldUntilCommit
  ImplementsLockService
