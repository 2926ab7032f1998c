SPECIFICATION Spec
CONSTANTS
  Session = {s1, s2, s3}
  MaxTrx = 5
SYMMETRY Symmetry
CHECK_DEADLOCK FALSE
INVARIANTS
  UniqueIds
