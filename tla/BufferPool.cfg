SPECIFICATION Spec
CONSTANTS
  p0 = p0
  p1 = p1
  p2 = p2
  p3 = p3
  p4 = p4
  p5 = p5
  NumFrames = 3
  Page <- MCPage
  Cut <- MCCut
  Value = {0, 1}
  MaxPinned = 3
  MaxPins = 2
CHECK_DEADLOCK FALSE
CONSTRAINT Followed
SYMMETRY Symmetry
INVARIANTS
  TypeOK
  RingIntact
  PinsAgree
  StaysUp
  PoolInv
  PinsConserved
PROPERTIES
  PinnedStaysPut
  ImplementsPageCache
