CONSTANTS
  p1 = p1
  p2 = p2
  p3 = p3
  Party = {p1, p2, p3}
  Share = {p1, p2, p3}
  Coord = p1
  Threshold = 1
  Rounds = 2
  Faults = {"validate", "cancel", "timeout", "tss", "reset", "lose", "crash"}
SPECIFICATION Spec
SYMMETRY OtherParties
INVARIANTS
  TypeOK
  Inv
  FinishedTogether
PROPERTY ImplementsThresholdSign
CHECK_DEADLOCK FALSE
