CONSTANTS
  p1 = p1
  p2 = p2
  p3 = p3
  Party = {p1, p2, p3}
  Share = {p1, p2, p3}
  Coord = p1
  Threshold = 1
  Rounds = 2
  Faults = {}
SPECIFICATION FairSpec
PROPERTY WaitEnds
CHECK_DEADLOCK FALSE
