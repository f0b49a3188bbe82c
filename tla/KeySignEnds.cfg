CONSTANTS
  p1 = p1
  p2 = p2
  p3 = p3
  Party = {p1, p2, p3}
  Share = {p2}
  Coord = p1
  Threshold = 1
  Rounds = 2
  Faults = {"cancel", "timeout", "late"}
SPECIFICATION FairSpec
INVARIANT SignersListen
PROPERTIES
  CallReturns
  SignersEnd
CHECK_DEADLOCK FALSE
