CONSTANTS
  p1 = p1
  p2 = p2
  p3 = p3
  s1 = s1
  s2 = s2
  k1 = k1
  Party = {p1, p2}
  Session = {s1, s2}
  KeyId = {k1}
  KeyOf <- OneKey
  Coord <- CoordEach
  Parties <- AllParties
  Rounds = 1
  Faults = {"timeout", "lose", "crash", "slow"}
SPECIFICATION Spec
INVARIANTS
  Inv
  OneLiveRecord
  KeyAgreement
PROPERTY ImplementsRegistry
CHECK_DEADLOCK FALSE
