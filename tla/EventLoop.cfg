CONSTANTS
  q1 = q1
  q2 = q2
  Peer = {q1, q2}
  Rounds = 2
  Outs <- OneThenTwo
  Faults = {"timeout", "reset", "tss", "peer"}
SPECIFICATION FairSpec
INVARIANT Inv
PROPERTIES
  ImplementsLocalRounds
  LoopReturns
  NothingLeft
CHECK_DEADLOCK FALSE
