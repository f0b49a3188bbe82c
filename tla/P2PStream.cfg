CONSTANTS
  own = own
  peer = peer
  empty = empty
  small = small
  full = full
  large = large
  Stream = {own, peer}
  LocalEnd = {own}
  Msg = {empty, small, full, large}
  Size <- Sizes
  Width = 4
  Limit = 2
  Capacity = 2
  Plans <- Pairs
  Want = 2
  Faults = {"reset"}
SPECIFICATION FairSpec
PROPERTIES
  ImplementsMessageStream
  DeliversAll
CHECK_DEADLOCK FALSE
