CONSTANTS
  p1 = p1
  p2 = p2
  p3 = p3
  s1 = s1
  Party = {p1, p2, p3}
  Moniker <- Monikers
  Fold <- Lowered
  GenCoord = p1
  SignCoord = p2
  S = s1
  Key = "k1"
  Threshold = 1
  Rounds = 2
  MpcSets <- Sets
  Message <- Messages
  Proposals <- Proposed
SPECIFICATION FairSpec
INVARIANTS
  GeneratedByMembers
  SignsAgreedMessage
  NoSendOnClosed
  ChainInv
  SigningQuiet
PROPERTIES
  KeyGenCompletes
  SignCompletes
CHECK_DEADLOCK FALSE
