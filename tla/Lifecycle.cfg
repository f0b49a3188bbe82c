CONSTANTS
  self = self
  b1 = b1
  b2 = b2
  c1 = c1
  Self = self
  KeyId <- Ids
  Session <- Sessions
  KeyOf <- IdOf
  Time <- Times
  BootstrapPeer = {b1, b2}
  Client = {c1}
  Faults = {"config", "listen", "dial", "crash"}
SPECIFICATION FairSpec
INVARIANTS
  Inv
  CallsServed
  ReadsOwnRecords
  AnswersStand
PROPERTIES
  ImplementsKeyStore
  BootstrapReturns
  Stops
CHECK_DEADLOCK FALSE
