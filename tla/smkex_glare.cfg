SPECIFICATION FairSpec

CONSTANTS
  A = a
  B = b
  Registered <- Both
  Initiators <- Both
  NonceId <- NonceNames
  Preempt = TRUE
  MaxInit = 1
  MaxLoss = 0
  MaxDup = 1
  MaxRefusal = 1
  MaxRestart = 0

INVARIANTS
  KeyAgreement
  NoncesAgree
  PeerHasKey
  BacklogBounded
PROPERTIES
  HandshakeSettles

\* The peers rest when the handshake is over.
CHECK_DEADLOCK FALSE
