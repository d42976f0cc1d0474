SPECIFICATION FairSpec

CONSTANTS
  A = a
  B = b
  Registered <- Both
  Initiators <- OnlyA
  NonceId <- NonceNames
  Preempt = TRUE
  MaxInit = 1
  MaxLoss = 0
  MaxDup = 0
  MaxRefusal = 0
  MaxRestart = 0

PROPERTIES
  KeyExchangeIsPerformed

\* The peers rest when the handshake is over.
CHECK_DEADLOCK FALSE
