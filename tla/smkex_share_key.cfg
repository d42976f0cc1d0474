SPECIFICATION Spec

CONSTANTS
  A = a
  B = b
  Registered <- Both
  Initiators <- OnlyA
  NonceId <- NonceNames
  Preempt = FALSE
  MaxInit = 2
  MaxLoss = 0
  MaxDup = 0
  MaxRefusal = 0
  MaxRestart = 1

INVARIANTS
  ConnectedShareKey

\* The peers rest when the handshake is over.
CHECK_DEADLOCK FALSE
