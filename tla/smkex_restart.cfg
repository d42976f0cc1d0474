SPECIFICATION Spec

CONSTANTS
  A = a
  B = b
  Registered <- OnlyA
  Initiators <- Both
  NonceId <- NonceNames
  Preempt = FALSE
  MaxInit = 1
  MaxLoss = 1
  MaxDup = 1
  MaxRefusal = 1
  MaxRestart = 1

INVARIANTS
  TypeOK
  ConnectedHasGenuineKey
  BacklogBounded
PROPERTIES
  ImplementsSessionKeys

\* The peers rest when the handshake is over.
CHECK_DEADLOCK FALSE
