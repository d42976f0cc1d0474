SPECIFICATION Spec

CONSTANTS
  User = {u1, u2}
  NoUser = null
  App <- OneApp
  LastMsg = 3
  Uid <- SmkexUids
  Invitation <- NoInvitation
  Retries = 2
  IntMax = 5
  Bound <- Nothing

INVARIANTS
  SentUntilReceived

\* The engine rests when there is nothing left to send.
CHECK_DEADLOCK FALSE
