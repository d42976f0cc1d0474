SPECIFICATION Spec

CONSTANTS
  User = {u1, u2}
  NoUser = null
  App = {app1, app2}
  LastMsg = 2
  Uid <- UniqueUids
  Invitation <- FirstIsInvitation
  Retries = 2
  IntMax = 5
  Bound <- Disturbed

SYMMETRY Anyone

INVARIANTS
  TypeOK
  OneInFlight
  NoMessageLost
  PoolsPrioritised
PROPERTIES
  ImplementsOutbox

\* The engine rests when there is nothing left to send.
CHECK_DEADLOCK FALSE
