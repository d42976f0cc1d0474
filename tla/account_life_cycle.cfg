SPECIFICATION Spec

CONSTANTS
  App <- TwoApps
  Admin <- MainOnly
  Buddy = {b1, b2}
  NoBuddy = none
  MaxId = 2
  Bound <- LifeCycle

INVARIANTS
  TypeOK
  ListAgrees
  LogoutReported

\* Threads rest when their calls are over.
CHECK_DEADLOCK FALSE
