SPECIFICATION Spec

CONSTANTS
  App <- TwoApps
  Admin <- MainOnly
  Buddy = {b1}
  NoBuddy = none
  MaxId = 2
  Bound <- OneLogout

INVARIANTS
  NoCircle

\* Threads rest when their calls are over.
CHECK_DEADLOCK FALSE
