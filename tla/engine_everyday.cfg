SPECIFICATION FairDeliverySpec

CONSTANTS
  User = {u1, u2}
  NoUser = null
  App <- OneApp
  LastMsg = 3
  Uid <- UniqueUids
  Invitation <- FirstIsInvitation
  Retries = 2
  IntMax = 5
  Bound <- Everyday

INVARIANTS
  NoDeadlock
  NoLostWakeup
  Running
  SentHasArrived
PROPERTIES
  EveryMessageSettled
  ImplementsOutbox
  ImplementsChannel

\* The engine rests when there is nothing left to send.
CHECK_DEADLOCK FALSE
