SPECIFICATION FairSpec

CONSTANTS
  User = {u1, u2}
  NoUser = null
  App <- OneApp
  LastMsg = 2
  Uid <- UniqueUids
  Invitation <- FirstIsInvitation
  Retries = 2
  IntMax = 5
  Bound <- Removing

PROPERTIES
  MessagesAreSettled

\* The engine rests when there is nothing left to send.
CHECK_DEADLOCK FALSE
