SPECIFICATION Spec

CONSTANTS
  Call = {c1, c2}
  NoCall = none
  mpCall = mpCall
  screen = screen
  Callback = {mpCall, screen}
  AutoAnswer <- MpCallAnswers
  Bound <- Busy

INVARIANTS
  TypeOK
  TimerWhileSettingUp
  ToldOnlyRegistered
PROPERTIES
  ImplementsPhoneLine

\* The telephone rests when its bounds are spent.
CHECK_DEADLOCK FALSE
