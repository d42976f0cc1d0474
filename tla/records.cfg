SPECIFICATION Spec

CONSTANTS
  Base = 8
  Serial <- Serials
  TimeBytes <- Times
  Data <- KeysAndNonces
  Schema <- SipSchema
  At = 4
  Server <- ServerText
  Bracket <- Brackets
  None = none

INVARIANTS
  TypeOK
  RecordArrives
  PeerIsSender
