SPECIFICATION Spec
CONSTANTS
  Decode <- DecodeBatch
  EncodeBatch <- EncodeBatchAmf0
  Reform <- MetaDataReform
  MetaData <- OnMetaData
  Extras <- AllArgs
  StringMax = 25
  MaxCommands = 4
  MaxMedia = 2
  MaxOthers = 2
  Room = 2
CHECK_DEADLOCK FALSE
INVARIANTS
  TypeOK
  CommandsHeard
  AnswersMatch
  AuthorisedIsUsed
  ClosedForCause
  RelayedWhole
PROPERTIES
  Answered
  HandshakeBounded
