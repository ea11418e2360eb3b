SPECIFICATION Spec
CONSTANTS
  Byte <- Boundaries
  Objects <- MCObjects
  MaxInt32 = 7
  Int32Max = 7
  MaxFrame = 7
  PrefixLength = 2
INVARIANTS
  TypeOK
  TextAccepted
  TextRefused
  ParsedAsDescribed
  AnsweredAsAsked
CHECK_DEADLOCK FALSE
