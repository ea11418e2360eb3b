SPECIFICATION Spec
CONSTANTS
  Outputs <- MCOutputs
  Level <- MCLevel
  PswEn <- MCPswEn
INVARIANTS
  TypeOK
  DrivenSafe
  VerifiedExact
  KeepsGoing
PROPERTIES
  StaysDriven
