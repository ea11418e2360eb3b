SPECIFICATION Spec
CONSTANTS
  rail = rail
  unit1 = unit1
  good = good
  Tests <- MCTests
  StationTests <- MCTests
  Evidence <- MCEvidence
  NoEvidence = NoEvidence
  UnitInputs <- MCUnitInputs
  UnitIds <- MCUnitInputs
  NoUnit = NoUnit
  Timestamps <- MCTimestamps
  Timeout = 1
  Unit = unit1
  StoredValue = good
  Nothing = Nothing
  MaxCalls = 4
  MaxInbox = 2
  MaxHeard = 1
  MaxFaults = 1
  MaxEvents = 4
INVARIANTS
  TypeOK
  NoFrameForged
  PassBacked
PROPERTIES
  UndisturbedHeard
  ImplementsRemoteCall
CHECK_DEADLOCK FALSE
