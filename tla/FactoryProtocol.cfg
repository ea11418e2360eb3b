SPECIFICATION Spec
CONSTANTS
  identity = identity
  rail = rail
  pwm = pwm
  gps = gps
  missing = missing
  unit1 = unit1
  unit2 = unit2
  badUnit = badUnit
  good = good
  Tests <- FullTests
  StationTests <- FullStationTests
  IdentityTests <- MCIdentityTests
  TestInputs <- FullTestInputs
  Evidence <- MCEvidence
  NoEvidence = NoEvidence
  StartEvidence = good
  UnitIds <- FullUnitIds
  UnitInputs <- FullUnitInputs
  NoUnit = NoUnit
  Timestamps <- MCTimestamps
  ParseErrors <- MCParseErrors
  Timeout = 3
  MaxFrame = 2
  MaxTime = 4
  HeapCanFail = TRUE
INVARIANTS
  TypeOK
  SafeWhenSaid
  PassTold
  OverdueNeverServed
  LineExact
  InCommand
PROPERTIES
  ImplementsUnitVerdict
