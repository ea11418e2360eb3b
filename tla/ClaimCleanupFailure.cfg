SPECIFICATION Spec
CONSTANTS
  identity = identity
  rail = rail
  pwm = pwm
  gps = gps
  missing = missing
  unit1 = unit1
  unit2 = unit2
  badUnit = badUnit
  good = good
  Tests <- SmallTests
  StationTests <- SmallStationTests
  IdentityTests <- MCIdentityTests
  TestInputs <- SmallTestInputs
  Evidence <- MCEvidence
  NoEvidence = NoEvidence
  StartEvidence = good
  UnitIds <- SmallUnitIds
  UnitInputs <- SmallUnitInputs
  NoUnit = NoUnit
  Timestamps <- MCTimestamps
  ParseErrors <- MCParseErrors
  Timeout = 2
  MaxFrame = 2
  MaxTime = 3
  HeapCanFail = FALSE
INVARIANTS
  CleanupFailureEndsSession
