SPECIFICATION Spec
CONSTANTS
  identity = identity
  rail = rail
  pwm = pwm
  gps = gps
  missing = missing
  unit1 = unit1
  unit2 = unit2
  badUnit = badUnit
  good = good
  Tests <- PhaseTests
  StationTests <- SmallStationTests
  IdentityTests <- MCIdentityTests
  TestInputs <- PhaseTests
  Evidence <- MCEvidence
  NoEvidence = NoEvidence
  StartEvidence = good
  UnitIds <- SmallUnitIds
  UnitInputs <- SmallUnitInputs
  NoUnit = NoUnit
  Timestamps <- MCTimestamps
  ParseErrors <- MCParseErrors
  Timeout = 2
  MaxFrame = 1
  MaxTime = 3
  HeapCanFail = TRUE
INVARIANTS
  UnimplementedPending
PROPERTIES
  DeadlineResolved
