SPECIFICATION Spec
CONSTANTS
  auto = auto
  st1 = st1
  st2 = st2
  missing = missing
  unit1 = unit1
  unit2 = unit2
  badUnit = badUnit
  good = good
  unstorable = unstorable
  Tests <- MCTests
  StationTests <- MCStationTests
  TestInputs <- MCTestInputs
  Evidence <- MCEvidence
  EvidenceInputs <- MCEvidenceInputs
  NoEvidence = NoEvidence
  UnitIds <- MCUnitIds
  UnitInputs <- MCUnitInputs
  NoUnit = NoUnit
  Timestamps <- MCTimestamps
  Timeout = 2
SYMMETRY MCSymmetry
INVARIANTS
  SessionTypeOK
  Traceable
  CompletedSound
PROPERTIES
  ResultImmutable
