SPECIFICATION Spec
CONSTANTS
  Tests <- MCTests
  TestOrder <- MCTestOrder
  StationTests <- MCStationTests
  IdentityTests <- MCIdentityTests
  TestInputs = {"device_identity", "pwm", "missing"}
  Evidence <- MCEvidence
  StartEvidence <- NoteOnly
  NoEvidence = NoEvidence
  UnitInputs = {"unit", "bad unit"}
  UnitIds = {"unit"}
  NoUnit = ""
  Timestamps <- MCTimestamps
  Timeout = 1
  ParseErrors <- MCParseErrors
  MaxFailures = 2
INVARIANTS
  TypeOK
  VerdictsAgree
  SessionToldAsIs
  NeverFabricated
  ListWhole
  CompleteWithMemory
  NothingLost
