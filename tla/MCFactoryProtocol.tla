------------------------- MODULE MCFactoryProtocol --------------------------
(***************************************************************************)
(* Tables small enough to check: one test the firmware records itself, and *)
(* two of the station's or, as in the shipped table, one of the station's  *)
(* and one of the firmware's that nothing records.                         *)
(***************************************************************************)
EXTENDS FactoryProtocol

CONSTANTS identity, rail, pwm, gps, missing, unit1, unit2, badUnit, good

MCIdentityTests == {identity}
MCEvidence == {good}
MCTimestamps == 0 .. MaxTime
MCParseErrors == {"INVALID_REQUEST"}

(* Two units and three tests, all of which can pass.                       *)
FullTests == {identity, rail, pwm}
FullStationTests == {rail, pwm}
FullTestInputs == FullTests \cup {missing}
FullUnitIds == {unit1, unit2}
FullUnitInputs == {unit1, unit2, badUnit}

(* One unit and two tests.                                                 *)
SmallTests == {identity, rail}
SmallStationTests == {rail}
SmallTestInputs == SmallTests \cup {missing}
SmallUnitIds == {unit1}
SmallUnitInputs == {unit1, badUnit}

(* The shipped table: GPS and modem tests nothing records.                 *)
PhaseTests == {identity, rail, gps}
=============================================================================
