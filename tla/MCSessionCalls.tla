--------------------------- MODULE MCSessionCalls ---------------------------
(***************************************************************************)
(* One firmware-owned test and two of the station's, two units, a clock of *)
(* five values, one of them negative.  The two station tests and the two   *)
(* units are interchangeable.                                              *)
(***************************************************************************)
EXTENDS SessionCalls, TLC

CONSTANTS auto, st1, st2, missing, unit1, unit2, badUnit, good, unstorable

MCStationTests == {st1, st2}
MCTests == {auto} \cup MCStationTests
MCTestInputs == MCTests \cup {missing}
MCEvidence == {good}
MCEvidenceInputs == {good, unstorable}
MCUnitIds == {unit1, unit2}
MCUnitInputs == MCUnitIds \cup {badUnit}
MCTimestamps == -1 .. 3
MCSymmetry == Permutations(MCStationTests) \cup Permutations(MCUnitIds)
=============================================================================
