-------------------------- MODULE MCFactoryStation --------------------------
(***************************************************************************)
(* One unit with one test of the station's.                                *)
(***************************************************************************)
EXTENDS FactoryStation

CONSTANTS rail, unit1, good

MCTests == {rail}
MCUnitInputs == {unit1}
MCEvidence == {good}
MCTimestamps == {0}
=============================================================================
