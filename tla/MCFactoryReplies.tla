-------------------------- MODULE MCFactoryReplies --------------------------
(***************************************************************************)
(* Two tests, one the firmware's and one the station's, and evidence with  *)
(* and without each of its parts.                                          *)
(***************************************************************************)
EXTENDS FactoryReplies

MCTests == {"device_identity", "pwm"}
MCTestOrder == <<"device_identity", "pwm">>
MCStationTests == {"pwm"}
MCIdentityTests == {"device_identity"}

None == ""
NoteOnly == [value |-> None, unit |-> None, detail |-> "note"]
Measured == [value |-> "3.3", unit |-> "V", detail |-> None]
UnitOnly == [value |-> None, unit |-> "V", detail |-> None]
MCEvidence == {NoteOnly, Measured, UnitOnly}

MCTimestamps == {0}
MCParseErrors == {"INVALID_JSON", "UNKNOWN_COMMAND"}
=============================================================================
