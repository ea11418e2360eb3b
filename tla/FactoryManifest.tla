-------------------------- MODULE FactoryManifest ---------------------------
(***************************************************************************)
(* The test manifest (factory_manifest.c): a fixed table of tests, each    *)
(* owned by the firmware ("AUTOMATIC") or by the station ("STATION"), and  *)
(* one write-once result per test.                                         *)
(*                                                                         *)
(* The value, the unit and the detail text of a result are one piece of    *)
(* evidence: nothing in the firmware looks inside it.  Evidence holds the  *)
(* evidence an entry can store; anything else stands for a non-finite      *)
(* value or a text that does not fit its buffer.                           *)
(***************************************************************************)
EXTENDS FactoryTypes, FiniteSets, Naturals

CONSTANTS
  Tests,         \* ids of the table s_entries
  StationTests,  \* the ids whose owner is FACTORY_TEST_STATION
  Evidence,      \* storable (has_value, value, unit, detail)
  NoEvidence     \* evidence of an entry that was reset

ASSUME ManifestAssumption ==
  /\ IsFiniteSet(Tests)
  /\ StationTests \subseteq Tests
  /\ NoEvidence \notin Evidence

VARIABLE entries  \* s_entries: status and evidence of every test

Owners == {"AUTOMATIC", "STATION"}
Owner(t) == IF t \in StationTests THEN "STATION" ELSE "AUTOMATIC"

Statuses == {"PENDING", "PASS", "FAIL"}
Entry == [status : Statuses, evidence : Evidence \cup {NoEvidence}]

AllPending ==
  [t \in Tests |-> [status |-> "PENDING", evidence |-> NoEvidence]]

WithStatus(table, s) == {t \in Tests : table[t].status = s}

(* factory_manifest_summary: the three counters, over the whole table.     *)
Summary(table) ==
  [pending |-> Cardinality(WithStatus(table, "PENDING")),
   passed  |-> Cardinality(WithStatus(table, "PASS")),
   failed  |-> Cardinality(WithStatus(table, "FAIL"))]

Summaries == [pending : Nat, passed : Nat, failed : Nat]

(* Mutant: a second record of the same test overwrites the first.          *)
RecordCheck_Overwrite(t, actor, evidence) ==
  IF t \notin Tests THEN "NOT_FOUND"
  ELSE IF Owner(t) # actor THEN "UNAUTHORIZED"
  ELSE IF evidence \notin Evidence THEN "INVALID_ARGUMENT"
  ELSE "OK"

(* Mutant: the station may record the firmware's own tests.                *)
RecordCheck_AnyOwner(t, actor, evidence) ==
  IF t \notin Tests THEN "NOT_FOUND"
  ELSE IF entries[t].status # "PENDING" THEN "IMMUTABLE"
  ELSE IF evidence \notin Evidence THEN "INVALID_ARGUMENT"
  ELSE "OK"

(* The early returns of factory_manifest_record, in the code's order.      *)
RecordCheck(t, actor, evidence) ==
  IF t \notin Tests THEN "NOT_FOUND"
  ELSE IF Owner(t) # actor THEN "UNAUTHORIZED"
  ELSE IF entries[t].status # "PENDING" THEN "IMMUTABLE"
  ELSE IF evidence \notin Evidence THEN "INVALID_ARGUMENT"
  ELSE "OK"

(* factory_manifest_record(t, actor, passed, evidence) returning result.   *)
ManifestRecord(t, actor, passed, evidence, result) ==
  /\ result = RecordCheck(t, actor, evidence)
  /\ \/ /\ result = "OK"
        /\ entries' = [entries EXCEPT ![t] =
             [status   |-> IF passed THEN "PASS" ELSE "FAIL",
              evidence |-> evidence]]
     \/ result # "OK" /\ UNCHANGED entries

ManifestReset_Forgotten == UNCHANGED entries  \* mutant

(* factory_manifest_reset *)
ManifestReset == entries' = AllPending
=============================================================================
