---------------------------- MODULE UnitVerdict -----------------------------
(***************************************************************************)
(* What the factory test promises about one board: results are written     *)
(* once, only while a session is open; the board passes only out of an     *)
(* open session in which every test passed; closing a session, and losing  *)
(* power, never make a board pass.  Nothing is said here about commands,   *)
(* clocks, outputs or the line to the station.                             *)
(***************************************************************************)
CONSTANT Tests

VARIABLES
  phase,    \* no session yet, or what became of the last one
  verdicts  \* the result of every test

vars == <<phase, verdicts>>

Blank == [t \in Tests |-> "PENDING"]

Init == phase = "none" /\ verdicts = Blank

(* A session opens with a blank sheet, and never over an open one.         *)
Open == phase # "open" /\ phase' = "open" /\ verdicts' = Blank

(* Some tests still pending get their results.                             *)
Note ==
  /\ phase = "open" /\ phase' = phase
  /\ verdicts' \in [Tests -> {"PENDING", "PASS", "FAIL"}]
  /\ \A t \in Tests : verdicts[t] # "PENDING" => verdicts'[t] = verdicts[t]

Pass ==
  /\ phase = "open" /\ phase' = "passed"
  /\ \A t \in Tests : verdicts[t] = "PASS"
  /\ UNCHANGED verdicts

Close == phase' = "closed" /\ UNCHANGED verdicts

(* The chip restarts and remembers nothing.                                *)
Restart == phase' = "none" /\ verdicts' = Blank

Next == Open \/ Note \/ Pass \/ Close \/ Restart

Spec == Init /\ [][Next]_vars
=============================================================================
