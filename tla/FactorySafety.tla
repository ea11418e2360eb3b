---------------------------- MODULE FactorySafety ---------------------------
(***************************************************************************)
(* Restoring the safe outputs (factory_safety.c over factory_safety_esp.c) *)
(* one ESP-IDF call at a time.  Every call may fail: it then changes no    *)
(* register, the rest of that pin's calls are skipped, and the loop goes   *)
(* on with the next pin.  Reading a level back fails too when the pad does *)
(* not follow its latch.                                                   *)
(***************************************************************************)
EXTENDS FactoryTypes, Naturals, Sequences

CONSTANTS
  Outputs,  \* the gpios of s_safe_outputs, in the order of the table
  Level,    \* the safe level of each of them
  PswEn     \* FACTORY_GPIO_PSW_EN, which has no safe level

OutputPins == {Outputs[n] : n \in 1 .. Len(Outputs)}
Pins == OutputPins \cup {PswEn}

ASSUME SafetyAssumption ==
  /\ Outputs \in Seq(OutputPins) /\ Len(Outputs) > 0
  /\ \A m, n \in 1 .. Len(Outputs) : Outputs[m] = Outputs[n] => m = n
  /\ Level \in [OutputPins -> {0, 1}]
  /\ PswEn \notin OutputPins

VARIABLES
  pad,          \* the registers of every pin
  backend,      \* s_backend # NULL
  verified,     \* s_verified
  pc,           \* the loop of factory_safety_apply
  next,         \* its index, from 1
  call,         \* the next ESP-IDF call for the current pin
  first_error,
  failed        \* history: pins with a failed call in the last apply

vars == <<pad, backend, verified, pc, next, call, first_error, failed>>

Pads == [latch : {0, 1}, direction : {"input", "output"},
         pull : {"floating", "up", "down"}, intr : BOOLEAN]

(* The calls of configure_output and of release_high_impedance, in order.  *)
ConfigureCalls_DriveFirst ==                                     \* mutant
  <<"set_direction_output", "set_level", "set_pull_mode_floating",
    "intr_disable", "get_level">>
ConfigureCalls_ResetPin ==                                       \* mutant
  <<"reset_pin", "set_level", "set_pull_mode_floating",
    "intr_disable", "set_direction_output", "get_level">>

ConfigureCalls ==
  <<"set_level", "set_pull_mode_floating", "intr_disable",
    "set_direction_output", "get_level">>

ReleaseCalls ==
  <<"reset_pin", "set_direction_input", "set_pull_mode_floating",
    "intr_disable">>

(* The registers of pin p after an ESP-IDF call that succeeds.  Resetting  *)
(* a pin disables its driver and enables its pull-up.                      *)
Effect(c, p) ==
  CASE c = "set_level" -> [pad[p] EXCEPT !.latch = Level[p]]
    [] c = "set_pull_mode_floating" -> [pad[p] EXCEPT !.pull = "floating"]
    [] c = "intr_disable" -> [pad[p] EXCEPT !.intr = FALSE]
    [] c = "set_direction_output" -> [pad[p] EXCEPT !.direction = "output"]
    [] c = "set_direction_input" -> [pad[p] EXCEPT !.direction = "input"]
    [] c = "reset_pin" -> [pad[p] EXCEPT !.direction = "input",
                                         !.pull = "up", !.intr = FALSE]
    [] c = "get_level" -> pad[p]

CurrentPin == IF pc = "outputs" THEN Outputs[next] ELSE PswEn
CurrentCalls == IF pc = "outputs" THEN ConfigureCalls ELSE ReleaseCalls

(* The current pin's backend function has returned: the next pin, PSW_EN   *)
(* after the last output, and the end of the loop after PSW_EN.            *)
NextPin_PastTable ==                                             \* mutant
  /\ call' = 1
  /\ \/ pc = "outputs" /\ next <= Len(Outputs) /\ next' = next + 1 /\ pc' = pc
     \/ pc = "outputs" /\ next > Len(Outputs) /\ next' = next
        /\ pc' = "release"
     \/ pc = "release" /\ next' = next /\ pc' = "return"

NextPin ==
  /\ call' = 1
  /\ \/ pc = "outputs" /\ next < Len(Outputs) /\ next' = next + 1 /\ pc' = pc
     \/ pc = "outputs" /\ next = Len(Outputs) /\ next' = next
        /\ pc' = "release"
     \/ pc = "release" /\ next' = next /\ pc' = "return"

(* Mutant: the loop stops at the first failure.                            *)
AfterFailure_Stop == call' = 1 /\ next' = next /\ pc' = "return"

(* After a failed call the loop continues as after a successful pin.       *)
AfterFailure == NextPin
-----------------------------------------------------------------------------
(* After a reset of the chip no pin is driven.                             *)
Init ==
  /\ pad \in [Pins -> [latch : {0}, direction : {"input"},
                       pull : {"floating", "up"}, intr : {FALSE}]]
  /\ backend = FALSE /\ verified = FALSE
  /\ pc = "idle" /\ next = 1 /\ call = 1
  /\ first_error = "OK" /\ failed = {}

(* The first lines of factory_safety_apply.                                *)
BeginApply_KeepVerified ==                                       \* mutant
  /\ pc' = "outputs" /\ next' = 1 /\ call' = 1
  /\ first_error' = "OK" /\ failed' = {}
  /\ verified' = verified

BeginApply ==
  /\ pc' = "outputs" /\ next' = 1 /\ call' = 1
  /\ first_error' = "OK" /\ failed' = {}
  /\ verified' = FALSE

(* factory_safety_init; without both functions it changes nothing.         *)
SafetyInit ==
  /\ pc = "idle" /\ ~backend
  /\ backend' = TRUE
  /\ BeginApply
  /\ UNCHANGED pad

(* factory_safety_apply, called at any time once there is a backend.       *)
Apply ==
  /\ pc = "idle" /\ backend
  /\ BeginApply
  /\ UNCHANGED <<pad, backend>>

CallSucceeds ==
  /\ pc \in {"outputs", "release"}
  /\ pad' = [pad EXCEPT ![CurrentPin] = Effect(CurrentCalls[call], CurrentPin)]
  /\ \/ call < Len(CurrentCalls) /\ call' = call + 1 /\ UNCHANGED <<pc, next>>
     \/ call = Len(CurrentCalls) /\ NextPin
  /\ UNCHANGED <<backend, verified, first_error, failed>>

CallFails ==
  /\ pc \in {"outputs", "release"}
  /\ first_error' = IF first_error = "OK" THEN "HARDWARE" ELSE first_error
  /\ failed' = failed \cup {CurrentPin}
  /\ AfterFailure
  /\ UNCHANGED <<pad, backend, verified>>

Return ==
  /\ pc = "return"
  /\ pc' = "idle"
  /\ verified' = (first_error = "OK")
  /\ UNCHANGED <<pad, backend, next, call, first_error, failed>>

Next == SafetyInit \/ Apply \/ CallSucceeds \/ CallFails \/ Return

Spec == Init /\ [][Next]_vars
-----------------------------------------------------------------------------
TypeOK ==
  /\ pad \in [Pins -> Pads]
  /\ backend \in BOOLEAN /\ verified \in BOOLEAN
  /\ pc \in {"idle", "outputs", "release", "return"}
  /\ next \in 1 .. Len(Outputs)
  /\ call \in 1 .. Len(CurrentCalls)
  /\ first_error \in {"OK", "HARDWARE"}
  /\ failed \subseteq Pins

Configured(p) ==
  IF p = PswEn
  THEN pad[p].direction = "input" /\ pad[p].pull = "floating" /\ ~pad[p].intr
  ELSE /\ pad[p].direction = "output" /\ pad[p].latch = Level[p]
       /\ pad[p].pull = "floating" /\ ~pad[p].intr

(* An enabled output driver never carries anything but the safe level, not *)
(* even between two calls or after a failure, and PSW_EN is never driven   *)
(* (configure_output preloads the latch; factory_board.h on PSW_EN).       *)
DrivenSafe ==
  /\ \A p \in OutputPins :
       pad[p].direction = "output" => pad[p].latch = Level[p]
  /\ pad[PswEn].direction = "input"

(* While s_verified is set, every output is driven at its safe level and   *)
(* PSW_EN floats: the flag is never left over from an earlier apply        *)
(* (factory_safety_apply).                                                 *)
VerifiedExact == verified => \A p \in Pins : Configured(p)

(* One failing pin never costs another: when an apply returns, every pin   *)
(* whose own calls succeeded is configured, and the result is OK exactly   *)
(* when none failed (the loop of factory_safety_apply).                    *)
KeepsGoing ==
  pc = "return" =>
    /\ \A p \in Pins \ failed : Configured(p)
    /\ first_error = "OK" <=> failed = {}

(* An output once driven stays driven at its safe level through every      *)
(* later apply, whatever fails: cleaning up again never disturbs the board *)
(* (factory_safety_apply is repeated after every error).                   *)
StaysDriven ==
  [][\A p \in OutputPins :
       pad[p].direction = "output" =>
         pad'[p].direction = "output" /\ pad'[p].latch = Level[p]]_vars
=============================================================================
