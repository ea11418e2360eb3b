------------------------ MODULE FactorySafety_proofs ------------------------
(***************************************************************************)
(* The safe outputs for any table of outputs and levels, any order of      *)
(* failures and any number of applies.  The invariant records how far the  *)
(* loop has come: which pins lie behind it, and which registers of the     *)
(* current pin its calls have already set.                                 *)
(***************************************************************************)
EXTENDS FactorySafety, TLAPS

(* The result is OK exactly while no call failed, and a verified flag is   *)
(* only found between two applies.                                         *)
ErrorKept ==
  /\ first_error = "OK" <=> failed = {}
  /\ verified => pc = "idle"

(* The registers of the current output that its earlier calls have set.    *)
OutputProgress ==
  pc = "outputs" =>
    /\ call > 1 => pad[Outputs[next]].latch = Level[Outputs[next]]
    /\ call > 2 => pad[Outputs[next]].pull = "floating"
    /\ call > 3 => ~pad[Outputs[next]].intr
    /\ call > 4 => pad[Outputs[next]].direction = "output"

(* And those of PSW_EN; the driver of PSW_EN is off throughout.            *)
ReleaseProgress ==
  pc = "release" /\ call > 3 => pad[PswEn].pull = "floating"

(* A pin the loop has passed is configured, unless one of its calls failed *)
(* in this apply.                                                          *)
Passed(p) ==
  \/ pc = "return"
  \/ pc = "release" /\ p # PswEn
  \/ pc = "outputs" /\ \E n \in 1 .. (next - 1) : p = Outputs[n]

PassedConfigured ==
  \A p \in Pins : Passed(p) /\ p \notin failed => Configured(p)

IInv == /\ TypeOK /\ DrivenSafe /\ VerifiedExact
        /\ ErrorKept /\ OutputProgress /\ ReleaseProgress /\ PassedConfigured
-----------------------------------------------------------------------------
(* Every index of the table is a pin of it, at one place only, and has a   *)
(* level.                                                                  *)
LEMMA Table ==
  /\ Len(Outputs) \in Nat \ {0}
  /\ \A n \in 1 .. Len(Outputs) :
       /\ Outputs[n] \in OutputPins /\ Outputs[n] \in Pins
       /\ Outputs[n] # PswEn
       /\ Level[Outputs[n]] \in {0, 1}
  /\ \A m, n \in 1 .. Len(Outputs) : Outputs[m] = Outputs[n] => m = n
  /\ PswEn \in Pins
  /\ \A p \in OutputPins : \E n \in 1 .. Len(Outputs) : p = Outputs[n]
BY SafetyAssumption DEF OutputPins, Pins

(* What the calls of configure_output do, one after the other.             *)
LEMMA OutputEffect ==
  ASSUME pc = "outputs", call \in 1 .. Len(CurrentCalls)
  PROVE  LET p == Outputs[next]
             e == Effect(CurrentCalls[call], CurrentPin) IN
         /\ CurrentPin = p /\ Len(CurrentCalls) = 5 /\ call \in 1 .. 5
         /\ call = 1 => e = [pad[p] EXCEPT !.latch = Level[p]]
         /\ call = 2 => e = [pad[p] EXCEPT !.pull = "floating"]
         /\ call = 3 => e = [pad[p] EXCEPT !.intr = FALSE]
         /\ call = 4 => e = [pad[p] EXCEPT !.direction = "output"]
         /\ call = 5 => e = pad[p]
<1>1. /\ CurrentCalls = ConfigureCalls /\ CurrentPin = Outputs[next]
      /\ Len(CurrentCalls) = 5
  BY DEF CurrentCalls, CurrentPin, ConfigureCalls
<1>2. /\ ConfigureCalls[1] = "set_level"
      /\ ConfigureCalls[2] = "set_pull_mode_floating"
      /\ ConfigureCalls[3] = "intr_disable"
      /\ ConfigureCalls[4] = "set_direction_output"
      /\ ConfigureCalls[5] = "get_level"
  BY DEF ConfigureCalls
<1> QED
  BY <1>1, <1>2 DEF Effect

(* What the calls of release_high_impedance do.                            *)
LEMMA ReleaseEffect ==
  ASSUME pc = "release", call \in 1 .. Len(CurrentCalls)
  PROVE  LET e == Effect(CurrentCalls[call], CurrentPin) IN
         /\ CurrentPin = PswEn /\ Len(CurrentCalls) = 4 /\ call \in 1 .. 4
         /\ call = 1 => e = [pad[PswEn] EXCEPT !.direction = "input",
                                        !.pull = "up", !.intr = FALSE]
         /\ call = 2 => e = [pad[PswEn] EXCEPT !.direction = "input"]
         /\ call = 3 => e = [pad[PswEn] EXCEPT !.pull = "floating"]
         /\ call = 4 => e = [pad[PswEn] EXCEPT !.intr = FALSE]
<1>1. /\ CurrentCalls = ReleaseCalls /\ CurrentPin = PswEn
      /\ Len(CurrentCalls) = 4
  BY DEF CurrentCalls, CurrentPin, ReleaseCalls
<1>2. /\ ReleaseCalls[1] = "reset_pin"
      /\ ReleaseCalls[2] = "set_direction_input"
      /\ ReleaseCalls[3] = "set_pull_mode_floating"
      /\ ReleaseCalls[4] = "intr_disable"
  BY DEF ReleaseCalls
<1> QED
  BY <1>1, <1>2 DEF Effect

(* The registers of the current output after a call of configure_output,   *)
(* given those before it, r; all other pins keep theirs.                   *)
LEMMA OutputStep ==
  ASSUME TypeOK, pc = "outputs", CallSucceeds,
         NEW r, r = pad[Outputs[next]], NEW s, s = pad'[Outputs[next]]
  PROVE  /\ call \in 1 .. 5 /\ Len(CurrentCalls) = 5
         /\ pad' \in [Pins -> Pads]
         /\ \A q \in Pins : q # Outputs[next] => pad'[q] = pad[q]
         /\ s.latch = IF call = 1 THEN Level[Outputs[next]] ELSE r.latch
         /\ s.pull = IF call = 2 THEN "floating" ELSE r.pull
         /\ call = 3 => ~s.intr
         /\ call # 3 => s.intr = r.intr
         /\ s.direction = IF call = 4 THEN "output" ELSE r.direction
<1> DEFINE p == Outputs[next]
           e == Effect(CurrentCalls[call], CurrentPin)
<1>1. p \in Pins /\ Level[p] \in {0, 1} /\ r \in Pads
  BY Table DEF TypeOK
<1>2. call \in 1 .. 5 /\ Len(CurrentCalls) = 5 /\ CurrentPin = p
  BY OutputEffect DEF TypeOK
<1>3. pad' = [pad EXCEPT ![p] = e] /\ s = e
  BY <1>1, <1>2 DEF CallSucceeds, TypeOK
<1>4. CASE call = 1
  <2>1. s = [r EXCEPT !.latch = Level[p]]
    BY <1>3, <1>4, OutputEffect DEF TypeOK
  <2>2. s \in Pads
    BY <1>1, <2>1 DEF Pads
  <2>3. s.latch = Level[p] /\ s.pull = r.pull /\ s.intr = r.intr
        /\ s.direction = r.direction
    BY <1>1, <2>1, Zenon DEF Pads
  <2> QED
    BY <1>1, <1>2, <1>3, <1>4, <2>2, <2>3 DEF TypeOK
<1>5. CASE call = 2
  <2>1. s = [r EXCEPT !.pull = "floating"]
    BY <1>3, <1>5, OutputEffect DEF TypeOK
  <2>2. s \in Pads
    BY <1>1, <2>1 DEF Pads
  <2>3. s.latch = r.latch /\ s.pull = "floating" /\ s.intr = r.intr
        /\ s.direction = r.direction
    BY <1>1, <2>1, Zenon DEF Pads
  <2> QED
    BY <1>1, <1>2, <1>3, <1>5, <2>2, <2>3 DEF TypeOK
<1>6. CASE call = 3
  <2>1. s = [r EXCEPT !.intr = FALSE]
    BY <1>3, <1>6, OutputEffect DEF TypeOK
  <2>2. s \in Pads
    BY <1>1, <2>1, Zenon DEF Pads
  <2>3. s.latch = r.latch /\ s.pull = r.pull /\ ~s.intr
        /\ s.direction = r.direction
    BY <1>1, <2>1, Zenon DEF Pads
  <2> QED
    BY <1>1, <1>2, <1>3, <1>6, <2>2, <2>3 DEF TypeOK
<1>7. CASE call = 4
  <2>1. s = [r EXCEPT !.direction = "output"]
    BY <1>3, <1>7, OutputEffect DEF TypeOK
  <2>2. s \in Pads
    BY <1>1, <2>1 DEF Pads
  <2>3. s.latch = r.latch /\ s.pull = r.pull /\ s.intr = r.intr
        /\ s.direction = "output"
    BY <1>1, <2>1, Zenon DEF Pads
  <2> QED
    BY <1>1, <1>2, <1>3, <1>7, <2>2, <2>3 DEF TypeOK
<1>8. CASE call = 5
  <2>1. s = r
    BY <1>3, <1>8, OutputEffect DEF TypeOK
  <2> QED
    BY <1>1, <1>2, <1>3, <1>8, <2>1 DEF TypeOK
<1> QED
  BY <1>2, <1>4, <1>5, <1>6, <1>7, <1>8

(* The registers of PSW_EN after a call of release_high_impedance.         *)
LEMMA ReleaseStep ==
  ASSUME TypeOK, pc = "release", CallSucceeds,
         NEW r, r = pad[PswEn], NEW s, s = pad'[PswEn]
  PROVE  /\ call \in 1 .. 4 /\ Len(CurrentCalls) = 4
         /\ pad' \in [Pins -> Pads]
         /\ \A q \in Pins : q # PswEn => pad'[q] = pad[q]
         /\ s.latch = r.latch
         /\ call \in {1, 2} => s.direction = "input"
         /\ call \in {3, 4} => s.direction = r.direction
         /\ call = 3 => s.pull = "floating"
         /\ call \in {2, 4} => s.pull = r.pull
         /\ call = 4 => ~s.intr
<1> DEFINE e == Effect(CurrentCalls[call], CurrentPin)
<1>1. PswEn \in Pins /\ r \in Pads
  BY Table DEF TypeOK
<1>2. call \in 1 .. 4 /\ Len(CurrentCalls) = 4 /\ CurrentPin = PswEn
  BY ReleaseEffect DEF TypeOK
<1>3. pad' = [pad EXCEPT ![PswEn] = e] /\ s = e
  BY <1>1, <1>2 DEF CallSucceeds, TypeOK
<1>4. CASE call = 1
  <2>1. s = [r EXCEPT !.direction = "input", !.pull = "up", !.intr = FALSE]
    BY <1>3, <1>4, ReleaseEffect, Zenon DEF TypeOK
  <2>2. s \in Pads
    BY <1>1, <2>1, Zenon DEF Pads
  <2>3. s.latch = r.latch /\ s.direction = "input"
    BY <1>1, <2>1, Zenon DEF Pads
  <2> QED
    BY <1>1, <1>2, <1>3, <1>4, <2>2, <2>3 DEF TypeOK
<1>5. CASE call = 2
  <2>1. s = [r EXCEPT !.direction = "input"]
    BY <1>3, <1>5, ReleaseEffect DEF TypeOK
  <2>2. s \in Pads
    BY <1>1, <2>1 DEF Pads
  <2>3. s.latch = r.latch /\ s.direction = "input" /\ s.pull = r.pull
    BY <1>1, <2>1, Zenon DEF Pads
  <2> QED
    BY <1>1, <1>2, <1>3, <1>5, <2>2, <2>3 DEF TypeOK
<1>6. CASE call = 3
  <2>1. s = [r EXCEPT !.pull = "floating"]
    BY <1>3, <1>6, ReleaseEffect DEF TypeOK
  <2>2. s \in Pads
    BY <1>1, <2>1 DEF Pads
  <2>3. s.latch = r.latch /\ s.direction = r.direction /\ s.pull = "floating"
    BY <1>1, <2>1, Zenon DEF Pads
  <2> QED
    BY <1>1, <1>2, <1>3, <1>6, <2>2, <2>3 DEF TypeOK
<1>7. CASE call = 4
  <2>1. s = [r EXCEPT !.intr = FALSE]
    BY <1>3, <1>7, ReleaseEffect DEF TypeOK
  <2>2. s \in Pads
    BY <1>1, <2>1, Zenon DEF Pads
  <2>3. /\ s.latch = r.latch /\ s.direction = r.direction /\ s.pull = r.pull
        /\ ~s.intr
    BY <1>1, <2>1, Zenon DEF Pads
  <2> QED
    BY <1>1, <1>2, <1>3, <1>7, <2>2, <2>3 DEF TypeOK
<1> QED
  BY <1>2, <1>4, <1>5, <1>6, <1>7
-----------------------------------------------------------------------------
LEMMA TypeStep == TypeOK /\ [Next]_vars => TypeOK'
<1> SUFFICES ASSUME TypeOK, [Next]_vars PROVE TypeOK'
  OBVIOUS
<1> USE Table
<1> DEFINE Loop == /\ pc \in {"idle", "outputs", "release", "return"}
                   /\ next \in 1 .. Len(Outputs)
                   /\ call \in 1 .. Len(CurrentCalls)
<1>1. ASSUME call' = 1 PROVE call' \in 1 .. Len(CurrentCalls')
  BY <1>1 DEF CurrentCalls, ConfigureCalls, ReleaseCalls
<1>2. ASSUME NextPin, pc \in {"outputs", "release"} PROVE Loop'
  BY <1>1, <1>2 DEF NextPin, TypeOK
<1>3. CASE SafetyInit \/ Apply
  <2>1. BeginApply /\ UNCHANGED pad /\ backend' = TRUE
    BY <1>3, Zenon DEF SafetyInit, Apply, TypeOK
  <2>2. Loop'
    BY <1>1, <2>1 DEF BeginApply
  <2>3. backend' \in BOOLEAN /\ verified' \in BOOLEAN /\ failed' \subseteq Pins
    BY <2>1, Zenon DEF BeginApply
  <2> QED
    BY <2>1, <2>2, <2>3 DEF BeginApply, TypeOK
<1>4. CASE CallSucceeds
  <2>1. pad' \in [Pins -> Pads] /\ pc \in {"outputs", "release"}
    BY <1>4, OutputStep, ReleaseStep DEF CallSucceeds
  <2>2. CASE call < Len(CurrentCalls) /\ call' = call + 1
             /\ UNCHANGED <<pc, next>>
    <3>1. CurrentCalls' = CurrentCalls /\ Len(CurrentCalls) \in Nat
      BY <2>2 DEF CurrentCalls, ConfigureCalls, ReleaseCalls
    <3> QED
      BY <1>4, <2>1, <2>2, <3>1 DEF CallSucceeds, TypeOK
  <2>3. CASE NextPin
    BY <1>4, <1>2, <2>1, <2>3 DEF CallSucceeds, TypeOK
  <2> QED
    BY <1>4, <2>2, <2>3 DEF CallSucceeds
<1>5. CASE CallFails
  <2>1. CurrentPin \in Pins
    BY <1>5 DEF CallFails, CurrentPin, TypeOK
  <2> QED
    BY <1>5, <1>2, <2>1 DEF CallFails, AfterFailure, TypeOK
<1>6. CASE Return
  BY <1>6, <1>1 DEF Return, TypeOK, CurrentCalls
<1>7. CASE UNCHANGED vars
  BY <1>7 DEF vars, TypeOK, CurrentCalls
<1> QED
  BY <1>3, <1>4, <1>5, <1>6, <1>7 DEF Next

LEMMA InitIInv == Init => IInv
<1> SUFFICES ASSUME Init PROVE IInv
  OBVIOUS
<1>1. TypeOK
  <2>1. pad \in [Pins -> Pads]
    BY DEF Init, Pads
  <2>2. next \in 1 .. Len(Outputs) /\ call \in 1 .. Len(CurrentCalls)
    BY Table DEF Init, CurrentCalls, ReleaseCalls
  <2> QED
    BY <2>1, <2>2 DEF Init, TypeOK
<1>2. \A p \in Pins : pad[p].direction = "input"
  BY DEF Init
<1>3. DrivenSafe
  BY <1>2 DEF DrivenSafe, Pins
<1> QED
  BY <1>1, <1>3 DEF Init, IInv, VerifiedExact, ErrorKept, OutputProgress,
                    ReleaseProgress, PassedConfigured, Passed

(* Going on with the next pin leaves behind the current one, and no other. *)
LEMMA NextPinPassed ==
  ASSUME TypeOK, NextPin, pc \in {"outputs", "release"}
  PROVE  /\ call' = 1 /\ pc' \in {"outputs", "release", "return"}
         /\ \A q \in Pins : Passed(q)' => Passed(q) \/ q = CurrentPin
<1>1. call' = 1 /\ pc' \in {"outputs", "release", "return"}
  BY DEF NextPin
<1> SUFFICES ASSUME NEW q \in Pins, Passed(q)'
             PROVE  Passed(q) \/ q = CurrentPin
  BY <1>1
<1>2. CASE pc' = "outputs"
  <2>1. pc = "outputs" /\ next' = next + 1
    BY <1>2 DEF NextPin
  <2>2. PICK n \in 1 .. next : q = Outputs[n]
    BY <1>2, <2>1 DEF Passed, TypeOK
  <2> QED
    BY <2>1, <2>2 DEF Passed, CurrentPin, TypeOK
<1>3. CASE pc' = "release"
  <2>1. pc = "outputs" /\ next = Len(Outputs) /\ q # PswEn
    BY <1>3 DEF NextPin, Passed
  <2>2. PICK n \in 1 .. next : q = Outputs[n]
    BY <2>1, Table DEF Pins
  <2> QED
    BY <2>1, <2>2, Table DEF Passed, CurrentPin
<1>4. CASE pc' = "return"
  BY <1>4 DEF NextPin, Passed, CurrentPin
<1> QED
  BY <1>1, <1>2, <1>3, <1>4

(* Configured speaks of one pin's registers only.                          *)
LEMMA SameRegisters ==
  \A q : pad'[q] = pad[q] => (Configured(q)' <=> Configured(q))
BY DEF Configured
-----------------------------------------------------------------------------
LEMMA BeginInv ==
  ASSUME IInv, SafetyInit \/ Apply
  PROVE  IInv'
<1>1. /\ UNCHANGED pad /\ pc' = "outputs" /\ next' = 1 /\ call' = 1
      /\ first_error' = "OK" /\ failed' = {} /\ ~verified'
  BY Zenon DEF SafetyInit, Apply, BeginApply
<1>2. TypeOK'
  BY TypeStep DEF IInv, Next
<1>3. DrivenSafe'
  BY <1>1 DEF IInv, DrivenSafe
<1>4. OutputProgress' /\ ReleaseProgress' /\ ErrorKept' /\ VerifiedExact'
  BY <1>1 DEF OutputProgress, ReleaseProgress, ErrorKept, VerifiedExact
<1>5. PassedConfigured'
  BY <1>1 DEF PassedConfigured, Passed
<1> QED
  BY <1>2, <1>3, <1>4, <1>5 DEF IInv

LEMMA OutputInv ==
  ASSUME IInv, CallSucceeds, pc = "outputs"
  PROVE  /\ IInv'
         /\ \A q \in OutputPins : pad[q].direction = "output" =>
              pad'[q].direction = "output" /\ pad'[q].latch = Level[q]
<1> PICK p : p = Outputs[next]
  OBVIOUS
<1> DEFINE r == pad[p]
           s == pad'[p]
<1> USE DEF IInv
<1>1. /\ call \in 1 .. 5 /\ Len(CurrentCalls) = 5
      /\ \A q \in Pins : q # p => pad'[q] = pad[q]
      /\ s.latch = IF call = 1 THEN Level[p] ELSE r.latch
      /\ s.pull = IF call = 2 THEN "floating" ELSE r.pull
      /\ call = 3 => ~s.intr
      /\ call # 3 => s.intr = r.intr
      /\ s.direction = IF call = 4 THEN "output" ELSE r.direction
  BY OutputStep
<1>2. p \in OutputPins /\ p \in Pins /\ p # PswEn /\ CurrentPin = p
  BY Table DEF TypeOK, CurrentPin
<1>3. /\ call > 1 => r.latch = Level[p]
      /\ call > 2 => r.pull = "floating"
      /\ call > 3 => ~r.intr
      /\ call > 4 => r.direction = "output"
  BY DEF OutputProgress
<1>4. TypeOK'
  BY TypeStep DEF Next
<1>5. /\ s.direction = "output" => s.latch = Level[p]
      /\ r.direction = "output" => s.direction = "output"
  BY <1>1, <1>2, <1>3 DEF DrivenSafe
<1>6. DrivenSafe'
  BY <1>1, <1>2, <1>5, Table DEF DrivenSafe, Pins
<1>7. ~verified /\ ~verified' /\ UNCHANGED <<first_error, failed>>
  BY Zenon DEF CallSucceeds, ErrorKept
<1>8. VerifiedExact' /\ ErrorKept'
  BY <1>7 DEF VerifiedExact, ErrorKept
<1>9. \A q \in OutputPins : pad[q].direction = "output" =>
         pad'[q].direction = "output" /\ pad'[q].latch = Level[q]
  BY <1>1, <1>5, <1>6 DEF DrivenSafe, Pins
<1>10. CASE call < 5 /\ call' = call + 1 /\ UNCHANGED <<pc, next>>
  <2>1. /\ call' > 1 => s.latch = Level[p]
        /\ call' > 2 => s.pull = "floating"
        /\ call' > 4 => s.direction = "output"
    BY <1>1, <1>3, <1>10
  <2>2. call' > 3 => ~s.intr
    BY <1>1, <1>3, <1>10
  <2>3. OutputProgress' /\ ReleaseProgress'
    BY <1>10, <2>1, <2>2 DEF OutputProgress, ReleaseProgress
  <2>4. \A q \in Pins : Passed(q)' => Passed(q) /\ q # p
    BY SMTT(30), <1>10, Table DEF Passed, TypeOK
  <2>5. PassedConfigured'
    BY <1>1, <1>7, <2>4, SameRegisters DEF PassedConfigured
  <2> QED
    BY <1>4, <1>6, <1>8, <1>9, <2>3, <2>5
<1>11. CASE call = 5 /\ NextPin
  <2>1. Configured(p)'
    <3>1. ~s.intr
      BY <1>1, <1>3, <1>11
    <3>2. /\ s.direction = "output" /\ s.latch = Level[p]
          /\ s.pull = "floating"
      BY <1>1, <1>3, <1>11
    <3> QED
      BY <1>2, <3>1, <3>2, Zenon DEF Configured
  <2>2. PassedConfigured'
    <3> SUFFICES ASSUME NEW q \in Pins, Passed(q)', q \notin failed', q # p
                 PROVE  Configured(q)'
      BY <2>1 DEF PassedConfigured
    <3>1. Passed(q)
      BY <1>2, <1>11, NextPinPassed
    <3> QED
      BY <1>1, <1>7, <3>1, SameRegisters DEF PassedConfigured
  <2>3. OutputProgress' /\ ReleaseProgress'
    BY <1>11, NextPinPassed DEF OutputProgress, ReleaseProgress
  <2> QED
    BY <1>4, <1>6, <1>8, <1>9, <2>2, <2>3
<1> QED
  BY <1>1, <1>10, <1>11, <1>9 DEF CallSucceeds

LEMMA ReleaseInv ==
  ASSUME IInv, CallSucceeds, pc = "release"
  PROVE  IInv' /\ \A q \in OutputPins : pad'[q] = pad[q]
<1> DEFINE r == pad[PswEn]
           s == pad'[PswEn]
<1> USE DEF IInv
<1>1. /\ call \in 1 .. 4 /\ Len(CurrentCalls) = 4
      /\ \A q \in Pins : q # PswEn => pad'[q] = pad[q]
      /\ call \in {1, 2} => s.direction = "input"
      /\ call \in {3, 4} => s.direction = r.direction
      /\ call = 3 => s.pull = "floating"
      /\ call \in {2, 4} => s.pull = r.pull
      /\ call = 4 => ~s.intr
  BY ReleaseStep
<1>2. CurrentPin = PswEn /\ \A q \in OutputPins : q \in Pins /\ q # PswEn
  BY Table DEF CurrentPin, Pins
<1>3. r.direction = "input" /\ s.direction = "input"
  BY <1>1 DEF DrivenSafe
<1>4. TypeOK'
  BY TypeStep DEF Next
<1>5. (\A q \in OutputPins : pad'[q] = pad[q]) /\ DrivenSafe'
  BY <1>1, <1>2, <1>3 DEF DrivenSafe
<1>6. ~verified /\ ~verified' /\ UNCHANGED <<first_error, failed>>
  BY Zenon DEF CallSucceeds, ErrorKept
<1>7. VerifiedExact' /\ ErrorKept'
  BY <1>6 DEF VerifiedExact, ErrorKept
<1>8. CASE call < 4 /\ call' = call + 1 /\ UNCHANGED <<pc, next>>
  <2>1. OutputProgress' /\ ReleaseProgress'
    BY <1>1, <1>8 DEF OutputProgress, ReleaseProgress
  <2>2. \A q \in Pins : Passed(q)' => Passed(q) /\ q # PswEn
    BY <1>8 DEF Passed
  <2>3. PassedConfigured'
    BY <1>1, <1>6, <2>2, SameRegisters DEF PassedConfigured
  <2> QED
    BY <1>4, <1>5, <1>7, <2>1, <2>3
<1>9. CASE call = 4 /\ NextPin
  <2>1. s.pull = "floating" /\ ~s.intr
    BY <1>1, <1>9 DEF ReleaseProgress
  <2>2. Configured(PswEn)'
    BY <1>3, <2>1, Zenon DEF Configured
  <2>3. pc' = "return" /\ call' = 1
    BY <1>9 DEF NextPin
  <2>4. OutputProgress' /\ ReleaseProgress'
    BY <2>3 DEF OutputProgress, ReleaseProgress
  <2>5. \A q \in Pins : q # PswEn => Passed(q)
    BY DEF Passed
  <2>6. PassedConfigured'
    BY <1>1, <1>6, <2>2, <2>5, SameRegisters DEF PassedConfigured
  <2> QED
    BY <1>4, <1>5, <1>7, <2>4, <2>6
<1> QED
  BY <1>1, <1>8, <1>9 DEF CallSucceeds

LEMMA FailInv ==
  ASSUME IInv, CallFails
  PROVE  IInv' /\ UNCHANGED pad
<1> PICK p : p = CurrentPin
  OBVIOUS
<1> USE DEF IInv
<1>1. /\ UNCHANGED <<pad, verified>> /\ NextPin
      /\ pc \in {"outputs", "release"}
      /\ first_error' = IF first_error = "OK" THEN "HARDWARE" ELSE first_error
      /\ failed' = failed \cup {p}
  BY Zenon DEF CallFails, AfterFailure
<1>2. TypeOK'
  BY TypeStep DEF Next
<1>3. ~verified /\ ~verified'
  BY <1>1, Zenon DEF ErrorKept
<1>4. DrivenSafe' /\ VerifiedExact'
  BY <1>1, <1>3 DEF DrivenSafe, VerifiedExact
<1>5. ErrorKept'
  BY <1>1, <1>3 DEF ErrorKept
<1>6. OutputProgress' /\ ReleaseProgress'
  BY <1>1, NextPinPassed DEF OutputProgress, ReleaseProgress
<1>7. PassedConfigured'
  <2> SUFFICES ASSUME NEW q \in Pins, Passed(q)', q \notin failed'
               PROVE  Configured(q)'
    BY DEF PassedConfigured
  <2>1. Passed(q) /\ q \notin failed
    BY <1>1, NextPinPassed
  <2> QED
    BY <1>1, <2>1, SameRegisters DEF PassedConfigured
<1> QED
  BY <1>1, <1>2, <1>4, <1>5, <1>6, <1>7

LEMMA ReturnInv ==
  ASSUME IInv, Return
  PROVE  IInv' /\ UNCHANGED pad
<1> USE DEF IInv
<1>1. /\ UNCHANGED <<pad, first_error, failed>> /\ pc = "return"
      /\ pc' = "idle" /\ (verified' <=> first_error = "OK")
  BY Zenon DEF Return
<1>2. TypeOK'
  BY TypeStep DEF Next
<1>3. DrivenSafe'
  BY <1>1 DEF DrivenSafe
<1>4. first_error = "OK" => \A q \in Pins : Configured(q)
  BY <1>1 DEF ErrorKept, PassedConfigured, Passed
<1>5. VerifiedExact'
  BY <1>1, <1>4, SameRegisters, Zenon DEF VerifiedExact
<1>6. /\ ErrorKept' /\ OutputProgress' /\ ReleaseProgress'
      /\ PassedConfigured'
  BY <1>1 DEF ErrorKept, OutputProgress, ReleaseProgress, PassedConfigured,
              Passed
<1> QED
  BY <1>1, <1>2, <1>3, <1>5, <1>6

(* A step preserves the invariant and leaves driven outputs driven.        *)
LEMMA AnyStep ==
  ASSUME IInv, [Next]_vars
  PROVE  /\ IInv'
         /\ \A q \in OutputPins : pad[q].direction = "output" =>
              pad'[q].direction = "output" /\ pad'[q].latch = Level[q]
<1>1. UNCHANGED pad => \A q \in OutputPins : pad[q].direction = "output" =>
              pad'[q].direction = "output" /\ pad'[q].latch = Level[q]
  BY DEF IInv, DrivenSafe
<1>2. CASE SafetyInit \/ Apply
  BY <1>1, <1>2, BeginInv DEF SafetyInit, Apply
<1>3. CASE CallSucceeds
  <2>1. pc \in {"outputs", "release"}
    BY <1>3 DEF CallSucceeds
  <2>2. CASE pc = "release"
    BY <1>3, <2>2, ReleaseInv DEF IInv, DrivenSafe
  <2> QED
    BY <1>3, <2>1, <2>2, OutputInv
<1>4. CASE CallFails
  BY <1>1, <1>4, FailInv
<1>5. CASE Return
  BY <1>1, <1>5, ReturnInv
<1>6. CASE UNCHANGED vars
  <2>1. TypeOK'
    BY TypeStep DEF IInv
  <2>2. DrivenSafe' /\ VerifiedExact' /\ ErrorKept'
    BY <1>6 DEF vars, IInv, DrivenSafe, VerifiedExact, ErrorKept, Configured
  <2>3. OutputProgress' /\ ReleaseProgress' /\ PassedConfigured'
    BY <1>6 DEF vars, IInv, OutputProgress, ReleaseProgress,
                PassedConfigured, Passed, Configured
  <2> QED
    BY <1>1, <1>6, <2>1, <2>2, <2>3 DEF IInv, vars
<1> QED
  BY <1>2, <1>3, <1>4, <1>5, <1>6 DEF Next

(* The inductive invariant of the loop of factory_safety_apply.            *)
THEOREM SafetyInvariant == Spec => []IInv
<1>1. IInv /\ [Next]_vars => IInv'
  BY AnyStep
<1> QED
  BY InitIInv, <1>1, PTL DEF Spec

(* Type correctness: the loop never runs past its table or the calls of a  *)
(* pin (factory_safety_apply).                                             *)
THEOREM TypeCorrect == Spec => []TypeOK
<1>1. IInv => TypeOK
  BY DEF IInv
<1> QED
  BY <1>1, SafetyInvariant, PTL

(* No enabled driver ever carries anything but the safe level, between any *)
(* two calls and whatever fails, and PSW_EN is never driven                *)
(* (configure_output, release_high_impedance).                             *)
THEOREM NeverDrivenUnsafe == Spec => []DrivenSafe
<1>1. IInv => DrivenSafe
  BY DEF IInv
<1> QED
  BY <1>1, SafetyInvariant, PTL

(* While s_verified is set every pin is configured (factory_safety_apply). *)
THEOREM VerifiedMeansConfigured == Spec => []VerifiedExact
<1>1. IInv => VerifiedExact
  BY DEF IInv
<1> QED
  BY <1>1, SafetyInvariant, PTL

(* A failing pin costs no other, and its failure is reported               *)
(* (factory_safety_apply).                                                 *)
THEOREM FailureIsolated == Spec => []KeepsGoing
<1>1. IInv => KeepsGoing
  BY DEF IInv, ErrorKept, PassedConfigured, Passed, KeepsGoing
<1> QED
  BY <1>1, SafetyInvariant, PTL

(* An output once driven is never released nor changed by a later apply    *)
(* (configure_output).                                                     *)
THEOREM DrivenForGood == Spec => StaysDriven
<1>1. IInv /\ [Next]_vars =>
        [\A p \in OutputPins :
           pad[p].direction = "output" =>
             pad'[p].direction = "output" /\ pad'[p].latch = Level[p]]_vars
  BY AnyStep
<1> QED
  BY <1>1, SafetyInvariant, PTL DEF Spec, StaysDriven
=============================================================================
