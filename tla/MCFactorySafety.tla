-------------------------- MODULE MCFactorySafety ---------------------------
(***************************************************************************)
(* The outputs of the board itself: the pads of its six outputs and of     *)
(* PSW_EN, and the levels that are safe on it.                             *)
(***************************************************************************)
EXTENDS FactorySafety, FactoryBoard

MCOutputs == [n \in DOMAIN SafeOutputs |-> Gpio[SafeOutputs[n]]]
MCLevel == [p \in OutputPins |->
              SafeLevel[CHOOSE s \in DOMAIN SafeLevel : Gpio[s] = p]]
MCPswEn == Gpio.psw_en
=============================================================================
