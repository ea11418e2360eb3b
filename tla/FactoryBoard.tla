---------------------------- MODULE FactoryBoard ----------------------------
(***************************************************************************)
(* The Node-OTBR board as its header and the chip's configuration give it: *)
(* which GPIO is what, the level that is safe for each output, and what an *)
(* ESP32-C6 pad can do (factory_board.h, sdkconfig.h).                     *)
(***************************************************************************)
EXTENDS Integers, Sequences

Gpio == [lamp_control |-> 0, modem_power_key |-> 1, status_led |-> 2,
         psw_en |-> 3, vrms |-> 4, irms |-> 5, monitor_5v |-> 6,
         lamp_pwm |-> 7, control_led |-> 8, modem_reset |-> 9,
         usb_d_minus |-> 12, usb_d_plus |-> 13, ac_zcd |-> 14,
         modem_rx |-> 16, modem_tx |-> 17, gps_rx |-> 18, gps_tx |-> 19]

SafeLevel == [lamp_control |-> 1, modem_power_key |-> 1, status_led |-> 1,
              lamp_pwm |-> 0, control_led |-> 1, modem_reset |-> 1]

(* s_safe_outputs, in the order of the table.                              *)
SafeOutputs == <<"lamp_control", "modem_power_key", "status_led", "lamp_pwm",
                 "control_led", "modem_reset">>

AdcInputs == {"vrms", "irms", "monitor_5v"}
UsbPins == {"usb_d_minus", "usb_d_plus"}

OutputPads == 0 .. 30

(* Every signal has a pad of its own that exists.  Each output with a safe *)
(* level is in the table, once.  Nothing that is restored is a line of USB *)
(* or an input of the converter, and PSW_EN, which has no safe level, is   *)
(* not in the table.                                                       *)
ASSUME BoardAssumption ==
  /\ \A s, t \in DOMAIN Gpio : Gpio[s] = Gpio[t] => s = t
  /\ \A s \in DOMAIN Gpio : Gpio[s] \in OutputPads
  /\ Len(SafeOutputs) = 6
  /\ {SafeOutputs[n] : n \in DOMAIN SafeOutputs} = DOMAIN SafeLevel
  /\ DOMAIN SafeLevel \cap (AdcInputs \cup UsbPins \cup {"psw_en"}) = {}
=============================================================================
