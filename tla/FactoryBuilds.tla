--------------------------- MODULE FactoryBuilds ---------------------------
(***************************************************************************)
(* What the two builds kept in the repository, phase1 and verify, were     *)
(* configured to: the facts about kernel, watchdogs, resets, clock and     *)
(* console that FactoryTiming and FactoryStation are built on (sdkconfig.h *)
(* of the program and of the bootloader).                                  *)
(***************************************************************************)
EXTENDS Integers

(* One core, its tick and where it comes from, and a stack check.          *)
Phase1Kernel == [cores |-> 1, hz |-> 100, tick |-> "systimer",
                 stack |-> "canary"]
VerifyKernel == [cores |-> 1, hz |-> 100, tick |-> "systimer",
                 stack |-> "canary"]

(* The task watchdog watches the idle task and does not panic.             *)
Phase1Watchdog == [seconds |-> 5, watches |-> "idle", panics |-> FALSE,
                   interrupt_ms |-> 300]
VerifyWatchdog == [seconds |-> 5, watches |-> "idle", panics |-> FALSE,
                   interrupt_ms |-> 300]

(* A panic prints and restarts at once, and so does a brown-out.           *)
Phase1Panic == [prints |-> TRUE, delay_s |-> 0]
VerifyPanic == [prints |-> TRUE, delay_s |-> 0]
Phase1Brownout == [detected |-> TRUE, interrupts |-> TRUE]
VerifyBrownout == [detected |-> TRUE, interrupts |-> TRUE]

(* esp_timer_get_time runs on the timer that makes the tick.               *)
Phase1Timer == [source |-> "systimer", core |-> 0]
VerifyTimer == [source |-> "systimer", core |-> 0]

(* The console, the only one, is the line of the protocol; the program     *)
(* logs warnings, and the bootloader and the ROM say what they do.         *)
Phase1Console == [line |-> "usb_serial_jtag", secondary |-> "none"]
VerifyConsole == [line |-> "usb_serial_jtag", secondary |-> "none"]
Phase1Log == [default |-> "warn", maximum |-> "warn", text |-> TRUE]
VerifyLog == [default |-> "warn", maximum |-> "warn", text |-> TRUE]
Phase1Bootloader == [log |-> "info", text |-> TRUE, watchdog_ms |-> 9000]
VerifyBootloader == [log |-> "info", text |-> TRUE, watchdog_ms |-> 9000]

(* The builds agree, so that what the models say they say of both; texts   *)
(* other than frames do travel on the line; the interrupt watchdog, which  *)
(* does restart the chip, waits for more than a tick.                      *)
ASSUME BuildAssumption ==
  /\ Phase1Kernel = VerifyKernel /\ Phase1Watchdog = VerifyWatchdog
  /\ Phase1Panic = VerifyPanic /\ Phase1Brownout = VerifyBrownout
  /\ Phase1Timer = VerifyTimer
  /\ Phase1Console = VerifyConsole /\ Phase1Log = VerifyLog
  /\ Phase1Bootloader = VerifyBootloader
  /\ Phase1Timer.source = Phase1Kernel.tick
  /\ Phase1Watchdog.interrupt_ms * Phase1Kernel.hz > 1000
=============================================================================
