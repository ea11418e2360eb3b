-------------------------- MODULE MCFactoryTiming ---------------------------
(***************************************************************************)
(* The tick of the builds, and the waits of the program as they are; the   *)
(* session's 300 s and the watchdog's 5 s are scaled down to ticks that    *)
(* are still more than one wait of a write.                                *)
(***************************************************************************)
EXTENDS FactoryTiming, FactoryBuilds

MCHz == Phase1Kernel.hz
=============================================================================
