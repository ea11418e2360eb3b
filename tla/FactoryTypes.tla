---------------------------- MODULE FactoryTypes ----------------------------
(***************************************************************************)
(* The result codes every component returns (factory_types.h), and the     *)
(* rule that turns a failed command into the code its reply carries.       *)
(***************************************************************************)

(* enum factory_result_t, without the FACTORY_ and FACTORY_ERR_ prefixes.  *)
Results == {"OK", "INVALID_ARGUMENT", "INVALID_FRAME", "INVALID_JSON",
            "INVALID_REQUEST", "FRAME_TOO_LONG", "UNKNOWN_COMMAND",
            "NOT_FOUND", "INVALID_STATE", "IMMUTABLE", "UNAUTHORIZED",
            "INCOMPLETE", "TIMEOUT", "CLEANUP", "HARDWARE", "NO_MEMORY"}

(* A callee that may be handed a cleanup function either does not call it  *)
(* ("none") or calls it once, and the call succeeds or fails.              *)
CleanupCalls == {"none", "ok", "failed"}

(* factory_apply_error_cleanup: an error is reported only after a cleanup, *)
(* and a failed cleanup replaces the error.                                *)
ErrorCleanup(result, cleanup, reported) ==
  \/ result = "OK" /\ cleanup = "none" /\ reported = "OK"
  \/ result # "OK" /\ cleanup = "ok" /\ reported = result
  \/ result # "OK" /\ cleanup = "failed" /\ reported = "CLEANUP"
=============================================================================
