---------------------------- MODULE SessionCalls ----------------------------
(***************************************************************************)
(* The session and the manifest under every caller their headers allow:    *)
(* each function that changes state, in any order, with any argument and   *)
(* any timestamp, a second factory_session_init and a                      *)
(* factory_manifest_reset in the middle of a session included.  What holds *)
(* here owes nothing to the protocol.                                      *)
(***************************************************************************)
EXTENDS FactorySession

CONSTANTS
  TestInputs,      \* texts offered as a test id
  EvidenceInputs   \* evidence offered, storable or not

ASSUME CallsAssumption == Tests \subseteq TestInputs

VARIABLE
  discarded  \* history: the table was reset under the completed session

callVars == <<sessionVars, discarded>>

Init == SessionReset /\ discarded = FALSE

(* A table reset under a completed session stays so until that session is  *)
(* followed by another state.                                              *)
Noted == discarded' = (discarded /\ session'.state = "COMPLETED")

CallInit ==
  /\ \E given \in BOOLEAN, result \in Results : SessionInit(given, result)
  /\ Noted

CallStart ==
  /\ \E u \in UnitInputs, now \in Timestamps,
        c \in CleanupCalls, result \in Results :
       SessionStart(u, now, c, result)
  /\ Noted

CallTouch ==
  /\ \E now \in Timestamps, result \in Results : SessionTouch(now, result)
  /\ Noted

CallExpire ==
  /\ \E now \in Timestamps, c \in CleanupCalls, result \in Results :
       SessionExpire(now, c, result)
  /\ Noted

CallFinish ==
  /\ \E c \in CleanupCalls, result \in Results : SessionFinish(c, result)
  /\ Noted

CallAbort ==
  /\ \E c \in CleanupCalls, result \in Results : SessionAbort(c, result)
  /\ Noted

CallSnapshot == SessionSnapshot /\ Noted

CallRecord ==
  /\ \E t \in TestInputs, actor \in Owners, passed \in BOOLEAN,
        e \in EvidenceInputs, result \in Results :
       Record(t, actor, passed, e, result)
  /\ Noted

(* factory_manifest_reset called from outside: s_session is left alone.    *)
CallManifestReset ==
  /\ ManifestReset
  /\ made' = NotMade
  /\ discarded' = (session.state = "COMPLETED")
  /\ UNCHANGED <<session, hasCleanup>>

Next == \/ CallInit \/ CallStart \/ CallTouch \/ CallExpire \/ CallFinish
        \/ CallAbort \/ CallSnapshot \/ CallRecord \/ CallManifestReset

Spec == Init /\ [][Next]_callVars
-----------------------------------------------------------------------------
(* A completed session is one whose every test passed in it, and whose     *)
(* counters say so (VerdictSound), whoever called what before, for as long *)
(* as no caller resets the table under it (factory_session_finish).        *)
CompletedSound == ~discarded => VerdictSound

(* The whole table goes with the session itself, back to idle, or leaves   *)
(* the session as it is.                                                   *)
DiscardStep ==
  /\ entries' = AllPending
  /\ session'.state = "IDLE" \/ session' = session

(* No call rewrites a recorded result or its evidence.  Out of a session   *)
(* that is active results disappear only together, in a call that ends the *)
(* session as if it had never been (a second factory_session_init) or that *)
(* does nothing to the session (factory_manifest_reset); ending, failing   *)
(* or restarting it does not (factory_manifest_record,                     *)
(* factory_session_start).                                                 *)
ResultImmutable == [][ImmutableStep \/ DiscardStep]_callVars
=============================================================================
