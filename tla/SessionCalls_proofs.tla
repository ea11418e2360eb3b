------------------------ MODULE SessionCalls_proofs -------------------------
(***************************************************************************)
(* The safety of the session and the manifest under every caller, for any  *)
(* table of tests, any units and any clock.                                *)
(***************************************************************************)
EXTENDS SessionCalls, FactorySession_proofs

CallsInv == SessionBase /\ CompletedSound

(* What the calls other than factory_manifest_reset come to.               *)
LEMMA SessionCall ==
  ASSUME CallsInv, Noted, SessionBase', SessionInv => SessionInv'
  PROVE  CallsInv'
<1>1. CASE ~discarded
  BY <1>1 DEF CallsInv, CompletedSound, SessionBase, SessionInv
<1>2. CASE discarded
  BY <1>2 DEF CallsInv, CompletedSound, Noted, VerdictSound
<1> QED
  BY <1>1, <1>2

(* One call, whichever it is.                                              *)
LEMMA AnyCall ==
  ASSUME CallsInv, [Next]_callVars
  PROVE  CallsInv' /\ (ImmutableStep \/ DiscardStep)
<1> SessionBase
  BY DEF CallsInv
<1>1. CASE CallInit
  <2>1. PICK given \in BOOLEAN, result \in Results :
               SessionInit(given, result)
    BY <1>1 DEF CallInit
  <2>2. ImmutableStep \/ DiscardStep
    BY <2>1, InitCall, EarlyReturn DEF DiscardStep
  <2> QED
    BY <1>1, <2>1, <2>2, InitCall, SessionCall DEF CallInit
<1>2. CASE CallStart
  <2>1. PICK u \in UnitInputs, now \in Timestamps, c \in CleanupCalls,
             result \in Results : SessionStart(u, now, c, result)
    BY <1>2 DEF CallStart
  <2>2. SessionBase' /\ (SessionInv => SessionInv') /\ ImmutableStep
    BY <2>1, StartCall, SessionAssumption
  <2> QED
    BY <1>2, <2>2, SessionCall DEF CallStart
<1>3. CASE CallTouch
  <2>1. PICK now \in Timestamps, result \in Results :
               SessionTouch(now, result)
    BY <1>3 DEF CallTouch
  <2>2. SessionBase' /\ (SessionInv => SessionInv') /\ ImmutableStep
    BY <2>1, TouchCall, SessionAssumption
  <2> QED
    BY <1>3, <2>2, SessionCall DEF CallTouch
<1>4. CASE CallExpire
  BY <1>4, ExpireCall, SessionCall DEF CallExpire
<1>5. CASE CallFinish
  BY <1>5, FinishCall, SessionCall DEF CallFinish
<1>6. CASE CallAbort
  BY <1>6, AbortCall, SessionCall DEF CallAbort
<1>7. CASE CallSnapshot
  BY <1>7, SnapshotCall, SessionCall DEF CallSnapshot
<1>8. CASE CallRecord
  BY <1>8, RecordCall, SessionCall DEF CallRecord
<1>9. CASE CallManifestReset
  <2> USE <1>9 DEF CallManifestReset, ManifestReset
  <2>1. SessionTypeOK' /\ IdleBeforeInit'
    BY AllPendingType, NotMadeType
       DEF SessionBase, SessionTypeOK, IdleBeforeInit
  <2>2. Traceable'
    BY DEF Traceable, AllPending
  <2>3. CompletedSound'
    BY DEF CompletedSound, VerdictSound
  <2>4. DiscardStep
    BY DEF DiscardStep
  <2> QED
    BY <2>1, <2>2, <2>3, <2>4 DEF CallsInv, SessionBase
<1>10. CASE UNCHANGED callVars
  <2>1. SessionBase' /\ ImmutableStep
    BY <1>10, EarlyReturn DEF callVars
  <2>2. CompletedSound'
    BY <1>10 DEF callVars, sessionVars, CallsInv, CompletedSound,
                 VerdictSound, Tag
  <2> QED
    BY <2>1, <2>2 DEF CallsInv
<1> QED
  BY <1>1, <1>2, <1>3, <1>4, <1>5, <1>6, <1>7, <1>8, <1>9, <1>10 DEF Next

(* The inductive invariant of the session under every caller.              *)
THEOREM SessionInvariant == Spec => []CallsInv
<1>1. Init => CallsInv
  BY ResetInv DEF Init, CallsInv, SessionInv, SessionBase, CompletedSound
<1>2. CallsInv /\ [Next]_callVars => CallsInv'
  BY AnyCall
<1> QED
  BY <1>1, <1>2, PTL DEF Spec

(* Type correctness: counters and times are never negative, whatever the   *)
(* timestamps callers pass (factory_session_touch).                        *)
THEOREM TypeCorrect == Spec => []SessionTypeOK
<1>1. CallsInv => SessionTypeOK
  BY DEF CallsInv, SessionBase
<1> QED
  BY <1>1, SessionInvariant, PTL

(* No result is ever attributed to another unit or another session, even   *)
(* if a caller initialises or resets in the middle of one                  *)
(* (factory_session_start).                                                *)
THEOREM ResultsTraceable == Spec => []Traceable
<1>1. CallsInv => Traceable
  BY DEF CallsInv, SessionBase
<1> QED
  BY <1>1, SessionInvariant, PTL

(* A completed session is one whose every test passed in it, until a       *)
(* caller resets the table under it (factory_session_finish).              *)
THEOREM CompletedMeansPassed == Spec => []CompletedSound
<1>1. CallsInv => CompletedSound
  BY DEF CallsInv
<1> QED
  BY <1>1, SessionInvariant, PTL

(* Recorded results are write-once, and only a second                      *)
(* factory_session_init or a factory_manifest_reset takes those of an      *)
(* active session away, the whole table at once (factory_manifest_record). *)
THEOREM RecordedOnce == Spec => ResultImmutable
<1>1. CallsInv /\ [Next]_callVars => [ImmutableStep \/ DiscardStep]_callVars
  BY AnyCall
<1> QED
  BY <1>1, SessionInvariant, PTL DEF Spec, ResultImmutable
=============================================================================
