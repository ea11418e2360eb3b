----------------------- MODULE FactorySession_proofs ------------------------
(***************************************************************************)
(* What every single call of the session interface preserves, whoever      *)
(* makes it.  The specifications that make the calls cite these lemmas.    *)
(***************************************************************************)
EXTENDS FactorySession, FiniteSetTheorems, TLAPS

(* The counters of a table are numbers.                                    *)
LEMMA SummaryType ==
  ASSUME NEW table \in [Tests -> Entry]
  PROVE  Summary(table) \in Summaries
<1>1. \A s \in Statuses : Cardinality(WithStatus(table, s)) \in Nat
  <2> TAKE s \in Statuses
  <2>1. WithStatus(table, s) \subseteq Tests
    BY DEF WithStatus
  <2> QED
    BY <2>1, FS_Subset, FS_CardinalityType, ManifestAssumption
<1> QED
  BY <1>1 DEF Summary, Summaries, Statuses

LEMMA NotMadeType == NotMade \in [Tests -> Tags]
BY DEF NotMade, Tags

LEMMA AllPendingType == AllPending \in [Tests -> Entry]
BY DEF AllPending, Entry, Statuses

(* Counters that show nothing pending and nothing failed belong to a table *)
(* whose tests all passed, and to no other count of passed tests.          *)
LEMMA SummaryComplete ==
  ASSUME NEW table \in [Tests -> Entry],
         Summary(table).pending = 0, Summary(table).failed = 0
  PROVE  /\ \A t \in Tests : table[t].status = "PASS"
         /\ Summary(table) =
              [pending |-> 0, passed |-> Cardinality(Tests), failed |-> 0]
<1>1. \A s \in Statuses : IsFiniteSet(WithStatus(table, s))
  BY FS_Subset, ManifestAssumption DEF WithStatus
<1>2. WithStatus(table, "PENDING") = {} /\ WithStatus(table, "FAIL") = {}
  BY <1>1, FS_EmptySet DEF Summary, Statuses
<1>3. \A t \in Tests : table[t].status = "PASS"
  BY <1>2 DEF WithStatus, Entry, Statuses
<1>4. WithStatus(table, "PASS") = Tests
  BY <1>3 DEF WithStatus
<1> QED
  BY <1>3, <1>4, <1>2, FS_EmptySet DEF Summary

(* And a table whose tests all passed has just those counters.             *)
LEMMA SummaryAllPass ==
  ASSUME NEW table, \A t \in Tests : table[t].status = "PASS"
  PROVE  Summary(table) =
           [pending |-> 0, passed |-> Cardinality(Tests), failed |-> 0]
<1>1. /\ WithStatus(table, "PENDING") = {}
      /\ WithStatus(table, "FAIL") = {}
      /\ WithStatus(table, "PASS") = Tests
  BY DEF WithStatus
<1> QED
  BY <1>1, FS_EmptySet DEF Summary
-----------------------------------------------------------------------------
(* Memory after a reset satisfies the invariant.                           *)
LEMMA ResetInv == SessionReset => SessionInv
<1> SUFFICES ASSUME SessionReset PROVE SessionInv
  OBVIOUS
<1>1. session \in Sessions /\ session.state = "IDLE"
  BY DEF SessionReset, Sessions, States, Zeroed, Summaries
<1>2. made \in [Tests -> Tags]
  BY NotMadeType DEF SessionReset
<1>3. SessionTypeOK
  BY <1>1, <1>2, AllPendingType DEF SessionReset, SessionTypeOK
<1>4. Traceable
  BY DEF SessionReset, Traceable, AllPending
<1> QED
  BY <1>1, <1>3, <1>4 DEF SessionInv, IdleBeforeInit, VerdictSound

(* Forgetting everything leaves the session as a reset does.               *)
LEMMA LostInv == SessionLost => SessionInv'
<1> SUFFICES ASSUME SessionLost PROVE SessionInv'
  OBVIOUS
<1>1. session' \in Sessions /\ session'.state = "IDLE"
  BY DEF SessionLost, Sessions, States, Zeroed, Summaries
<1>2. SessionTypeOK'
  BY <1>1, NotMadeType, AllPendingType DEF SessionLost, SessionTypeOK
<1>3. Traceable'
  BY DEF SessionLost, Traceable, AllPending
<1> QED
  BY <1>1, <1>2, <1>3 DEF SessionLost, SessionInv, IdleBeforeInit, VerdictSound

LEMMA InvHasBase == SessionInv => SessionBase
BY DEF SessionInv, SessionBase

(* A call that changes nothing, an early return, preserves everything.     *)
LEMMA EarlyReturn ==
  ASSUME SessionBase, UNCHANGED sessionVars
  PROVE  SessionBase' /\ (SessionInv => SessionInv') /\ ImmutableStep
<1>1. SessionTypeOK' /\ IdleBeforeInit'
  BY DEF sessionVars, SessionBase, SessionTypeOK, IdleBeforeInit
<1>2. Traceable' /\ (VerdictSound => VerdictSound')
  BY DEF sessionVars, SessionBase, Traceable, VerdictSound, Tag
<1>3. ImmutableStep
  BY DEF sessionVars, ImmutableStep
<1> QED
  BY <1>1, <1>2, <1>3 DEF SessionBase, SessionInv

(* A call that keeps the table, the unit and the start time, and leaves    *)
(* the session neither completed nor uninitialised, preserves everything.  *)
LEMMA NotCompleted ==
  ASSUME SessionBase, UNCHANGED <<hasCleanup, made, entries>>,
         session' \in Sessions, session'.state # "COMPLETED",
         ~hasCleanup => session'.state = "IDLE",
         session'.unit_id = session.unit_id,
         session'.started_us = session.started_us
  PROVE  SessionBase' /\ (SessionInv => SessionInv') /\ ImmutableStep
<1>1. SessionTypeOK' /\ IdleBeforeInit'
  BY DEF SessionBase, SessionTypeOK, IdleBeforeInit
<1>2. Traceable'
  BY DEF SessionBase, Traceable, Tag
<1>3. VerdictSound' /\ ImmutableStep
  BY DEF VerdictSound, ImmutableStep
<1> QED
  BY <1>1, <1>2, <1>3 DEF SessionBase, SessionInv

(* Recomputing the counters keeps the rest of s_session.                   *)
LEMMA RefreshedSession ==
  ASSUME SessionTypeOK
  PROVE  /\ Refreshed(session) \in Sessions
         /\ Refreshed(session) = [session EXCEPT !.manifest = Summary(entries)]
         /\ \A s \in States :
              [Refreshed(session) EXCEPT !.state = s] \in Sessions
BY SummaryType DEF SessionTypeOK, Sessions, Refreshed
-----------------------------------------------------------------------------
LEMMA InitCall ==
  ASSUME SessionBase, NEW given, NEW result, SessionInit(given, result)
  PROVE  /\ SessionBase' /\ (SessionInv => SessionInv')
         /\ ~hasCleanup => ImmutableStep
         /\ \/ UNCHANGED sessionVars
            \/ entries' = AllPending /\ session'.state = "IDLE"
<1>1. CASE UNCHANGED sessionVars
  BY <1>1, EarlyReturn
<1>2. CASE /\ entries' = AllPending /\ made' = NotMade /\ hasCleanup' = TRUE
           /\ session' = [Zeroed EXCEPT !.manifest = Summary(AllPending)]
  <2>1. session' \in Sessions /\ session'.state = "IDLE"
    BY <1>2, SummaryType, AllPendingType DEF Sessions, Zeroed, States
  <2>2. SessionTypeOK' /\ IdleBeforeInit'
    BY <2>1, <1>2, AllPendingType, NotMadeType
       DEF SessionBase, SessionTypeOK, IdleBeforeInit
  <2>3. Traceable'
    BY <1>2 DEF Traceable, AllPending
  <2>4. ~hasCleanup => ImmutableStep
    BY <1>2 DEF ImmutableStep, IsActive, SessionBase, IdleBeforeInit
  <2> QED
    BY <1>2, <2>1, <2>2, <2>3, <2>4
       DEF SessionBase, SessionInv, VerdictSound
<1> QED
  BY <1>1, <1>2 DEF SessionInit, ManifestReset

LEMMA StartCall ==
  ASSUME SessionBase, NEW unit, NEW now \in Int, NEW cleanup, NEW result,
         SessionStart(unit, now, cleanup, result)
  PROVE  SessionBase' /\ (SessionInv => SessionInv') /\ ImmutableStep
<1>1. CASE UNCHANGED sessionVars
  BY <1>1, EarlyReturn
<1>2. CASE /\ StartArgumentsOK(unit, now) /\ ~IsActive
           /\ session' = [session EXCEPT !.state = "ABORTED"]
           /\ UNCHANGED <<hasCleanup, made, entries>>
  <2>1. session' \in Sessions /\ session'.state = "ABORTED"
    BY <1>2 DEF SessionBase, SessionTypeOK, Sessions, States
  <2>2. /\ session'.unit_id = session.unit_id
        /\ session'.started_us = session.started_us
    BY <1>2 DEF SessionBase, SessionTypeOK, Sessions
  <2> QED
    BY <1>2, <2>1, <2>2, NotCompleted DEF StartArgumentsOK
<1>3. CASE /\ StartArgumentsOK(unit, now) /\ ~IsActive
           /\ entries' = AllPending
           /\ session' = [state |-> "ACTIVE", unit_id |-> unit,
                          started_us |-> now, last_activity_us |-> now,
                          manifest |-> Summary(AllPending)]
           /\ made' = NotMade /\ UNCHANGED hasCleanup
  <2>1. session' \in Sessions /\ session'.state = "ACTIVE"
    BY <1>3, SummaryType, AllPendingType
       DEF StartArgumentsOK, Sessions, States
  <2>2. SessionTypeOK' /\ IdleBeforeInit'
    BY <2>1, <1>3, AllPendingType, NotMadeType
       DEF SessionBase, SessionTypeOK, IdleBeforeInit, StartArgumentsOK
  <2>3. Traceable'
    BY <1>3 DEF Traceable, AllPending
  <2>4. ImmutableStep
    BY <1>3 DEF ImmutableStep
  <2> QED
    BY <2>1, <2>2, <2>3, <2>4
       DEF SessionBase, SessionInv, VerdictSound
<1> QED
  BY <1>1, <1>2, <1>3 DEF SessionStart, ManifestReset

LEMMA TouchCall ==
  ASSUME SessionBase, NEW now \in Int, NEW result, SessionTouch(now, result)
  PROVE  SessionBase' /\ (SessionInv => SessionInv') /\ ImmutableStep
<1>1. CASE session' = session
  BY <1>1, EarlyReturn DEF SessionTouch, sessionVars
<1>2. CASE /\ IsActive /\ now >= session.last_activity_us
           /\ session' = [session EXCEPT !.last_activity_us = now]
  <2>1. session' \in Sessions /\ session'.state = "ACTIVE"
    BY <1>2 DEF SessionBase, SessionTypeOK, Sessions, IsActive
  <2>2. /\ session'.unit_id = session.unit_id
        /\ session'.started_us = session.started_us
    BY <1>2 DEF SessionBase, SessionTypeOK, Sessions
  <2>3. ~hasCleanup => session'.state = "IDLE"
    BY <1>2 DEF SessionBase, IdleBeforeInit, IsActive
  <2> QED
    BY <2>1, <2>2, <2>3, NotCompleted DEF SessionTouch
<1>3. ~IsActive => result # "OK"
  BY DEF SessionTouch
<1>4. result = "OK" => now >= session.last_activity_us
  BY DEF SessionTouch, SessionBase, SessionTypeOK, Sessions
<1> QED
  BY <1>1, <1>2, <1>3, <1>4 DEF SessionTouch

LEMMA ExpireCall ==
  ASSUME SessionBase, NEW now, NEW cleanup, NEW result,
         SessionExpire(now, cleanup, result)
  PROVE  SessionBase' /\ (SessionInv => SessionInv') /\ ImmutableStep
<1>1. CASE UNCHANGED sessionVars
  BY <1>1, EarlyReturn
<1>2. CASE /\ ExpireCheck(now) = "TIMEOUT"
           /\ session' = [Refreshed(session) EXCEPT !.state = "EXPIRED"]
           /\ UNCHANGED <<hasCleanup, made, entries>>
  <2>1. session' \in Sessions /\ session'.state = "EXPIRED"
    BY <1>2, RefreshedSession DEF SessionBase, Sessions, States
  <2>2. /\ session'.unit_id = session.unit_id
        /\ session'.started_us = session.started_us
    BY <1>2, RefreshedSession DEF SessionBase, SessionTypeOK, Sessions
  <2>3. IsActive
    BY <1>2 DEF ExpireCheck
  <2>4. hasCleanup
    BY <2>3 DEF SessionBase, SessionTypeOK, IdleBeforeInit, IsActive
  <2> QED
    BY <1>2, <2>1, <2>2, <2>4, NotCompleted
<1> QED
  BY <1>1, <1>2 DEF SessionExpire

(* Recomputing the counters alone, as a snapshot does in any state: those  *)
(* of a completed session are already exact.                               *)
LEMMA SnapshotCall ==
  ASSUME SessionBase, SessionSnapshot
  PROVE  SessionBase' /\ (SessionInv => SessionInv') /\ ImmutableStep
<1>1. /\ session' \in Sessions
      /\ session'.state = session.state
      /\ session'.unit_id = session.unit_id
      /\ session'.started_us = session.started_us
      /\ session'.manifest = Summary(entries)
  BY RefreshedSession DEF SessionSnapshot, SessionBase, SessionTypeOK, Sessions
<1>2. CASE session.state # "COMPLETED"
  BY <1>1, <1>2, NotCompleted DEF SessionSnapshot, SessionBase, IdleBeforeInit
<1>3. CASE session.state = "COMPLETED"
  <2>1. SessionTypeOK' /\ IdleBeforeInit'
    BY <1>1 DEF SessionSnapshot, SessionBase, SessionTypeOK, IdleBeforeInit
  <2>2. Traceable' /\ ImmutableStep
    BY <1>1 DEF SessionSnapshot, SessionBase, Traceable, Tag, ImmutableStep
  <2>3. ASSUME VerdictSound PROVE VerdictSound'
    <3>1. \A t \in Tests : entries[t].status = "PASS" /\ made[t] = Tag
      BY <1>3, <2>3 DEF VerdictSound
    <3>2. session'.manifest =
            [pending |-> 0, passed |-> Cardinality(Tests), failed |-> 0]
      BY <1>1, <3>1, SummaryAllPass
    <3> QED
      BY <1>1, <3>1, <3>2 DEF SessionSnapshot, VerdictSound, Tag
  <2> QED
    BY <2>1, <2>2, <2>3 DEF SessionBase, SessionInv
<1> QED
  BY <1>2, <1>3

LEMMA FinishCall ==
  ASSUME SessionBase, NEW cleanup, NEW result, SessionFinish(cleanup, result)
  PROVE  SessionBase' /\ (SessionInv => SessionInv') /\ ImmutableStep
<1> DEFINE Ends(s) == session' = [Refreshed(session) EXCEPT !.state = s]
<1>1. CASE session' = Refreshed(session)
  BY <1>1, SnapshotCall DEF SessionSnapshot, SessionFinish
<1>2. ASSUME NEW s \in {"COMPLETED", "ABORTED"}, Ends(s)
      PROVE  /\ session' \in Sessions
             /\ session'.state = s
             /\ session'.unit_id = session.unit_id
             /\ session'.started_us = session.started_us
             /\ session'.manifest = Summary(entries)
  BY <1>2, RefreshedSession, SummaryType
     DEF SessionBase, SessionTypeOK, Sessions, States
<1>3. CASE IsActive /\ Ends("ABORTED")
  <2>1. hasCleanup
    BY <1>3 DEF SessionBase, SessionTypeOK, IdleBeforeInit, IsActive
  <2> QED
    BY <1>2, <1>3, <2>1, NotCompleted DEF SessionFinish
<1>4. CASE IsActive /\ ~Incomplete /\ Ends("COMPLETED")
  <2> USE <1>2, <1>4
  <2>1. UNCHANGED <<hasCleanup, made, entries>>
    BY DEF SessionFinish
  <2>2. /\ \A t \in Tests : entries[t].status = "PASS"
        /\ Summary(entries) =
             [pending |-> 0, passed |-> Cardinality(Tests), failed |-> 0]
    BY SummaryComplete DEF Incomplete, SessionBase, SessionTypeOK
  <2>3. SessionTypeOK' /\ IdleBeforeInit'
    BY <2>1 DEF SessionBase, SessionTypeOK, IdleBeforeInit, IsActive
  <2>4. Traceable' /\ ImmutableStep
    BY <2>1 DEF SessionBase, Traceable, Tag, ImmutableStep
  <2>5. VerdictSound'
    BY <2>1, <2>2 DEF SessionBase, Traceable, VerdictSound, Tag
  <2> QED
    BY <2>3, <2>4, <2>5 DEF SessionBase, SessionInv
<1> QED
  BY <1>1, <1>3, <1>4 DEF SessionFinish

LEMMA AbortCall ==
  ASSUME SessionBase, NEW cleanup, NEW result, SessionAbort(cleanup, result)
  PROVE  SessionBase' /\ (SessionInv => SessionInv') /\ ImmutableStep
<1>1. CASE UNCHANGED sessionVars
  BY <1>1, EarlyReturn
<1>2. CASE /\ hasCleanup
           /\ session' = [Refreshed(session) EXCEPT !.state = "ABORTED"]
           /\ UNCHANGED <<hasCleanup, made, entries>>
  <2>1. session' \in Sessions /\ session'.state = "ABORTED"
    BY <1>2, RefreshedSession DEF SessionBase, Sessions, States
  <2>2. /\ session'.unit_id = session.unit_id
        /\ session'.started_us = session.started_us
    BY <1>2, RefreshedSession DEF SessionBase, SessionTypeOK, Sessions
  <2> QED
    BY <1>2, <2>1, <2>2, NotCompleted
<1> QED
  BY <1>1, <1>2 DEF SessionAbort

LEMMA RecordCall ==
  ASSUME SessionBase, NEW t, NEW actor, NEW passed, NEW evidence, NEW result,
         Record(t, actor, passed, evidence, result)
  PROVE  SessionBase' /\ (SessionInv => SessionInv') /\ ImmutableStep
<1>1. CASE result # "OK"
  BY <1>1, EarlyReturn DEF Record, ManifestRecord, sessionVars
<1>2. CASE result = "OK"
  <2> DEFINE new == [status   |-> IF passed THEN "PASS" ELSE "FAIL",
                     evidence |-> evidence]
  <2>1. /\ t \in Tests /\ entries[t].status = "PENDING"
        /\ evidence \in Evidence
    BY <1>2 DEF Record, ManifestRecord, RecordCheck
  <2>2. /\ entries' = [entries EXCEPT ![t] = new]
        /\ made' = [made EXCEPT ![t] = Tag]
        /\ UNCHANGED <<session, hasCleanup>>
    BY <1>2 DEF Record, ManifestRecord
  <2>3. new \in Entry
    BY <2>1 DEF Entry, Statuses
  <2>4. Tag \in Tags
    BY DEF Tag, Tags, SessionBase, SessionTypeOK, Sessions
  <2>5. SessionTypeOK' /\ IdleBeforeInit'
    BY <2>1, <2>2, <2>3, <2>4
       DEF SessionBase, SessionTypeOK, IdleBeforeInit
  <2>6. Traceable'
    BY <2>1, <2>2 DEF SessionBase, SessionTypeOK, Traceable, Tag
  <2>7. VerdictSound => session.state # "COMPLETED"
    BY <2>1 DEF VerdictSound
  <2>8. VerdictSound => VerdictSound'
    BY <2>2, <2>7 DEF VerdictSound
  <2>9. ImmutableStep
    BY <2>1, <2>2 DEF ImmutableStep, SessionBase, SessionTypeOK
  <2> QED
    BY <2>5, <2>6, <2>8, <2>9 DEF SessionBase, SessionInv
<1> QED
  BY <1>1, <1>2
=============================================================================
