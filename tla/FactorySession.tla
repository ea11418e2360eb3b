--------------------------- MODULE FactorySession ---------------------------
(***************************************************************************)
(* The unit session (factory_session.c) on top of the manifest: one action *)
(* per function of the interface, called in any order and with any         *)
(* timestamp, the cleanup callback succeeding or failing at every call.    *)
(* An action's parameters are the arguments of the call, what became of    *)
(* the cleanup callback and the result returned.                           *)
(***************************************************************************)
EXTENDS FactoryManifest, Integers

CONSTANTS
  UnitInputs,  \* texts offered as a unit id
  UnitIds,     \* those valid_unit_id accepts
  NoUnit,      \* the empty unit_id of a zeroed session
  Timestamps,  \* the clock values callers pass
  Timeout      \* FACTORY_SESSION_TIMEOUT_US

ASSUME SessionAssumption ==
  /\ UnitIds \subseteq UnitInputs
  /\ NoUnit \notin UnitInputs
  /\ Timestamps \subseteq Int
  /\ Timeout \in Nat \ {0}

VARIABLES
  session,     \* s_session
  hasCleanup,  \* s_cleanup # NULL
  made         \* history: the session each result was recorded in

sessionVars == <<session, hasCleanup, made, entries>>

States == {"IDLE", "ACTIVE", "EXPIRED", "COMPLETED", "ABORTED"}

Sessions == [state : States, unit_id : UnitIds \cup {NoUnit},
             started_us : Nat, last_activity_us : Nat, manifest : Summaries]

(* s_session as memset leaves it, and with the counters of table t.        *)
Zeroed == [state |-> "IDLE", unit_id |-> NoUnit, started_us |-> 0,
           last_activity_us |-> 0,
           manifest |-> [pending |-> 0, passed |-> 0, failed |-> 0]]

IsActive == session.state = "ACTIVE"

(* refresh_summary: s_session with its counters recomputed.                *)
Refreshed(s) == [s EXCEPT !.manifest = Summary(entries)]

(* History: what identifies the session in progress.                       *)
Tag == [unit |-> session.unit_id, started |-> session.started_us]
Tags == [unit : UnitIds \cup {NoUnit}, started : Nat]
NotMade == [t \in Tests |-> [unit |-> NoUnit, started |-> 0]]

(* Memory after a reset of the chip: .bss zeroed, the table as compiled.   *)
SessionReset ==
  /\ session = Zeroed
  /\ hasCleanup = FALSE
  /\ entries = AllPending
  /\ made = NotMade

SessionLost ==
  /\ session' = Zeroed
  /\ hasCleanup' = FALSE
  /\ entries' = AllPending
  /\ made' = NotMade
-----------------------------------------------------------------------------
(* factory_session_init, whatever the session's state: it looks at nothing *)
(* but its argument, restores no output and takes the whole table with it. *)
SessionInit(given, result) ==
  \/ ~given /\ result = "INVALID_ARGUMENT" /\ UNCHANGED sessionVars
  \/ /\ given /\ result = "OK"
     /\ ManifestReset
     /\ session' = [Zeroed EXCEPT !.manifest = Summary(AllPending)]
     /\ hasCleanup' = TRUE
     /\ made' = NotMade

(* factory_session_start: refused while a session is active; a failed      *)
(* cleanup aborts and keeps the previous unit and results.                 *)
StartArgumentsOK_AnyUnit(unit, now) == hasCleanup /\ now >= 0  \* mutant
StartArgumentsOK(unit, now) == hasCleanup /\ unit \in UnitIds /\ now >= 0

SessionStart(unit, now, cleanup, result) ==
  \/ /\ ~StartArgumentsOK(unit, now)
     /\ cleanup = "none" /\ result = "INVALID_ARGUMENT"
     /\ UNCHANGED sessionVars
  \/ /\ StartArgumentsOK(unit, now) /\ IsActive
     /\ cleanup = "none" /\ result = "INVALID_STATE"
     /\ UNCHANGED sessionVars
  \/ /\ StartArgumentsOK(unit, now) /\ ~IsActive
     /\ cleanup = "failed" /\ result = "CLEANUP"
     /\ session' = [session EXCEPT !.state = "ABORTED"]
     /\ UNCHANGED <<hasCleanup, made, entries>>
  \/ /\ StartArgumentsOK(unit, now) /\ ~IsActive
     /\ cleanup = "ok" /\ result = "OK"
     /\ ManifestReset
     /\ session' = [state |-> "ACTIVE", unit_id |-> unit, started_us |-> now,
                    last_activity_us |-> now,
                    manifest |-> Summary(AllPending)]
     /\ made' = NotMade
     /\ UNCHANGED hasCleanup

(* Mutant: a clock that went back is accepted.                             *)
SessionTouch_AnyClock(now, result) ==
  /\ result = IF IsActive THEN "OK" ELSE "INVALID_STATE"
  /\ session' = IF IsActive
                THEN [session EXCEPT !.last_activity_us = now] ELSE session
  /\ UNCHANGED <<hasCleanup, made, entries>>

(* factory_session_touch *)
SessionTouch(now, result) ==
  /\ result = IF ~IsActive THEN "INVALID_STATE"
              ELSE IF now < session.last_activity_us THEN "INVALID_ARGUMENT"
              ELSE "OK"
  /\ session' = IF result = "OK"
                THEN [session EXCEPT !.last_activity_us = now] ELSE session
  /\ UNCHANGED <<hasCleanup, made, entries>>

(* factory_session_expire *)
ExpireCheck(now) ==
  IF now < 0 THEN "INVALID_ARGUMENT"
  ELSE IF ~IsActive THEN "OK"
  ELSE IF now < session.last_activity_us THEN "INVALID_ARGUMENT"
  ELSE IF now - session.last_activity_us < Timeout THEN "OK"
  ELSE "TIMEOUT"

SessionExpire(now, cleanup, result) ==
  \/ /\ ExpireCheck(now) # "TIMEOUT"
     /\ cleanup = "none" /\ result = ExpireCheck(now)
     /\ UNCHANGED sessionVars
  \/ /\ ExpireCheck(now) = "TIMEOUT"
     /\ session' = [Refreshed(session) EXCEPT !.state = "EXPIRED"]
     /\ \/ cleanup = "ok" /\ result = "TIMEOUT"
        \/ cleanup = "failed" /\ result = "CLEANUP"
     /\ UNCHANGED <<hasCleanup, made, entries>>

(* factory_session_finish, its snapshot included: an incomplete session    *)
(* stays active, and only a cleanup that succeeds completes it.            *)
Incomplete_PendingOnly == Summary(entries).pending # 0  \* mutant

Incomplete ==
  Summary(entries).pending # 0 \/ Summary(entries).failed # 0

SessionFinish(cleanup, result) ==
  /\ \/ /\ ~IsActive
        /\ cleanup = "none" /\ result = "INVALID_STATE"
        /\ session' = Refreshed(session)
     \/ /\ IsActive /\ Incomplete
        /\ \/ cleanup = "ok" /\ result = "INCOMPLETE"
           \/ cleanup = "failed" /\ result = "CLEANUP"
        /\ session' = Refreshed(session)
     \/ /\ IsActive /\ ~Incomplete
        /\ cleanup = "ok" /\ result = "OK"
        /\ session' = [Refreshed(session) EXCEPT !.state = "COMPLETED"]
     \/ /\ IsActive /\ ~Incomplete
        /\ cleanup = "failed" /\ result = "CLEANUP"
        /\ session' = [Refreshed(session) EXCEPT !.state = "ABORTED"]
  /\ UNCHANGED <<hasCleanup, made, entries>>

(* factory_session_abort *)
SessionAbort(cleanup, result) ==
  \/ /\ ~hasCleanup
     /\ cleanup = "none" /\ result = "INVALID_STATE"
     /\ UNCHANGED sessionVars
  \/ /\ hasCleanup
     /\ session' = [Refreshed(session) EXCEPT !.state = "ABORTED"]
     /\ \/ cleanup = "ok" /\ result = "OK"
        \/ cleanup = "failed" /\ result = "CLEANUP"
     /\ UNCHANGED <<hasCleanup, made, entries>>

(* factory_session_snapshot refreshes the counters it copies out.          *)
SessionSnapshot ==
  /\ session' = Refreshed(session)
  /\ UNCHANGED <<hasCleanup, made, entries>>

(* A result written while a session exists: factory_manifest_record, with  *)
(* the session it was written in kept as history.                          *)
Record(t, actor, passed, evidence, result) ==
  /\ ManifestRecord(t, actor, passed, evidence, result)
  /\ made' = IF result = "OK" THEN [made EXCEPT ![t] = Tag] ELSE made
  /\ UNCHANGED <<session, hasCleanup>>
-----------------------------------------------------------------------------
(* Type invariant of the session and the manifest.                         *)
SessionTypeOK ==
  /\ session \in Sessions
  /\ hasCleanup \in BOOLEAN
  /\ entries \in [Tests -> Entry]
  /\ made \in [Tests -> Tags]

(* Every result in the table was recorded for the unit, and in the         *)
(* session, that s_session names: a start that is refused or whose cleanup *)
(* fails never attributes one unit's results to another, and a start that  *)
(* succeeds keeps nothing of an earlier session (factory_session_start).   *)
Traceable ==
  \A t \in Tests : entries[t].status # "PENDING" => made[t] = Tag

(* A session is completed only when every test of the table passed, in     *)
(* that session, and the counters reported with the verdict say so         *)
(* (factory_session_finish).                                               *)
VerdictSound ==
  session.state = "COMPLETED" =>
    /\ \A t \in Tests : entries[t].status = "PASS" /\ made[t] = Tag
    /\ session.manifest =
         [pending |-> 0, passed |-> Cardinality(Tests), failed |-> 0]

(* A recorded result never changes, its evidence included; it only         *)
(* disappears with the whole table, and never while a session is active    *)
(* (factory_manifest_record, factory_session_start).                       *)
ImmutableStep ==
  \A t \in Tests : entries[t].status # "PENDING" =>
    \/ entries'[t] = entries[t]
    \/ ~IsActive /\ entries' = AllPending

(* Strengthening: without a cleanup callback no session was ever started.  *)
IdleBeforeInit == ~hasCleanup => session.state = "IDLE"

SessionBase == SessionTypeOK /\ IdleBeforeInit /\ Traceable

SessionInv == SessionTypeOK /\ IdleBeforeInit /\ Traceable /\ VerdictSound
=============================================================================
