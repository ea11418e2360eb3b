----------------------- MODULE FactoryProtocol_proofs -----------------------
(***************************************************************************)
(* The whole firmware, for any table of tests, any units, any deadline and *)
(* any bound of the clock: what it says is so, an overdue session is never *)
(* served, and it implements the promise of UnitVerdict.                   *)
(***************************************************************************)
EXTENDS FactoryProtocol, FactorySession_proofs

(* The clock never lies behind the session, and the session layer has its  *)
(* cleanup exactly from the end of the boot on.                            *)
ClockInv == session.last_activity_us <= now
BootInv == pc \notin {"boot", "install", "restart"} <=> hasCleanup

(* Which commands reach the labels inside handle_request, and that the     *)
(* session found active there still is.                                    *)
LabelInv ==
  /\ pc \in {"mark", "touch"} => IsActive
  /\ pc = "mark" => request.cmd = "session.start" /\ result = "OK"
  /\ pc = "touch" => request.cmd = "fixture.record" /\ result = "OK"
  /\ pc = "snapshot" => request.cmd \in {"session.abort", "session.start",
                                         "session.list"}

(* What a success will say is so from where it is decided.                 *)
SayInv ==
  /\ pc \in {"mark", "snapshot", "cleanup", "respond"} /\ result = "OK" =>
       /\ request.cmd \in RestoringCommands => verified
       /\ pc \in {"cleanup", "respond"} =>
            /\ request.cmd = "fixture.record" => request.passed \/ verified
            /\ request.cmd = "session.finish" => session.state = "COMPLETED"
  /\ pc = "respond" /\ result \notin {"OK", "CLEANUP"} => verified
  /\ pc = "timeout" => (result = "TIMEOUT" <=> verified)

(* A session overdue when the byte was read is still so when it is         *)
(* checked, and over once it was.                                          *)
OverdueInv ==
  /\ pc = "expire" /\ overdue => TimeIsUp
  /\ pc \in {"timeout", "byte", "handle"} /\ overdue => ~IsActive

IInv == /\ SessionInv /\ LoopTypes /\ ClockInv /\ BootInv
        /\ LabelInv /\ SayInv /\ OverdueInv /\ LineExact
-----------------------------------------------------------------------------
(* What mark_identity_results records belongs to the session just started. *)
LEMMA MarkCall ==
  ASSUME SessionInv, IsActive, MarkIdentity
  PROVE  SessionInv' /\ ImmutableStep
<1> DEFINE new == [status |-> "PASS", evidence |-> StartEvidence]
<1>1. /\ entries' = [t \in Tests |-> IF t \in IdentityTests
                                     THEN new ELSE entries[t]]
      /\ made' = [t \in Tests |-> IF t \in IdentityTests
                                  THEN Tag ELSE made[t]]
      /\ UNCHANGED <<session, hasCleanup>>
  BY DEF MarkIdentity
<1>2. \A t \in IdentityTests : entries[t].status = "PENDING"
  BY DEF MarkIdentity, RecordCheck
<1>3. new \in Entry
  BY ProtocolAssumption DEF Entry, Statuses
<1>4. Tag \in Tags
  BY DEF Tag, Tags, SessionInv, SessionTypeOK, Sessions
<1>5. SessionTypeOK' /\ IdleBeforeInit'
  BY <1>1, <1>3, <1>4 DEF SessionInv, SessionTypeOK, IdleBeforeInit
<1>6. Traceable'
  BY <1>1 DEF SessionInv, Traceable, Tag
<1>7. VerdictSound'
  BY <1>1 DEF VerdictSound, IsActive
<1>8. ImmutableStep
  BY <1>1, <1>2 DEF ImmutableStep
<1> QED
  BY <1>5, <1>6, <1>7, <1>8 DEF SessionInv

(* Every step of the firmware preserves the session's invariant, and only  *)
(* a restart rewrites results.                                             *)
LEMMA SessionStep ==
  ASSUME SessionInv, LoopTypes, BootInv, LabelInv, [Next]_vars
  PROVE  SessionInv' /\ (ImmutableStep \/ SessionLost)
<1>1. now \in Int
  BY DEF LoopTypes
<1>2. CASE UNCHANGED sessionVars
  BY <1>2, EarlyReturn, InvHasBase
<1>3. CASE Forget
  BY <1>3, LostInv DEF Forget
<1>4. CASE ProtocolInit
  <2>1. CASE SessionInit(TRUE, "OK")
    BY <1>4, <2>1, InitCall, InvHasBase DEF BootInv, ProtocolInit
  <2> QED
    BY <1>2, <1>4, <2>1 DEF ProtocolInit
<1>5. CASE Expire
  BY <1>2, <1>5, ExpireCall, InvHasBase DEF Expire, CheckExpiry
<1>6. CASE Abort
  BY <1>6, AbortCall, InvHasBase DEF Abort
<1>7. CASE Start
  <2>1. CASE \E c \in CleanupCalls, r \in Results :
               SessionStart(request.unit, now, c, r)
    BY <1>1, <2>1, StartCall, InvHasBase
  <2> QED
    BY <1>2, <1>7, <2>1 DEF Start
<1>8. CASE MarkIdentity
  BY <1>8, MarkCall DEF MarkIdentity, LabelInv
<1>9. CASE List \/ RecordTouch
  BY <1>1, <1>9, TouchCall, InvHasBase DEF List, RecordTouch
<1>10. CASE FixtureRecord
  BY <1>10, RecordCall, InvHasBase DEF FixtureRecord
<1>11. CASE Finish
  BY <1>11, FinishCall, InvHasBase DEF Finish
<1>12. CASE Snapshot
  BY <1>12, SnapshotCall, InvHasBase DEF Snapshot
<1>13. CASE SafetyInit \/ SendReady \/ Read \/ TimeoutEvent \/ NoByte
            \/ CharByte \/ EmptyLine \/ DiscardedLine \/ ProcessLine
            \/ Identity \/ Safe \/ NoSession \/ Cleanup \/ Respond \/ Tick
            \/ UNCHANGED vars
  <2>1. UNCHANGED sessionVars
    BY <1>13 DEF SafetyInit, SendReady, Read, TimeoutEvent, NoByte, CharByte,
                 EmptyLine, DiscardedLine, ProcessLine, Identity, Safe,
                 NoSession, Cleanup, Respond, Tick, vars
  <2> QED
    BY <1>2, <2>1
<1> QED
  BY <1>3, <1>4, <1>5, <1>6, <1>7, <1>8, <1>9, <1>10, <1>11, <1>12, <1>13
     DEF Next, Firmware, Boot, Loop, Handle, Restart, Reset
-----------------------------------------------------------------------------
(* What each call does to the state and the time of the session, as far as *)
(* the labels and the replies depend on it.                                *)
LEMMA ExpireEffect ==
  ASSUME SessionTypeOK, ClockInv, LoopTypes,
         NEW c, NEW r, SessionExpire(now, c, r)
  PROVE  /\ UNCHANGED hasCleanup
         /\ session'.last_activity_us = session.last_activity_us
         /\ c = "none" => session' = session /\ ~TimeIsUp
         /\ c # "none" => /\ session'.state = "EXPIRED"
                          /\ c \in {"ok", "failed"}
                          /\ r = "TIMEOUT" <=> c = "ok"
<1>1. /\ session.last_activity_us \in Nat /\ now \in Int /\ 0 <= now
      /\ session.last_activity_us <= now /\ Timeout \in Nat
  BY SessionAssumption, ProtocolAssumption
     DEF SessionTypeOK, Sessions, LoopTypes, ClockInv
<1>2. ExpireCheck(now) = "TIMEOUT" <=> TimeIsUp
  BY <1>1 DEF ExpireCheck, TimeIsUp
<1>3. CASE ExpireCheck(now) # "TIMEOUT"
  BY <1>2, <1>3 DEF SessionExpire, sessionVars
<1>4. CASE ExpireCheck(now) = "TIMEOUT"
  <2>1. session' = [Refreshed(session) EXCEPT !.state = "EXPIRED"]
    BY <1>4 DEF SessionExpire
  <2>2. /\ session'.state = "EXPIRED"
        /\ session'.last_activity_us = session.last_activity_us
    BY <2>1, RefreshedSession DEF SessionTypeOK, Sessions
  <2> QED
    BY <1>4, <2>2 DEF SessionExpire
<1> QED
  BY <1>3, <1>4

LEMMA AbortEffect ==
  ASSUME SessionTypeOK, hasCleanup, NEW c, NEW r, SessionAbort(c, r)
  PROVE  /\ UNCHANGED hasCleanup
         /\ session'.last_activity_us = session.last_activity_us
         /\ session'.state = "ABORTED"
         /\ r = "OK" => c = "ok"
<1>1. session' = [Refreshed(session) EXCEPT !.state = "ABORTED"]
  BY DEF SessionAbort
<1>2. /\ session'.state = "ABORTED"
      /\ session'.last_activity_us = session.last_activity_us
  BY <1>1, RefreshedSession DEF SessionTypeOK, Sessions
<1> QED
  BY <1>2 DEF SessionAbort

LEMMA StartEffect ==
  ASSUME SessionTypeOK, NEW unit, NEW c, NEW r, SessionStart(unit, now, c, r)
  PROVE  /\ UNCHANGED hasCleanup
         /\ r = "OK" => /\ c = "ok" /\ session'.state = "ACTIVE"
                        /\ session'.last_activity_us = now
         /\ r # "OK" =>
              session'.last_activity_us = session.last_activity_us
BY DEF SessionStart, sessionVars, SessionTypeOK, Sessions

LEMMA TouchEffect ==
  ASSUME SessionTypeOK, NEW r, SessionTouch(now, r)
  PROVE  /\ UNCHANGED <<hasCleanup, entries>>
         /\ session'.state = session.state
         /\ r = "OK" => session'.last_activity_us = now
         /\ r # "OK" => session' = session
BY DEF SessionTouch, SessionTypeOK, Sessions

LEMMA FinishEffect ==
  ASSUME SessionTypeOK, NEW c, NEW r, SessionFinish(c, r)
  PROVE  /\ UNCHANGED hasCleanup
         /\ session'.last_activity_us = session.last_activity_us
         /\ r = "OK" => c = "ok" /\ session'.state = "COMPLETED"
<1>1. Refreshed(session).last_activity_us = session.last_activity_us
  BY RefreshedSession DEF SessionTypeOK, Sessions
<1>2. \A s \in States :
        LET e == [Refreshed(session) EXCEPT !.state = s] IN
        /\ e.state = s
        /\ e.last_activity_us = session.last_activity_us
  BY RefreshedSession, <1>1 DEF Sessions
<1> QED
  BY <1>1, <1>2 DEF SessionFinish, States

LEMMA SnapshotEffect ==
  ASSUME SessionTypeOK, SessionSnapshot
  PROVE  /\ UNCHANGED hasCleanup
         /\ session'.state = session.state
         /\ session'.last_activity_us = session.last_activity_us
BY RefreshedSession DEF SessionTypeOK, SessionSnapshot, Sessions
-----------------------------------------------------------------------------
(* What factory_request_parse makes of a line.                             *)
LEMMA LineShape ==
  \A l \in Lines : l.seq \in {-1, 1} /\ l.code \in Results
BY ProtocolAssumption DEF Lines, Requests, Rejected, Results

LEMMA SendType ==
  ASSUME NEW f, f.seq \in {-1, 0, 1}, f.code \in Results, Send(f)
  PROVE  out'.seq \in {-1, 0, 1} /\ out'.code \in Results \cup {"none"}
BY DEF Send, NoFrame, Fallback, Frame, Results

(* The steps that take a byte or end the line, and those that leave it.    *)
LEMMA LineStep ==
  ASSUME LineTypes, LineExact, [Next]_vars
  PROVE  LineTypes' /\ LineExact'
<1> USE ProtocolAssumption
<1>0. /\ length \in 0 .. MaxFrame /\ received \in 0 .. MaxFrame + 1
      /\ ~discard => length = received
      /\ discard <=> received > MaxFrame
  BY DEF LineTypes, LineExact
<1>1. CASE LineEnds
  <2>1. discard' \in BOOLEAN /\ ~discard'
    BY <1>1, Zenon DEF LineEnds
  <2> QED
    BY <1>1, <2>1 DEF LineEnds, LineTypes, LineExact
<1>2. CASE UNCHANGED lineVars
  <2>1. discard' \in BOOLEAN /\ (discard' <=> discard)
    BY <1>2, Zenon DEF lineVars, LineTypes
  <2> QED
    BY <1>0, <1>2, <2>1 DEF lineVars, LineTypes, LineExact
<1>3. CASE CharByte
  <2>1. received' = IF received > MaxFrame THEN received ELSE received + 1
    BY <1>3 DEF CharByte
  <2>2. \/ discard /\ UNCHANGED <<length, discard>>
        \/ ~discard /\ length < MaxFrame /\ length' = length + 1
             /\ UNCHANGED discard
        \/ ~discard /\ ~(length < MaxFrame) /\ length' = 0 /\ discard' = TRUE
    BY <1>3, Zenon DEF CharByte, Fits
  <2>3. discard' \in BOOLEAN
    BY <2>2, Zenon DEF LineTypes
  <2>4. CASE discard
    <3>1. discard' /\ length' = length
      BY <2>2, <2>4, Zenon
    <3> QED
      BY <1>0, <2>1, <2>3, <2>4, <3>1 DEF LineTypes, LineExact
  <2>5. CASE ~discard /\ length < MaxFrame
    <3>1. length' = length + 1 /\ UNCHANGED discard
      BY <2>2, <2>5
    <3>2. ~discard'
      BY <2>5, <3>1, Zenon
    <3> QED
      BY <1>0, <2>1, <2>3, <2>5, <3>1, <3>2 DEF LineTypes, LineExact
  <2>6. CASE ~discard /\ ~(length < MaxFrame)
    <3>1. discard' /\ length' = 0
      BY <2>2, <2>6, Zenon
    <3> QED
      BY <1>0, <2>1, <2>3, <2>6, <3>1 DEF LineTypes, LineExact
  <2> QED
    BY <2>4, <2>5, <2>6
<1>4. CASE ~CharByte
  <2>1. LineEnds \/ UNCHANGED lineVars
    BY <1>4
       DEF Next, Firmware, Boot, Loop, Handle, Restart, Reset, Forget, Tick,
           SafetyInit, ProtocolInit, SendReady, Read, Expire, TimeoutEvent,
           NoByte, EmptyLine, DiscardedLine, ProcessLine, Identity, Safe,
           Abort, Start, MarkIdentity, NoSession, List, FixtureRecord,
           RecordTouch, Finish, Snapshot, Cleanup, Respond, HandlerFrame,
           vars, loopVars
  <2> QED
    BY <1>1, <1>2, <2>1
<1> QED
  BY <1>3, <1>4

(* Every step keeps the ranges.                                            *)
LEMMA TypesStep ==
  ASSUME LoopTypes, LineExact, [Next]_vars
  PROVE  LoopTypes'
<1> USE DEF LoopTypes, Goto
<1>0. LineTypes'
  BY LineStep
<1> USE <1>0
<1>1. ASSUME NEW c, Cleaned(c) PROVE verified' \in BOOLEAN
  BY <1>1, Zenon DEF Cleaned
<1>2. ASSUME NEW r, SafetyApply(r) PROVE verified' \in BOOLEAN
  BY <1>2, Zenon DEF SafetyApply
<1>3. "OK" \in Results /\ "HARDWARE" \in Results /\ "NO_MEMORY" \in Results
      /\ "INVALID_STATE" \in Results /\ "CLEANUP" \in Results
      /\ "FRAME_TOO_LONG" \in Results
  BY DEF Results
<1>4. CASE Forget
  <2>1. verified' \in BOOLEAN /\ overdue' \in BOOLEAN
    BY <1>4, Zenon DEF Forget
  <2>2. out'.seq = -1 /\ out'.code = "none"
    BY <1>4 DEF Forget, NoFrame, Frame
  <2> QED
    BY <1>3, <1>4, <2>1, <2>2, ProtocolAssumption DEF Forget, Labels
<1>5. CASE Tick
  BY <1>5, ProtocolAssumption DEF Tick, loopVars
<1>6. CASE SafetyInit
  BY <1>2, <1>6 DEF SafetyInit, Labels
<1>7. CASE ProtocolInit
  BY <1>2, <1>7 DEF ProtocolInit, Labels
<1>8. CASE SendReady
  BY <1>3, <1>8, SendType DEF SendReady, Labels, Frame
<1>9. CASE Read
  <2>1. overdue' \in BOOLEAN
    BY <1>9, Zenon DEF Read, TimeIsUp, IsActive
  <2> QED
    BY <1>9, <2>1 DEF Read, Labels, NoFrame, Frame
<1>10. CASE Expire
  BY <1>1, <1>10 DEF Expire, Labels
<1>11. CASE TimeoutEvent
  BY <1>3, <1>11, SendType DEF TimeoutEvent, Labels, Frame
<1>12. CASE NoByte \/ CharByte \/ EmptyLine
  BY <1>2, <1>12 DEF NoByte, CharByte, EmptyLine, Labels
<1>13. CASE DiscardedLine
  BY <1>3, <1>13, SendType DEF DiscardedLine, Labels, Frame
<1>14. CASE ProcessLine
  BY <1>14, LineShape DEF ProcessLine, Labels
<1>15. CASE Identity \/ Safe \/ NoSession
  BY <1>2, <1>3, <1>15 DEF Identity, Safe, NoSession, HandlerFrame, Labels
<1>16. CASE Abort \/ Start \/ Finish
  BY <1>1, <1>3, <1>16 DEF Abort, Start, Finish, HandlerFrame, Labels
<1>17. CASE MarkIdentity \/ Snapshot
  BY <1>17 DEF MarkIdentity, Snapshot, HandlerFrame, Labels
<1>18. CASE List \/ FixtureRecord
  BY <1>3, <1>18 DEF List, FixtureRecord, HandlerFrame, Labels
<1>19. CASE RecordTouch
  BY <1>2, <1>3, <1>19 DEF RecordTouch, HandlerFrame, Labels
<1>20. CASE Cleanup
  BY <1>1, <1>20 DEF Cleanup, HandlerFrame, Labels
<1>21. CASE Respond
  <2>1. request.seq \in {-1, 1}
    BY LineShape DEF NoRequest
  <2> QED
    BY <1>3, <1>21, <2>1, SendType DEF Respond, Labels, Frame
<1>22. CASE UNCHANGED vars
  BY <1>22 DEF vars, loopVars
<1> QED
  BY <1>4, <1>5, <1>6, <1>7, <1>8, <1>9, <1>10, <1>11, <1>12, <1>13, <1>14,
     <1>15, <1>16, <1>17, <1>18, <1>19, <1>20, <1>21, <1>22
     DEF Next, Firmware, Boot, Loop, Handle, Restart, Reset
-----------------------------------------------------------------------------
(* The steps that leave the session alone, and those that only look at it  *)
(* or at the table.                                                        *)
Aside == \/ SafetyInit \/ SendReady \/ Read \/ TimeoutEvent \/ NoByte
         \/ CharByte \/ EmptyLine \/ DiscardedLine \/ ProcessLine
         \/ Identity \/ Safe \/ NoSession \/ Cleanup \/ Respond
         \/ MarkIdentity \/ FixtureRecord

LEMMA AsideStep ==
  ASSUME Aside
  PROVE  UNCHANGED <<session, hasCleanup, now>>
BY DEF Aside, SafetyInit, SendReady, Read, TimeoutEvent, NoByte, CharByte,
       EmptyLine, DiscardedLine, ProcessLine, Identity, Safe, NoSession,
       Cleanup, Respond, MarkIdentity, FixtureRecord, Record, HandlerFrame,
       sessionVars

(* The firmware's clock runs ahead of its session, and the session layer   *)
(* is initialised exactly where the boot says so.                          *)
LEMMA ClockStep ==
  ASSUME IInv, [Next]_vars
  PROVE  ClockInv'
<1> USE DEF ClockInv
<1>0. /\ SessionTypeOK /\ LoopTypes /\ now \in Int
      /\ session.last_activity_us \in Nat /\ ClockInv
  BY DEF IInv, SessionInv, SessionTypeOK, Sessions, LoopTypes
<1>1. CASE Aside
  BY <1>0, <1>1, AsideStep
<1>2. CASE Tick
  BY <1>0, <1>2 DEF Tick, sessionVars
<1>3. CASE Forget
  BY <1>3 DEF Forget, SessionLost, Zeroed
<1>4. CASE ProtocolInit
  <2>1. CASE SessionInit(TRUE, "OK")
    <3>1. session' = [Zeroed EXCEPT !.manifest = Summary(AllPending)]
      BY <2>1 DEF SessionInit
    <3>2. session'.last_activity_us = 0
      BY <3>1 DEF Zeroed
    <3> QED
      BY <1>0, <1>4, <3>2 DEF ProtocolInit, LoopTypes
  <2> QED
    BY <1>0, <1>4, <2>1 DEF ProtocolInit, sessionVars
<1>5. CASE Expire
  BY <1>0, <1>5, ExpireEffect DEF Expire, CheckExpiry
<1>6. CASE Abort
  <2>1. hasCleanup
    BY <1>6 DEF Abort, Handling, IInv, BootInv
  <2> QED
    BY <1>0, <1>6, <2>1, AbortEffect DEF Abort, HandlerFrame
<1>7. CASE Start
  BY <1>0, <1>7, StartEffect DEF Start, HandlerFrame, sessionVars
<1>8. CASE List \/ RecordTouch
  BY <1>0, <1>8, TouchEffect DEF List, RecordTouch, HandlerFrame
<1>9. CASE Finish
  BY <1>0, <1>9, FinishEffect DEF Finish, HandlerFrame
<1>10. CASE Snapshot
  BY <1>0, <1>10, SnapshotEffect DEF Snapshot, HandlerFrame
<1>11. CASE UNCHANGED vars
  BY <1>0, <1>11 DEF vars, sessionVars
<1> QED
  BY <1>1, <1>2, <1>3, <1>4, <1>5, <1>6, <1>7, <1>8, <1>9, <1>10, <1>11
     DEF Aside, Next, Firmware, Boot, Loop, Handle, Restart, Reset

LEMMA BootStep ==
  ASSUME IInv, [Next]_vars
  PROVE  BootInv'
<1> USE DEF BootInv, Goto
<1>0. SessionTypeOK /\ LoopTypes /\ ClockInv /\ BootInv
  BY DEF IInv, SessionInv
<1>1. CASE SafetyInit
  BY <1>0, <1>1 DEF SafetyInit, sessionVars
<1>2. CASE ProtocolInit
  <2>1. CASE SessionInit(TRUE, "OK") /\ pc' = "ready"
    BY <2>1 DEF SessionInit
  <2>2. CASE UNCHANGED sessionVars /\ pc' = "restart"
    BY <1>0, <1>2, <2>2 DEF ProtocolInit, sessionVars
  <2> QED
    BY <1>2, <2>1, <2>2 DEF ProtocolInit
<1>3. CASE Forget
  BY <1>3 DEF Forget, SessionLost
<1>4. CASE Tick \/ UNCHANGED vars
  BY <1>0, <1>4 DEF Tick, vars, sessionVars, loopVars
<1>5. CASE Firmware /\ ~Restart /\ ~SafetyInit /\ ~ProtocolInit
  <2>1. pc \notin {"boot", "install", "restart"}
        /\ pc' \notin {"boot", "install", "restart"}
    BY <1>5 DEF Firmware, Boot, Loop, Handle, SendReady, Read, Expire,
       TimeoutEvent, NoByte, CharByte, EmptyLine, DiscardedLine, ProcessLine,
       Identity, Safe, Abort, Start, MarkIdentity, NoSession, List,
       FixtureRecord, RecordTouch, Finish, Snapshot, Cleanup, Respond,
       Handling, InSession
  <2>2. hasCleanup
    BY <1>0, <2>1
  <2>3. UNCHANGED hasCleanup
    <3>1. CASE Aside
      BY <3>1, AsideStep
    <3>2. CASE Expire \/ Abort \/ Start
      BY <1>0, <2>2, <3>2, ExpireEffect, AbortEffect, StartEffect
         DEF Expire, CheckExpiry, Abort, Start, sessionVars
    <3>3. CASE List \/ RecordTouch \/ Finish \/ Snapshot
      BY <1>0, <3>3, TouchEffect, FinishEffect, SnapshotEffect
         DEF List, RecordTouch, Finish, Snapshot
    <3> QED
      BY <1>5, <3>1, <3>2, <3>3
         DEF Aside, Firmware, Boot, Loop, Handle
  <2> QED
    BY <2>1, <2>2, <2>3, Zenon
<1> QED
  BY <1>1, <1>2, <1>3, <1>4, <1>5 DEF Next, Firmware, Boot, Restart, Reset
-----------------------------------------------------------------------------
(* The steps after which the task is outside the commands, and those that  *)
(* go straight to the reply.                                               *)
Outside == \/ SafetyInit \/ ProtocolInit \/ SendReady \/ Read \/ Expire
           \/ TimeoutEvent \/ NoByte \/ CharByte \/ EmptyLine
           \/ DiscardedLine \/ Respond \/ Forget

LEMMA OutsideStep ==
  ASSUME Outside
  PROVE  pc' \notin {"handle", "mark", "touch", "snapshot", "cleanup",
                     "respond"}
BY DEF Outside, SafetyInit, ProtocolInit, SendReady, Read, Expire,
       TimeoutEvent, NoByte, CharByte, EmptyLine, DiscardedLine, Respond,
       Forget, Goto

LEMMA LabelStep ==
  ASSUME IInv, [Next]_vars
  PROVE  LabelInv'
<1> USE DEF LabelInv, Goto, Handling, HandlerFrame
<1>0. SessionTypeOK /\ LoopTypes /\ LabelInv
  BY DEF IInv, SessionInv
<1>1. CASE Outside
  BY <1>1, OutsideStep
<1>2. CASE ProcessLine \/ Identity \/ Safe \/ NoSession \/ RecordTouch
           \/ Finish \/ Snapshot \/ Cleanup
  BY <1>2 DEF ProcessLine, Identity, Safe, NoSession, RecordTouch, Finish,
              Snapshot, Cleanup
<1>3. CASE Abort
  BY <1>3 DEF Abort
<1>4. CASE Start
  BY <1>0, <1>4, StartEffect DEF Start, IsActive
<1>5. CASE MarkIdentity
  BY <1>0, <1>5 DEF MarkIdentity
<1>6. CASE List
  BY <1>6 DEF List, InSession
<1>7. CASE FixtureRecord
  BY <1>7 DEF FixtureRecord, InSession, NeedSession, Record, IsActive
<1>8. CASE Tick \/ UNCHANGED vars
  BY <1>0, <1>8 DEF Tick, vars, sessionVars, loopVars, IsActive
<1> QED
  BY <1>1, <1>2, <1>3, <1>4, <1>5, <1>6, <1>7, <1>8
     DEF Outside, Next, Firmware, Boot, Loop, Handle, Restart, Reset

LEMMA SayStep ==
  ASSUME IInv, [Next]_vars
  PROVE  SayInv'
<1> USE DEF SayInv, Goto, Handling, HandlerFrame, RestoringCommands
<1>0. SessionTypeOK /\ LoopTypes /\ ClockInv /\ LabelInv /\ SayInv
  BY DEF IInv, SessionInv
<1>1. CASE Outside /\ ~Expire
  <2>1. pc' # "timeout"
    BY <1>1 DEF Outside, SafetyInit, ProtocolInit, SendReady, Read,
       TimeoutEvent, NoByte, CharByte, EmptyLine, DiscardedLine, Respond,
       Forget
  <2> QED
    BY <1>1, <2>1, OutsideStep
<1>2. CASE Expire
  <2>1. PICK c \in CleanupCalls, r \in Results :
               /\ SessionExpire(now, c, r) /\ Cleaned(c)
               /\ \/ c = "none" /\ pc' = "byte"
                  \/ c # "none" /\ pc' = "timeout" /\ result' = r
    BY <1>2 DEF Expire, CheckExpiry
  <2>2. c # "none" => (r = "TIMEOUT" <=> c = "ok")
    BY <1>0, <2>1, ExpireEffect
  <2>3. c # "none" => (verified' <=> c = "ok")
    BY <2>1, Zenon DEF Cleaned
  <2>4. CASE pc' = "timeout"
    <3>1. c # "none" /\ result' = r
      BY <2>1, <2>4
    <3>2. result' = "TIMEOUT" <=> verified'
      BY <2>2, <2>3, <3>1, Zenon
    <3> QED
      BY <2>4, <3>2
  <2> QED
    BY <2>1, <2>4
<1>3. CASE ProcessLine \/ Identity \/ NoSession
  BY <1>3 DEF ProcessLine, Identity, NoSession, NeedSession
<1>4. CASE Safe
  BY <1>4 DEF Safe, SafetyApply
<1>5. CASE Abort
  BY <1>0, <1>5, AbortEffect DEF Abort, Cleaned, IInv, BootInv
<1>6. CASE Start
  BY <1>0, <1>6, StartEffect DEF Start, Cleaned
<1>7. CASE MarkIdentity
  BY <1>0, <1>7 DEF MarkIdentity, LabelInv
<1>8. CASE List
  BY <1>8 DEF List, InSession
<1>9. CASE FixtureRecord
  BY <1>9 DEF FixtureRecord, InSession
<1>10. CASE RecordTouch
  BY <1>0, <1>10 DEF RecordTouch, LabelInv, RestoresOutputs, SafetyApply
<1>11. CASE Finish
  BY <1>0, <1>11, FinishEffect DEF Finish, InSession, Cleaned
<1>12. CASE Snapshot
  BY <1>0, <1>12 DEF Snapshot, LabelInv
<1>13. CASE Cleanup
  BY <1>0, <1>13 DEF Cleanup, ErrorCleanup, Cleaned, sessionVars
<1>14. CASE Tick \/ UNCHANGED vars
  BY <1>0, <1>14 DEF Tick, vars, sessionVars, loopVars
<1> QED
  BY <1>1, <1>2, <1>3, <1>4, <1>5, <1>6, <1>7, <1>8, <1>9, <1>10, <1>11,
     <1>12, <1>13, <1>14
     DEF Outside, Next, Firmware, Boot, Loop, Handle, Restart, Reset

LEMMA OverdueStep ==
  ASSUME IInv, [Next]_vars
  PROVE  OverdueInv'
<1> USE DEF OverdueInv, Goto, Handling, HandlerFrame
<1>0. /\ SessionTypeOK /\ LoopTypes /\ ClockInv /\ OverdueInv
      /\ now \in Int /\ session.last_activity_us \in Nat /\ Timeout \in Nat
  BY SessionAssumption
     DEF IInv, SessionInv, SessionTypeOK, Sessions, LoopTypes
<1>1. CASE Read
  BY <1>1 DEF Read, TimeIsUp, IsActive, sessionVars
<1>2. CASE Expire
  <2>1. PICK c \in CleanupCalls, r \in Results :
               SessionExpire(now, c, r) /\ UNCHANGED overdue
                 /\ pc' \in {"byte", "timeout"}
    BY <1>2 DEF Expire, CheckExpiry
  <2>2. overdue => TimeIsUp
    BY <1>0, <1>2 DEF Expire
  <2>3. overdue => session'.state = "EXPIRED"
    BY <1>0, <2>1, <2>2, ExpireEffect
  <2> QED
    BY <2>1, <2>3 DEF IsActive
<1>3. CASE TimeoutEvent \/ ProcessLine
  BY <1>0, <1>3 DEF TimeoutEvent, ProcessLine, IsActive, sessionVars
<1>4. CASE Tick
  BY <1>0, <1>4 DEF Tick, loopVars, sessionVars, TimeIsUp, IsActive
<1>5. CASE UNCHANGED vars
  BY <1>0, <1>5 DEF vars, loopVars, sessionVars, TimeIsUp, IsActive
<1>6. CASE Firmware /\ ~Read /\ ~Expire /\ ~TimeoutEvent /\ ~ProcessLine
  <2>1. pc' \notin {"expire", "timeout", "byte", "handle"}
    BY <1>6 DEF Firmware, Boot, Loop, Handle, SafetyInit, ProtocolInit,
       Restart, Forget, SendReady, NoByte, CharByte, EmptyLine,
       DiscardedLine, Identity, Safe, Abort, Start, MarkIdentity, NoSession,
       List, FixtureRecord, RecordTouch, Finish, Snapshot, Cleanup, Respond
  <2> QED
    BY <2>1
<1>7. CASE Reset
  BY <1>7 DEF Reset, Forget
<1> QED
  BY <1>1, <1>2, <1>3, <1>4, <1>5, <1>6, <1>7 DEF Next
-----------------------------------------------------------------------------
LEMMA InitIInv == Init => IInv
<1> SUFFICES ASSUME Init PROVE IInv
  OBVIOUS
<1>1. SessionInv
  BY ResetInv DEF Init
<1>2. verified \in BOOLEAN /\ overdue \in BOOLEAN
  BY Zenon DEF Init
<1>3. out.seq = -1 /\ out.code = "none"
  BY DEF Init, NoFrame, Frame
<1>4. LineTypes /\ LineExact
  <2>1. discard \in BOOLEAN /\ ~discard
    BY Zenon DEF Init
  <2> QED
    BY <2>1, ProtocolAssumption DEF Init, LineTypes, LineExact
<1>5. LoopTypes
  BY <1>2, <1>3, <1>4, ProtocolAssumption
     DEF Init, LoopTypes, Labels, Results
<1>6. ClockInv /\ BootInv
  BY DEF Init, SessionReset, ClockInv, BootInv, Zeroed
<1>7. LabelInv /\ SayInv /\ OverdueInv
  BY DEF Init, LabelInv, SayInv, OverdueInv
<1> QED
  BY <1>1, <1>4, <1>5, <1>6, <1>7 DEF IInv

(* The inductive invariant of the firmware.                                *)
THEOREM FirmwareInvariant == Spec => []IInv
<1>1. IInv /\ [Next]_vars => IInv'
  BY SessionStep, TypesStep, LineStep, ClockStep, BootStep, LabelStep,
     SayStep, OverdueStep DEF IInv, LoopTypes
<1> QED
  BY InitIInv, <1>1, PTL DEF Spec

(* Type correctness of the session and of the task.                        *)
THEOREM TypeCorrect == Spec => []TypeOK
<1>1. IInv => TypeOK
  BY DEF IInv, SessionInv, TypeOK
<1> QED
  BY <1>1, FirmwareInvariant, PTL

(* What the firmware says about the outputs is so when it says it          *)
(* (process_line, handle_request, factory_protocol_run).                   *)
THEOREM SaidIsSo == Spec => []SafeWhenSaid
<1>1. IInv => SafeWhenSaid
  BY Zenon DEF IInv, SayInv, SafeWhenSaid
<1> QED
  BY <1>1, FirmwareInvariant, PTL

(* A pass is told only of a completed session whose every test passed in   *)
(* it, with the outputs verified (handle_request).                         *)
THEOREM ToldIsReached == Spec => []PassTold
<1>1. IInv => PassTold
  <2> SUFFICES ASSUME IInv, pc = "respond", result = "OK",
                      request.cmd = "session.finish"
               PROVE  /\ session.state = "COMPLETED" /\ verified
                      /\ \A t \in Tests : entries[t].status = "PASS"
                                            /\ made[t] = Tag
    BY DEF PassTold
  <2>1. session.state = "COMPLETED" /\ verified
    BY DEF IInv, SayInv, RestoringCommands
  <2> QED
    BY <2>1 DEF IInv, SessionInv, VerdictSound
<1> QED
  BY <1>1, FirmwareInvariant, PTL

(* A line completed after the deadline never finds its session active      *)
(* (factory_protocol_run).                                                 *)
THEOREM NeverServedLate == Spec => []OverdueNeverServed
<1>1. IInv => OverdueNeverServed
  BY DEF IInv, OverdueInv, OverdueNeverServed
<1> QED
  BY <1>1, FirmwareInvariant, PTL

(* A line of MaxFrame bytes is processed, a longer one is discarded, and   *)
(* the buffer never mixes two lines (factory_protocol_run).                *)
THEOREM LinesExact == Spec => []LineExact
<1>1. IInv => LineExact
  BY DEF IInv
<1> QED
  BY <1>1, FirmwareInvariant, PTL

(* Touching a session never fails, and a command keeps the session it      *)
(* found (handle_request).                                                 *)
THEOREM CommandKeepsSession == Spec => []InCommand
<1>1. IInv => InCommand
  BY DEF IInv, ClockInv, BootInv, LabelInv, InCommand
<1> QED
  BY <1>1, FirmwareInvariant, PTL
-----------------------------------------------------------------------------
(* No step of the firmware records a test that is neither the station's    *)
(* nor one of those recorded at a start, so no session with such a test    *)
(* ever completes.                                                         *)
LEMMA UnimplementedStep ==
  ASSUME IInv, UnimplementedPending, [Next]_vars
  PROVE  UnimplementedPending'
<1> SUFFICES ASSUME NEW t \in Tests \ (StationTests \cup IdentityTests)
             PROVE  /\ entries'[t].status = "PENDING"
                    /\ session'.state # "COMPLETED"
  BY DEF UnimplementedPending
<1> USE DEF Goto
<1>0. /\ SessionTypeOK /\ LoopTypes /\ ClockInv /\ BootInv
      /\ entries[t].status = "PENDING" /\ session.state # "COMPLETED"
  BY DEF UnimplementedPending, IInv, SessionInv
<1>1. CASE UNCHANGED <<session, entries>>
  BY <1>0, <1>1
<1>2. CASE Forget
  BY <1>2 DEF Forget, SessionLost, Zeroed, AllPending
<1>3. CASE ProtocolInit
  <2>1. CASE SessionInit(TRUE, "OK")
    BY <2>1 DEF SessionInit, ManifestReset, AllPending, Zeroed
  <2> QED
    BY <1>1, <1>3, <2>1 DEF ProtocolInit, sessionVars
<1>4. CASE Expire
  <2>1. UNCHANGED entries
    BY <1>4 DEF Expire, CheckExpiry, SessionExpire, sessionVars
  <2> QED
    BY <1>0, <1>4, <2>1, ExpireEffect DEF Expire, CheckExpiry
<1>5. CASE Abort
  <2>1. UNCHANGED entries /\ hasCleanup
    BY <1>0, <1>5 DEF Abort, SessionAbort, sessionVars, Handling, BootInv
  <2> QED
    BY <1>0, <1>5, <2>1, AbortEffect DEF Abort
<1>6. CASE Start
  BY <1>0, <1>6
     DEF Start, SessionStart, sessionVars, ManifestReset, AllPending,
         SessionTypeOK, Sessions
<1>7. CASE MarkIdentity
  BY <1>0, <1>7 DEF MarkIdentity
<1>8. CASE List \/ RecordTouch
  <2>1. UNCHANGED entries
    BY <1>8 DEF List, RecordTouch, SessionTouch
  <2> QED
    BY <1>0, <1>8, <2>1, TouchEffect DEF List, RecordTouch
<1>9. CASE FixtureRecord
  <2>1. PICK r \in Results :
          Record(request.test, "STATION", request.passed, request.evidence, r)
    BY <1>9 DEF FixtureRecord
  <2>2. r = "OK" => request.test # t
    BY <2>1 DEF Record, ManifestRecord, RecordCheck, Owner
  <2>3. entries'[t] = entries[t] /\ UNCHANGED session
    BY <1>0, <2>1, <2>2 DEF Record, ManifestRecord, SessionTypeOK
  <2> QED
    BY <1>0, <2>3
<1>10. CASE Finish
  <2>1. PICK c \in CleanupCalls, r \in Results : SessionFinish(c, r)
    BY <1>10 DEF Finish
  <2>2. Incomplete
    BY <1>0, SummaryComplete DEF Incomplete, SessionTypeOK
  <2>3. session' = Refreshed(session) \/ ~IsActive
    BY <2>1, <2>2 DEF SessionFinish
  <2>4. session' = Refreshed(session) /\ UNCHANGED entries
    BY <2>1, <2>3 DEF SessionFinish
  <2> QED
    BY <1>0, <2>4, RefreshedSession DEF SessionTypeOK, Sessions
<1>11. CASE Snapshot
  BY <1>0, <1>11, SnapshotEffect DEF Snapshot, SessionSnapshot
<1>12. CASE Aside /\ ~MarkIdentity /\ ~FixtureRecord
  BY <1>0, <1>12
     DEF Aside, SafetyInit, SendReady, Read, TimeoutEvent, NoByte, CharByte,
         EmptyLine, DiscardedLine, ProcessLine, Identity, Safe, NoSession,
         Cleanup, Respond, sessionVars
<1>13. CASE Tick \/ UNCHANGED vars
  BY <1>0, <1>13 DEF Tick, vars, sessionVars
<1> QED
  BY <1>2, <1>3, <1>4, <1>5, <1>6, <1>7, <1>8, <1>9, <1>10, <1>11, <1>12,
     <1>13 DEF Aside, Next, Firmware, Boot, Loop, Handle, Restart, Reset

(* A phase that does not implement a test passes no board                  *)
(* (factory_manifest_record, factory_session_finish).                      *)
THEOREM NoPassUnimplemented == Spec => []UnimplementedPending
<1>1. Init => UnimplementedPending
  BY DEF Init, SessionReset, Zeroed, AllPending, UnimplementedPending
<1>2. IInv /\ UnimplementedPending /\ [Next]_vars => UnimplementedPending'
  BY UnimplementedStep
<1> QED
  BY <1>1, <1>2, FirmwareInvariant, PTL DEF Spec
-----------------------------------------------------------------------------
(* How the session's state shows the phase, before and after a step.       *)
LEMMA PhaseNow ==
  /\ session.state = "IDLE" => Phase = "none"
  /\ session.state = "ACTIVE" <=> Phase = "open"
  /\ session.state = "COMPLETED" => Phase = "passed"
  /\ session.state \in {"EXPIRED", "ABORTED"} => Phase = "closed"
BY Zenon DEF Phase

LEMMA PhaseNext ==
  /\ session'.state = "IDLE" => Phase' = "none"
  /\ session'.state = "ACTIVE" <=> Phase' = "open"
  /\ session'.state = "COMPLETED" => Phase' = "passed"
  /\ session'.state \in {"EXPIRED", "ABORTED"} => Phase' = "closed"
  /\ session'.state = session.state => Phase' = Phase
BY Zenon DEF Phase

Sheet == [t \in Tests |-> entries[t].status]

(* Every step of the firmware is a step of the promise, or changes nothing *)
(* of what the promise speaks of.                                          *)
LEMMA VerdictStep ==
  ASSUME IInv, [Next]_vars
  PROVE  Verdict!Next \/ UNCHANGED <<Phase, Sheet>>
<1> USE DEF Goto
<1>0. /\ SessionTypeOK /\ LoopTypes /\ ClockInv /\ BootInv /\ LabelInv
      /\ VerdictSound
  BY DEF IInv, SessionInv
<1>1. CASE session'.state = session.state /\ UNCHANGED entries
  BY <1>1, PhaseNext DEF Sheet
<1>2. CASE UNCHANGED entries /\ session'.state \in {"EXPIRED", "ABORTED"}
  <2>1. Phase' = "closed" /\ UNCHANGED Sheet
    BY <1>2, PhaseNext DEF Sheet
  <2> QED
    BY <2>1 DEF Verdict!Next, Verdict!Close, Sheet
<1>3. CASE session'.state = "IDLE" /\ entries' = AllPending
  <2>1. Phase' = "none" /\ Sheet' = Verdict!Blank
    BY <1>3, PhaseNext DEF Sheet, AllPending, Verdict!Blank
  <2> QED
    BY <2>1 DEF Verdict!Next, Verdict!Restart, Sheet
<1>4. CASE Forget
  BY <1>3, <1>4 DEF Forget, SessionLost, Zeroed
<1>5. CASE ProtocolInit
  <2>1. CASE SessionInit(TRUE, "OK")
    BY <1>3, <2>1 DEF SessionInit, ManifestReset, Zeroed
  <2> QED
    BY <1>1, <1>5, <2>1 DEF ProtocolInit, sessionVars
<1>6. CASE Expire
  <2>1. UNCHANGED entries
    BY <1>6 DEF Expire, CheckExpiry, SessionExpire, sessionVars
  <2>2. session' = session \/ session'.state = "EXPIRED"
    BY <1>0, <1>6, ExpireEffect DEF Expire, CheckExpiry
  <2> QED
    BY <1>1, <1>2, <2>1, <2>2
<1>7. CASE Abort
  <2>1. UNCHANGED entries /\ hasCleanup
    BY <1>0, <1>7 DEF Abort, SessionAbort, sessionVars, Handling, BootInv
  <2> QED
    BY <1>0, <1>2, <1>7, <2>1, AbortEffect DEF Abort
<1>8. CASE Start
  <2>1. CASE UNCHANGED sessionVars
    BY <1>1, <2>1 DEF sessionVars
  <2>2. CASE /\ session' = [session EXCEPT !.state = "ABORTED"]
             /\ UNCHANGED entries
    BY <1>0, <1>2, <2>2 DEF SessionTypeOK, Sessions
  <2>3. CASE ~IsActive /\ entries' = AllPending /\ session'.state = "ACTIVE"
    <3>1. /\ Phase # "open" /\ Phase' = "open"
          /\ Sheet' = Verdict!Blank
      BY <2>3, PhaseNow, PhaseNext
         DEF IsActive, Sheet, AllPending, Verdict!Blank
    <3> QED
      BY <3>1 DEF Verdict!Next, Verdict!Open, Sheet
  <2> QED
    BY <1>8, <2>1, <2>2, <2>3 DEF Start, SessionStart, ManifestReset
<1>9. CASE /\ IsActive /\ UNCHANGED session /\ entries' \in [Tests -> Entry]
           /\ \A t \in Tests : entries[t].status # "PENDING" =>
                entries'[t] = entries[t]
  <2>1. Phase = "open" /\ Phase' = Phase
    BY <1>9, PhaseNow, PhaseNext DEF IsActive
  <2>2. /\ Sheet' \in [Tests -> {"PENDING", "PASS", "FAIL"}]
        /\ \A t \in Tests : Sheet[t] # "PENDING" => Sheet'[t] = Sheet[t]
    BY <1>9 DEF Sheet, Entry, Statuses
  <2> QED
    BY <2>1, <2>2 DEF Verdict!Next, Verdict!Note, Sheet
<1>10. CASE MarkIdentity
  <2>1. entries' \in [Tests -> Entry]
    BY <1>10, SessionStep DEF IInv, SessionInv, SessionTypeOK
  <2> QED
    BY <1>0, <1>9, <1>10, <2>1 DEF MarkIdentity, LabelInv, RecordCheck
<1>11. CASE List \/ RecordTouch
  <2>1. UNCHANGED entries
    BY <1>11 DEF List, RecordTouch, SessionTouch
  <2>2. session'.state = session.state
    BY <1>0, <1>11, TouchEffect DEF List, RecordTouch, IsActive
  <2> QED
    BY <1>1, <2>1, <2>2
<1>12. CASE FixtureRecord
  <2>1. IsActive
    BY <1>12 DEF FixtureRecord, InSession, NeedSession
  <2>2. PICK r \in Results :
          Record(request.test, "STATION", request.passed, request.evidence, r)
    BY <1>12 DEF FixtureRecord
  <2>3. entries' \in [Tests -> Entry]
    BY <1>12, SessionStep DEF IInv, SessionInv, SessionTypeOK
  <2>4. \A t \in Tests : entries[t].status # "PENDING" =>
          entries'[t] = entries[t]
    BY <1>0, <2>2
       DEF Record, ManifestRecord, RecordCheck, SessionTypeOK
  <2> QED
    BY <1>9, <2>1, <2>2, <2>3, <2>4 DEF Record
<1>13. CASE Finish
  <2>1. PICK c \in CleanupCalls, r \in Results : SessionFinish(c, r)
    BY <1>13 DEF Finish
  <2>2. UNCHANGED entries
    BY <2>1 DEF SessionFinish
  <2>3. CASE session' = Refreshed(session)
    BY <1>0, <1>1, <2>2, <2>3, RefreshedSession DEF SessionTypeOK, Sessions
  <2>4. CASE session' = [Refreshed(session) EXCEPT !.state = "ABORTED"]
    <3>1. session'.state = "ABORTED"
      BY <1>0, <2>4, RefreshedSession DEF Sessions
    <3> QED
      BY <1>2, <2>2, <3>1
  <2>5. CASE /\ IsActive /\ ~Incomplete
             /\ session' = [Refreshed(session) EXCEPT !.state = "COMPLETED"]
    <3>1. session'.state = "COMPLETED"
      BY <1>0, <2>5, RefreshedSession DEF Sessions
    <3>2. \A t \in Tests : entries[t].status = "PASS"
      BY <1>0, <2>5, SummaryComplete DEF Incomplete, SessionTypeOK
    <3>3. /\ Phase = "open" /\ Phase' = "passed" /\ UNCHANGED Sheet
          /\ \A t \in Tests : Sheet[t] = "PASS"
      BY <2>2, <2>5, <3>1, <3>2, PhaseNow, PhaseNext DEF IsActive, Sheet
    <3> QED
      BY <3>3 DEF Verdict!Next, Verdict!Pass, Sheet
  <2> QED
    BY <2>1, <2>3, <2>4, <2>5 DEF SessionFinish
<1>14. CASE Snapshot
  BY <1>0, <1>1, <1>14, SnapshotEffect DEF Snapshot, SessionSnapshot
<1>15. CASE Aside /\ ~MarkIdentity /\ ~FixtureRecord
  BY <1>1, <1>15
     DEF Aside, SafetyInit, SendReady, Read, TimeoutEvent, NoByte, CharByte,
         EmptyLine, DiscardedLine, ProcessLine, Identity, Safe, NoSession,
         Cleanup, Respond, sessionVars
<1>16. CASE Tick \/ UNCHANGED vars
  BY <1>1, <1>16 DEF Tick, vars, sessionVars
<1> QED
  BY <1>4, <1>5, <1>6, <1>7, <1>8, <1>10, <1>11, <1>12, <1>13, <1>14, <1>15,
     <1>16 DEF Aside, Next, Firmware, Boot, Loop, Handle, Restart, Reset

(* The whole firmware implements the promise about one board.              *)
THEOREM KeepsPromise == Spec => ImplementsUnitVerdict
<1>1. Init => Verdict!Init
  BY PhaseNow
     DEF Init, SessionReset, Zeroed, AllPending, Verdict!Init, Verdict!Blank
<1>2. IInv /\ [Next]_vars => [Verdict!Next]_(Verdict!vars)
  BY VerdictStep DEF Verdict!vars, Sheet
<1> QED
  BY <1>1, <1>2, FirmwareInvariant, PTL
     DEF Spec, ImplementsUnitVerdict, Verdict!Spec
-----------------------------------------------------------------------------
(* A result that was recorded never changes, its value, unit and detail    *)
(* included, whatever the station sends and whatever fails: it goes with   *)
(* the whole table, at the start of a session or with the chip's memory    *)
(* (factory_manifest_record, mark_identity_results).                       *)
THEOREM ResultsKept == Spec => [][ImmutableStep \/ SessionLost]_vars
<1>1. IInv /\ [Next]_vars => ImmutableStep \/ SessionLost
  BY SessionStep DEF IInv
<1> QED
  BY <1>1, FirmwareInvariant, PTL DEF Spec

(* Between the start of a session and the recording of its identity tests  *)
(* nothing is recorded.                                                    *)
FreshAtMark == pc = "mark" => entries = AllPending

LEMMA FreshStep ==
  ASSUME FreshAtMark, [Next]_vars
  PROVE  FreshAtMark'
<1> SUFFICES ASSUME pc' = "mark" PROVE entries' = AllPending
  BY DEF FreshAtMark
<1> USE DEF Goto
<1>1. CASE pc = "mark" /\ (Tick \/ UNCHANGED vars)
  BY <1>1 DEF FreshAtMark, Tick, vars, loopVars, sessionVars
<1>2. CASE Start
  <2>1. PICK c \in CleanupCalls, r \in Results :
          /\ SessionStart(request.unit, now, c, r)
          /\ Goto(IF r = "OK" THEN "mark" ELSE "cleanup")
    BY <1>2 DEF Start
  <2> QED
    BY <2>1 DEF SessionStart, ManifestReset
<1>3. CASE Forget
  BY <1>3 DEF Forget
<1>4. CASE Boot /\ ~Forget
  BY <1>4 DEF Boot, SafetyInit, ProtocolInit, Restart, SendReady
<1>5. CASE Loop
  BY <1>5 DEF Loop, Read, Expire, CheckExpiry, TimeoutEvent, NoByte,
              CharByte, EmptyLine, DiscardedLine, ProcessLine
<1>6. CASE Handle /\ ~Start
  BY <1>6 DEF Handle, Identity, Safe, Abort, MarkIdentity, NoSession, List,
              FixtureRecord, RecordTouch, Finish, Snapshot, Cleanup, Respond
<1>7. CASE Tick \/ UNCHANGED vars
  BY <1>1, <1>7 DEF Tick, vars, loopVars
<1> QED
  BY <1>2, <1>3, <1>4, <1>5, <1>6, <1>7 DEF Next, Firmware, Reset

(* mark_identity_results is never refused: the abort of the session that   *)
(* the code has for that case is never reached (handle_request,            *)
(* session.start).                                                         *)
NeverRefused ==
  pc = "mark" => \A t \in IdentityTests :
                   RecordCheck(t, "AUTOMATIC", StartEvidence) = "OK"

THEOREM MarkNeverRefused == Spec => []NeverRefused
<1>1. Init => FreshAtMark
  BY DEF Init, FreshAtMark
<1>2. FreshAtMark /\ [Next]_vars => FreshAtMark'
  BY FreshStep
<1>3. FreshAtMark => NeverRefused
  BY ProtocolAssumption
     DEF FreshAtMark, NeverRefused, RecordCheck, AllPending, Owner
<1> QED
  BY <1>1, <1>2, <1>3, PTL DEF Spec
=============================================================================
