-------------------------- MODULE FactoryProtocol ---------------------------
(***************************************************************************)
(* The firmware's one task from reset to its endless loop (app_main.c,     *)
(* factory_protocol.c), over the session and the manifest, among what it   *)
(* does not control: a station that sends any line at any time or none, a  *)
(* clock that runs between any two steps, outputs whose restoring fails, a *)
(* heap and a USB line that fail, and resets.                              *)
(*                                                                         *)
(* A line is what factory_request_parse makes of it (FactoryRequest); of    *)
(* its bytes only their number counts here.                                *)
(* Restoring the outputs is one step whose result is also s_verified.      *)
(***************************************************************************)
EXTENDS FactorySession

CONSTANTS
  IdentityTests,   \* ids mark_identity_results records
  StartEvidence,   \* what it records for them
  TestInputs,      \* test ids the station sends
  ParseErrors,     \* codes of lines factory_request_parse rejects
  MaxFrame,        \* FACTORY_PROTOCOL_MAX_FRAME
  MaxTime,         \* bound of the clock within one boot
  HeapCanFail      \* whether cJSON may run out of memory

ASSUME ProtocolAssumption ==
  /\ IdentityTests \subseteq Tests \ StationTests
  /\ StartEvidence \in Evidence
  /\ ParseErrors \subseteq Results \ {"OK"}
  /\ MaxFrame \in Nat \ {0}
  /\ MaxTime \in Nat
  /\ HeapCanFail \in BOOLEAN

VARIABLES
  verified,  \* s_verified
  now,       \* esp_timer_get_time
  pc,        \* where the task is
  rx,        \* what the read of this iteration returned
  length,    \* bytes of the line in the buffer
  discard,   \* whether the rest of the line is being ignored
  request,   \* the line being processed
  result,    \* its result so far
  out,       \* the frame just sent
  overdue,   \* history: the session's time was up when the byte was read
  received   \* history: bytes of this line so far, MaxFrame + 1 for more

lineVars == <<length, discard, received>>
loopVars == <<pc, rx, lineVars, request, result, out, overdue>>
vars == <<sessionVars, verified, now, loopVars>>

Requests ==
  [code : {"OK"}, seq : {1},
   cmd : {"identity", "safe", "session.abort", "session.list",
          "session.finish"}]
  \cup [code : {"OK"}, seq : {1}, cmd : {"session.start"}, unit : UnitInputs]
  \cup [code : {"OK"}, seq : {1}, cmd : {"fixture.record"},
        test : TestInputs, passed : BOOLEAN, evidence : Evidence]

(* A rejected line is answered under the sequence number and the command   *)
(* it was found to carry, whether there is such a command or not, or under *)
(* -1 and "unknown".                                                       *)
Rejected ==
  [code : ParseErrors, seq : {-1}, cmd : {"unknown"}]
  \cup [code : ParseErrors, seq : {1}, cmd : {"unsupported", "session.start"}]

Lines == Requests \cup Rejected
NoRequest == [code |-> "none", seq |-> -1, cmd |-> "none"]

Frame(seq, cmd, code) == [seq |-> seq, cmd |-> cmd, code |-> code]
NoFrame == Frame(-1, "none", "none")
Fallback == Frame(0, "internal", "NO_MEMORY")

(* A frame reaches the line whole, or torn or not at all (the USB write    *)
(* times out, printing it fails), or as the fixed one for want of memory.  *)
Send(frame) ==
  \/ out' = frame
  \/ out' = NoFrame
  \/ HeapCanFail /\ out' = Fallback

(* A cleanup is factory_safety_apply, and leaves s_verified to its result. *)
Cleaned(cleanup) ==
  verified' = IF cleanup = "none" THEN verified ELSE cleanup = "ok"

(* factory_safety_apply called directly, returning r.                      *)
SafetyApply(r) ==
  \/ r = "OK" /\ verified' = TRUE
  \/ r = "HARDWARE" /\ verified' = FALSE

Goto(label) == pc' = label

(* The buffer is empty and the next byte begins a line.                    *)
LineEnds == length' = 0 /\ discard' = FALSE /\ received' = 0

TimeIsUp == IsActive /\ now - session.last_activity_us >= Timeout
-----------------------------------------------------------------------------
(* After power-on.                                                         *)
Init ==
  /\ SessionReset
  /\ verified = FALSE /\ now = 0
  /\ pc = "boot" /\ rx = "none"
  /\ length = 0 /\ discard = FALSE /\ received = 0
  /\ request = NoRequest /\ result = "OK" /\ out = NoFrame
  /\ overdue = FALSE

(* A restart forgets everything.                                           *)
Forget ==
  /\ SessionLost
  /\ verified' = FALSE /\ now' = 0
  /\ Goto("boot") /\ rx' = "none" /\ LineEnds
  /\ request' = NoRequest /\ result' = "OK" /\ out' = NoFrame
  /\ overdue' = FALSE

Reset == pc # "boot" /\ Forget

Tick ==
  /\ now < MaxTime /\ now' = now + 1
  /\ UNCHANGED <<sessionVars, verified, loopVars>>

(* app_main: outputs first, then the USB driver and the session.           *)
SafetyInit ==
  /\ pc = "boot"
  /\ \/ SafetyApply("OK") /\ Goto("install")
     \/ SafetyApply("HARDWARE") /\ Goto("restart")
  /\ UNCHANGED <<sessionVars, now, rx, lineVars, request, result, out,
                 overdue>>

ProtocolInit ==
  /\ pc = "install"
  /\ \/ SessionInit(TRUE, "OK") /\ Goto("ready") /\ UNCHANGED verified
     \/ /\ UNCHANGED sessionVars                   \* driver not installed
        /\ \E r \in {"OK", "HARDWARE"} : SafetyApply(r)
        /\ Goto("restart")
  /\ UNCHANGED <<now, rx, lineVars, request, result, out, overdue>>

Restart == pc = "restart" /\ Forget

SendReady ==
  /\ pc = "ready" /\ Goto("read")
  /\ Send(Frame(0, "ready", "OK"))
  /\ UNCHANGED <<sessionVars, verified, now, rx, lineVars, request, result,
                 overdue>>
-----------------------------------------------------------------------------
(* One iteration of factory_protocol_run: the read returns a byte of a     *)
(* line, the end of a line, or nothing within its 20 ms.                   *)
Read ==
  /\ pc = "read" /\ Goto("expire")
  /\ rx' \in {"none", "char", "eol"}
  /\ out' = NoFrame
  /\ overdue' = TimeIsUp
  /\ UNCHANGED <<sessionVars, verified, now, lineVars, request, result>>

(* The session's time is checked on every iteration, byte or no byte.      *)
CheckExpiry_WhenQuiet(c, r) ==                                   \* mutant
  \/ rx = "none" /\ SessionExpire(now, c, r)
  \/ rx # "none" /\ c = "none" /\ r = "OK" /\ UNCHANGED sessionVars
CheckExpiry(c, r) == SessionExpire(now, c, r)

Expire ==
  /\ pc = "expire"
  /\ \E c \in CleanupCalls, r \in Results :
       /\ CheckExpiry(c, r) /\ Cleaned(c)
       /\ \/ c = "none" /\ Goto("byte") /\ UNCHANGED result
          \/ c # "none" /\ Goto("timeout") /\ result' = r
  /\ UNCHANGED <<now, rx, lineVars, request, out, overdue>>

TimeoutEvent ==
  /\ pc = "timeout" /\ Goto("byte")
  /\ Send(Frame(0, "session.timeout", result))
  /\ result' = "OK"
  /\ UNCHANGED <<sessionVars, verified, now, rx, lineVars, request, overdue>>

NoByte ==
  /\ pc = "byte" /\ rx = "none" /\ Goto("read")
  /\ UNCHANGED <<sessionVars, verified, now, rx, lineVars, request, result,
                 out, overdue>>

(* A byte is appended, ignored with the rest of a discarded line, or is    *)
(* the one too many, at which the outputs are restored.                    *)
Fits_OneMore == length <= MaxFrame  \* mutant
Fits == length < MaxFrame

CharByte ==
  /\ pc = "byte" /\ rx = "char" /\ Goto("read")
  /\ received' = IF received > MaxFrame THEN received ELSE received + 1
  /\ \/ discard /\ UNCHANGED <<length, discard, verified>>
     \/ /\ ~discard /\ Fits
        /\ length' = length + 1 /\ UNCHANGED <<discard, verified>>
     \/ /\ ~discard /\ ~Fits
        /\ length' = 0 /\ discard' = TRUE
        /\ \E r \in {"OK", "HARDWARE"} : SafetyApply(r)
  /\ UNCHANGED <<sessionVars, now, rx, request, result, out, overdue>>

(* A line feed after a carriage return, or an empty line.                  *)
EmptyLine ==
  /\ pc = "byte" /\ rx = "eol" /\ ~discard /\ length = 0 /\ Goto("read")
  /\ UNCHANGED <<sessionVars, verified, now, rx, lineVars, request, result,
                 out, overdue>>

DiscardedLine ==
  /\ pc = "byte" /\ rx = "eol" /\ discard /\ Goto("read")
  /\ LineEnds
  /\ Send(Frame(0, "unknown", "FRAME_TOO_LONG"))
  /\ UNCHANGED <<sessionVars, verified, now, rx, request, result, overdue>>

(* process_line *)
ProcessLine ==
  /\ pc = "byte" /\ rx = "eol" /\ ~discard /\ length > 0
  /\ LineEnds
  /\ \E l \in Lines :
       /\ request' = l /\ result' = l.code
       /\ Goto(IF l.code = "OK" THEN "handle" ELSE "cleanup")
  /\ UNCHANGED <<sessionVars, verified, now, rx, out, overdue>>
-----------------------------------------------------------------------------
(* handle_request: its commands, up to the point where it returns to       *)
(* process_line ("cleanup"), or where the code goes on ("mark", "touch",   *)
(* "snapshot").                                                            *)
Handling(commands) == pc = "handle" /\ request.cmd \in commands
HandlerFrame == UNCHANGED <<now, rx, lineVars, request, out, overdue>>

(* factory_identity_read fails when an eFuse or the flash cannot be read.  *)
Identity ==
  /\ Handling({"identity"}) /\ Goto("cleanup")
  /\ result' \in {"OK", "HARDWARE"}
  /\ UNCHANGED <<sessionVars, verified>> /\ HandlerFrame

Safe ==
  /\ Handling({"safe"}) /\ Goto("cleanup")
  /\ \E r \in {"OK", "HARDWARE"} : SafetyApply(r) /\ result' = r
  /\ UNCHANGED sessionVars /\ HandlerFrame

Abort ==
  /\ Handling({"session.abort"}) /\ Goto("snapshot")
  /\ \E c \in CleanupCalls, r \in Results :
       SessionAbort(c, r) /\ Cleaned(c) /\ result' = r
  /\ HandlerFrame

Start ==
  /\ Handling({"session.start"})
  /\ \/ /\ result' = "HARDWARE" /\ Goto("cleanup")    \* identity read failed
        /\ UNCHANGED <<sessionVars, verified>>
     \/ \E c \in CleanupCalls, r \in Results :
          /\ SessionStart(request.unit, now, c, r) /\ Cleaned(c)
          /\ result' = r
          /\ Goto(IF r = "OK" THEN "mark" ELSE "cleanup")
  /\ HandlerFrame

(* mark_identity_results, a factory_manifest_record for each of its ids.   *)
(* The table was just reset and the ids are the firmware's, so none of the *)
(* calls is refused and the abort after a refusal is never reached.        *)
MarkIdentity ==
  /\ pc = "mark" /\ Goto("snapshot")
  /\ \A t \in IdentityTests : RecordCheck(t, "AUTOMATIC", StartEvidence) = "OK"
  /\ entries' = [t \in Tests |->
       IF t \in IdentityTests
       THEN [status |-> "PASS", evidence |-> StartEvidence] ELSE entries[t]]
  /\ made' = [t \in Tests |-> IF t \in IdentityTests THEN Tag ELSE made[t]]
  /\ UNCHANGED <<session, hasCleanup, verified, result>> /\ HandlerFrame

(* require_session, for the commands that need one.                        *)
NeedSession_NotRecord == {"session.list", "session.finish"}  \* mutant
NeedSession == {"session.list", "session.finish", "fixture.record"}

NoSession ==
  /\ Handling(NeedSession) /\ ~IsActive /\ Goto("cleanup")
  /\ result' = "INVALID_STATE"
  /\ UNCHANGED <<sessionVars, verified>> /\ HandlerFrame

InSession(command) ==
  Handling({command}) /\ (command \in NeedSession => IsActive)

(* A touch that is refused ends the command there.                         *)
List ==
  /\ InSession("session.list")
  /\ \E r \in Results :
       /\ SessionTouch(now, r)
       /\ \/ r # "OK" /\ result' = r /\ Goto("cleanup")
          \/ r = "OK" /\ result' = "OK" /\ Goto("snapshot")
          \/ /\ r = "OK" /\ HeapCanFail
             /\ result' = "NO_MEMORY" /\ Goto("cleanup")
  /\ UNCHANGED verified /\ HandlerFrame

FixtureRecord ==
  /\ InSession("fixture.record")
  /\ \E r \in Results :
       /\ Record(request.test, "STATION", request.passed, request.evidence, r)
       /\ result' = r
       /\ Goto(IF r = "OK" THEN "touch" ELSE "cleanup")
  /\ UNCHANGED verified /\ HandlerFrame

(* A recorded failure restores the outputs before it is answered.          *)
RestoresOutputs_OnPass(passed) == passed  \* mutant
RestoresOutputs(passed) == ~passed

RecordTouch ==
  /\ pc = "touch" /\ Goto("cleanup")
  /\ \E r \in Results :
       /\ SessionTouch(now, r)
       /\ \/ r # "OK" /\ result' = r /\ UNCHANGED verified
          \/ /\ r = "OK" /\ ~RestoresOutputs(request.passed)
             /\ UNCHANGED <<verified, result>>
          \/ /\ r = "OK" /\ RestoresOutputs(request.passed)
             /\ \/ SafetyApply("OK") /\ UNCHANGED result
                \/ SafetyApply("HARDWARE") /\ result' = "CLEANUP"
  /\ HandlerFrame

Finish ==
  /\ InSession("session.finish") /\ Goto("cleanup")
  /\ \E c \in CleanupCalls, r \in Results :
       SessionFinish(c, r) /\ Cleaned(c) /\ result' = r
  /\ HandlerFrame

(* The counters of a reply with session data are recomputed for it.        *)
Snapshot ==
  /\ pc = "snapshot" /\ Goto("cleanup")
  /\ SessionSnapshot
  /\ UNCHANGED <<verified, result>> /\ HandlerFrame

(* The rest of process_line.                                               *)
Cleanup ==
  /\ pc = "cleanup" /\ Goto("respond")
  /\ \E c \in CleanupCalls, r \in Results :
       ErrorCleanup(result, c, r) /\ Cleaned(c) /\ result' = r
  /\ UNCHANGED sessionVars /\ HandlerFrame

Respond ==
  /\ pc = "respond" /\ Goto("read")
  /\ Send(Frame(request.seq, request.cmd, result))
  /\ request' = NoRequest /\ result' = "OK"
  /\ UNCHANGED <<sessionVars, verified, now, rx, lineVars, overdue>>
-----------------------------------------------------------------------------
Boot == SafetyInit \/ ProtocolInit \/ Restart \/ SendReady
Loop == Read \/ Expire \/ TimeoutEvent \/ NoByte \/ CharByte \/ EmptyLine
        \/ DiscardedLine \/ ProcessLine
Handle == Identity \/ Safe \/ Abort \/ Start \/ MarkIdentity \/ NoSession
          \/ List \/ FixtureRecord \/ RecordTouch \/ Finish \/ Snapshot
          \/ Cleanup \/ Respond
Firmware == Boot \/ Loop \/ Handle

Next == Firmware \/ Tick \/ Reset

(* The task runs whenever it can (nothing else has its priority) and time  *)
(* passes; nothing is assumed of the station, of faults and of resets.     *)
Fairness == WF_vars(Firmware) /\ WF_vars(Tick)

Spec == Init /\ [][Next]_vars /\ Fairness
-----------------------------------------------------------------------------
Labels == {"boot", "install", "ready", "restart", "read", "expire", "timeout",
           "byte", "handle", "mark", "touch", "snapshot", "cleanup",
           "respond"}

LineTypes == /\ length \in 0 .. MaxFrame /\ discard \in BOOLEAN
             /\ received \in 0 .. MaxFrame + 1

LoopTypes ==
  /\ LineTypes
  /\ verified \in BOOLEAN /\ now \in 0 .. MaxTime
  /\ pc \in Labels /\ rx \in {"none", "char", "eol"}
  /\ request \in Lines \cup {NoRequest}
  /\ result \in Results /\ overdue \in BOOLEAN
  /\ out.seq \in {-1, 0, 1} /\ out.code \in Results \cup {"none"}

(* Type invariant of the session and of the firmware's one task.           *)
TypeOK == SessionTypeOK /\ LoopTypes

(* The commands whose success tells the station that the outputs are safe. *)
RestoringCommands == {"safe", "session.abort", "session.start",
                      "session.finish"}

(* What the firmware says about the outputs is so when it says it: every   *)
(* error answered to a processed line other than cleanup_failed, every     *)
(* success of a command that restores the outputs, every accepted FAIL,    *)
(* and the outputs_safe of a timeout event, are sent with the last restore *)
(* verified (process_line, handle_request, factory_protocol_run).          *)
SafeWhenSaid ==
  /\ pc = "respond" /\ result \notin {"OK", "CLEANUP"} => verified
  /\ pc = "respond" /\ result = "OK" =>
       /\ request.cmd \in RestoringCommands => verified
       /\ request.cmd = "fixture.record" => request.passed \/ verified
  /\ pc = "timeout" => (result = "TIMEOUT" <=> verified)

(* The verdict told is the verdict reached: when session.finish succeeds,  *)
(* the session is completed, with every test passed in it, and the outputs *)
(* are still verified safe when the reply goes out (handle_request).       *)
PassTold ==
  pc = "respond" /\ result = "OK" /\ request.cmd = "session.finish" =>
    /\ session.state = "COMPLETED" /\ verified
    /\ \A t \in Tests : entries[t].status = "PASS" /\ made[t] = Tag

(* A line whose last byte arrives when the session's time is up never      *)
(* finds it active, however busy the line is: it cannot revive the session *)
(* or add to its results (factory_protocol_run checks before each byte).   *)
OverdueNeverServed == pc = "handle" /\ overdue => ~IsActive

(* The buffer holds the bytes of the line being received, all of them and  *)
(* none of another line, or else the line is longer than MaxFrame and is   *)
(* discarded to its end: a frame of MaxFrame bytes is processed, one of    *)
(* MaxFrame + 1 is not, nor any part of it (factory_protocol_run).         *)
LineExact ==
  /\ ~discard => length = received
  /\ discard <=> received > MaxFrame

(* Time recorded for a session never lies ahead of the clock, and the      *)
(* labels inside a command of an active session are reached only with the  *)
(* session active: so the error returns after factory_session_touch are    *)
(* never taken, and no recorded result is answered as refused              *)
(* (handle_request).                                                       *)
InCommand ==
  /\ session.last_activity_us <= now
  /\ pc \in {"touch", "mark"} => IsActive
  /\ pc \notin {"boot", "install", "restart"} <=> hasCleanup

(* The station cannot vouch for what the firmware has not measured: a test *)
(* the firmware owns and does not implement stays pending, and keeps every *)
(* session from completing (README: finish cannot return PASS in phase 1). *)
UnimplementedPending ==
  \A t \in Tests \ (StationTests \cup IdentityTests) :
    entries[t].status = "PENDING" /\ session.state # "COMPLETED"

(* What became of the board, as the state of its session shows it.         *)
Phase == CASE session.state = "IDLE" -> "none"
           [] session.state = "ACTIVE" -> "open"
           [] session.state = "COMPLETED" -> "passed"
           [] OTHER -> "closed"

Verdict == INSTANCE UnitVerdict WITH
  phase <- Phase, verdicts <- [t \in Tests |-> entries[t].status]

(* The whole firmware implements the promise about one board: results      *)
(* written once and only in an open session, a pass only out of an open    *)
(* session whose tests all passed, nothing else ever passing a board.      *)
ImplementsUnitVerdict == Verdict!Spec

(* Every active session is touched again, ended or lost: while the station *)
(* keeps sending, whatever it sends, and while it stays silent, the        *)
(* deadline of a session never just passes (factory_protocol_run).  For    *)
(* the deadlines that lie within the bound of the clock.                   *)
DeadlineResolved ==
  \A t0 \in 0 .. MaxTime - Timeout :
    (IsActive /\ session.last_activity_us = t0)
      ~> ~(IsActive /\ session.last_activity_us = t0)

-----------------------------------------------------------------------------
(* What the documents say of the program and the program does not do.      *)

(* docs/factory_protocol.md: "Sequence 0 is reserved for unsolicited       *)
(* `ready` and `session.timeout` events."                                  *)
SequenceZeroReserved ==
  out.seq = 0 => out.cmd \in {"ready", "session.timeout"}

(* docs/factory_protocol.md: "Abort or cleanup failure: state becomes      *)
(* `aborted`"; at the least, a session one of whose own commands has just  *)
(* reported a failed cleanup is not active any more.                       *)
CleanupFailureEndsSession ==
  pc = "respond" /\ result = "CLEANUP"
    /\ request.cmd \in {"session.finish", "fixture.record"} => ~IsActive

(* CODEX_IMPLEMENTATION_PLAN.md: "Every error path leaves outputs safe."   *)
(* Where that cannot be, the code elsewhere says cleanup_failed.           *)
ErrorFrameSafe ==
  out.code \notin {"OK", "CLEANUP", "none"} => verified
=============================================================================
