--------------------------- MODULE FactoryReplies ---------------------------
(***************************************************************************)
(* How a reply is put together (factory_protocol.c) on a heap that may     *)
(* fail at every call of cJSON: which of its fields it carries and what    *)
(* they say, for each command, refused line and event, and what becomes of *)
(* the objects it is made of.  Adding a field to an object fails silently. *)
(*                                                                         *)
(* A JSON object is a function from the keys it has to their values, and   *)
(* the null pointer one with a key that no object has.  The clock stands   *)
(* still, except that the session may time out at any time.                *)
(***************************************************************************)
EXTENDS FactorySession, Sequences

CONSTANTS
  TestOrder,      \* the tests in the order of the table
  IdentityTests,  \* ids mark_identity_results records
  StartEvidence,  \* what it records for them
  TestInputs,     \* test ids the station sends
  ParseErrors,    \* codes of lines factory_request_parse rejects
  MaxFailures     \* bound of the failed allocations per reply

ASSUME RepliesAssumption ==
  /\ TestOrder \in [1 .. Cardinality(Tests) -> Tests]
  /\ \A t \in Tests : \E i \in DOMAIN TestOrder : TestOrder[i] = t
  /\ IdentityTests \subseteq Tests \ StationTests
  /\ StartEvidence \in Evidence
  /\ ParseErrors \subseteq Results \ {"OK"}
  /\ MaxFailures \in Nat

VARIABLES
  pc,        \* where the task is
  request,   \* the line being processed
  result,    \* its result so far, or the event's
  identity,  \* the identity that was read for it
  index,     \* the next test of a list
  data,      \* the object "data", or Null
  root,      \* the object of the envelope, or Null
  heap,      \* objects of this reply that are allocated
  failures,  \* allocations that failed for it
  sent       \* the object just sent, or Null

replyVars == <<data, root, heap, failures>>
vars == <<sessionVars, pc, request, result, identity, index, replyVars, sent>>

Null == [null |-> TRUE]
Empty == [k \in {} |-> {}]

Extended(f, g) ==
  [k \in DOMAIN f \cup DOMAIN g |-> IF k \in DOMAIN g THEN g[k] ELSE f[k]]
Without(f, keys) == [k \in DOMAIN f \ keys |-> f[k]]

(* What is left of a series of cJSON_Add...ToObject calls that add fields  *)
(* to an object: nothing is added to a null pointer, nor what there is no  *)
(* memory for.                                                             *)
Losses(fields) ==
  {lost \in SUBSET DOMAIN fields : Cardinality(lost) <= MaxFailures - failures}

Add(fields) ==
  \/ data = Null /\ UNCHANGED <<data, failures>>
  \/ /\ data # Null
     /\ \E lost \in Losses(fields) :
          /\ data' = Extended(data, Without(fields, lost))
          /\ failures' = failures + Cardinality(lost)

AllocationFails == failures < MaxFailures /\ failures' = failures + 1

Goto(label) == pc' = label
-----------------------------------------------------------------------------
(* factory_result_code *)
Code(r) ==
  CASE r = "OK" -> "ok"
    [] r = "INVALID_ARGUMENT" -> "invalid_parameter"
    [] r = "INVALID_FRAME" -> "invalid_frame"
    [] r = "INVALID_JSON" -> "invalid_json"
    [] r = "INVALID_REQUEST" -> "invalid_request"
    [] r = "FRAME_TOO_LONG" -> "frame_too_long"
    [] r = "UNKNOWN_COMMAND" -> "unknown_command"
    [] r = "NOT_FOUND" -> "unknown_test"
    [] r = "INVALID_STATE" -> "invalid_state"
    [] r = "IMMUTABLE" -> "result_immutable"
    [] r = "UNAUTHORIZED" -> "test_owner_mismatch"
    [] r = "INCOMPLETE" -> "incomplete_or_failed"
    [] r = "TIMEOUT" -> "session_timeout"
    [] r = "CLEANUP" -> "cleanup_failed"
    [] r = "NO_MEMORY" -> "no_memory"
    [] r = "HARDWARE" -> "hardware_error"

(* factory_session_state_name, factory_test_status_name,                   *)
(* factory_test_owner_name                                                 *)
StateName(s) == CASE s = "ACTIVE" -> "active" [] s = "EXPIRED" -> "expired"
                  [] s = "COMPLETED" -> "completed"
                  [] s = "ABORTED" -> "aborted" [] OTHER -> "idle"
StatusName(s) == CASE s = "PASS" -> "pass" [] s = "FAIL" -> "fail"
                   [] OTHER -> "pending"
OwnerName(o) == IF o = "STATION" THEN "station" ELSE "automatic"

(* factory_identity_read: it fails when one of its reads does, whichever,  *)
(* and leaves zeros.                                                       *)
Reads == {"base_mac", "thread_eui64", "flash_size_bytes"}
IdentityKeys ==
  Reads \cup {"target", "silicon_revision", "cores", "reset_reason"}
ChipIdentity == [k \in IdentityKeys |-> "read"]
NoIdentity == [k \in IdentityKeys |-> "zero"]

ReadOK_LastOne(failed) == "flash_size_bytes" \notin failed  \* mutant
ReadOK(failed) == failed = {}

IdentityRead(ok) ==
  \E failed \in SUBSET Reads :
    /\ ok = ReadOK(failed)
    /\ identity' = IF failed = {} THEN ChipIdentity ELSE NoIdentity

(* add_session, of the snapshot s.                                         *)
SessionData(s) ==
  [state |-> StateName(s.state), active |-> s.state = "ACTIVE",
   unit_id |-> s.unit_id, pending |-> s.manifest.pending,
   passed |-> s.manifest.passed, failed |-> s.manifest.failed]

(* The item of a list for one test, the description named by the id.       *)
Optional(key, value) == IF value = "" THEN Empty ELSE [k \in {key} |-> value]
Item(t) ==
  LET e == entries[t] IN
  Extended(
    [id |-> t, description |-> t, owner |-> OwnerName(Owner(t)),
     status |-> StatusName(e.status)],
    IF e.evidence = NoEvidence THEN Empty
    ELSE Extended(
           Optional("detail", e.evidence.detail),
           IF e.evidence.value = "" THEN Empty
           ELSE Extended(Optional("value", e.evidence.value),
                         Optional("unit", e.evidence.unit))))
-----------------------------------------------------------------------------
Line(seq, cmd) == [seq |-> seq, cmd |-> cmd]
Requests ==
  {Line(1, c) : c \in {"identity", "safe", "session.abort", "session.start",
                       "session.list", "session.finish"}}
  \cup [seq : {1}, cmd : {"fixture.record"}, test : TestInputs,
        passed : BOOLEAN, evidence : Evidence]

(* After factory_session_init.                                             *)
Init ==
  /\ session = [Zeroed EXCEPT !.manifest = Summary(AllPending)]
  /\ hasCleanup = TRUE /\ entries = AllPending /\ made = NotMade
  /\ pc = "ready" /\ request = Line(0, "none") /\ result = "OK"
  /\ identity = NoIdentity /\ index = 1
  /\ data = Null /\ root = Null /\ heap = {}
  /\ failures = 0 /\ sent = Null

(* The occasions to send something, one at a time: the start, the timeout  *)
(* of the session, the end of a discarded line, and a line, refused or not.*)
Begin(line, r) ==
  /\ request' = line /\ result' = r
  /\ Goto("create") /\ failures' = 0 /\ heap' = {} /\ sent' = Null
  /\ identity' = NoIdentity
  /\ UNCHANGED <<index, data, root>>

SendReady ==
  /\ pc = "ready" /\ Begin(Line(0, "ready"), "OK") /\ UNCHANGED sessionVars

TimeoutEvent ==
  /\ pc = "line" /\ IsActive
  /\ \E c \in {"ok", "failed"}, r \in {"TIMEOUT", "CLEANUP"} :
       SessionExpire(Timeout, c, r) /\ Begin(Line(0, "session.timeout"), r)

DiscardedLine ==
  /\ pc = "line" /\ Begin(Line(0, "unknown"), "FRAME_TOO_LONG")
  /\ UNCHANGED sessionVars

ProcessLine ==
  /\ pc = "line"
  /\ \/ \E l \in Requests : Begin(l, "OK")
     \/ \E l \in {Line(-1, "unknown"), Line(1, "unsupported")},
           r \in ParseErrors : Begin(l, r)
  /\ UNCHANGED sessionVars

(* response_data_create, and where the code goes on.                       *)
Created_BareEvents ==                                           \* mutant
  CASE request.seq # 0 /\ result = "OK" -> "handle"
    [] request.seq # 0 /\ result # "OK" -> "cleanup"
    [] OTHER -> "respond"
Created ==
  CASE request.cmd \in {"ready", "session.timeout"} -> "event"
    [] request.seq # 0 /\ result = "OK" -> "handle"
    [] request.seq # 0 /\ result # "OK" -> "cleanup"
    [] OTHER -> "respond"

CreateData ==
  /\ pc = "create" /\ Goto(Created)
  /\ \/ data' = Empty /\ heap' = {"data"} /\ UNCHANGED failures
     \/ AllocationFails /\ UNCHANGED <<data, heap>>
  /\ UNCHANGED <<sessionVars, request, result, identity, index, root, sent>>

ReadyData ==
  [max_frame_bytes |-> 767, session_timeout_s |-> 300,
   psw_en_policy |-> "unresolved_high_impedance",
   production_release_capable |-> FALSE]
TimeoutData == [outputs_safe |-> result = "TIMEOUT"]

EventData ==
  /\ pc = "event" /\ Goto("respond")
  /\ Add(IF request.cmd = "ready" THEN ReadyData ELSE TimeoutData)
  /\ UNCHANGED <<sessionVars, request, result, identity, index, root, heap,
                 sent>>
-----------------------------------------------------------------------------
(* handle_request *)
Handling(cmd) == pc = "handle" /\ request.cmd = cmd
HandlerFrame == UNCHANGED <<request, root, heap, sent>>
CallFrame == HandlerFrame /\ UNCHANGED identity
NoFields == UNCHANGED <<data, failures>>
Return(r) == result' = r /\ Goto("cleanup") /\ UNCHANGED index

(* add_identity adds the fields of the identity.                           *)
Identity ==
  /\ Handling("identity")
  /\ \/ IdentityRead(TRUE) /\ Add(identity') /\ Return("OK")
     \/ IdentityRead(FALSE) /\ NoFields /\ Return("HARDWARE")
  /\ UNCHANGED sessionVars /\ HandlerFrame

Safe ==
  /\ Handling("safe") /\ NoFields
  /\ Return("OK") \/ Return("HARDWARE")
  /\ UNCHANGED sessionVars /\ CallFrame

(* The snapshot a reply carries is taken after the call.                   *)
Snapshot_Before(before, after) == before  \* mutant
Snapshot(before, after) == after

Abort ==
  /\ Handling("session.abort")
  /\ \E c \in CleanupCalls, r \in Results : SessionAbort(c, r) /\ Return(r)
  /\ Add(SessionData(Snapshot(session, session')))
  /\ CallFrame

Start ==
  /\ Handling("session.start") /\ NoFields
  /\ \/ IdentityRead(FALSE) /\ Return("HARDWARE") /\ UNCHANGED sessionVars
     \/ /\ IdentityRead(TRUE)
        /\ \E unit \in UnitInputs, c \in CleanupCalls, r \in Results :
             /\ SessionStart(unit, 0, c, r)
             /\ \/ r # "OK" /\ Return(r)
                \/ r = "OK" /\ Goto("mark") /\ UNCHANGED <<result, index>>
  /\ HandlerFrame

(* mark_identity_results is not refused here (FactoryProtocol).            *)
MarkIdentity ==
  /\ pc = "mark"
  /\ entries' = [t \in Tests |->
       IF t \in IdentityTests
       THEN [status |-> "PASS", evidence |-> StartEvidence] ELSE entries[t]]
  /\ made' = [t \in Tests |-> IF t \in IdentityTests THEN Tag ELSE made[t]]
  /\ session' = [session EXCEPT !.manifest = Summary(entries')]
  /\ Add(Extended(identity, SessionData(Snapshot(session, session'))))
  /\ Return("OK")
  /\ UNCHANGED <<hasCleanup, identity>> /\ HandlerFrame

(* require_session *)
NoSession ==
  /\ pc = "handle" /\ ~IsActive
  /\ request.cmd \in {"session.list", "session.finish", "fixture.record"}
  /\ NoFields /\ Return("INVALID_STATE")
  /\ UNCHANGED sessionVars /\ CallFrame

(* The clock stands at 0 in this module, where a touch of an active        *)
(* session cannot fail and changes nothing: its error is in                *)
(* FactoryProtocol, here and in FixtureRecord.                             *)
List ==
  /\ Handling("session.list") /\ IsActive
  /\ SessionTouch(0, "OK")
  /\ \/ /\ data # Null
        /\ data' = Extended(data, [tests |-> <<>>]) /\ UNCHANGED failures
        /\ Goto("list") /\ index' = 1 /\ UNCHANGED result
     \/ data = Null /\ NoFields /\ Return("NO_MEMORY")
     \/ AllocationFails /\ UNCHANGED data /\ Return("NO_MEMORY")
  /\ CallFrame

(* One iteration of the loop over the table: the test's item is created    *)
(* and filled, or there is no memory for it and the list ends.             *)
Listing == pc = "list" /\ index <= Len(TestOrder)

ListItem ==
  /\ Listing
  /\ \E lost \in Losses(Item(TestOrder[index])) :
       /\ data' = [data EXCEPT !.tests =
                     Append(@, Without(Item(TestOrder[index]), lost))]
       /\ failures' = failures + Cardinality(lost)
  /\ index' = index + 1
  /\ UNCHANGED <<sessionVars, pc, result>> /\ CallFrame

ItemFails_Skips ==                                              \* mutant
  /\ Listing /\ AllocationFails /\ index' = index + 1
  /\ UNCHANGED <<sessionVars, pc, result, data>> /\ CallFrame
ItemFails ==
  /\ Listing /\ AllocationFails /\ Return("NO_MEMORY")
  /\ UNCHANGED <<sessionVars, data>> /\ CallFrame

ListEnd ==
  /\ pc = "list" /\ index > Len(TestOrder)
  /\ SessionSnapshot
  /\ Add(SessionData(session')) /\ Return("OK")
  /\ CallFrame

FixtureRecord ==
  /\ Handling("fixture.record") /\ IsActive
  /\ \E r \in Results :
       /\ Record(request.test, "STATION", request.passed, request.evidence, r)
       /\ \/ r # "OK" /\ NoFields /\ Return(r)
          \/ /\ r = "OK"
             /\ Add([test_id |-> request.test, pass |-> request.passed])
             /\ Return("OK") \/ (~request.passed /\ Return("CLEANUP"))
  /\ CallFrame

OverallPass_UnlessPending(r) == r # "INCOMPLETE"  \* mutant
OverallPass(r) == r = "OK"

Finish ==
  /\ Handling("session.finish") /\ IsActive
  /\ \E c \in CleanupCalls, r \in Results :
       /\ SessionFinish(c, r) /\ Return(r)
       /\ Add(Extended(SessionData(Snapshot(session, session')),
                       [overall_pass |-> OverallPass(r)]))
  /\ CallFrame

(* The rest of process_line: the error cleanup.                            *)
Cleanup ==
  /\ pc = "cleanup" /\ Goto("respond")
  /\ \E c \in CleanupCalls, r \in Results :
       ErrorCleanup(result, c, r) /\ result' = r
  /\ UNCHANGED <<sessionVars, index, data, failures>> /\ CallFrame
-----------------------------------------------------------------------------
(* send_response *)
SuccessCode == IF request.cmd = "session.finish" THEN "pass" ELSE "ok"

Envelope ==
  [seq |-> request.seq, cmd |-> request.cmd,
   status |-> IF result = "OK" THEN "ok" ELSE "error",
   code |-> IF result = "OK" THEN SuccessCode ELSE Code(result),
   firmware |-> "0.1.0", protocol |-> "1.0", product |-> "S5-NODE-OTBR",
   board |-> "TBD"]

Fallback ==
  [seq |-> 0, cmd |-> "internal", status |-> "error", code |-> "no_memory",
   firmware |-> "0.1.0", protocol |-> "1.0", product |-> "S5-NODE-OTBR",
   board |-> "TBD", data |-> Empty]

RespondFrame ==
  UNCHANGED <<sessionVars, request, result, identity, index>>

(* A missing data object is created anew, empty.                           *)
CreateRoot ==
  /\ pc = "respond" /\ root = Null /\ Goto("fill")
  /\ root' = Empty
  /\ data' = IF data = Null THEN Empty ELSE data
  /\ heap' = heap \cup {"root", "data"}
  /\ UNCHANGED <<failures, sent>> /\ RespondFrame

(* Without one of the two objects both are deleted, and a fixed frame is   *)
(* sent.                                                                   *)
Deleted_RootOnly(objects) == objects \ {"root"}  \* mutant
Deleted(objects) == objects \ {"root", "data"}

SendFallback ==
  /\ pc = "respond" /\ AllocationFails /\ Goto("line")
  /\ \/ heap' = Deleted(heap)                                   \* no root
     \/ data = Null /\ heap' = Deleted(heap \cup {"root"})      \* no data
  /\ data' = Null /\ sent' = Fallback
  /\ UNCHANGED root /\ RespondFrame

FillRoot ==
  /\ pc = "fill" /\ Goto("write")
  /\ \E lost \in Losses(Extended(Envelope, [data |-> data])) :
       /\ root' = Without(Extended(Envelope, [data |-> data]), lost)
       /\ failures' = failures + Cardinality(lost)
  /\ UNCHANGED <<data, heap, sent>> /\ RespondFrame

(* The text is printed, written and freed, or there is no memory for it.   *)
(* Deleting the root deletes what was added to it.                         *)
Write ==
  /\ pc = "write" /\ Goto("line")
  /\ \/ sent' = root /\ UNCHANGED failures
     \/ AllocationFails /\ sent' = Null
  /\ heap' = heap \ (IF "data" \in DOMAIN root THEN {"root", "data"}
                     ELSE {"root"})
  /\ root' = Null /\ data' = Null
  /\ RespondFrame
-----------------------------------------------------------------------------
Handle == Identity \/ Safe \/ Abort \/ Start \/ MarkIdentity \/ NoSession
          \/ List \/ ListItem \/ ItemFails \/ ListEnd \/ FixtureRecord
          \/ Finish \/ Cleanup
Respond == CreateRoot \/ SendFallback \/ FillRoot \/ Write
Begins == SendReady \/ TimeoutEvent \/ DiscardedLine \/ ProcessLine
Next == Begins \/ CreateData \/ EventData \/ Handle \/ Respond

Spec == Init /\ [][Next]_vars
-----------------------------------------------------------------------------
Labels == {"ready", "line", "create", "event", "handle", "mark", "list",
           "cleanup", "respond", "fill", "write"}

(* Type invariant of the session and of the reply.                         *)
TypeOK ==
  /\ SessionTypeOK
  /\ pc \in Labels /\ request.seq \in {-1, 0, 1}
  /\ result \in Results /\ index \in 1 .. Len(TestOrder) + 1
  /\ identity \in {ChipIdentity, NoIdentity}
  /\ heap \subseteq {"data", "root"} /\ failures \in 0 .. MaxFailures
  /\ data # Null => "data" \in heap
  /\ pc = "list" => data # Null /\ Len(data.tests) < index
  /\ pc \in {"fill", "write"} <=> root # Null

(* The object that was just sent, and its data.                            *)
Has(key) == sent # Null /\ key \in DOMAIN sent
Data == IF Has("data") THEN sent.data ELSE Empty

(* Whatever fields are missing, the others say one thing and it is so: an  *)
(* error is never under status ok, every code is a documented one, and the *)
(* code or the overall_pass that tell a pass only do when the session is   *)
(* completed (send_response, handle_request).                              *)
StableCodes ==
  {"invalid_parameter", "invalid_frame", "invalid_json", "invalid_request",
   "frame_too_long", "unknown_command", "unknown_test", "invalid_state",
   "result_immutable", "test_owner_mismatch", "incomplete_or_failed",
   "session_timeout", "cleanup_failed", "hardware_error", "no_memory"}

VerdictsAgree ==
  /\ Has("code") => sent.code \in StableCodes \cup {"ok", "pass"}
  /\ Has("status") /\ Has("code") =>
       (sent.status = "error" <=> sent.code \in StableCodes)
  /\ Has("code") /\ sent.code = "pass" => session.state = "COMPLETED"
  /\ "overall_pass" \in DOMAIN Data =>
       /\ Data.overall_pass => session.state = "COMPLETED"
       /\ Has("code") => (Data.overall_pass <=> sent.code = "pass")

(* The session fields a reply carries, all or some of them, are those of   *)
(* the session the command left, not of the one it found (add_session).    *)
SessionToldAsIs ==
  \A k \in DOMAIN Data \cap DOMAIN SessionData(session) :
    Data[k] = SessionData(session)[k]

(* "Zero or fabricated identifiers are never substituted": when one of the *)
(* reads fails the reply carries no identifier, and no session is started  *)
(* on it (factory_identity_read, handle_request).                          *)
NeverFabricated ==
  /\ \A k \in DOMAIN Data \cap IdentityKeys : Data[k] = ChipIdentity[k]
  /\ pc = "mark" => identity = ChipIdentity

(* A list that ends early is told as an error: under status ok it has an   *)
(* item for every test, in the order of the table, each with its own id    *)
(* and status as far as they could be added (handle_request).              *)
ListWhole ==
  Has("status") /\ sent.status = "ok" /\ "tests" \in DOMAIN Data =>
    /\ Len(Data.tests) = Len(TestOrder)
    /\ \A i \in DOMAIN TestOrder :
         \A k \in DOMAIN Data.tests[i] :
           Data.tests[i][k] = Item(TestOrder[i])[k]

(* The data docs/factory_protocol.md lists for each command and event.     *)
Documented(cmd, ok) ==
  LET sessionKeys == DOMAIN SessionData(session) IN
  CASE cmd = "identity" /\ ok -> IdentityKeys
    [] cmd = "session.start" /\ ok -> IdentityKeys \cup sessionKeys
    [] cmd = "session.list" /\ ok -> sessionKeys \cup {"tests"}
    [] cmd = "session.abort" -> sessionKeys
    [] cmd = "fixture.record" /\ ok -> {"test_id", "pass"}
    [] cmd = "session.finish" /\ ok -> sessionKeys \cup {"overall_pass"}
    [] cmd = "session.timeout" -> {"outputs_safe"}
    [] cmd = "ready" -> DOMAIN ReadyData
    [] OTHER -> {}

(* While there is memory every reply carries the whole envelope and at     *)
(* least the data of its command, each item of a list its id, description, *)
(* owner and status (send_response, handle_request).                       *)
CompleteWithMemory ==
  sent # Null /\ failures = 0 =>
    /\ DOMAIN sent = DOMAIN Fallback
    /\ Documented(request.cmd, result = "OK") \subseteq DOMAIN Data
    /\ "tests" \in DOMAIN Data =>
         \A i \in DOMAIN Data.tests :
           {"id", "description", "owner", "status"}
             \subseteq DOMAIN Data.tests[i]

(* No object outlives its reply, whatever allocation fails on the way, but *)
(* the data that could not be added to the envelope (send_response).       *)
NothingLost ==
  pc = "line" =>
    /\ heap \subseteq {"data"}
    /\ heap # {} => failures > 0 /\ ~Has("data")
=============================================================================
