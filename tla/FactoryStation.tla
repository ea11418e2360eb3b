--------------------------- MODULE FactoryStation ---------------------------
(***************************************************************************)
(* A board and the station that tests it, with the USB line between them   *)
(* as the bytes travel: the three writes of a reply, each of which the     *)
(* driver may take only in part (factory_protocol.c), the console text     *)
(* that shares the line (sdkconfig.h), resets, and a station that gives up *)
(* on a request, sends the next, and meets the answer later.               *)
(*                                                                         *)
(* The station does what docs/factory_protocol.md asks of it: it reads     *)
(* whole lines, ignores what is not a frame, and matches both the sequence *)
(* number and the command.  It uses every sequence number once.  Requests  *)
(* reach the board whole; the board's time stands still, except that the   *)
(* session may time out; of the tests only the station's are kept.         *)
(***************************************************************************)
EXTENDS FactorySession, Sequences

CONSTANTS
  Unit,          \* the unit on the fixture
  StoredValue,   \* the evidence of a result
  Nothing,       \* no call, no answer, nothing readable
  MaxCalls,      \* bound of the requests the station sends
  MaxInbox,      \* bound of the requests waiting to be read by the board
  MaxHeard,      \* bound of the frames waiting to be read by the station
  MaxFaults,     \* bound of the writes cut, texts in between and resets
  MaxEvents      \* bound of the requests and the faults together

ASSUME StationAssumption ==
  /\ Unit \in UnitIds /\ StoredValue \in Evidence
  /\ StationTests = Tests
  /\ {MaxCalls, MaxInbox, MaxHeard, MaxFaults, MaxEvents} \subseteq Nat

VARIABLES
  task,       \* where the board is: "boot", "idle", or what it writes next
  frame,      \* the frame being written
  inbox,      \* requests the board has yet to read
  wire,       \* what came of the line in progress
  heard,      \* frames the station has yet to read
  waiting,    \* the call the station waits for, or 0
  calls,      \* history: the requests sent, by sequence number
  performed,  \* history: what the board made of each
  lost,       \* history: those performed before the last reset or timeout
  lostBy,     \* history: the same, when a request that passed was performed
  told,       \* the answer to the last request, once the station took it
  due,        \* history: the frame in progress, while undisturbed
  faults

boardVars == <<sessionVars, task, frame>>
lineVars == <<inbox, wire, heard>>
stationVars == <<waiting, calls, told>>
historyVars == <<performed, lost, lostBy>>
vars == <<boardVars, lineVars, stationVars, historyVars, due, faults>>

Requests ==
  [cmd : {"session.start", "session.finish"}]
  \cup [cmd : {"fixture.record"}, test : Tests, passed : BOOLEAN]

Codes == Results \cup {"PASS"}
Frames == [seq : 0 .. MaxCalls, cmd : {"session.start", "session.finish",
             "fixture.record", "ready", "session.timeout", "internal"},
           code : Codes]

ASSUME NothingAssumption == Nothing \notin Codes \cup Frames

Frame(seq, cmd, code) == [seq |-> seq, cmd |-> cmd, code |-> code]

(* The texts that travel, in two parts where a write may end inside one.   *)
Text(name) == Frame(0, name, "none")
Parts(text) == <<[text |-> text, part |-> 1], [text |-> text, part |-> 2]>>
Newline == <<[text |-> Text("newline"), part |-> 1]>>
Prefix == Parts(Text("prefix"))

(* What the parts of a line are to the station: the start of a frame, a    *)
(* whole one, or something it ignores, of which no more is kept.           *)
StartsFrame(line) ==
  \/ Len(line) <= 2 /\ line = SubSeq(Prefix, 1, Len(line))
  \/ /\ Len(line) \in 3 .. 4 /\ line[3].text \in Frames
     /\ line = SubSeq(Prefix \o Parts(line[3].text), 1, Len(line))
IsFrame(line) == Len(line) = 4 /\ StartsFrame(line)

Ignored == SubSeq(Parts(Text("text")), 1, 1)

(* The bytes sent arrive, and end the line or not.                         *)
Arrive(bytes) ==
  IF bytes # <<>> /\ bytes[Len(bytes)] = Newline[1]
  THEN LET line == wire \o SubSeq(bytes, 1, Len(bytes) - 1) IN
       /\ wire' = <<>>
       /\ IF IsFrame(line)
          THEN Len(heard) < MaxHeard /\ heard' = Append(heard, line[3].text)
          ELSE UNCHANGED heard
  ELSE LET line == wire \o bytes IN
       /\ wire' = IF StartsFrame(line) THEN line ELSE Ignored
       /\ UNCHANGED heard

Bounded == Len(calls) + faults < MaxEvents
Fault == faults < MaxFaults /\ Bounded /\ faults' = faults + 1

(* usb_write_all: the whole text, or what the driver took of it before a   *)
(* write that timed out.                                                   *)
UsbWriteAll(text) ==
  \/ Arrive(text) /\ UNCHANGED faults
  \/ Fault /\ \E n \in 0 .. Len(text) - 1 : Arrive(SubSeq(text, 1, n))
-----------------------------------------------------------------------------
Init ==
  /\ session = [Zeroed EXCEPT !.manifest = Summary(AllPending)]
  /\ hasCleanup = TRUE /\ entries = AllPending /\ made = NotMade
  /\ task = "idle" /\ frame = Nothing
  /\ inbox = <<>> /\ wire = <<>> /\ heard = <<>>
  /\ waiting = 0 /\ calls = <<>>
  /\ performed = [s \in 1 .. MaxCalls |-> Nothing]
  /\ lost = {} /\ lostBy = [s \in 1 .. MaxCalls |-> {}]
  /\ told = Nothing /\ due = Nothing /\ faults = 0

(* The station's side.                                                     *)
StationFrame == UNCHANGED <<boardVars, wire, historyVars, due, faults>>

Call(request) ==
  /\ waiting = 0 /\ Len(calls) < MaxCalls /\ Len(inbox) < MaxInbox
  /\ Bounded
  /\ calls' = Append(calls, request) /\ waiting' = Len(calls')
  /\ inbox' = Append(inbox, waiting')
  /\ told' = Nothing
  /\ UNCHANGED heard /\ StationFrame

GiveUp ==
  /\ waiting # 0 /\ waiting' = 0
  /\ UNCHANGED <<inbox, heard, calls, told>> /\ StationFrame

Matches(line) ==
  /\ waiting # 0
  /\ line.seq = waiting /\ line.cmd = calls[waiting].cmd

Hear ==
  /\ heard # <<>> /\ heard' = Tail(heard)
  /\ \/ /\ Matches(Head(heard))
        /\ told' = Head(heard).code
        /\ waiting' = 0
     \/ ~Matches(Head(heard)) /\ UNCHANGED <<told, waiting>>
  /\ UNCHANGED <<inbox, calls>> /\ StationFrame
-----------------------------------------------------------------------------
(* The board's side: handle_request and the error cleanup, for a request,  *)
(* ending in the code of the reply.                                        *)
Handle(request, r) ==
  \/ /\ request.cmd = "session.start" /\ r = "HARDWARE"
     /\ UNCHANGED sessionVars
  \/ /\ request.cmd = "session.start"
     /\ \E c \in CleanupCalls : SessionStart(Unit, 0, c, r)
  \/ /\ request.cmd \in {"fixture.record", "session.finish"} /\ ~IsActive
     /\ r = "INVALID_STATE" /\ UNCHANGED sessionVars
  \/ /\ request.cmd = "fixture.record" /\ IsActive
     /\ \E recorded \in Results :
          /\ Record(request.test, "STATION", request.passed, StoredValue,
                    recorded)
          /\ \/ r = recorded
             \/ recorded = "OK" /\ ~request.passed /\ r = "CLEANUP"
  \/ /\ request.cmd = "session.finish" /\ IsActive
     /\ \E c \in CleanupCalls : SessionFinish(c, r)

(* send_response composes the frame, or falls back on the fixed one, which *)
(* is written at once, or sends nothing.                                   *)
Fallback == Frame(0, "internal", "NO_MEMORY")

Respond(reply) ==
  \/ /\ frame' = reply /\ task' = "prefix"
     /\ due' = IF wire = <<>> THEN reply ELSE Nothing
  \/ frame' = Fallback /\ task' = "fallback" /\ due' = Nothing
  \/ frame' = Nothing /\ task' = "idle" /\ due' = Nothing

(* process_line takes its line out of the buffer.                          *)
Taken_Kept(lines) == lines  \* mutant
Taken(lines) == Tail(lines)

SuccessCode_Unset(request) ==  \* mutant
  IF request.cmd = "session.finish" THEN "PASS" ELSE Nothing
SuccessCode(request) ==
  IF request.cmd = "session.finish" THEN "PASS" ELSE "OK"

Outcome(request, r) == IF r = "OK" THEN SuccessCode(request) ELSE r

(* The reply carries what the error cleanup made of the result.            *)
ReplyCode_Uncleaned(request, r, reported) == Outcome(request, r)  \* mutant
ReplyCode(request, r, reported) == Outcome(request, reported)

Performed(seq, outcome) ==
  /\ performed' = [performed EXCEPT ![seq] = outcome]
  /\ lostBy' = IF outcome = "PASS" THEN [lostBy EXCEPT ![seq] = lost]
               ELSE lostBy
  /\ UNCHANGED lost

(* The session is gone, and with it what was performed in it.              *)
LosesAll ==
  /\ lost' = {s \in 1 .. MaxCalls : performed[s] # Nothing}
  /\ UNCHANGED <<performed, lostBy>>

ProcessLine ==
  /\ task = "idle" /\ inbox # <<>>
  /\ inbox' = Taken(inbox)
  /\ LET seq == Head(inbox)
         request == calls[seq]
     IN \E r \in Results :
          /\ Handle(request, r)
          /\ \E reported \in {r, "CLEANUP"}, c \in CleanupCalls :
               /\ ErrorCleanup(r, c, reported)
               /\ Performed(seq, Outcome(request, reported))
               /\ Respond(Frame(seq, request.cmd,
                                ReplyCode(request, r, reported)))
  /\ UNCHANGED <<wire, heard, stationVars, faults>>

TimeoutEvent ==
  /\ task = "idle" /\ IsActive
  /\ \E c \in CleanupCalls, r \in {"TIMEOUT", "CLEANUP"} :
       SessionExpire(Timeout, c, r) /\ Respond(Frame(0, "session.timeout", r))
  /\ LosesAll
  /\ UNCHANGED <<lineVars, stationVars, faults>>

(* The rest of send_response: prefix, text and newline are written one     *)
(* after the other, each whether or not the one before got through.        *)
WriteFrame == UNCHANGED <<sessionVars, inbox, stationVars, historyVars>>
StillDue == due' = IF faults' = faults THEN due ELSE Nothing

WritePrefix ==
  /\ task = "prefix" /\ task' = "text"
  /\ UsbWriteAll(Prefix) /\ StillDue /\ UNCHANGED frame /\ WriteFrame

WriteText ==
  /\ task = "text" /\ task' = "newline"
  /\ UsbWriteAll(Parts(frame)) /\ StillDue /\ UNCHANGED frame /\ WriteFrame

Ending_Dropped == <<>>  \* mutant
Ending == Newline

WriteNewline ==
  /\ task = "newline" /\ task' = "idle"
  /\ UsbWriteAll(Ending) /\ due' = Nothing /\ frame' = Nothing /\ WriteFrame

WriteFallback ==
  /\ task = "fallback" /\ task' = "idle"
  /\ UsbWriteAll(Prefix \o Parts(frame) \o Newline)
  /\ due' = Nothing /\ frame' = Nothing /\ WriteFrame
-----------------------------------------------------------------------------
(* Console text goes down the same line (CONFIG_ESP_CONSOLE_...), whole or *)
(* in part: warnings while the program runs, the one of a task watchdog    *)
(* that does not restart the chip included; a panic's before it does; and  *)
(* always the ROM's and the bootloader's when the chip starts.             *)
ConsoleText == Parts(Text("text")) \o Newline

LogText ==
  /\ task # "boot" /\ Fault
  /\ due' = Nothing
  /\ \E n \in 1 .. Len(ConsoleText) : Arrive(SubSeq(ConsoleText, 1, n))
  /\ UNCHANGED <<boardVars, inbox, stationVars, historyVars>>

(* A reset forgets the session and what is in the buffers.                 *)
Reset ==
  /\ task # "boot" /\ Fault
  /\ SessionLost
  /\ task' = "boot" /\ frame' = Nothing /\ inbox' = <<>> /\ due' = Nothing
  /\ LosesAll
  /\ UNCHANGED <<wire, heard, stationVars>>

Boot ==
  /\ task = "boot" /\ task' = "ready"
  /\ \E n \in 0 .. Len(ConsoleText) : Arrive(SubSeq(ConsoleText, 1, n))
  /\ SessionInit(TRUE, "OK")
  /\ UNCHANGED <<frame, inbox, stationVars, historyVars, due, faults>>

SendReady ==
  /\ task = "ready" /\ Respond(Frame(0, "ready", "OK"))
  /\ UNCHANGED <<sessionVars, lineVars, stationVars, historyVars, faults>>
-----------------------------------------------------------------------------
Station == (\E r \in Requests : Call(r)) \/ GiveUp \/ Hear
Board == ProcessLine \/ TimeoutEvent \/ WritePrefix \/ WriteText
         \/ WriteNewline \/ WriteFallback \/ Boot \/ SendReady
Next == Station \/ Board \/ LogText \/ Reset

Spec == Init /\ [][Next]_vars
-----------------------------------------------------------------------------
(* Type invariant of the two sides and the line.                           *)
SidesOK ==
  /\ SessionTypeOK
  /\ task \in {"boot", "ready", "idle", "prefix", "text", "newline",
             "fallback"}
  /\ frame \in Frames \cup {Nothing}
  /\ task \in {"prefix", "text", "newline", "fallback"} => frame # Nothing
  /\ calls \in Seq(Requests) /\ Len(calls) <= MaxCalls
  /\ waiting \in 0 .. Len(calls)
  /\ \A i \in DOMAIN inbox : inbox[i] \in 1 .. Len(calls)
  /\ \A i \in DOMAIN heard : heard[i] \in Frames
  /\ performed \in [1 .. MaxCalls -> Codes \cup {Nothing}]
  /\ told \in Codes \cup {Nothing}

LostOK ==
  /\ lost \subseteq 1 .. MaxCalls
  /\ lostBy \in [1 .. MaxCalls -> SUBSET (1 .. MaxCalls)]

TypeOK == SidesOK /\ LostOK

(* However writes are cut and texts mixed in, the station reads no frame   *)
(* the board did not compose: what it reads of a call is what performing   *)
(* that call came to (usb_write_all, send_response).                       *)
NoFrameForged ==
  \A i \in DOMAIN heard :
    heard[i].seq # 0 =>
      /\ heard[i].seq <= Len(calls)
      /\ heard[i].cmd = calls[heard[i].seq].cmd
      /\ heard[i].code = performed[heard[i].seq]

(* A reply is lost only to a cut in its own writes, a text in its midst or *)
(* a line it did not begin: one written undisturbed on a fresh line is the *)
(* next thing the station reads, whatever was torn before it               *)
(* (send_response).                                                        *)
UndisturbedHeard ==
  [][task = "newline" /\ task' = "idle" /\ due # Nothing /\ faults' = faults
       => heard' = Append(heard, due)]_vars

(* The board passes only on what this station asked of it, in this order:  *)
(* the last start before the finish, then a passing record of every test,  *)
(* then the finish, each one performed with success, whether or not its    *)
(* reply was ever heard, and none of them before a reset or in a session   *)
(* that timed out (factory_session_start, factory_session_expire,          *)
(* factory_session_finish, process_line).                                  *)
Started(s) == calls[s].cmd = "session.start" /\ performed[s] = "OK"
Recorded(t, s) ==
  /\ calls[s].cmd = "fixture.record" /\ calls[s].test = t
  /\ calls[s].passed /\ performed[s] = "OK"

PassBacked ==
  told = "PASS" =>
    LET last == Len(calls) IN
    \E s0 \in DOMAIN calls \ lostBy[last] :
      /\ Started(s0) /\ \A s1 \in DOMAIN calls : Started(s1) => s1 <= s0
      /\ \A t \in Tests :
           \E s1 \in s0 + 1 .. last - 1 :
             Recorded(t, s1) /\ s1 \notin lostBy[last]

Phase == [s \in 1 .. MaxCalls |->
            IF s > Len(calls) THEN "new"
            ELSE IF s = waiting THEN "open" ELSE "closed"]

Remote == INSTANCE RemoteCall WITH
  Calls <- 1 .. MaxCalls, Answers <- Codes, phase <- Phase, done <- performed

(* The board and its line, torn replies, late answers and resets included, *)
(* are a server that performs each request at most once and answers it     *)
(* truly or not at all (process_line, send_response).                      *)
ImplementsRemoteCall == Remote!Spec
=============================================================================
