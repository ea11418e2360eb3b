------------------------ MODULE FactoryStation_proofs ------------------------
(***************************************************************************)
(* Board, line and station, for any tests, any number of requests and      *)
(* however many faults: the station reads no frame the board did not       *)
(* compose, an undisturbed reply reaches it, a pass it hears was earned,   *)
(* and the whole is the server RemoteCall promises.                        *)
(***************************************************************************)
EXTENDS FactoryStation, FactorySession_proofs, SequenceTheorems

(* What travels: parts of frames, of the prefix, the newline and of other  *)
(* texts, none of which is a frame.                                        *)
Part == [text : Frames \cup {Text(n) : n \in {"newline", "prefix", "text"}},
         part : {1, 2}]
TextsOf(line) == {line[i].text : i \in DOMAIN line}

(* A frame under the number of a request says what became of that request. *)
Composed(f) ==
  f.seq # 0 => /\ f.seq <= Len(calls)
               /\ f.cmd = calls[f.seq].cmd
               /\ f.code = performed[f.seq]

LineTypes ==
  /\ inbox \in Seq(1 .. MaxCalls) /\ wire \in Seq(Part)
  /\ heard \in Seq(Frames) /\ due \in Frames \cup {Nothing} /\ faults \in Nat

(* Wherever a frame is, at the board, on the line or heard, it is true.    *)
FramesInv ==
  /\ frame # Nothing => Composed(frame)
  /\ \A f \in TextsOf(wire) \cap Frames : Composed(f)
  /\ \A f \in Range(heard) : Composed(f)

(* Requests wait in the order they were sent, behind every one performed.  *)
QueueInv ==
  /\ \A i, j \in DOMAIN inbox : i < j => inbox[i] < inbox[j]
  /\ \A s \in 1 .. MaxCalls : performed[s] # Nothing =>
       s <= Len(calls) /\ \A i \in DOMAIN inbox : s < inbox[i]

(* A reply due has gone out as far as the writes have come.                *)
DueInv ==
  due # Nothing =>
    /\ due = frame
    /\ \/ task = "prefix" /\ wire = <<>>
       \/ task = "text" /\ wire = Prefix
       \/ task = "newline" /\ wire = Prefix \o Parts(frame)

(* What is lost was performed.                                             *)
LostPerformed == LostOK /\ \A s \in lost : performed[s] # Nothing

(* The session that is open was started by the last start performed, and   *)
(* its passed tests were recorded since, and nothing of it is lost.        *)
LastStart(s0, until) ==
  Started(s0) /\ \A s1 \in 1 .. until : Started(s1) => s1 <= s0
OpenedBy(s0) ==
  /\ LastStart(s0, Len(calls)) /\ s0 \notin lost
  /\ \A t \in Tests : entries[t].status = "PASS" =>
       \E s1 \in DOMAIN calls \ lost : s1 > s0 /\ Recorded(t, s1)
OpenInv == IsActive => \E s0 \in DOMAIN calls : OpenedBy(s0)

(* What was earned when a finish passed stays so.                          *)
Earned(s) ==
  \E s0 \in 1 .. s - 1 :
    /\ LastStart(s0, s - 1) /\ s0 \notin lostBy[s]
    /\ \A t \in Tests :
         \E s1 \in s0 + 1 .. s - 1 : Recorded(t, s1) /\ s1 \notin lostBy[s]
EarnedInv ==
  \A s \in DOMAIN calls :
    performed[s] = "PASS" => calls[s].cmd = "session.finish" /\ Earned(s)

(* The station waits for its last request or for none, and what it was     *)
(* told is what became of that request.                                    *)
ToldInv ==
  /\ waiting \in {0, Len(calls)}
  /\ told # Nothing =>
       waiting = 0 /\ calls # <<>> /\ performed[Len(calls)] = told

(* The chip starts before the session layer has its cleanup.               *)
BootInv == task = "boot" => ~hasCleanup

IInv == /\ SessionInv /\ BootInv
        /\ SidesOK /\ LineTypes /\ FramesInv /\ QueueInv /\ DueInv
        /\ LostPerformed /\ OpenInv /\ EarnedInv /\ ToldInv
-----------------------------------------------------------------------------
(* Each text travels in two parts, the newline in one.                     *)
LEMMA PartsType ==
  ASSUME NEW f \in Frames \cup {Text("prefix"), Text("text")}
  PROVE  Parts(f) \in Seq(Part) /\ Len(Parts(f)) = 2 /\ TextsOf(Parts(f)) = {f}
BY DEF Parts, Part, TextsOf

LEMMA NewlineType ==
  /\ Newline \in Seq(Part) /\ Len(Newline) = 1
  /\ TextsOf(Newline) = {Text("newline")}
BY DEF Newline, Part, TextsOf

(* No text of the line is a frame but a frame, and none is the newline.    *)
LEMMA NamesApart ==
  /\ Text("newline") \notin Frames /\ Text("prefix") \notin Frames
  /\ Text("text") \notin Frames
  /\ Text("newline") # Text("prefix") /\ Text("newline") # Text("text")
BY DEF Text, Frame, Frames

(* The texts of a concatenation, and of what is sent of a text that is cut.*)
LEMMA ConcatTexts ==
  ASSUME NEW a \in Seq(Part), NEW b \in Seq(Part)
  PROVE  a \o b \in Seq(Part) /\ TextsOf(a \o b) = TextsOf(a) \cup TextsOf(b)
<1>1. /\ a \o b \in Seq(Part) /\ Len(a \o b) = Len(a) + Len(b)
      /\ \A i \in 1 .. Len(a) + Len(b) :
           (a \o b)[i] = IF i <= Len(a) THEN a[i] ELSE b[i - Len(a)]
  BY ConcatProperties
<1>2. TextsOf(a \o b) \subseteq TextsOf(a) \cup TextsOf(b)
  BY <1>1 DEF TextsOf
<1>3. ASSUME NEW i \in DOMAIN a PROVE a[i].text \in TextsOf(a \o b)
  <2>1. i \in DOMAIN (a \o b) /\ (a \o b)[i] = a[i]
    BY <1>1
  <2> QED
    BY <2>1 DEF TextsOf
<1>4. ASSUME NEW i \in DOMAIN b PROVE b[i].text \in TextsOf(a \o b)
  <2>1. /\ Len(a) + i \in DOMAIN (a \o b)
        /\ (a \o b)[Len(a) + i] = b[i]
    BY <1>1
  <2> QED
    BY <2>1 DEF TextsOf
<1> QED
  BY <1>1, <1>2, <1>3, <1>4 DEF TextsOf

LEMMA PrefixTexts ==
  ASSUME NEW a \in Seq(Part), NEW n \in 0 .. Len(a)
  PROVE  /\ SubSeq(a, 1, n) \in Seq(Part)
         /\ TextsOf(SubSeq(a, 1, n)) \subseteq TextsOf(a)
<1>1. /\ SubSeq(a, 1, n) \in Seq(Part) /\ Len(SubSeq(a, 1, n)) = n
      /\ \A i \in 1 .. n : SubSeq(a, 1, n)[i] = a[i]
  BY SubSeqProperties
<1> QED
  BY <1>1 DEF TextsOf

(* A line that is a frame holds that frame.                                *)
LEMMA FrameOnLine ==
  ASSUME NEW line \in Seq(Part), IsFrame(line)
  PROVE  line[3].text \in TextsOf(line) \cap Frames
<1>1. Len(line) = 4 /\ StartsFrame(line)
  BY DEF IsFrame
<1>2. line[3].text \in Frames
  BY <1>1 DEF StartsFrame
<1>3. 3 \in DOMAIN line
  BY <1>1
<1> QED
  BY <1>2, <1>3 DEF TextsOf

(* What arrives adds its texts to those of the line, or is ignored; a line *)
(* that ends is heard if it is a frame.                                    *)
LEMMA ArriveTexts ==
  ASSUME LineTypes, NEW bytes \in Seq(Part), Arrive(bytes)
  PROVE  /\ wire' \in Seq(Part)
         /\ TextsOf(wire') \subseteq TextsOf(wire) \cup TextsOf(bytes)
                                       \cup {Text("text")}
         /\ \/ UNCHANGED heard
            \/ \E f \in (TextsOf(wire) \cup TextsOf(bytes)) \cap Frames :
                 heard' = Append(heard, f)
<1> DEFINE Ends == bytes # <<>> /\ bytes[Len(bytes)] = Newline[1]
           whole == wire \o SubSeq(bytes, 1, Len(bytes) - 1)
           more == wire \o bytes
<1>0. wire \in Seq(Part)
  BY DEF LineTypes
<1>1. CASE Ends
  <2>1. Len(bytes) - 1 \in 0 .. Len(bytes)
    BY <1>1
  <2>2. /\ whole \in Seq(Part)
        /\ TextsOf(whole) \subseteq TextsOf(wire) \cup TextsOf(bytes)
    <3> DEFINE but == SubSeq(bytes, 1, Len(bytes) - 1)
    <3>1. but \in Seq(Part) /\ TextsOf(but) \subseteq TextsOf(bytes)
      BY <2>1, PrefixTexts
    <3> HIDE DEF but
    <3>2. /\ wire \o but \in Seq(Part)
          /\ TextsOf(wire \o but) = TextsOf(wire) \cup TextsOf(but)
      BY <1>0, <3>1, ConcatTexts
    <3> QED
      BY <3>1, <3>2 DEF but
  <2>3. wire' = <<>>
    BY <1>1 DEF Arrive
  <2>4. \/ UNCHANGED heard
        \/ IsFrame(whole) /\ heard' = Append(heard, whole[3].text)
    BY <1>1 DEF Arrive
  <2>6. IsFrame(whole) => whole[3].text \in TextsOf(whole) \cap Frames
    BY <2>2, FrameOnLine
  <2>7. wire' \in Seq(Part) /\ TextsOf(wire') = {}
    BY <2>3 DEF TextsOf
  <2> QED
    BY <2>2, <2>4, <2>6, <2>7, Zenon
<1>2. CASE ~Ends
  <2>1. /\ more \in Seq(Part)
        /\ TextsOf(more) = TextsOf(wire) \cup TextsOf(bytes)
    BY <1>0, ConcatTexts
  <2>2. UNCHANGED heard /\ (wire' = more \/ wire' = Ignored)
    BY <1>2 DEF Arrive
  <2>3. Ignored \in Seq(Part) /\ TextsOf(Ignored) \subseteq {Text("text")}
    BY PartsType, PrefixTexts DEF Ignored
  <2> QED
    BY <2>1, <2>2, <2>3, Zenon
<1> QED
  BY <1>1, <1>2

(* A write sends the text or, when it fails, the beginning of it.          *)
LEMMA WriteTexts ==
  ASSUME LineTypes, NEW text \in Seq(Part), UsbWriteAll(text)
  PROVE  /\ faults' \in Nat
         /\ faults' = faults => Arrive(text)
         /\ \E bytes \in Seq(Part) :
              Arrive(bytes) /\ TextsOf(bytes) \subseteq TextsOf(text)
<1>1. faults \in Nat
  BY DEF LineTypes
<1>2. CASE Arrive(text) /\ UNCHANGED faults
  BY <1>1, <1>2
<1>3. CASE Fault /\ \E n \in 0 .. Len(text) - 1 : Arrive(SubSeq(text, 1, n))
  <2>1. PICK n \in 0 .. Len(text) - 1 : Arrive(SubSeq(text, 1, n))
    BY <1>3
  <2>2. /\ SubSeq(text, 1, n) \in Seq(Part)
        /\ TextsOf(SubSeq(text, 1, n)) \subseteq TextsOf(text)
    BY PrefixTexts
  <2>3. faults' \in Nat /\ faults' # faults
    BY <1>1, <1>3 DEF Fault
  <2> QED
    BY <2>1, <2>2, <2>3, Zenon
<1> QED
  BY <1>2, <1>3 DEF UsbWriteAll
-----------------------------------------------------------------------------
(* Requests are only added to, and what was made of one stays.             *)
Grows ==
  /\ calls' \in Seq(Requests)
  /\ \A s \in DOMAIN calls : s \in DOMAIN calls' /\ calls'[s] = calls[s]
  /\ \A s \in 1 .. MaxCalls :
       performed[s] # Nothing => performed'[s] = performed[s]

LEMMA HistoryGrows ==
  ASSUME SidesOK, LineTypes, QueueInv, [Next]_vars
  PROVE  Grows
<1>1. CASE UNCHANGED <<calls, performed>>
  BY <1>1 DEF Grows, SidesOK
<1>2. ASSUME NEW r \in Requests, Call(r) PROVE Grows
  <2>1. calls \in Seq(Requests) /\ calls' = Append(calls, r)
        /\ UNCHANGED performed
    BY <1>2 DEF SidesOK, Call, StationFrame, historyVars
  <2> QED
    BY <2>1, AppendProperties DEF Grows
<1>3. CASE ProcessLine
  <2>1. Head(inbox) = inbox[1] /\ 1 \in DOMAIN inbox
    BY <1>3 DEF ProcessLine, LineTypes
  <2>2. \A s \in 1 .. MaxCalls : performed[s] # Nothing => s # Head(inbox)
    BY <2>1 DEF QueueInv, SidesOK
  <2>3. UNCHANGED calls
        /\ \E a : performed' = [performed EXCEPT ![Head(inbox)] = a]
    BY <1>3, Zenon DEF ProcessLine, Performed, stationVars
  <2> QED
    BY <2>2, <2>3 DEF Grows, SidesOK
<1>4. CASE GiveUp \/ Hear \/ TimeoutEvent \/ WritePrefix \/ WriteText
           \/ WriteNewline \/ WriteFallback \/ Boot \/ SendReady \/ LogText
           \/ Reset \/ UNCHANGED vars
  BY <1>1, <1>4
     DEF GiveUp, Hear, TimeoutEvent, WritePrefix, WriteText, WriteNewline,
         WriteFallback, WriteFrame, historyVars, Boot, SendReady, LogText,
         Reset, vars,
         stationVars, StationFrame, historyVars, historyVars, LosesAll
<1> QED
  BY <1>2, <1>3, <1>4 DEF Next, Station, Board

LEMMA ComposedKept ==
  ASSUME SidesOK, Grows, NEW f \in Frames, Composed(f)
  PROVE  Composed(f)'
<1> SUFFICES ASSUME f.seq # 0
             PROVE  /\ f.seq <= Len(calls') /\ f.cmd = calls'[f.seq].cmd
                    /\ f.code = performed'[f.seq]
  BY DEF Composed
<1>1. f.seq \in 1 .. MaxCalls /\ f.code \in Codes
  BY StationAssumption DEF Frames
<1>2. calls \in Seq(Requests) /\ calls' \in Seq(Requests)
  BY DEF SidesOK, Grows
<1>3. /\ f.seq \in DOMAIN calls /\ f.cmd = calls[f.seq].cmd
      /\ f.code = performed[f.seq]
  BY <1>1, <1>2 DEF Composed
<1>4. performed[f.seq] # Nothing
  BY <1>1, <1>3, NothingAssumption
<1> QED
  BY <1>1, <1>2, <1>3, <1>4 DEF Grows

(* What becomes of the texts on the line when a text is written.           *)
LEMMA WriteFrames ==
  ASSUME SidesOK, LineTypes, FramesInv, Grows,
         NEW bytes \in Seq(Part), Arrive(bytes),
         \A f \in TextsOf(bytes) \cap Frames : Composed(f)
  PROVE  /\ wire' \in Seq(Part) /\ heard' \in Seq(Frames)
         /\ \A f \in TextsOf(wire') \cap Frames : Composed(f)'
         /\ \A f \in Range(heard') : Composed(f)'
<1>1. /\ wire' \in Seq(Part)
      /\ TextsOf(wire') \subseteq TextsOf(wire) \cup TextsOf(bytes)
                                    \cup {Text("text")}
      /\ \/ UNCHANGED heard
         \/ \E f \in (TextsOf(wire) \cup TextsOf(bytes)) \cap Frames :
              heard' = Append(heard, f)
  BY ArriveTexts
<1>2. \A f \in (TextsOf(wire) \cup TextsOf(bytes)) \cap Frames : Composed(f)'
  BY ComposedKept DEF FramesInv
<1>3. \A f \in TextsOf(wire') \cap Frames : Composed(f)'
  BY <1>1, <1>2, NamesApart
<1>4. /\ heard \in Seq(Frames) /\ Range(heard) \subseteq Frames
      /\ \A f \in Range(heard) : Composed(f)'
  <2>1. heard \in Seq(Frames) /\ Range(heard) \subseteq Frames
    BY RangeOfSeq DEF LineTypes
  <2> QED
    BY <2>1, ComposedKept DEF FramesInv
<1>5. CASE UNCHANGED heard
  BY <1>1, <1>3, <1>4, <1>5
<1>6. ASSUME NEW f \in (TextsOf(wire) \cup TextsOf(bytes)) \cap Frames,
             heard' = Append(heard, f)
      PROVE  heard' \in Seq(Frames) /\ \A g \in Range(heard') : Composed(g)'
  <2>1. heard' = heard \o <<f>> /\ <<f>> \in Seq(Frames)
    BY <1>4, <1>6, AppendIsConcat
  <2>2. Range(heard') = Range(heard) \cup Range(<<f>>)
    <3>1. Range(heard \o <<f>>) = Range(heard) \cup Range(<<f>>)
      BY <1>4, <2>1, RangeConcatenation, ZenonT(40)
    <3> QED
      BY <2>1, <3>1
  <2>3. Range(<<f>>) = {f}
    BY DEF Range
  <2>4. heard' \in Seq(Frames)
    BY <1>4, <1>6, AppendProperties
  <2> QED
    BY <1>2, <1>4, <2>2, <2>3, <2>4, Zenon
<1> QED
  BY <1>1, <1>3, <1>5, <1>6

(* A reply that is composed truly is true, and due from there.             *)
LEMMA RespondFrames ==
  ASSUME NEW reply \in Frames, Composed(reply)', Respond(reply),
         UNCHANGED wire
  PROVE  /\ frame' \in Frames \cup {Nothing} /\ due' \in Frames \cup {Nothing}
         /\ task' \in {"prefix", "fallback", "idle"}
         /\ task' \in {"prefix", "fallback"} => frame' # Nothing
         /\ frame' # Nothing => Composed(frame)'
         /\ DueInv'
<1>1. Fallback \in Frames /\ Fallback.seq = 0
  BY StationAssumption DEF Fallback, Frame, Frames, Codes, Results
<1>2. Composed(Fallback)'
  BY <1>1 DEF Composed
<1>3. Fallback # Nothing /\ reply # Nothing
  BY <1>1, NothingAssumption
<1>4. CASE frame' = reply /\ task' = "prefix"
           /\ due' = IF wire = <<>> THEN reply ELSE Nothing
  <2>1. due' \in {reply, Nothing} /\ (due' # Nothing => wire' = <<>>)
    BY <1>4
  <2>2. Composed(frame)'
    BY <1>4
  <2> QED
    BY <1>3, <1>4, <2>1, <2>2 DEF DueInv
<1>5. CASE frame' = Fallback /\ task' = "fallback" /\ due' = Nothing
  <2>1. Composed(frame)'
    BY <1>2, <1>5
  <2> QED
    BY <1>1, <1>3, <1>5, <2>1 DEF DueInv
<1>6. CASE frame' = Nothing /\ task' = "idle" /\ due' = Nothing
  BY <1>6 DEF DueInv
<1> QED
  BY <1>4, <1>5, <1>6 DEF Respond
-----------------------------------------------------------------------------
LineInv == SidesOK /\ LineTypes /\ FramesInv /\ QueueInv /\ DueInv

(* The types of the texts in the code.                                     *)
LEMMA OutcomeType ==
  ASSUME NEW request \in Requests, NEW r \in Results
  PROVE  /\ Outcome(request, r) \in Codes
         /\ Outcome(request, r) = "PASS" <=>
              r = "OK" /\ request.cmd = "session.finish"
         /\ Outcome(request, r) = "OK" <=>
              r = "OK" /\ request.cmd # "session.finish"
         /\ \A s \in 1 .. MaxCalls :
              Frame(s, request.cmd, Outcome(request, r)) \in Frames
<1>1. request.cmd \in {"session.start", "session.finish", "fixture.record"}
  BY DEF Requests
<1>2. \A c \in Codes : \A s \in 1 .. MaxCalls :
        Frame(s, request.cmd, c) \in Frames
  BY <1>1, StationAssumption DEF Frame, Frames
<1>3. Outcome(request, r) \in Codes
  BY DEF Outcome, SuccessCode, Codes, Results
<1> QED
  BY <1>2, <1>3 DEF Outcome, SuccessCode, Results

(* What the board does with the request at the head of its queue.          *)
LEMMA ServedRequest ==
  ASSUME SidesOK, LineTypes, QueueInv, ProcessLine
  PROVE  \E s \in 1 .. MaxCalls, r \in Results, reported \in Results :
           /\ s \in DOMAIN calls /\ calls[s] \in Requests
           /\ performed[s] = Nothing
           /\ \A s1 \in 1 .. MaxCalls : performed[s1] # Nothing => s1 < s
           /\ inbox # <<>> /\ s = Head(inbox) /\ inbox' = Tail(inbox)
           /\ Handle(calls[s], r)
           /\ r = "OK" <=> reported = "OK"
           /\ Performed(s, Outcome(calls[s], reported))
           /\ Respond(Frame(s, calls[s].cmd, Outcome(calls[s], reported)))
           /\ UNCHANGED <<wire, heard, stationVars, faults>>
<1> DEFINE s == Head(inbox)
<1>1. inbox # <<>> /\ inbox \in Seq(1 .. MaxCalls) /\ calls \in Seq(Requests)
  BY Zenon DEF ProcessLine, LineTypes, SidesOK
<1>2. s = inbox[1] /\ 1 \in DOMAIN inbox /\ s \in 1 .. MaxCalls
  <2>1. s \in 1 .. MaxCalls
    BY <1>1, HeadTailProperties
  <2>2. Len(inbox) \in Nat \ {0} /\ DOMAIN inbox = 1 .. Len(inbox)
    BY <1>1, EmptySeq, LenProperties
  <2>3. s = inbox[1]
    BY <1>1
  <2> QED
    BY <2>1, <2>2, <2>3
<1>3. s \in 1 .. Len(calls)
  BY <1>2 DEF SidesOK
<1>4. s \in DOMAIN calls /\ calls[s] \in Requests
  BY <1>1, <1>3, ElementOfSeq, LenProperties
<1>5. \A s1 \in 1 .. MaxCalls : performed[s1] # Nothing => s1 < s
  BY <1>2 DEF QueueInv
<1>6. performed[s] = Nothing
  BY <1>2, <1>5
<1>0. PICK r \in Results :
        /\ Handle(calls[s], r)
        /\ \E reported \in {r, "CLEANUP"}, c \in CleanupCalls :
             /\ ErrorCleanup(r, c, reported)
             /\ Performed(s, Outcome(calls[s], reported))
             /\ Respond(Frame(s, calls[s].cmd,
                              ReplyCode(calls[s], r, reported)))
  BY Zenon DEF ProcessLine
<1>7. PICK reported \in {r, "CLEANUP"}, c \in CleanupCalls :
        /\ ErrorCleanup(r, c, reported)
        /\ Performed(s, Outcome(calls[s], reported))
        /\ Respond(Frame(s, calls[s].cmd,
                         ReplyCode(calls[s], r, reported)))
  BY <1>0
<1>8. reported \in Results /\ (r = "OK" <=> reported = "OK")
  BY <1>7 DEF ErrorCleanup, Results
<1>9. inbox' = Tail(inbox) /\ UNCHANGED <<wire, heard, stationVars, faults>>
  BY DEF ProcessLine, Taken
<1>10. Respond(Frame(s, calls[s].cmd, Outcome(calls[s], reported)))
  BY <1>7 DEF ReplyCode
<1> HIDE DEF s
<1> QED
  BY <1>1, <1>2, <1>4, <1>5, <1>6, <1>0, <1>7, <1>8, <1>9, <1>10, Zenon
     DEF s
-----------------------------------------------------------------------------
LEMMA InitInv == Init => IInv
<1> SUFFICES ASSUME Init PROVE IInv
  OBVIOUS
<1>1. session \in Sessions /\ session.state = "IDLE"
  BY SummaryType, AllPendingType DEF Init, Sessions, States, Zeroed
<1>2. SessionTypeOK /\ Traceable
  BY <1>1, AllPendingType, NotMadeType
     DEF Init, SessionTypeOK, Traceable, AllPending
<1>3. SessionInv
  BY <1>1, <1>2 DEF SessionInv, IdleBeforeInit, VerdictSound
<1>4. /\ task = "idle" /\ frame = Nothing /\ inbox = <<>> /\ wire = <<>>
      /\ heard = <<>> /\ calls = <<>> /\ waiting = 0 /\ told = Nothing
      /\ due = Nothing /\ faults = 0
      /\ performed = [s \in 1 .. MaxCalls |-> Nothing]
      /\ lost = {} /\ lostBy = [s \in 1 .. MaxCalls |-> {}]
  BY DEF Init
<1>5. SidesOK /\ LineTypes
  BY <1>2, <1>4, StationAssumption DEF SidesOK, LineTypes
<1>6. FramesInv /\ QueueInv /\ DueInv
  BY <1>4 DEF FramesInv, QueueInv, DueInv, TextsOf, Range
<1>7. OpenInv /\ EarnedInv /\ ToldInv /\ BootInv
  BY <1>1, <1>4 DEF OpenInv, OpenedBy, EarnedInv, ToldInv, BootInv, IsActive
<1>8. LostPerformed
  BY <1>4 DEF LostPerformed, LostOK
<1> QED
  BY <1>3, <1>5, <1>6, <1>7, <1>8 DEF IInv

(* Every step keeps the promises of the session layer.                     *)
LEMMA SessionStep ==
  ASSUME SessionInv, BootInv, [Next]_vars
  PROVE  SessionInv' /\ BootInv'
<1>1. CASE UNCHANGED <<sessionVars, task>>
  BY <1>1, EarlyReturn, InvHasBase DEF BootInv, sessionVars
<1>2. CASE UNCHANGED sessionVars /\ task' # "boot"
  BY <1>2, EarlyReturn, InvHasBase DEF BootInv
<1>3. ASSUME NEW reply, Respond(reply) PROVE task' # "boot"
  BY <1>3 DEF Respond
<1>4. CASE ProcessLine
  <2>1. task' # "boot"
    BY <1>3, <1>4, Zenon DEF ProcessLine
  <2>2. PICK r \in Results : Handle(calls[Head(inbox)], r)
    BY <1>4, Zenon DEF ProcessLine
  <2>3. CASE UNCHANGED sessionVars
    BY <1>2, <2>1, <2>3
  <2>4. CASE \E c \in CleanupCalls : SessionStart(Unit, 0, c, r)
    BY <2>1, <2>4, StartCall, InvHasBase DEF BootInv
  <2>5. ASSUME NEW t, NEW passed, NEW q, Record(t, "STATION", passed,
                                               StoredValue, q)
        PROVE  SessionInv'
    BY <2>5, RecordCall, InvHasBase
  <2>6. CASE \E c \in CleanupCalls : SessionFinish(c, r)
    BY <2>1, <2>6, FinishCall, InvHasBase DEF BootInv
  <2> QED
    BY <2>1, <2>2, <2>3, <2>4, <2>5, <2>6 DEF Handle, BootInv
<1>5. CASE TimeoutEvent
  <2>1. task' # "boot"
    BY <1>3, <1>5, Zenon DEF TimeoutEvent
  <2>2. \E c, r : SessionExpire(Timeout, c, r)
    BY <1>5 DEF TimeoutEvent
  <2> QED
    BY <2>1, <2>2, ExpireCall, InvHasBase DEF BootInv
<1>6. CASE Boot
  BY <1>6, InitCall, InvHasBase DEF Boot, BootInv
<1>7. CASE Reset
  BY <1>7, LostInv DEF Reset, BootInv, SessionLost
<1>8. CASE SendReady
  <2>1. task' # "boot" /\ UNCHANGED sessionVars
    BY <1>3, <1>8 DEF SendReady
  <2> QED
    BY <1>2, <2>1
<1>9. CASE WritePrefix \/ WriteText \/ WriteNewline \/ WriteFallback
  BY <1>2, <1>9
     DEF WritePrefix, WriteText, WriteNewline, WriteFallback, WriteFrame,
            historyVars
<1>10. CASE Station \/ LogText \/ UNCHANGED vars
  BY <1>1, <1>10
     DEF Station, Call, GiveUp, Hear, StationFrame, historyVars, boardVars,
            LogText, vars
<1> QED
  BY <1>4, <1>5, <1>6, <1>7, <1>8, <1>9, <1>10 DEF Next, Board
-----------------------------------------------------------------------------
(* The station's steps: it takes frames from the line and adds requests,   *)
(* which wait behind the others.                                           *)
LEMMA StationLine ==
  ASSUME LineInv, Grows, Station, SessionTypeOK'
  PROVE  LineInv'
<1>0. /\ calls \in Seq(Requests) /\ calls' \in Seq(Requests)
      /\ inbox \in Seq(1 .. MaxCalls) /\ heard \in Seq(Frames)
  BY DEF LineInv, LineTypes, SidesOK, Grows
<1>1. UNCHANGED <<task, frame, wire, performed, due, faults>>
  BY DEF Station, Call, GiveUp, Hear, StationFrame, historyVars, boardVars
<1>2. DueInv'
  BY <1>1 DEF LineInv, DueInv
<1>3. /\ frame' # Nothing => Composed(frame)'
      /\ \A f \in TextsOf(wire') \cap Frames : Composed(f)'
  <2>1. ASSUME NEW f \in Frames, Composed(f) PROVE Composed(f)'
    BY <2>1, ComposedKept DEF LineInv
  <2>2. frame' # Nothing => frame \in Frames /\ Composed(frame)
    BY <1>1 DEF LineInv, SidesOK, FramesInv
  <2>3. \A f \in TextsOf(wire') \cap Frames : Composed(f)
    BY <1>1 DEF LineInv, FramesInv
  <2>4. \A f \in Frames : f = frame' => Composed(frame)' = Composed(f)'
    BY <1>1
  <2> QED
    BY <1>1, <2>1, <2>2, <2>3, <2>4
<1>4. \A f \in Range(heard) : Composed(f)'
  <2>1. Range(heard) \subseteq Frames
    BY <1>0, RangeOfSeq
  <2> QED
    BY <2>1, ComposedKept DEF LineInv, FramesInv
<1>5. ASSUME NEW r \in Requests, Call(r) PROVE LineInv'
  <2>1. /\ calls' = Append(calls, r) /\ waiting' = Len(calls')
        /\ inbox' = Append(inbox, waiting') /\ told' = Nothing
        /\ Len(calls) < MaxCalls /\ UNCHANGED heard
    BY <1>5 DEF Call
  <2>2. /\ Len(calls') = Len(calls) + 1 /\ Len(calls) \in Nat
        /\ waiting' \in 1 .. MaxCalls
    BY <1>0, <2>1, AppendProperties, StationAssumption
  <2>3. /\ inbox' \in Seq(1 .. MaxCalls) /\ Len(inbox') = Len(inbox) + 1
        /\ \A i \in 1 .. Len(inbox) : inbox'[i] = inbox[i]
        /\ inbox'[Len(inbox) + 1] = waiting'
        /\ Len(inbox) \in Nat
    BY <1>0, <2>1, <2>2, AppendProperties
  <2>4. DOMAIN inbox = 1 .. Len(inbox) /\ DOMAIN inbox' = 1 .. Len(inbox')
    BY <1>0, <2>3, LenProperties
  <2>5. \A i \in DOMAIN inbox : inbox[i] \in 1 .. Len(calls)
    BY DEF LineInv, SidesOK
  <2>6. \A i \in DOMAIN inbox' :
          \/ /\ i \in DOMAIN inbox /\ inbox'[i] = inbox[i]
             /\ inbox[i] < waiting'
          \/ i = Len(inbox) + 1 /\ inbox'[i] = waiting'
    <3> TAKE i \in DOMAIN inbox'
    <3>1. i \in 1 .. Len(inbox) \/ i = Len(inbox) + 1
      BY <2>3, <2>4
    <3>2. CASE i \in 1 .. Len(inbox)
      <4>1. i \in DOMAIN inbox /\ inbox[i] \in 1 .. Len(calls)
        BY <2>4, <2>5, <3>2
      <4>2. inbox[i] < waiting'
        BY <2>1, <2>2, <4>1
      <4> QED
        BY <2>3, <3>2, <4>1, <4>2
    <3>3. CASE i = Len(inbox) + 1
      BY <2>3, <3>3
    <3> QED
      BY <3>1, <3>2, <3>3
  <2>7. QueueInv'
    <3>1. \A i, j \in DOMAIN inbox' : i < j => inbox'[i] < inbox'[j]
      BY <2>2, <2>3, <2>4, <2>5, <2>6 DEF LineInv, QueueInv
    <3>2. \A s \in 1 .. MaxCalls : performed[s] # Nothing =>
            s <= Len(calls) /\ \A i \in DOMAIN inbox : s < inbox[i]
      BY DEF LineInv, QueueInv
    <3> QED
      BY <1>1, <2>1, <2>2, <2>6, <3>1, <3>2 DEF QueueInv
  <2>8. \A i \in DOMAIN inbox' : inbox'[i] \in 1 .. Len(calls')
    BY <2>1, <2>2, <2>4, <2>5, <2>6
  <2>9. SidesOK'
    BY SMTT(30), <1>0, <1>1, <2>1, <2>2, <2>8, StationAssumption
       DEF LineInv, SidesOK
  <2>10. LineTypes' /\ FramesInv'
    BY <1>1, <1>3, <1>4, <2>1, <2>3 DEF LineInv, LineTypes, FramesInv
  <2> QED
    BY <1>2, <2>7, <2>9, <2>10 DEF LineInv
<1>6. CASE GiveUp \/ Hear
  <2>1. UNCHANGED <<inbox, calls>> /\ waiting' \in {0, waiting}
    BY <1>6 DEF GiveUp, Hear
  <2>2. /\ heard' \in Seq(Frames) /\ Range(heard') \subseteq Range(heard)
        /\ told' \in Codes \cup {Nothing}
    <3>1. CASE GiveUp
      BY <1>0, <3>1 DEF GiveUp, LineInv, SidesOK
    <3>2. CASE Hear
      <4>1. heard # <<>> /\ heard' = Tail(heard)
        BY <3>2 DEF Hear
      <4>2. /\ heard' \in Seq(Frames) /\ Len(heard') = Len(heard) - 1
            /\ Len(heard) \in Nat \ {0}
            /\ \A i \in 1 .. Len(heard') : heard'[i] = heard[i + 1]
        BY <1>0, <4>1, HeadTailProperties, EmptySeq
      <4>3. DOMAIN heard' = 1 .. Len(heard') /\ DOMAIN heard = 1 .. Len(heard)
        BY <1>0, <4>2, LenProperties
      <4>4. Range(heard') \subseteq Range(heard)
        <5>1. ASSUME NEW i \in DOMAIN heard' PROVE heard'[i] \in Range(heard)
          <6>1. i + 1 \in DOMAIN heard /\ heard'[i] = heard[i + 1]
            BY <4>2, <4>3
          <6> QED
            BY <6>1 DEF Range
        <5> QED
          BY <5>1 DEF Range
      <4>5. Head(heard) \in Frames
        BY <1>0, <4>1, HeadTailProperties
      <4>6. Head(heard).code \in Codes
        BY <4>5 DEF Frames
      <4> QED
        BY <3>2, <4>2, <4>4, <4>6 DEF Hear, LineInv, SidesOK
    <3> QED
      BY <1>6, <3>1, <3>2
  <2>3. QueueInv' /\ FramesInv'
    BY <1>1, <1>3, <1>4, <2>1, <2>2 DEF LineInv, QueueInv, FramesInv
  <2>4. \A i \in DOMAIN heard' : heard'[i] \in Frames
    BY <2>2, ElementOfSeq, LenProperties
  <2>5. SidesOK' /\ LineTypes'
    BY <1>1, <2>1, <2>2, <2>4 DEF LineInv, SidesOK, LineTypes
  <2> QED
    BY <1>2, <2>3, <2>5 DEF LineInv
<1> QED
  BY <1>5, <1>6 DEF Station

(* A board's step is a step of the line when what it writes is true and it *)
(* says what is due: the station's side stays as it is.                    *)
LEMMA StationKept ==
  ASSUME LineInv, SessionTypeOK', UNCHANGED <<stationVars, performed>>,
         inbox' \in {inbox, <<>>},
         task' \in {"boot", "ready", "idle", "prefix", "text", "newline",
                    "fallback"},
         frame' \in Frames \cup {Nothing},
         task' \in {"prefix", "text", "newline", "fallback"} =>
           frame' # Nothing,
         wire' \in Seq(Part), heard' \in Seq(Frames),
         due' \in Frames \cup {Nothing}, faults' \in Nat,
         frame' # Nothing => Composed(frame)',
         \A f \in TextsOf(wire') \cap Frames : Composed(f)',
         \A f \in Range(heard') : Composed(f)',
         DueInv'
  PROVE  LineInv'
<1>1. /\ inbox \in Seq(1 .. MaxCalls) /\ inbox' \in Seq(1 .. MaxCalls)
      /\ inbox' = inbox \/ DOMAIN inbox' = {}
  <2>1. inbox \in Seq(1 .. MaxCalls)
    BY DEF LineInv, LineTypes
  <2>2. CASE inbox' = <<>>
    BY <2>1, <2>2
  <2> QED
    BY <2>1, <2>2
<1>2. UNCHANGED <<waiting, calls, told, performed>>
  BY DEF stationVars
<1>3. QueueInv'
  BY <1>1, <1>2 DEF LineInv, QueueInv
<1>4. /\ \A i \in DOMAIN heard' : heard'[i] \in Frames
      /\ \A i \in DOMAIN inbox' : inbox'[i] \in 1 .. Len(calls')
  <2>1. \A i \in DOMAIN heard' : heard'[i] \in Frames
    BY ElementOfSeq, LenProperties
  <2>2. \A i \in DOMAIN inbox : inbox[i] \in 1 .. Len(calls)
    BY DEF LineInv, SidesOK
  <2> QED
    BY <1>1, <1>2, <2>1, <2>2
<1>5. SidesOK'
  BY <1>2, <1>4 DEF LineInv, SidesOK
<1>6. LineTypes' /\ FramesInv'
  BY <1>1 DEF LineTypes, FramesInv
<1> QED
  BY <1>3, <1>5, <1>6 DEF LineInv

(* What was true of the frame, the line and the station's frames stays so. *)
LEMMA FramesKept ==
  ASSUME LineInv, Grows
  PROVE  /\ \A f \in TextsOf(wire) \cap Frames : Composed(f)'
         /\ \A f \in Range(heard) : Composed(f)'
         /\ \A f \in Frames : f = frame => Composed(f)'
<1>1. Range(heard) \subseteq Frames
  BY RangeOfSeq DEF LineInv, LineTypes
<1>2. \A f \in Frames : Composed(f) => Composed(f)'
  <2> TAKE f \in Frames
  <2> HAVE Composed(f)
  <2> QED
    BY ComposedKept DEF LineInv
<1> QED
  BY <1>1, <1>2, NothingAssumption DEF LineInv, FramesInv

LEMMA RespondLine ==
  ASSUME LineInv, Grows, SessionTypeOK', NEW cmd, NEW code,
         Frame(0, cmd, code) \in Frames, Respond(Frame(0, cmd, code)),
         UNCHANGED <<lineVars, stationVars, performed, faults>>
  PROVE  LineInv'
<1>1. UNCHANGED <<inbox, wire, heard>> /\ faults' \in Nat
  BY DEF lineVars, LineInv, LineTypes
<1>2. Composed(Frame(0, cmd, code))'
  BY DEF Frame, Composed
<1>3. /\ frame' \in Frames \cup {Nothing} /\ due' \in Frames \cup {Nothing}
      /\ task' \in {"prefix", "fallback", "idle"}
      /\ task' \in {"prefix", "fallback"} => frame' # Nothing
      /\ frame' # Nothing => Composed(frame)'
      /\ DueInv'
  BY <1>1, <1>2, RespondFrames
<1>4. /\ \A f \in TextsOf(wire') \cap Frames : Composed(f)'
      /\ \A f \in Range(heard') : Composed(f)'
  BY <1>1, FramesKept
<1>5. wire' \in Seq(Part) /\ heard' \in Seq(Frames)
  BY <1>1 DEF LineInv, LineTypes
<1> QED
  BY <1>1, <1>3, <1>4, <1>5, StationKept

(* The text of a frame, and the line it makes: the parts of no text end a  *)
(* line, and the line made of a prefix and a frame is that frame.          *)
LEMMA WholeLine ==
  ASSUME NEW f \in Frames
  PROVE  /\ Prefix \o Parts(f) \in Seq(Part) /\ IsFrame(Prefix \o Parts(f))
         /\ (Prefix \o Parts(f))[3].text = f
         /\ StartsFrame(Prefix) /\ StartsFrame(Prefix \o Parts(f))
<1> DEFINE line == Prefix \o Parts(f)
<1>1. /\ Prefix \in Seq(Part) /\ Len(Prefix) = 2
      /\ Parts(f) \in Seq(Part) /\ Len(Parts(f)) = 2
  BY PartsType DEF Prefix
<1>2. line \in Seq(Part) /\ Len(line) = 4 /\ line[3] = Parts(f)[1]
  <2> HIDE DEF line
  <2>1. /\ line \in Seq(Part) /\ Len(line) = Len(Prefix) + Len(Parts(f))
        /\ \A i \in 1 .. Len(Prefix) + Len(Parts(f)) :
             line[i] = IF i <= Len(Prefix) THEN Prefix[i]
                       ELSE Parts(f)[i - Len(Prefix)]
    BY <1>1, ConcatProperties DEF line
  <2> QED
    BY <1>1, <2>1
<1>3. line[3].text = f
  BY <1>2 DEF Parts
<1>4. SubSeq(line, 1, Len(line)) = line /\ SubSeq(Prefix, 1, 2) = Prefix
  BY <1>1, <1>2, SubSeqFull
<1> HIDE DEF line
<1>5. line = Prefix \o Parts(line[3].text)
  BY <1>3 DEF line
<1>6. StartsFrame(Prefix) /\ StartsFrame(line)
  BY <1>1, <1>2, <1>3, <1>4, <1>5 DEF StartsFrame
<1> QED
  BY <1>2, <1>3, <1>6 DEF line, IsFrame

LEMMA PartsArrive ==
  ASSUME NEW f \in Frames \cup {Text("prefix")}, Arrive(Parts(f)),
         StartsFrame(wire \o Parts(f))
  PROVE  wire' = wire \o Parts(f)
<1>1. /\ Len(Parts(f)) = 2 /\ Parts(f)[2].part = 2 /\ Newline[1].part = 1
  BY DEF Parts, Newline
<1>2. Parts(f)[Len(Parts(f))] # Newline[1]
  BY <1>1
<1> QED
  BY <1>2 DEF Arrive

LEMMA NewlineArrives ==
  ASSUME NEW f \in Frames, wire = Prefix \o Parts(f), Arrive(Newline)
  PROVE  heard' = Append(heard, f)
<1>1. wire \in Seq(Part) /\ IsFrame(wire) /\ wire[3].text = f
  BY WholeLine
<1>2. Newline # <<>> /\ Newline[Len(Newline)] = Newline[1]
  BY NewlineType DEF Newline
<1>3. SubSeq(Newline, 1, Len(Newline) - 1) = <<>>
  BY NewlineType, SubSeqEmpty
<1>4. wire \o SubSeq(Newline, 1, Len(Newline) - 1) = wire
  BY <1>1, <1>3, ConcatEmptySeq
<1> QED
  BY <1>1, <1>2, <1>4 DEF Arrive

(* Whenever bytes arrive that carry no untrue frame.                       *)
LEMMA BytesLine ==
  ASSUME LineInv, Grows, SessionTypeOK',
         UNCHANGED <<inbox, stationVars, performed>>,
         NEW bytes \in Seq(Part), Arrive(bytes), faults' \in Nat,
         \A f \in TextsOf(bytes) \cap Frames : Composed(f),
         task' \in {"boot", "ready", "idle", "prefix", "text", "newline",
                    "fallback"},
         frame' \in {frame, Nothing}, due' \in {due, Nothing},
         task' \in {"prefix", "text", "newline", "fallback"} =>
           frame' # Nothing,
         DueInv'
  PROVE  LineInv'
<1>1. /\ wire' \in Seq(Part) /\ heard' \in Seq(Frames)
      /\ \A f \in TextsOf(wire') \cap Frames : Composed(f)'
      /\ \A f \in Range(heard') : Composed(f)'
  BY WriteFrames DEF LineInv
<1>2. frame' \in Frames \cup {Nothing} /\ due' \in Frames \cup {Nothing}
  BY DEF LineInv, SidesOK, LineTypes
<1>3. frame' # Nothing => Composed(frame)'
  <2>1. \A f \in Frames : f = frame => Composed(f)'
    BY FramesKept
  <2>2. \A f \in Frames : f = frame' => Composed(frame)' = Composed(f)'
    OBVIOUS
  <2> QED
    BY <1>2, <2>1, <2>2
<1> QED
  BY <1>1, <1>2, <1>3, StationKept

(* The writes of a reply.                                                  *)
LEMMA WriteLine ==
  ASSUME LineInv, Grows, SessionTypeOK',
         WritePrefix \/ WriteText \/ WriteNewline \/ WriteFallback
  PROVE  LineInv'
<1>0. LineTypes /\ task \in {"prefix", "text", "newline", "fallback"}
  BY DEF LineInv, WritePrefix, WriteText, WriteNewline, WriteFallback
<1>1. frame \in Frames /\ Composed(frame)
  BY <1>0 DEF LineInv, SidesOK, FramesInv
<1>2. UNCHANGED <<inbox, stationVars, performed>>
  BY DEF WritePrefix, WriteText, WriteNewline, WriteFallback, WriteFrame,
         historyVars
<1>3. /\ Prefix \in Seq(Part) /\ TextsOf(Prefix) = {Text("prefix")}
      /\ Parts(frame) \in Seq(Part) /\ TextsOf(Parts(frame)) = {frame}
  BY <1>1, PartsType DEF Prefix
<1>4. ASSUME NEW text \in Seq(Part), UsbWriteAll(text),
             \A f \in TextsOf(text) \cap Frames : Composed(f),
             task' \in {"text", "newline", "idle"},
             frame' \in {frame, Nothing}, due' \in {due, Nothing},
             task' # "idle" => UNCHANGED frame, DueInv'
      PROVE  LineInv'
  <2>1. /\ faults' \in Nat
        /\ \E bytes \in Seq(Part) :
             Arrive(bytes) /\ TextsOf(bytes) \subseteq TextsOf(text)
    BY <1>0, <1>4, WriteTexts
  <2>2. PICK bytes \in Seq(Part) :
          Arrive(bytes) /\ TextsOf(bytes) \subseteq TextsOf(text)
    BY <2>1
  <2>3. \A f \in TextsOf(bytes) \cap Frames : Composed(f)
    BY <1>4, <2>2
  <2>4. task' \in {"prefix", "text", "newline", "fallback"} =>
          frame' # Nothing
    BY <1>1, <1>4, NothingAssumption
  <2> QED
    BY <1>2, <1>4, <2>1, <2>2, <2>3, <2>4, BytesLine
<1>5. CASE WritePrefix
  <2>1. /\ UsbWriteAll(Prefix) /\ StillDue /\ UNCHANGED frame
        /\ task = "prefix" /\ task' = "text"
    BY <1>5 DEF WritePrefix
  <2>2. ASSUME due' # Nothing
        PROVE  due' = frame' /\ wire' = Prefix
    <3>1. Arrive(Prefix) /\ due' = due
      BY <1>0, <1>3, <2>1, <2>2, WriteTexts DEF StillDue
    <3>2. due = frame /\ wire = <<>>
      BY <2>1, <2>2, <3>1 DEF LineInv, DueInv
    <3>3. wire \o Prefix = Prefix
      BY <1>3, <3>2, ConcatEmptySeq
    <3> QED
      BY <1>1, <2>1, <3>1, <3>2, <3>3, WholeLine, PartsArrive DEF Prefix
  <2>3. DueInv'
    BY <2>1, <2>2 DEF DueInv
  <2>4. due' \in {due, Nothing}
    BY <2>1 DEF StillDue
  <2>5. \A f \in TextsOf(Prefix) \cap Frames : Composed(f)
    BY <1>3, NamesApart
  <2> QED
    BY <1>3, <1>4, <2>1, <2>3, <2>4, <2>5
<1>6. CASE WriteText
  <2>1. /\ UsbWriteAll(Parts(frame)) /\ StillDue /\ UNCHANGED frame
        /\ task = "text" /\ task' = "newline"
    BY <1>6 DEF WriteText
  <2>2. ASSUME due' # Nothing
        PROVE  due' = frame' /\ wire' = Prefix \o Parts(frame')
    <3>1. Arrive(Parts(frame)) /\ due' = due
      BY <1>0, <1>3, <2>1, <2>2, WriteTexts DEF StillDue
    <3>2. due = frame /\ wire = Prefix
      BY <2>1, <2>2, <3>1 DEF LineInv, DueInv
    <3>3. StartsFrame(wire \o Parts(frame))
      BY <1>1, <3>2, WholeLine
    <3>4. wire' = wire \o Parts(frame)
      BY <1>1, <3>1, <3>3, PartsArrive
    <3> QED
      BY <2>1, <3>1, <3>2, <3>4
  <2>3. DueInv'
    BY <2>1, <2>2 DEF DueInv
  <2>4. due' \in {due, Nothing}
    BY <2>1 DEF StillDue
  <2>5. \A f \in TextsOf(Parts(frame)) \cap Frames : Composed(f)
    BY <1>1, <1>3
  <2> QED
    BY <1>3, <1>4, <2>1, <2>3, <2>4, <2>5
<1>7. CASE WriteNewline
  <2>1. /\ UsbWriteAll(Newline) /\ due' = Nothing /\ frame' = Nothing
        /\ task' = "idle"
    BY <1>7 DEF WriteNewline, Ending
  <2>2. DueInv'
    BY <2>1 DEF DueInv
  <2>3. \A f \in TextsOf(Newline) \cap Frames : Composed(f)
    BY NewlineType, NamesApart
  <2> QED
    BY <1>4, <2>1, <2>2, <2>3, NewlineType
<1>8. CASE WriteFallback
  <2> DEFINE body == Prefix \o Parts(frame)
             whole == body \o Newline
  <2>1. /\ UsbWriteAll(whole) /\ due' = Nothing /\ frame' = Nothing
        /\ task' = "idle"
    BY <1>8 DEF WriteFallback
  <2>2. DueInv'
    BY <2>1 DEF DueInv
  <2>3. body \in Seq(Part) /\ TextsOf(body) = {Text("prefix"), frame}
    <3>1. /\ body \in Seq(Part)
          /\ TextsOf(body) = TextsOf(Prefix) \cup TextsOf(Parts(frame))
      BY <1>3, ConcatTexts
    <3> QED
      BY <1>3, <3>1
  <2> HIDE DEF body
  <2>4. /\ whole \in Seq(Part)
        /\ TextsOf(whole) = TextsOf(body) \cup TextsOf(Newline)
    BY <2>3, NewlineType, ConcatTexts
  <2> HIDE DEF whole
  <2>5. \A f \in TextsOf(whole) \cap Frames : Composed(f)
    BY <1>1, <2>3, <2>4, NewlineType, NamesApart
  <2> QED
    BY <1>4, <2>1, <2>2, <2>4, <2>5
<1> QED
  BY <1>5, <1>6, <1>7, <1>8

(* Console texts and resets.                                               *)
LEMMA ConsoleType ==
  ASSUME NEW n \in 0 .. Len(ConsoleText)
  PROVE  /\ SubSeq(ConsoleText, 1, n) \in Seq(Part)
         /\ TextsOf(SubSeq(ConsoleText, 1, n)) \cap Frames = {}
<1>1. ConsoleText \in Seq(Part) /\ TextsOf(ConsoleText) \cap Frames = {}
  BY PartsType, NewlineType, ConcatTexts, NamesApart DEF ConsoleText
<1> QED
  BY <1>1, PrefixTexts

LEMMA DisturbedLine ==
  ASSUME LineInv, Grows, SessionTypeOK',
         LogText \/ Reset \/ Boot \/ UNCHANGED vars
  PROVE  LineInv'
<1>0. faults \in Nat /\ due \in Frames \cup {Nothing}
  BY DEF LineInv, LineTypes
<1>1. ASSUME UNCHANGED <<inbox, stationVars, performed>>,
             NEW n \in 0 .. Len(ConsoleText),
             Arrive(SubSeq(ConsoleText, 1, n)), faults' \in Nat,
             task' \in {task, "ready"}, UNCHANGED frame,
             task # "boot" \/ task' = "ready",
             due' = Nothing
      PROVE  LineInv'
  <2>1. /\ SubSeq(ConsoleText, 1, n) \in Seq(Part)
        /\ TextsOf(SubSeq(ConsoleText, 1, n)) \cap Frames = {}
    BY ConsoleType
  <2>2. DueInv'
    BY <1>1 DEF DueInv
  <2>3. /\ task' \in {"boot", "ready", "idle", "prefix", "text", "newline",
                      "fallback"}
        /\ task' \in {"prefix", "text", "newline", "fallback"} =>
             frame' # Nothing
    BY <1>1 DEF LineInv, SidesOK
  <2> QED
    BY <1>1, <2>1, <2>2, <2>3, BytesLine
<1>2. CASE LogText
  <2>1. PICK n \in 1 .. Len(ConsoleText) : Arrive(SubSeq(ConsoleText, 1, n))
    BY <1>2 DEF LogText
  <2>2. n \in 0 .. Len(ConsoleText)
    BY <2>1
  <2> QED
    BY <1>0, <1>1, <1>2, <2>1, <2>2
       DEF LogText, Fault, boardVars, historyVars
<1>3. CASE Boot
  <2>1. PICK n \in 0 .. Len(ConsoleText) : Arrive(SubSeq(ConsoleText, 1, n))
    BY <1>3 DEF Boot
  <2>2. due = Nothing
    BY <1>3 DEF Boot, LineInv, DueInv
  <2> QED
    BY <1>0, <1>1, <1>3, <2>1, <2>2 DEF Boot, historyVars
<1>4. CASE Reset
  <2>1. /\ UNCHANGED <<wire, heard, stationVars, performed>>
        /\ task' = "boot" /\ frame' = Nothing /\ inbox' = <<>>
        /\ due' = Nothing /\ faults' \in Nat
    BY <1>0, <1>4 DEF Reset, Fault, LosesAll
  <2>2. /\ \A f \in TextsOf(wire') \cap Frames : Composed(f)'
        /\ \A f \in Range(heard') : Composed(f)'
    BY <2>1, FramesKept
  <2>3. wire' \in Seq(Part) /\ heard' \in Seq(Frames) /\ DueInv'
    BY <2>1 DEF LineInv, LineTypes, DueInv
  <2> QED
    BY <2>1, <2>2, <2>3, StationKept
<1>5. CASE UNCHANGED vars
  <2>1. /\ UNCHANGED <<inbox, wire, heard, stationVars, performed, due,
                       faults, task, frame>>
    BY <1>5 DEF vars, boardVars, lineVars, historyVars
  <2>2. /\ \A f \in TextsOf(wire') \cap Frames : Composed(f)'
        /\ \A f \in Range(heard') : Composed(f)'
        /\ frame' # Nothing => Composed(frame)'
    BY <2>1 DEF LineInv, FramesInv, Composed, stationVars
  <2>3. wire' \in Seq(Part) /\ heard' \in Seq(Frames) /\ DueInv'
    BY <2>1 DEF LineInv, LineTypes, DueInv
  <2>4. /\ task' \in {"boot", "ready", "idle", "prefix", "text", "newline",
                      "fallback"}
        /\ task' \in {"prefix", "text", "newline", "fallback"} =>
             frame' # Nothing
        /\ frame' \in Frames \cup {Nothing}
    BY <2>1 DEF LineInv, SidesOK
  <2> QED
    BY <1>0, <2>1, <2>2, <2>3, <2>4, StationKept
<1> QED
  BY <1>2, <1>3, <1>4, <1>5

(* The request at the head is performed, once, and answered as performed.  *)
LEMMA ServedLine ==
  ASSUME LineInv, Grows, SessionTypeOK', ProcessLine
  PROVE  LineInv'
<1>0. SidesOK /\ LineTypes /\ QueueInv
  BY DEF LineInv
<1>1. PICK s \in 1 .. MaxCalls, reported \in Results :
        /\ s \in DOMAIN calls /\ calls[s] \in Requests
        /\ inbox # <<>> /\ s = Head(inbox) /\ inbox' = Tail(inbox)
        /\ performed' = [performed EXCEPT ![s] = Outcome(calls[s], reported)]
        /\ Respond(Frame(s, calls[s].cmd, Outcome(calls[s], reported)))
        /\ UNCHANGED <<wire, heard, stationVars, faults>>
  BY <1>0, ServedRequest DEF Performed
<1>2. PICK code \in Codes, reply \in Frames :
        /\ code = Outcome(calls[s], reported)
        /\ reply = Frame(s, calls[s].cmd, code)
  BY <1>1, OutcomeType
<1>3. UNCHANGED <<wire, heard, waiting, calls, told, faults>>
  BY <1>1 DEF stationVars
<1>4. performed' \in [1 .. MaxCalls -> Codes \cup {Nothing}]
  BY <1>0, <1>1, <1>2 DEF SidesOK
<1>5. calls \in Seq(Requests) /\ DOMAIN calls = 1 .. Len(calls)
  BY <1>0, LenProperties DEF SidesOK
<1>6. Composed(reply)'
  <2>1. reply.seq = s /\ reply.cmd = calls[s].cmd /\ reply.code = code
    BY <1>2 DEF Frame
  <2>2. performed'[s] = code /\ s <= Len(calls')
    BY <1>0, <1>1, <1>2, <1>3, <1>5 DEF SidesOK
  <2> QED
    BY <1>3, <2>1, <2>2 DEF Composed
<1>7. Respond(reply)
  BY <1>1, <1>2
<1>8. /\ frame' \in Frames \cup {Nothing} /\ due' \in Frames \cup {Nothing}
      /\ task' \in {"prefix", "fallback", "idle"}
      /\ task' \in {"prefix", "fallback"} => frame' # Nothing
      /\ frame' # Nothing => Composed(frame)'
      /\ DueInv'
  BY <1>2, <1>3, <1>6, <1>7, RespondFrames
<1>9. FramesInv'
  <2>1. /\ \A f \in TextsOf(wire) \cap Frames : Composed(f)'
        /\ \A f \in Range(heard) : Composed(f)'
    BY FramesKept
  <2> QED
    BY <1>3, <1>8, <2>1 DEF FramesInv
<1>10. /\ inbox' \in Seq(1 .. MaxCalls)
       /\ DOMAIN inbox' = 1 .. Len(inbox) - 1
       /\ DOMAIN inbox = 1 .. Len(inbox) /\ Len(inbox) \in Nat \ {0}
       /\ \A i \in DOMAIN inbox' : inbox'[i] = inbox[i + 1]
       /\ s = inbox[1]
  <2>1. inbox \in Seq(1 .. MaxCalls) /\ inbox # <<>>
    BY <1>0, <1>1 DEF LineTypes
  <2>2. /\ inbox' \in Seq(1 .. MaxCalls) /\ Len(inbox') = Len(inbox) - 1
        /\ \A i \in 1 .. Len(inbox') : inbox'[i] = inbox[i + 1]
    BY <1>1, <2>1, HeadTailProperties
  <2>3. Len(inbox) \in Nat \ {0} /\ DOMAIN inbox = 1 .. Len(inbox)
    BY <2>1, EmptySeq, LenProperties
  <2>4. DOMAIN inbox' = 1 .. Len(inbox')
    BY <2>2, LenProperties
  <2> QED
    BY <1>1, <2>1, <2>2, <2>3, <2>4
<1>11. \A i \in DOMAIN inbox' :
         /\ i + 1 \in DOMAIN inbox /\ inbox'[i] = inbox[i + 1]
         /\ inbox'[i] \in 1 .. Len(calls) /\ s < inbox'[i]
  <2> TAKE i \in DOMAIN inbox'
  <2>1. i + 1 \in DOMAIN inbox /\ 1 \in DOMAIN inbox /\ 1 < i + 1
        /\ inbox'[i] = inbox[i + 1]
    BY <1>10
  <2> QED
    BY <1>0, <1>10, <2>1 DEF SidesOK, QueueInv
<1>12. QueueInv'
  <2>1. \A i, j \in DOMAIN inbox' : i < j => inbox'[i] < inbox'[j]
    <3> TAKE i, j \in DOMAIN inbox'
    <3> HAVE i < j
    <3>1. i + 1 < j + 1
      BY <1>10
    <3> QED
      BY <1>0, <1>11, <3>1 DEF QueueInv
  <2>2. ASSUME NEW s1 \in 1 .. MaxCalls, performed'[s1] # Nothing
        PROVE  s1 <= Len(calls') /\ \A i \in DOMAIN inbox' : s1 < inbox'[i]
    <3>1. CASE s1 = s
      BY <1>1, <1>3, <1>5, <1>11, <3>1
    <3>2. CASE s1 # s
      BY <1>0, <1>1, <1>3, <1>11, <2>2, <3>2 DEF QueueInv, SidesOK
    <3> QED
      BY <3>1, <3>2
  <2> QED
    BY <2>1, <2>2 DEF QueueInv
<1>13. SidesOK'
  BY <1>0, <1>3, <1>4, <1>8, <1>11 DEF SidesOK
<1>14. LineTypes'
  BY <1>0, <1>3, <1>8, <1>10 DEF LineTypes
<1> QED
  BY <1>8, <1>9, <1>12, <1>13, <1>14 DEF LineInv

LEMMA LineStep ==
  ASSUME LineInv, Grows, SessionTypeOK', [Next]_vars
  PROVE  LineInv'
<1>1. CASE TimeoutEvent
  <2>1. PICK r \in {"TIMEOUT", "CLEANUP"} :
          Respond(Frame(0, "session.timeout", r))
    BY <1>1 DEF TimeoutEvent
  <2>2. Frame(0, "session.timeout", r) \in Frames
    BY StationAssumption DEF Frame, Frames, Codes, Results
  <2> QED
    BY <1>1, <2>1, <2>2, RespondLine DEF TimeoutEvent, LosesAll
<1>2. CASE SendReady
  <2>1. Frame(0, "ready", "OK") \in Frames
    BY StationAssumption DEF Frame, Frames, Codes, Results
  <2> QED
    BY <1>2, <2>1, RespondLine DEF SendReady, historyVars
<1> QED
  BY <1>1, <1>2, StationLine, WriteLine, DisturbedLine, ServedLine
     DEF Next, Board
-----------------------------------------------------------------------------
HistoryInv == LostPerformed /\ OpenInv /\ EarnedInv /\ ToldInv

(* A request that was performed stays as it is.                            *)
LEMMA PerformedStays ==
  ASSUME LineInv, Grows
  PROVE  \A s \in 1 .. MaxCalls : performed[s] # Nothing =>
           /\ s \in 1 .. Len(calls) /\ s \in DOMAIN calls
           /\ s \in DOMAIN calls'
           /\ Started(s)' <=> Started(s)
           /\ \A t \in Tests : Recorded(t, s)' <=> Recorded(t, s)
<1>1. calls \in Seq(Requests) /\ DOMAIN calls = 1 .. Len(calls)
  BY LenProperties DEF LineInv, SidesOK
<1> SUFFICES ASSUME NEW s \in 1 .. MaxCalls, performed[s] # Nothing
             PROVE  /\ s \in 1 .. Len(calls) /\ s \in DOMAIN calls
                    /\ s \in DOMAIN calls'
                    /\ Started(s)' <=> Started(s)
                    /\ \A t \in Tests : Recorded(t, s)' <=> Recorded(t, s)
  OBVIOUS
<1>2. s \in 1 .. Len(calls) /\ s \in DOMAIN calls
  BY <1>1 DEF LineInv, QueueInv
<1>3. /\ s \in DOMAIN calls' /\ calls'[s] = calls[s]
      /\ performed'[s] = performed[s]
  BY <1>2 DEF Grows
<1> QED
  BY <1>2, <1>3 DEF Started, Recorded

(* What was performed with success is performed.                           *)
LEMMA SuccessPerformed ==
  ASSUME LineInv
  PROVE  /\ \A s \in DOMAIN calls : s \in 1 .. MaxCalls
         /\ \A s : Started(s) => performed[s] # Nothing
         /\ \A s, t : Recorded(t, s) => performed[s] # Nothing
<1>1. calls \in Seq(Requests) /\ Len(calls) <= MaxCalls
  BY DEF LineInv, SidesOK
<1>2. DOMAIN calls = 1 .. Len(calls) /\ Len(calls) \in Nat
  BY <1>1, LenProperties
<1>3. "OK" # Nothing
  BY NothingAssumption DEF Codes, Results
<1> QED
  BY <1>1, <1>2, <1>3, StationAssumption DEF Started, Recorded

(* What a finish had earned, it has for good.                              *)
LEMMA EarnedStays ==
  ASSUME LineInv, Grows,
         NEW s \in DOMAIN calls, Earned(s), lostBy'[s] = lostBy[s],
         \A s1 \in 1 .. s - 1 : Started(s1)' => performed[s1] # Nothing
  PROVE  Earned(s)'
<1>1. s \in 1 .. MaxCalls /\ \A s1 \in 1 .. s - 1 : s1 \in 1 .. MaxCalls
  BY SuccessPerformed, StationAssumption
<1>2. PICK s0 \in 1 .. s - 1 :
        /\ LastStart(s0, s - 1) /\ s0 \notin lostBy[s]
        /\ \A t \in Tests :
             \E s1 \in s0 + 1 .. s - 1 :
               Recorded(t, s1) /\ s1 \notin lostBy[s]
  BY DEF Earned
<1>3. LastStart(s0, s - 1)'
  <2>1. Started(s0)'
    BY <1>1, <1>2, SuccessPerformed, PerformedStays DEF LastStart
  <2>2. \A s1 \in 1 .. s - 1 : Started(s1)' => s1 <= s0
    BY <1>1, <1>2, PerformedStays DEF LastStart
  <2> QED
    BY <2>1, <2>2 DEF LastStart
<1>4. ASSUME NEW t \in Tests
      PROVE  \E s1 \in s0 + 1 .. s - 1 :
               Recorded(t, s1)' /\ s1 \notin lostBy'[s]
  <2>1. PICK s1 \in s0 + 1 .. s - 1 : Recorded(t, s1) /\ s1 \notin lostBy[s]
    BY <1>2
  <2>2. s1 \in 1 .. MaxCalls
    BY <1>1, <1>2
  <2>3. Recorded(t, s1)'
    BY <2>1, <2>2, SuccessPerformed, PerformedStays
  <2> QED
    BY <2>1, <2>3
<1> QED
  BY <1>2, <1>3, <1>4 DEF Earned

(* A step that performs nothing, opens no session, passes no test and      *)
(* loses nothing of a session that stays open.                             *)
LEMMA NothingPerformed ==
  ASSUME LineInv, Grows, OpenInv, EarnedInv, LineInv',
         UNCHANGED <<performed, lostBy>>, IsActive' => IsActive,
         IsActive' => lost' = lost,
         IsActive' => \A t \in Tests :
           entries'[t].status = "PASS" => entries[t].status = "PASS"
  PROVE  OpenInv' /\ EarnedInv'
<1>1. \A s1 : Started(s1)' => performed[s1] # Nothing
  BY NothingAssumption DEF Started, Codes, Results
<1>2. ASSUME NEW s \in DOMAIN calls', performed'[s] = "PASS"
      PROVE  calls'[s].cmd = "session.finish" /\ Earned(s)'
  <2>1. s \in 1 .. MaxCalls
    <3>1. calls' \in Seq(Requests) /\ Len(calls') <= MaxCalls
      BY DEF LineInv, SidesOK
    <3> QED
      BY <3>1, LenProperties, StationAssumption
  <2>2. performed[s] # Nothing
    BY <1>2, NothingAssumption DEF Codes
  <2>3. s \in DOMAIN calls
    BY <2>1, <2>2, PerformedStays
  <2> QED
    BY <1>1, <1>2, <2>3, EarnedStays DEF EarnedInv, Grows
<1>3. ASSUME IsActive'
      PROVE  \E s0 \in DOMAIN calls' :
               /\ LastStart(s0, Len(calls))' /\ s0 \notin lost'
               /\ \A t \in Tests : entries'[t].status = "PASS" =>
                    \E s1 \in DOMAIN calls' \ lost' :
                      s1 > s0 /\ Recorded(t, s1)'
  <2>1. PICK s0 \in DOMAIN calls :
          /\ LastStart(s0, Len(calls)) /\ s0 \notin lost
          /\ \A t \in Tests : entries[t].status = "PASS" =>
               \E s1 \in DOMAIN calls \ lost : s1 > s0 /\ Recorded(t, s1)
    BY <1>3 DEF OpenInv, OpenedBy
  <2>2. s0 \in DOMAIN calls' /\ Started(s0)'
    BY <2>1, SuccessPerformed, PerformedStays DEF LastStart
  <2>3. ASSUME NEW s1 \in 1 .. Len(calls'), Started(s1)'
        PROVE  s1 <= s0
    <3>1. s1 \in 1 .. MaxCalls
      <4>1. calls' \in Seq(Requests) /\ Len(calls') <= MaxCalls
        BY DEF LineInv, SidesOK
      <4> QED
        BY <4>1, LenProperties, StationAssumption
    <3>2. performed[s1] # Nothing
      BY <1>1, <2>3
    <3> QED
      BY <2>1, <2>3, <3>1, <3>2, PerformedStays DEF LastStart
  <2>4. ASSUME NEW t \in Tests, entries'[t].status = "PASS"
        PROVE  \E s1 \in DOMAIN calls' \ lost' : s1 > s0 /\ Recorded(t, s1)'
    <3>1. PICK s1 \in DOMAIN calls \ lost : s1 > s0 /\ Recorded(t, s1)
      BY <1>3, <2>1, <2>4
    <3>2. s1 \notin lost'
      BY <1>3, <3>1
    <3> QED
      BY <3>1, <3>2, SuccessPerformed, PerformedStays
  <2>5. s0 \notin lost'
    BY <1>3, <2>1
  <2> QED
    BY <2>2, <2>3, <2>4, <2>5 DEF LastStart
<1> QED
  BY <1>2, <1>3 DEF OpenInv, OpenedBy, EarnedInv

(* What is performed next comes after all that was performed.              *)
LEMMA ServedNext ==
  ASSUME LineInv, Grows, NEW s \in DOMAIN calls,
         \A s1 \in 1 .. MaxCalls : performed[s1] # Nothing => s1 < s,
         NEW a \in Codes, performed' = [performed EXCEPT ![s] = a],
         UNCHANGED calls
  PROVE  /\ s \in 1 .. MaxCalls /\ s \in 1 .. Len(calls)
         /\ performed'[s] = a
         /\ \A s1 \in DOMAIN calls : s1 # s => performed'[s1] = performed[s1]
         /\ \A s1 \in DOMAIN calls :
              s1 # s /\ Started(s1)' => Started(s1) /\ s1 < s
         /\ a # "OK" => ~Started(s)'
<1>1. s \in 1 .. MaxCalls
  BY SuccessPerformed
<1>2. s \in 1 .. Len(calls)
  <2>1. calls \in Seq(Requests)
    BY DEF LineInv, SidesOK
  <2> QED
    BY <2>1, LenProperties
<1>3. /\ performed'[s] = a
      /\ \A s1 \in DOMAIN calls : s1 # s => performed'[s1] = performed[s1]
  BY <1>1, SuccessPerformed DEF LineInv, SidesOK
<1>4. \A s1 \in DOMAIN calls :
        s1 # s /\ Started(s1)' => Started(s1) /\ s1 < s
  <2>1. \A s1 \in DOMAIN calls : s1 # s /\ Started(s1)' => Started(s1)
    BY <1>3 DEF Started
  <2> QED
    BY <2>1, SuccessPerformed
<1> QED
  BY <1>1, <1>2, <1>3, <1>4 DEF Started

(* A finish that passes was earned.                                        *)
LEMMA FinishEarned ==
  ASSUME LineInv, SessionTypeOK, Grows, OpenInv, NEW s \in DOMAIN calls,
         \A s1 \in 1 .. MaxCalls : performed[s1] # Nothing => s1 < s,
         UNCHANGED calls,
         \A s1 \in DOMAIN calls : s1 # s => performed'[s1] = performed[s1],
         lostBy'[s] = lost, NEW c, SessionFinish(c, "OK")
  PROVE  Earned(s)'
<1>1. IsActive /\ ~Incomplete
  BY DEF SessionFinish
<1>2. \A t \in Tests : entries[t].status = "PASS"
  BY <1>1, SummaryComplete DEF SessionTypeOK, Incomplete
<1>3. PICK s0 \in DOMAIN calls :
        /\ LastStart(s0, Len(calls)) /\ s0 \notin lost
        /\ \A t \in Tests : \E s1 \in DOMAIN calls \ lost :
             s1 > s0 /\ Recorded(t, s1)
  BY <1>1, <1>2 DEF OpenInv, OpenedBy
<1>4. DOMAIN calls = 1 .. Len(calls) /\ Len(calls) \in Nat
  <2>1. calls \in Seq(Requests)
    BY DEF LineInv, SidesOK
  <2> QED
    BY <2>1, LenProperties
<1>5. s0 \in 1 .. s - 1
  BY <1>3, <1>4, SuccessPerformed DEF LastStart
<1>6. Started(s0)'
  BY <1>3, SuccessPerformed, PerformedStays DEF LastStart
<1>7. \A s1 \in 1 .. s - 1 : Started(s1)' => s1 <= s0
  <2> TAKE s1 \in 1 .. s - 1
  <2>1. s1 \in DOMAIN calls /\ s1 \in 1 .. Len(calls) /\ s1 # s
    BY <1>4
  <2>2. Started(s1)' => Started(s1)
    BY <2>1 DEF Started
  <2> QED
    BY <1>3, <2>1, <2>2 DEF LastStart
<1>8. ASSUME NEW t \in Tests
      PROVE  \E s1 \in s0 + 1 .. s - 1 :
               Recorded(t, s1)' /\ s1 \notin lostBy'[s]
  <2>1. PICK s1 \in DOMAIN calls \ lost : s1 > s0 /\ Recorded(t, s1)
    BY <1>3
  <2>2. s1 < s /\ Recorded(t, s1)'
    BY <2>1, SuccessPerformed, PerformedStays
  <2>3. s1 \in s0 + 1 .. s - 1
    BY <1>3, <1>4, <2>1, <2>2
  <2> QED
    BY <2>1, <2>2, <2>3
<1> QED
  BY <1>3, <1>5, <1>6, <1>7, <1>8 DEF Earned, LastStart

(* A request that starts no session leaves the one that is open to the     *)
(* start it had, if what it passes it recorded.                            *)
LEMMA StaysOpen ==
  ASSUME LineInv, Grows, OpenInv, NEW s \in DOMAIN calls,
         \A s1 \in 1 .. MaxCalls : performed[s1] # Nothing => s1 < s,
         UNCHANGED calls,
         \A s1 \in DOMAIN calls : s1 # s => performed'[s1] = performed[s1],
         ~Started(s)', IsActive' => IsActive, lost' = lost, s \notin lost,
         \A t \in Tests : entries'[t].status = "PASS" =>
           entries[t].status = "PASS" \/ Recorded(t, s)'
  PROVE  OpenInv'
<1> SUFFICES ASSUME IsActive'
             PROVE  \E s0 \in DOMAIN calls' : OpenedBy(s0)'
  BY DEF OpenInv, OpenedBy
<1>1. PICK s0 \in DOMAIN calls : OpenedBy(s0)
  BY DEF OpenInv, OpenedBy
<1>2. DOMAIN calls = 1 .. Len(calls) /\ Len(calls) \in Nat
  <2>1. calls \in Seq(Requests)
    BY DEF LineInv, SidesOK
  <2> QED
    BY <2>1, LenProperties
<1>3. Started(s0)' /\ s0 < s
  BY <1>1, SuccessPerformed, PerformedStays DEF OpenedBy, LastStart
<1>4. \A s1 \in 1 .. Len(calls) : Started(s1)' => s1 <= s0
  <2> TAKE s1 \in 1 .. Len(calls)
  <2> HAVE Started(s1)'
  <2>1. s1 # s /\ s1 \in DOMAIN calls
    BY <1>2
  <2>2. Started(s1)
    BY <2>1 DEF Started
  <2> QED
    BY <1>1, <2>2 DEF OpenedBy, LastStart
<1>5. ASSUME NEW t \in Tests, entries'[t].status = "PASS"
      PROVE  \E s1 \in DOMAIN calls \ lost : s1 > s0 /\ Recorded(t, s1)'
  <2>1. CASE entries[t].status = "PASS"
    <3>1. PICK s1 \in DOMAIN calls \ lost : s1 > s0 /\ Recorded(t, s1)
      BY <1>1, <2>1 DEF OpenedBy
    <3> QED
      BY <3>1, SuccessPerformed, PerformedStays
  <2>2. CASE Recorded(t, s)'
    BY <1>2, <1>3, <2>2
  <2> QED
    BY <1>5, <2>1, <2>2
<1>6. s0 \notin lost'
  BY <1>1 DEF OpenedBy
<1> QED
  BY <1>3, <1>4, <1>5, <1>6 DEF OpenedBy, LastStart

(* What a request comes to, command by command.                            *)
LEMMA ServedOpen ==
  ASSUME LineInv, SessionTypeOK, Grows, OpenInv,
         NEW s \in DOMAIN calls, calls[s] \in Requests,
         \A s1 \in 1 .. MaxCalls : performed[s1] # Nothing => s1 < s,
         NEW r \in Results, NEW reported \in Results,
         Handle(calls[s], r), r = "OK" <=> reported = "OK",
         performed' = [performed EXCEPT ![s] = Outcome(calls[s], reported)],
         UNCHANGED <<calls, lost>>, s \notin lost
  PROVE  OpenInv'
<1>0. PICK a \in Codes :
        /\ a = Outcome(calls[s], reported)
        /\ performed' = [performed EXCEPT ![s] = a]
  BY OutcomeType
<1>1. /\ s \in 1 .. MaxCalls /\ s \in 1 .. Len(calls)
      /\ performed'[s] = a
      /\ \A s1 \in DOMAIN calls : s1 # s => performed'[s1] = performed[s1]
      /\ \A s1 \in DOMAIN calls :
           s1 # s /\ Started(s1)' => Started(s1) /\ s1 < s
      /\ a # "OK" => ~Started(s)'
  BY <1>0, ServedNext, Zenon
<1>2. a = "OK" <=> reported = "OK" /\ calls[s].cmd # "session.finish"
  BY <1>0, OutcomeType
<1>3. CASE UNCHANGED sessionVars /\ r # "OK"
  <2>1. ~Started(s)'
    BY <1>1, <1>2, <1>3
  <2>2. UNCHANGED <<session, entries>>
    BY <1>3 DEF sessionVars
  <2> QED
    BY <1>1, <2>1, <2>2, StaysOpen DEF IsActive
<1>4. ASSUME NEW c \in CleanupCalls, SessionStart(Unit, 0, c, r),
             calls[s].cmd = "session.start"
      PROVE  OpenInv'
  <2>1. CASE UNCHANGED sessionVars /\ r # "OK"
    BY <1>3, <2>1
  <2>2. CASE session' = [session EXCEPT !.state = "ABORTED"]
    <3>1. session'.state = "ABORTED"
      BY <2>2 DEF SessionTypeOK, Sessions
    <3> QED
      BY <3>1 DEF OpenInv, OpenedBy, IsActive
  <2>3. CASE r = "OK" /\ entries' = AllPending
    <3>1. Started(s)'
      BY <1>1, <1>2, <1>4, <2>3 DEF Started
    <3>2. \A s1 \in 1 .. Len(calls) : Started(s1)' => s1 <= s
      <4>1. DOMAIN calls = 1 .. Len(calls)
        BY LenProperties DEF LineInv, SidesOK
      <4> QED
        BY <1>1, <4>1
    <3>3. \A t \in Tests : entries'[t].status # "PASS"
      BY <2>3 DEF AllPending
    <3>4. OpenedBy(s)'
      BY <3>1, <3>2, <3>3 DEF OpenedBy, LastStart
    <3> QED
      BY <3>4 DEF OpenInv
  <2> QED
    BY <1>4, <2>1, <2>2, <2>3 DEF SessionStart, ManifestReset
<1>5. ASSUME calls[s].cmd = "fixture.record", IsActive,
             NEW recorded \in Results,
             Record(calls[s].test, "STATION", calls[s].passed, StoredValue,
                    recorded),
             r = recorded
               \/ (recorded = "OK" /\ ~calls[s].passed /\ r = "CLEANUP")
      PROVE  OpenInv'
  <2>1. ~Started(s)'
    BY <1>5 DEF Started
  <2>2. IsActive' => IsActive
    BY <1>5
  <2>3. ASSUME NEW t \in Tests, entries'[t].status = "PASS"
        PROVE  entries[t].status = "PASS" \/ Recorded(t, s)'
    <3>1. CASE UNCHANGED entries
      BY <2>3, <3>1
    <3>2. CASE /\ recorded = "OK"
               /\ entries' = [entries EXCEPT ![calls[s].test] =
                    [status |-> IF calls[s].passed THEN "PASS" ELSE "FAIL",
                     evidence |-> StoredValue]]
      <4>1. CASE t # calls[s].test
        BY <2>3, <3>2, <4>1 DEF SessionTypeOK
      <4>2. CASE t = calls[s].test
        <5>1. calls[s].passed
          BY <2>3, <3>2, <4>2 DEF SessionTypeOK
        <5>2. performed'[s] = "OK"
          BY <1>1, <1>2, <1>5, <3>2, <5>1
        <5> QED
          BY <1>5, <4>2, <5>1, <5>2 DEF Recorded
      <4> QED
        BY <4>1, <4>2
    <3> QED
      BY <1>5, <3>1, <3>2 DEF Record, ManifestRecord
  <2> QED
    BY <1>1, <2>1, <2>2, <2>3, StaysOpen
<1>6. ASSUME calls[s].cmd = "session.finish", IsActive,
             NEW c \in CleanupCalls, SessionFinish(c, r)
      PROVE  OpenInv'
  <2>1. ~Started(s)'
    BY <1>6 DEF Started
  <2>2. UNCHANGED entries
    BY <1>6 DEF SessionFinish
  <2> QED
    BY <1>1, <1>6, <2>1, <2>2, StaysOpen
<1>7. CASE UNCHANGED sessionVars /\ r \in {"HARDWARE", "INVALID_STATE"}
  BY <1>3, <1>7
<1> QED
  BY <1>4, <1>5, <1>6, <1>7 DEF Handle

LEMMA ServedEarned ==
  ASSUME LineInv, SessionTypeOK, Grows, OpenInv, EarnedInv,
         NEW s \in DOMAIN calls, calls[s] \in Requests,
         \A s1 \in 1 .. MaxCalls : performed[s1] # Nothing => s1 < s,
         NEW r \in Results, NEW reported \in Results,
         Handle(calls[s], r), r = "OK" <=> reported = "OK",
         Performed(s, Outcome(calls[s], reported)), LostOK,
         UNCHANGED calls
  PROVE  EarnedInv'
<1>0. PICK a \in Codes :
        /\ a = Outcome(calls[s], reported)
        /\ performed' = [performed EXCEPT ![s] = a]
        /\ lostBy' = IF a = "PASS" THEN [lostBy EXCEPT ![s] = lost]
                     ELSE lostBy
  BY OutcomeType DEF Performed
<1>1. /\ s \in 1 .. MaxCalls /\ s \in 1 .. Len(calls)
      /\ performed'[s] = a
      /\ \A s1 \in DOMAIN calls : s1 # s => performed'[s1] = performed[s1]
      /\ \A s1 \in DOMAIN calls :
           s1 # s /\ Started(s1)' => Started(s1) /\ s1 < s
      /\ a # "OK" => ~Started(s)'
  BY <1>0, ServedNext, Zenon
<1>2. a = "PASS" <=> reported = "OK" /\ calls[s].cmd = "session.finish"
  BY <1>0, OutcomeType
<1>3. DOMAIN calls = 1 .. Len(calls) /\ Len(calls) \in Nat
  <2>1. calls \in Seq(Requests)
    BY DEF LineInv, SidesOK
  <2> QED
    BY <2>1, LenProperties
<1> SUFFICES ASSUME NEW q \in DOMAIN calls, performed'[q] = "PASS"
             PROVE  calls[q].cmd = "session.finish" /\ Earned(q)'
  BY DEF EarnedInv
<1>4. CASE q = s
  <2>1. calls[s].cmd = "session.finish" /\ r = "OK"
    BY <1>1, <1>2, <1>4
  <2>2. PICK c : SessionFinish(c, "OK")
    BY <2>1 DEF Handle
  <2>3. lostBy'[s] = lost
    BY <1>0, <1>1, <1>4 DEF LostOK
  <2> QED
    BY <1>1, <1>4, <2>1, <2>2, <2>3, FinishEarned
<1>5. CASE q # s
  <2>1. performed[q] = "PASS" /\ performed[q] # Nothing
    BY <1>1, <1>5, NothingAssumption DEF Codes
  <2>2. calls[q].cmd = "session.finish" /\ Earned(q) /\ q < s
    BY <2>1, SuccessPerformed DEF EarnedInv
  <2>3. ASSUME NEW s1 \in 1 .. q - 1, Started(s1)'
        PROVE  performed[s1] # Nothing
    <3>1. s1 \in DOMAIN calls /\ s1 # s
      BY <1>1, <1>3, <2>2
    <3> QED
      BY <1>1, <2>3, <3>1, SuccessPerformed
  <2>4. lostBy'[q] = lostBy[q]
    BY <1>0, <1>5 DEF LostOK
  <2> QED
    BY <2>2, <2>3, <2>4, EarnedStays
<1> QED
  BY <1>4, <1>5

LEMMA ToldStep ==
  ASSUME LineInv, Grows, ToldInv, [Next]_vars
  PROVE  ToldInv'
<1>0. /\ calls \in Seq(Requests) /\ Len(calls) \in 0 .. MaxCalls
      /\ calls # <<>> => Len(calls) \in 1 .. MaxCalls
  <2>1. calls \in Seq(Requests) /\ Len(calls) <= MaxCalls
    BY DEF LineInv, SidesOK
  <2>2. Len(calls) \in Nat /\ (calls # <<>> => Len(calls) \in Nat \ {0})
    BY <2>1, LenProperties, EmptySeq
  <2> QED
    BY <2>1, <2>2, StationAssumption
<1>1. CASE UNCHANGED <<calls, told>> /\ waiting' \in {0, waiting}
  <2>1. ASSUME told' # Nothing
        PROVE  /\ waiting' = 0 /\ calls' # <<>>
               /\ performed'[Len(calls')] = told'
    BY <1>0, <1>1, <2>1 DEF ToldInv, Grows
  <2> QED
    BY <1>1, <2>1 DEF ToldInv
<1>2. ASSUME NEW r \in Requests, Call(r) PROVE ToldInv'
  BY <1>2 DEF Call, ToldInv
<1>3. CASE Hear
  <2>1. CASE UNCHANGED <<told, waiting>>
    BY <1>1, <1>3, <2>1 DEF Hear
  <2>2. CASE /\ Matches(Head(heard)) /\ told' = Head(heard).code
             /\ waiting' = 0
    <3>1. heard \in Seq(Frames) /\ heard # <<>>
      BY <1>3 DEF Hear, LineInv, LineTypes
    <3>2. Head(heard) = heard[1] /\ 1 \in DOMAIN heard
      <4>1. DOMAIN heard = 1 .. Len(heard) /\ Len(heard) \in Nat \ {0}
        BY <3>1, LenProperties, EmptySeq
      <4> QED
        BY <3>1, <4>1
    <3>3. Head(heard) \in Range(heard)
      BY <3>2 DEF Range
    <3>4. Composed(Head(heard))
      BY <3>3 DEF LineInv, FramesInv
    <3>5. waiting # 0 /\ waiting = Len(calls) /\ Head(heard).seq = waiting
      BY <2>2 DEF Matches, ToldInv
    <3>6. Head(heard).code = performed[Len(calls)]
      BY <3>4, <3>5 DEF Composed
    <3>7. UNCHANGED <<calls, performed>>
      BY <1>3 DEF Hear, StationFrame, historyVars
    <3>8. calls # <<>>
      BY <3>5
    <3> QED
      BY <2>2, <3>6, <3>7, <3>8 DEF ToldInv
  <2> QED
    BY <1>3, <2>1, <2>2 DEF Hear
<1>4. CASE GiveUp \/ Board \/ LogText \/ Reset \/ UNCHANGED vars
  <2>1. UNCHANGED <<calls, told>> /\ waiting' \in {0, waiting}
    BY <1>4, Zenon
       DEF GiveUp, Board, ProcessLine, TimeoutEvent, WritePrefix, WriteText,
           WriteNewline, WriteFallback, WriteFrame, historyVars, Boot,
           SendReady, LogText,
           Reset, vars, stationVars, StationFrame, historyVars
  <2> QED
    BY <1>1, <2>1
<1> QED
  BY <1>2, <1>3, <1>4 DEF Next, Station

(* What is lost was performed, and what was performed stays so.            *)
LEMMA LostStep ==
  ASSUME LineInv, Grows, LostPerformed, [Next]_vars
  PROVE  LostPerformed'
<1>1. CASE LosesAll
  BY <1>1 DEF LosesAll, LostPerformed, LostOK
<1>2. CASE UNCHANGED historyVars
  BY <1>2 DEF historyVars, LostPerformed, LostOK
<1>3. CASE ProcessLine
  <2>0. SidesOK /\ LineTypes /\ QueueInv
    BY DEF LineInv
  <2>0a. PICK s \in 1 .. MaxCalls : \E a : Performed(s, a)
    BY <1>3, <2>0, ServedRequest
  <2>1. PICK a : Performed(s, a)
    BY <2>0a
  <2>2. LostOK'
    BY <2>1 DEF Performed, LostPerformed, LostOK
  <2>3. ASSUME NEW q \in lost' PROVE performed'[q] # Nothing
    <3>1. q \in lost /\ q \in 1 .. MaxCalls /\ performed[q] # Nothing
      BY <2>1 DEF Performed, LostPerformed, LostOK
    <3> QED
      BY <3>1 DEF Grows
  <2> QED
    BY <2>2, <2>3 DEF LostPerformed
<1>4. CASE TimeoutEvent \/ Reset
  BY <1>1, <1>4 DEF TimeoutEvent, Reset
<1>5. CASE Station \/ SendReady \/ WritePrefix \/ WriteText \/ WriteNewline
           \/ WriteFallback \/ LogText \/ Boot \/ UNCHANGED vars
  BY <1>2, <1>5
     DEF Station, Call, GiveUp, Hear, StationFrame, SendReady, WritePrefix,
         WriteText, WriteNewline, WriteFallback, WriteFrame, LogText, Boot,
         vars
<1> QED
  BY <1>3, <1>4, <1>5 DEF Next, Board

LEMMA HistoryStep ==
  ASSUME IInv, Grows, LineInv', SessionInv', [Next]_vars
  PROVE  HistoryInv'
<1>0. /\ LineInv /\ SessionTypeOK
      /\ LostPerformed /\ OpenInv /\ EarnedInv /\ ToldInv
  BY DEF IInv, LineInv, SessionInv
<1>1. ToldInv' /\ LostPerformed'
  BY <1>0, ToldStep, LostStep
<1>2. ASSUME UNCHANGED <<performed, lostBy>>, IsActive' => IsActive,
             lost' = lost \/ ~IsActive',
             \/ UNCHANGED entries
             \/ ~IsActive'
      PROVE  HistoryInv'
  <2>1. OpenInv' /\ EarnedInv'
    BY <1>0, <1>2, NothingPerformed
  <2> QED
    BY <1>1, <2>1 DEF HistoryInv
<1>3. CASE ProcessLine
  <2>0. SidesOK /\ LineTypes /\ QueueInv
    BY <1>0 DEF LineInv
  <2>1. PICK s \in 1 .. MaxCalls, r \in Results, reported \in Results :
          /\ s \in DOMAIN calls /\ calls[s] \in Requests
          /\ \A s1 \in 1 .. MaxCalls : performed[s1] # Nothing => s1 < s
          /\ Handle(calls[s], r)
          /\ r = "OK" <=> reported = "OK"
          /\ performed[s] = Nothing
          /\ Performed(s, Outcome(calls[s], reported))
          /\ UNCHANGED stationVars
    BY <1>3, <2>0, ServedRequest
  <2>2. UNCHANGED <<calls, lost>> /\ s \notin lost
        /\ performed' = [performed EXCEPT ![s] = Outcome(calls[s], reported)]
    BY <1>0, <2>1 DEF stationVars, Performed, LostPerformed
  <2>3. OpenInv'
    BY <1>0, <2>1, <2>2, ServedOpen
  <2>4. EarnedInv'
    BY <1>0, <2>1, <2>2, ServedEarned DEF LostPerformed
  <2> QED
    BY <1>1, <2>3, <2>4 DEF HistoryInv
<1>4. CASE TimeoutEvent
  <2>1. /\ UNCHANGED <<performed, lostBy>>
        /\ \E c, r : /\ SessionExpire(Timeout, c, r)
                     /\ r \in {"TIMEOUT", "CLEANUP"}
    BY <1>4 DEF TimeoutEvent, LosesAll
  <2>2. UNCHANGED entries /\ ~IsActive'
    <3>1. PICK c, r : /\ SessionExpire(Timeout, c, r)
                      /\ r \in {"TIMEOUT", "CLEANUP"}
      BY <2>1
    <3>2. ExpireCheck(Timeout) = "TIMEOUT"
      BY <3>1 DEF SessionExpire, ExpireCheck
    <3>3. /\ session' = [Refreshed(session) EXCEPT !.state = "EXPIRED"]
          /\ UNCHANGED entries
      BY <3>1, <3>2 DEF SessionExpire
    <3>4. session'.state = "EXPIRED"
      BY <1>0, <3>3 DEF Refreshed, SessionTypeOK, Sessions
    <3> QED
      BY <3>3, <3>4 DEF IsActive
  <2> QED
    BY <1>2, <2>1, <2>2
<1>5. CASE Boot \/ Reset
  <2>1. UNCHANGED <<performed, lostBy>> /\ ~IsActive'
    BY <1>5 DEF Boot, Reset, SessionInit, SessionLost, IsActive, Zeroed,
                historyVars, LosesAll
  <2> QED
    BY <1>2, <2>1
<1>6. CASE Station \/ SendReady \/ WritePrefix \/ WriteText \/ WriteNewline
           \/ WriteFallback \/ LogText \/ UNCHANGED vars
  <2>1. UNCHANGED <<historyVars, session, entries>>
    BY <1>6
       DEF Station, Call, GiveUp, Hear, StationFrame, historyVars,
           SendReady, WritePrefix, WriteText, WriteNewline, WriteFallback,
           WriteFrame, LogText, vars, boardVars, sessionVars
  <2> QED
    BY <1>2, <2>1 DEF IsActive, historyVars
<1> QED
  BY <1>3, <1>4, <1>5, <1>6 DEF Next, Board
-----------------------------------------------------------------------------
(* Board, line and station keep the promises above together.               *)
THEOREM StationInvariant == Spec => []IInv
<1>1. IInv /\ [Next]_vars => IInv'
  <2> SUFFICES ASSUME IInv, [Next]_vars PROVE IInv'
    OBVIOUS
  <2>1. LineInv /\ SessionInv /\ BootInv
    BY DEF IInv, LineInv
  <2>2. Grows
    BY <2>1, HistoryGrows DEF LineInv
  <2>3. SessionInv' /\ BootInv'
    BY <2>1, SessionStep
  <2>4. LineInv'
    BY <2>1, <2>2, <2>3, LineStep DEF SessionInv
  <2>5. HistoryInv'
    BY <2>2, <2>3, <2>4, HistoryStep
  <2> QED
    BY <2>3, <2>4, <2>5 DEF IInv, LineInv, HistoryInv
<1> QED
  BY <1>1, InitInv, PTL DEF Spec

(* The two sides and the line hold what they are declared to, on every     *)
(* path (factory_protocol.c, docs/factory_protocol.md).                    *)
THEOREM TypeCorrect == Spec => []TypeOK
<1>1. IInv => TypeOK
  BY DEF IInv, LostPerformed, TypeOK
<1> QED
  BY <1>1, StationInvariant, PTL

(* Whatever is torn, mixed or lost, the station reads nothing of a call    *)
(* but what performing that call came to (usb_write_all, send_response).   *)
THEOREM FramesTrue == Spec => []NoFrameForged
<1>1. IInv => NoFrameForged
  <2>1. ASSUME FramesInv, NEW i \in DOMAIN heard PROVE Composed(heard[i])
    BY <2>1 DEF FramesInv, Range
  <2> QED
    BY <2>1 DEF IInv, NoFrameForged, Composed
<1> QED
  BY <1>1, StationInvariant, PTL

(* A pass the station hears was earned by its own requests, in order, and  *)
(* by none of them before a reset or in a session that timed out           *)
(* (factory_session_start, factory_session_finish, process_line).          *)
THEOREM PassIsBacked == Spec => []PassBacked
<1>1. IInv => PassBacked
  <2> DEFINE s == Len(calls)
  <2> SUFFICES ASSUME IInv, told = "PASS"
               PROVE  \E s0 \in DOMAIN calls \ lostBy[s] :
                        /\ Started(s0)
                        /\ \A s1 \in DOMAIN calls : Started(s1) => s1 <= s0
                        /\ \A t \in Tests :
                             \E s1 \in s0 + 1 .. s - 1 :
                               Recorded(t, s1) /\ s1 \notin lostBy[s]
    BY DEF PassBacked
  <2>1. calls \in Seq(Requests) /\ DOMAIN calls = 1 .. Len(calls)
    BY LenProperties DEF IInv, SidesOK
  <2>2. calls # <<>> /\ performed[s] = "PASS"
    BY NothingAssumption DEF IInv, ToldInv, Codes
  <2>3. s \in Nat /\ s \in DOMAIN calls
    BY <2>1, <2>2, EmptySeq
  <2>4. calls[s].cmd = "session.finish" /\ Earned(s)
    BY <2>2, <2>3 DEF IInv, EarnedInv
  <2>5. PICK s0 \in 1 .. s - 1 :
          /\ LastStart(s0, s - 1) /\ s0 \notin lostBy[s]
          /\ \A t \in Tests :
               \E s1 \in s0 + 1 .. s - 1 :
                 Recorded(t, s1) /\ s1 \notin lostBy[s]
    BY <2>4 DEF Earned
  <2>6. ~Started(s)
    BY <2>4 DEF Started
  <2>7. \A s1 \in DOMAIN calls : Started(s1) => s1 <= s0
    BY <2>1, <2>3, <2>5, <2>6 DEF LastStart
  <2>8. s0 \in DOMAIN calls /\ Started(s0)
    BY <2>1, <2>3, <2>5 DEF LastStart
  <2> QED
    BY <2>5, <2>7, <2>8
<1> QED
  BY <1>1, StationInvariant, PTL

(* A reply written undisturbed on a fresh line is what the station reads   *)
(* next (send_response, usb_write_all).                                    *)
THEOREM UndisturbedIsHeard == Spec => UndisturbedHeard
<1>1. IInv /\ [Next]_vars =>
        [task = "newline" /\ task' = "idle" /\ due # Nothing
           /\ faults' = faults => heard' = Append(heard, due)]_vars
  <2> SUFFICES ASSUME IInv, [Next]_vars, task = "newline", task' = "idle",
                      due # Nothing, faults' = faults
               PROVE  heard' = Append(heard, due)
    BY Zenon
  <2>1. WriteNewline
    <3>1. ~(Station \/ LogText \/ Reset \/ UNCHANGED vars)
      BY DEF Station, Call, GiveUp, Hear, StationFrame, historyVars,
             boardVars, LogText,
             Reset, vars
    <3>2. ~(ProcessLine \/ TimeoutEvent \/ WritePrefix \/ WriteText
              \/ WriteFallback \/ Boot \/ SendReady)
      BY Zenon DEF ProcessLine, TimeoutEvent, WritePrefix, WriteText,
                   WriteFallback, Boot, SendReady
    <3> QED
      BY <3>1, <3>2 DEF Next, Board
  <2>2. UsbWriteAll(Newline) /\ LineTypes
    BY <2>1 DEF WriteNewline, Ending, IInv
  <2>3. Arrive(Newline)
    BY <2>2, NewlineType, WriteTexts
  <2>4. due = frame /\ wire = Prefix \o Parts(frame)
    BY DEF IInv, DueInv
  <2>5. frame \in Frames
    BY DEF IInv, SidesOK
  <2> QED
    BY <2>3, <2>4, <2>5, NewlineArrives
<1> QED
  BY <1>1, StationInvariant, PTL DEF Spec, UndisturbedHeard
-----------------------------------------------------------------------------
(* Every step is one of the server's, or none of its business.             *)
LEMMA RemoteStep ==
  ASSUME IInv, [Next]_vars
  PROVE  [Remote!Next]_(Remote!vars)
<1>0. /\ calls \in Seq(Requests) /\ Len(calls) \in 0 .. MaxCalls
      /\ waiting \in 0 .. Len(calls) /\ MaxCalls \in Nat
      /\ DOMAIN calls = 1 .. Len(calls)
  <2>1. calls \in Seq(Requests) /\ Len(calls) <= MaxCalls
        /\ waiting \in 0 .. Len(calls)
    BY DEF IInv, SidesOK
  <2> QED
    BY <2>1, LenProperties, StationAssumption
<1>1. CASE UNCHANGED <<calls, waiting, performed, told>>
  BY <1>1 DEF Remote!vars, Phase
<1>2. ASSUME NEW r \in Requests, Call(r) PROVE Remote!Next
  <2> DEFINE s == Len(calls) + 1
  <2>1. /\ waiting = 0 /\ Len(calls) < MaxCalls /\ calls' = Append(calls, r)
        /\ waiting' = Len(calls') /\ told' = Nothing /\ UNCHANGED performed
    BY <1>2 DEF Call, StationFrame, historyVars
  <2>2. Len(calls') = s /\ waiting' = s /\ s \in 1 .. MaxCalls
    BY <1>0, <2>1, AppendProperties
  <2>3. Phase[s] = "new" /\ Phase' = [Phase EXCEPT ![s] = "open"]
    <3>1. Phase[s] = "new"
      BY <2>2, <1>0 DEF Phase
    <3>2. ASSUME NEW q \in 1 .. MaxCalls
          PROVE  Phase'[q] = IF q = s THEN "open" ELSE Phase[q]
      <4>1. Phase'[q] = IF q > Len(calls') THEN "new"
                        ELSE IF q = waiting' THEN "open" ELSE "closed"
        BY DEF Phase
      <4>2. Phase[q] = IF q > Len(calls) THEN "new" ELSE "closed"
        BY <1>0, <2>1 DEF Phase
      <4>3. q # s => (q > Len(calls') <=> q > Len(calls))
        BY <1>0, <2>2
      <4> HIDE DEF s
      <4>4. CASE q = s
        <5>1. ~(q > Len(calls')) /\ q = waiting'
          BY <2>2, <4>4
        <5> QED
          BY <4>1, <4>4, <5>1
      <4>5. CASE q # s
        BY <2>2, <4>1, <4>2, <4>3, <4>5
      <4> QED
        BY <4>4, <4>5
    <3>3. /\ DOMAIN Phase' = 1 .. MaxCalls
          /\ Phase' = [q \in 1 .. MaxCalls |-> Phase'[q]]
          /\ DOMAIN Phase = 1 .. MaxCalls
      BY DEF Phase
    <3> HIDE DEF s
    <3> QED
      BY <2>2, <3>1, <3>2, <3>3
  <2>4. Remote!Send(s)
    BY <2>1, <2>3 DEF Remote!Send
  <2> QED
    BY <2>2, <2>4 DEF Remote!Next
<1>3. ASSUME waiting # 0, waiting' = 0, UNCHANGED calls
      PROVE  /\ waiting \in 1 .. MaxCalls /\ Phase[waiting] = "open"
             /\ Phase' = [Phase EXCEPT ![waiting] = "closed"]
  BY SMTT(30), <1>0, <1>3 DEF Phase
<1>4. CASE GiveUp
  <2>1. /\ waiting # 0 /\ waiting' = 0
        /\ UNCHANGED <<calls, performed, told>>
    BY <1>4 DEF GiveUp, StationFrame, historyVars
  <2>2. waiting \in 1 .. MaxCalls /\ Remote!GiveUp(waiting)
    BY <1>3, <2>1 DEF Remote!GiveUp
  <2> QED
    BY <2>2 DEF Remote!Next
<1>5. CASE Hear
  <2>1. UNCHANGED <<calls, performed>> /\ heard # <<>>
    BY <1>5 DEF Hear, StationFrame, historyVars
  <2>2. CASE UNCHANGED <<told, waiting>>
    BY <1>1, <2>1, <2>2
  <2>3. CASE /\ Matches(Head(heard)) /\ told' = Head(heard).code
             /\ waiting' = 0
    <3>1. heard \in Seq(Frames)
      BY DEF IInv, LineTypes
    <3>2. Head(heard) \in Frames /\ Head(heard) \in Range(heard)
      <4>1. DOMAIN heard = 1 .. Len(heard) /\ Len(heard) \in Nat \ {0}
        BY <2>1, <3>1, LenProperties, EmptySeq
      <4>2. Head(heard) = heard[1] /\ 1 \in DOMAIN heard
        BY <2>1, <3>1, <4>1
      <4> QED
        BY <2>1, <3>1, <4>2, HeadTailProperties DEF Range
    <3>3. waiting # 0 /\ Head(heard).seq = waiting
      BY <2>3 DEF Matches
    <3>4. Head(heard).code = performed[waiting]
      BY <3>2, <3>3 DEF IInv, FramesInv, Composed
    <3>5. Head(heard).code # Nothing
      BY <3>2, NothingAssumption DEF Frames
    <3>6. waiting \in 1 .. MaxCalls /\ Remote!Tell(waiting)
      BY <1>3, <2>1, <2>3, <3>3, <3>4, <3>5 DEF Remote!Tell
    <3> QED
      BY <3>6 DEF Remote!Next
  <2> QED
    BY <1>5, <2>2, <2>3 DEF Hear
<1>6. CASE ProcessLine
  <2>0. SidesOK /\ LineTypes /\ QueueInv
    BY DEF IInv
  <2>1. PICK s \in 1 .. MaxCalls, reported \in Results :
          /\ s \in DOMAIN calls /\ calls[s] \in Requests
          /\ performed[s] = Nothing
          /\ performed' = [performed EXCEPT ![s] =
                             Outcome(calls[s], reported)]
          /\ UNCHANGED stationVars
    BY <1>6, <2>0, ServedRequest DEF Performed
  <2>2. UNCHANGED <<waiting, calls, told>>
    BY <2>1 DEF stationVars
  <2>3. Outcome(calls[s], reported) \in Codes
    BY <2>1, OutcomeType
  <2>4. Phase[s] # "new" /\ UNCHANGED Phase
    BY <1>0, <2>1, <2>2 DEF Phase
  <2>5. Remote!Perform(s)
    BY <2>1, <2>2, <2>3, <2>4 DEF Remote!Perform
  <2> QED
    BY <2>5 DEF Remote!Next
<1>7. CASE TimeoutEvent \/ WritePrefix \/ WriteText \/ WriteNewline
           \/ WriteFallback \/ Boot \/ SendReady \/ LogText \/ Reset
           \/ UNCHANGED vars
  <2>1. UNCHANGED <<calls, waiting, performed, told>>
    BY <1>7, Zenon
       DEF TimeoutEvent, WritePrefix, WriteText, WriteNewline,
           WriteFallback, WriteFrame, historyVars, LosesAll, Boot,
           SendReady, LogText, Reset, vars, stationVars
  <2> QED
    BY <1>1, <2>1
<1> QED
  BY <1>2, <1>4, <1>5, <1>6, <1>7 DEF Next, Station, Board

(* To the station the board is a server that performs a request at most    *)
(* once and answers it truly or not at all (process_line, send_response).  *)
THEOREM ServesCalls == Spec => ImplementsRemoteCall
<1>1. Init => Remote!Init
  BY DEF Init, Remote!Init, Phase
<1>2. IInv /\ [Next]_vars => [Remote!Next]_(Remote!vars)
  BY RemoteStep
<1> QED
  BY <1>1, <1>2, StationInvariant, PTL
     DEF Spec, ImplementsRemoteCall, Remote!Spec
=============================================================================
