--------------------------- MODULE FactoryRequest ---------------------------
(***************************************************************************)
(* How factory_request_parse takes a line apart (factory_request.c): the   *)
(* checks of the frame, of its UTF-8 byte by byte, of the JSON object, of  *)
(* its sequence number and command, and of the fields of the command, in   *)
(* their order, and what the reply may carry when one of them fails.       *)
(*                                                                         *)
(* The station's line is chosen as the checks come to look at it.  The     *)
(* object is a sequence of members; a key or string is what strcmp and     *)
(* strlen see of it.  How cJSON reads the text of an object is external.   *)
(***************************************************************************)
EXTENDS FactoryTypes, Integers, Sequences, Functions

CONSTANTS
  Byte,          \* the bytes that occur
  Objects,       \* the objects that occur, sequences of [key, value]
  Int32Max,      \* INT32_MAX
  MaxFrame,      \* FACTORY_PROTOCOL_MAX_FRAME
  PrefixLength   \* length of FACTORY_PROTOCOL_PREFIX

(* A value is a number, of which only its integral part and whether it is  *)
(* finite and whole matter, a string with its length and whether it is     *)
(* plain, that is of ASCII letters, digits, '.', '_' and '-' only, a       *)
(* Boolean, or something else.                                             *)
IsValue(v) ==
  \/ v.type = "number" /\ v.floor \in Int /\ v.whole \in BOOLEAN
                       /\ v.finite \in BOOLEAN
  \/ v.type = "string" /\ v.length \in Nat /\ v.text \in STRING
                       /\ v.plain \in BOOLEAN
  \/ v.type = "bool" /\ v.truth \in BOOLEAN
  \/ v.type = "other"

IsObject(r) == r \in Seq(Range(r)) /\ \A m \in Range(r) : IsValue(m.value)

ASSUME RequestAssumption ==
  /\ Byte \subseteq 0 .. 255
  /\ <<>> \in Objects
  /\ \A r \in Objects : IsObject(r)
  /\ Int32Max \in Nat \ {0}
  /\ MaxFrame \in Nat /\ PrefixLength \in Nat

VARIABLES
  pc,         \* the check that comes next, or "done"
  length,     \* of the line
  prefixed,   \* whether it begins with the prefix
  left,       \* bytes valid_utf8 has still to read
  size,       \* continuation bytes of the character it reads
  need,       \* those of them still to come
  codepoint,  \* its bits so far
  json,       \* what cJSON found: "bad", "trailing" text, or "object"
  root,       \* the members of the object
  request,    \* the request being filled in
  result,     \* what factory_request_parse returns
  char,       \* history: the bytes of the character being read
  well        \* history: every character before it was well-formed UTF-8

lineVars == <<length, prefixed>>
textVars == <<left, size, need, codepoint, char, well>>
vars == <<pc, lineVars, textVars, json, root, request, result>>

(* sizeof the strings of factory_request_t.                                *)
Capacity == [command_text |-> 32, unit_id |-> 48, test_id |-> 40,
             unit |-> 16, detail |-> 96]

Commands == {"identity", "session.start", "session.list", "session.finish",
             "session.abort", "fixture.record", "safe"}

(* An empty string, or no value, is what memset leaves.                    *)
Blank == [seq |-> -1, command_text |-> "unknown", command |-> "UNKNOWN",
          unit_id |-> "", test_id |-> "", passed |-> FALSE, value |-> "none",
          unit |-> "", detail |-> ""]

Goto(label) == pc' = label

Reject(code) == Goto("done") /\ result' = code
-----------------------------------------------------------------------------
Init ==
  /\ pc = "frame"
  /\ length \in 0 .. MaxFrame + 1 /\ prefixed \in BOOLEAN
  /\ left = 0 /\ size = 0 /\ need = 0 /\ codepoint = 0
  /\ json = "none" /\ root = <<>>
  /\ request = Blank /\ result = "OK"
  /\ char = <<>> /\ well = TRUE

(* The prefix is ASCII, so the scan is taken up behind it.                 *)
CheckFrame ==
  /\ pc = "frame"
  /\ \/ length > MaxFrame /\ Reject("FRAME_TOO_LONG") /\ UNCHANGED left
     \/ /\ length <= MaxFrame
        /\ (length <= PrefixLength \/ ~prefixed)
        /\ Reject("INVALID_FRAME") /\ UNCHANGED left
     \/ /\ length <= MaxFrame /\ length > PrefixLength /\ prefixed
        /\ left' = length - PrefixLength
        /\ Goto("text") /\ UNCHANGED result
  /\ UNCHANGED <<lineVars, size, need, codepoint, char, well, json, root,
                 request>>

(* valid_utf8.  A character begun with c has this many more bytes, and     *)
(* c carries the first bits of its code point.                             *)
Continuation(c) == IF c \div 32 = 6 THEN 1
                   ELSE IF c \div 16 = 14 THEN 2
                   ELSE IF c \div 8 = 30 THEN 3 ELSE 0
FirstBits(c) == IF c \div 32 = 6 THEN c % 32
                ELSE IF c \div 16 = 14 THEN c % 16 ELSE c % 8

BadLead_AnyLength(c, rest) ==                                   \* mutant
  \/ c = 0
  \/ c >= 128 /\ Continuation(c) = 0
  \/ Continuation(c) = 1 /\ FirstBits(c) < 2
BadLead(c, rest) ==
  \/ c = 0
  \/ c >= 128 /\ Continuation(c) = 0
  \/ Continuation(c) = 1 /\ FirstBits(c) < 2
  \/ Continuation(c) > rest

(* The checks of a complete code point of n continuation bytes.            *)
BadCodepoint_Surrogate(n, p) ==                                 \* mutant
  \/ n = 2 /\ p < 2048
  \/ n = 3 /\ p < 65536
  \/ p > 1114111
BadCodepoint_NotLast(n, p) ==                                   \* mutant
  \/ n = 2 /\ p < 2048
  \/ n = 3 /\ p < 65536
  \/ p >= 1114111
  \/ p \in 55296 .. 57343
BadCodepoint(n, p) ==
  \/ n = 2 /\ p < 2048
  \/ n = 3 /\ p < 65536
  \/ p > 1114111
  \/ p \in 55296 .. 57343

(* The characters of Unicode's table of well-formed sequences, but NUL.    *)
Tail80(b) == b \in 128 .. 191
WellFormed(s) ==
  \/ Len(s) = 1 /\ s[1] \in 1 .. 127
  \/ Len(s) = 2 /\ s[1] \in 194 .. 223 /\ Tail80(s[2])
  \/ /\ Len(s) = 3 /\ Tail80(s[3])
     /\ \/ s[1] = 224 /\ s[2] \in 160 .. 191
        \/ s[1] \in (225 .. 236) \cup {238, 239} /\ Tail80(s[2])
        \/ s[1] = 237 /\ s[2] \in 128 .. 159
  \/ /\ Len(s) = 4 /\ Tail80(s[3]) /\ Tail80(s[4])
     /\ \/ s[1] = 240 /\ s[2] \in 144 .. 191
        \/ s[1] \in 241 .. 243 /\ Tail80(s[2])
        \/ s[1] = 244 /\ s[2] \in 128 .. 143

(* The character is over: it was read as one, and the next begins.         *)
CharacterEnds ==
  /\ need' = 0 /\ size' = 0 /\ codepoint' = 0 /\ char' = <<>>
  /\ UNCHANGED <<pc, result>>

LeadByte(c) ==
  /\ pc = "text" /\ need = 0 /\ left > 0
  /\ left' = left - 1
  /\ \/ /\ BadLead(c, left - 1)
        /\ Reject("INVALID_REQUEST")
        /\ char' = <<c>> /\ UNCHANGED <<size, need, codepoint, well>>
     \/ /\ ~BadLead(c, left - 1) /\ c < 128
        /\ CharacterEnds /\ well' = (well /\ WellFormed(<<c>>))
     \/ /\ ~BadLead(c, left - 1) /\ c >= 128
        /\ size' = Continuation(c) /\ need' = Continuation(c)
        /\ codepoint' = FirstBits(c) /\ char' = <<c>>
        /\ UNCHANGED <<pc, result, well>>
  /\ UNCHANGED <<lineVars, json, root, request>>

ContinuationByte(c) ==
  LET p == (codepoint * 64) + (c % 64)
      s == Append(char, c)
  IN
  /\ pc = "text" /\ need > 0
  /\ left' = left - 1
  /\ \/ /\ c \div 64 # 2 \/ (need = 1 /\ BadCodepoint(size, p))
        /\ Reject("INVALID_REQUEST")
        /\ char' = s /\ UNCHANGED <<size, need, codepoint, well>>
     \/ /\ c \div 64 = 2 /\ need > 1
        /\ need' = need - 1 /\ codepoint' = p /\ char' = s
        /\ UNCHANGED <<pc, result, size, well>>
     \/ /\ c \div 64 = 2 /\ need = 1 /\ ~BadCodepoint(size, p)
        /\ CharacterEnds /\ well' = (well /\ WellFormed(s))
  /\ UNCHANGED <<lineVars, json, root, request>>

TextEnd ==
  /\ pc = "text" /\ need = 0 /\ left = 0 /\ Goto("json")
  /\ UNCHANGED <<lineVars, textVars, json, root, request, result>>
-----------------------------------------------------------------------------
Has(r, key) == \E i \in DOMAIN r : r[i].key = key
(* The keys of an object are unique where one is looked up.                *)
Item(r, key) == r[CHOOSE i \in DOMAIN r : r[i].key = key].value

HasDuplicateKeys_Neighbours(r) ==                               \* mutant
  \E i, j \in DOMAIN r : j = i + 1 /\ r[i].key = r[j].key
(* has_duplicate_keys *)
HasDuplicateKeys(r) == \E i, j \in DOMAIN r : i < j /\ r[i].key = r[j].key

ParseJson ==
  /\ pc = "json"
  /\ \/ json' = "bad" /\ Reject("INVALID_JSON") /\ UNCHANGED root
     \/ json' = "trailing" /\ Reject("INVALID_REQUEST") /\ UNCHANGED root
     \/ /\ json' = "object" /\ root' \in Objects
        /\ \/ HasDuplicateKeys(root') /\ Reject("INVALID_REQUEST")
           \/ /\ ~HasDuplicateKeys(root')
              /\ Goto("envelope") /\ UNCHANGED result
  /\ UNCHANGED <<lineVars, textVars, request>>

SeqValid_NoUpperBound(r) ==                                     \* mutant
  /\ Has(r, "seq") /\ Item(r, "seq").type = "number"
  /\ Item(r, "seq").finite /\ Item(r, "seq").floor >= 1
  /\ Item(r, "seq").whole
SeqValid(r) ==
  /\ Has(r, "seq") /\ Item(r, "seq").type = "number"
  /\ Item(r, "seq").finite
  /\ Item(r, "seq").floor >= 1
  /\ Item(r, "seq").floor <= Int32Max
  /\ Item(r, "seq").whole

(* A string that is there, not empty, and fits with its terminator.        *)
Fits_NoTerminator(r, key, capacity) ==                          \* mutant
  /\ Item(r, key).type = "string"
  /\ Item(r, key).length \in 1 .. capacity
Fits(r, key, capacity) ==
  /\ Item(r, key).type = "string"
  /\ Item(r, key).length # 0 /\ Item(r, key).length < capacity

(* command_from_text *)
CommandFromText(text) == IF text \in Commands THEN text ELSE "UNKNOWN"

(* The sequence number and the command; both are taken over or neither.    *)
Envelope ==
  LET text == Item(root, "cmd").text
      valid == SeqValid(root) /\ Has(root, "cmd")
                 /\ Fits(root, "cmd", Capacity.command_text)
  IN
  /\ pc = "envelope"
  /\ \/ ~valid /\ Reject("INVALID_REQUEST") /\ UNCHANGED request
     \/ /\ valid
        /\ request' = [request EXCEPT !.seq = Item(root, "seq").floor,
                                      !.command_text = text,
                                      !.command = CommandFromText(text)]
        /\ \/ text \notin Commands /\ Reject("UNKNOWN_COMMAND")
           \/ text \in Commands /\ Goto("fields") /\ UNCHANGED result
  /\ UNCHANGED <<lineVars, textVars, json, root>>

(* field_allowed *)
FieldAllowed_Anywhere(command, field) ==                        \* mutant
  field \in {"seq", "cmd", "unit_id", "test_id", "pass", "value", "unit",
             "detail"}
FieldAllowed(command, field) ==
  \/ field \in {"seq", "cmd"}
  \/ command = "session.start" /\ field = "unit_id"
  \/ command = "fixture.record"
       /\ field \in {"test_id", "pass", "value", "unit", "detail"}

CheckFields ==
  /\ pc = "fields"
  /\ \/ /\ \A m \in Range(root) : FieldAllowed(request.command, m.key)
        /\ Goto("read") /\ UNCHANGED result
     \/ /\ \E m \in Range(root) : ~FieldAllowed(request.command, m.key)
        /\ Reject("INVALID_REQUEST")
  /\ UNCHANGED <<lineVars, textVars, json, root, request>>

(* copy_json_string: what it accepts, and what it leaves in the field.     *)
StringOK(key, required) ==
  IF Has(root, key) THEN Fits(root, key, Capacity[key]) ELSE ~required
Copied(key) == IF Has(root, key) THEN Item(root, key).text ELSE ""

PassOK == Has(root, "pass") /\ Item(root, "pass").type = "bool"
ValueOK == Has(root, "value") =>
             Item(root, "value").type = "number" /\ Item(root, "value").finite

(* The last step.  What a failed read leaves in the request is not looked  *)
(* at any more: only its sequence number and command are used.             *)
ReadFields ==
  /\ pc = "read"
  /\ \/ /\ request.command \notin {"session.start", "fixture.record"}
        /\ Reject("OK") /\ UNCHANGED request
     \/ /\ request.command = "session.start"
        /\ \/ /\ StringOK("unit_id", TRUE) /\ Reject("OK")
              /\ request' = [request EXCEPT !.unit_id = Copied("unit_id")]
           \/ /\ ~StringOK("unit_id", TRUE) /\ Reject("INVALID_REQUEST")
              /\ UNCHANGED request
     \/ /\ request.command = "fixture.record"
        /\ LET valid == /\ StringOK("test_id", TRUE) /\ PassOK /\ ValueOK
                        /\ StringOK("unit", FALSE)
                        /\ StringOK("detail", FALSE)
           IN \/ /\ valid /\ Reject("OK")
                 /\ request' =
                      [request EXCEPT
                         !.test_id = Copied("test_id"),
                         !.passed = Item(root, "pass").truth,
                         !.value = IF Has(root, "value")
                                   THEN Item(root, "value") ELSE "none",
                         !.unit = Copied("unit"),
                         !.detail = Copied("detail")]
              \/ ~valid /\ Reject("INVALID_REQUEST") /\ UNCHANGED request
  /\ UNCHANGED <<lineVars, textVars, json, root>>
-----------------------------------------------------------------------------
Scan == (\E c \in Byte : LeadByte(c) \/ ContinuationByte(c)) \/ TextEnd
Next == CheckFrame \/ Scan \/ ParseJson \/ Envelope \/ CheckFields
        \/ ReadFields

Spec == Init /\ [][Next]_vars
-----------------------------------------------------------------------------
(* What the code point of a character that is not over does not exceed.    *)
Unfinished == 0 .. 32767

TypeOK ==
  /\ pc \in {"frame", "text", "json", "envelope", "fields", "read", "done"}
  /\ length \in 0 .. MaxFrame + 1 /\ prefixed \in BOOLEAN
  /\ left \in 0 .. MaxFrame /\ size \in 0 .. 3 /\ need \in 0 .. size
  /\ need <= left \/ pc = "done"
  /\ codepoint \in Unfinished /\ char \in Seq(Byte) /\ well \in BOOLEAN
  /\ json \in {"none", "bad", "trailing", "object"} /\ IsObject(root)
  /\ result \in Results
  /\ request.seq \in Int /\ request.command \in Commands \cup {"UNKNOWN"}

(* valid_utf8 accepts nothing that is not well-formed UTF-8: no overlong   *)
(* form, surrogate, code point past the last plane, NUL or cut-off         *)
(* character gets past it.                                                 *)
TextAccepted == well /\ (pc \notin {"frame", "text", "done"} => left = 0)

(* And it refuses nothing else: when it gives up on a character, no bytes  *)
(* that the rest of the line has room for could have made it well-formed.  *)
TextRefused ==
  pc = "done" /\ char # <<>> =>
    \A n \in 0 .. 4 - Len(char) : n <= left =>
      \A rest \in [1 .. n -> Byte] : ~WellFormed(char \o rest)

(* The requests that docs/factory_protocol.md describes.                   *)
Required(command) ==
  {"seq", "cmd"}
    \cup (IF command = "session.start" THEN {"unit_id"} ELSE {})
    \cup (IF command = "fixture.record" THEN {"test_id", "pass"} ELSE {})
Optional(command) ==
  IF command = "fixture.record" THEN {"value", "unit", "detail"} ELSE {}

(* What the document says of each field; it leaves the lengths of cmd and  *)
(* of test_id to the firmware, which takes FACTORY_COMMAND_MAX and         *)
(* FACTORY_TEST_ID_MAX with their terminators.                             *)
FieldOK(m) ==
  CASE m.key = "seq" -> /\ m.value.type = "number" /\ m.value.finite
                        /\ m.value.whole /\ m.value.floor \in 1 .. Int32Max
    [] m.key = "cmd" -> m.value.type = "string" /\ m.value.length \in 1 .. 31
    [] m.key = "unit_id" -> /\ m.value.type = "string" /\ m.value.plain
                            /\ m.value.length \in 1 .. 47
    [] m.key = "test_id" ->
         m.value.type = "string" /\ m.value.length \in 1 .. 39
    [] m.key = "pass" -> m.value.type = "bool"
    [] m.key = "value" -> m.value.type = "number" /\ m.value.finite
    [] m.key = "unit" ->
         m.value.type = "string" /\ m.value.length \in 0 .. 15
    [] m.key = "detail" ->
         m.value.type = "string" /\ m.value.length \in 0 .. 95
    [] OTHER -> FALSE

Keys(r) == {m.key : m \in Range(r)}

KeysOnce(r) == \A i, j \in DOMAIN r : r[i].key = r[j].key => i = j

(* A known command with the fields it needs and no others.                 *)
FieldsComplete(r) ==
  \E m \in Range(r) :
    /\ m.key = "cmd" /\ m.value.text \in Commands
    /\ Required(m.value.text) \subseteq Keys(r)
    /\ Keys(r) \subseteq Required(m.value.text) \cup Optional(m.value.text)

(* Where the parser departs from the document: it leaves the characters of *)
(* unit_id to valid_unit_id (factory_session_start), and refuses a unit or *)
(* a detail that is there and empty.                                       *)
AnyUnit(m) == m.key = "unit_id" /\ m.value.type = "string"
                                /\ m.value.length \in 1 .. 47
EmptyText(m) == m.key \in {"unit", "detail"} /\ m.value.type = "string"
                                            /\ m.value.length = 0

FieldTaken(m) == (FieldOK(m) \/ AnyUnit(m)) /\ ~EmptyText(m)

(* The requests of the document, but for those two departures.             *)
Described(r) ==
  KeysOnce(r) /\ (\A m \in Range(r) : FieldTaken(m)) /\ FieldsComplete(r)

(* The chain of checks accepts exactly the requests of the document, but   *)
(* for the two departures, in a frame within bounds, and takes over what   *)
(* they say, an optional field that is absent being empty                  *)
(* (factory_request_parse).                                                *)
Says(r, key, field) ==
  \/ \E m \in Range(r) : m.key = key /\ m.value.text = field
  \/ ~Has(r, key) /\ field = ""

ParsedAsDescribed ==
  pc = "done" =>
    /\ result = "OK" <=>
         /\ prefixed /\ length \in PrefixLength + 1 .. MaxFrame
         /\ json = "object" /\ Described(root)
    /\ result = "OK" =>
         /\ Says(root, "unit_id", request.unit_id)
         /\ Says(root, "test_id", request.test_id)
         /\ Says(root, "unit", request.unit)
         /\ Says(root, "detail", request.detail)
         /\ \A m \in Range(root) :
              /\ m.key = "pass" => request.passed = m.value.truth
              /\ m.key = "value" => request.value = m.value
         /\ ~Has(root, "value") => request.value = "none"

(* An object that says what it is: a sequence number and a command that    *)
(* are both within bounds, and no key twice.                               *)
Identified(r) ==
  KeysOnce(r) /\ \A key \in {"seq", "cmd"} :
                   \E m \in Range(r) : m.key = key /\ FieldOK(m)

(* A line is answered under its own sequence number and command when it is *)
(* an object that has both, whatever else is wrong with it, and then as an *)
(* unknown command exactly if it is one.  In every other case it is        *)
(* answered under -1 and "unknown", even if one of the two could have been *)
(* read: never under one of its own and one that is not                    *)
(* (factory_request_parse takes over both or neither).                     *)
AnsweredAsAsked ==
  pc = "done" =>
    \/ /\ json = "object" /\ Identified(root)
       /\ \A m \in Range(root) :
            /\ m.key = "seq" => request.seq = m.value.floor
            /\ m.key = "cmd" => request.command_text = m.value.text
       /\ request.command_text \in Commands <=> result # "UNKNOWN_COMMAND"
    \/ /\ ~(json = "object" /\ Identified(root))
       /\ request.seq = -1 /\ request.command_text = "unknown"
       /\ result \notin {"OK", "UNKNOWN_COMMAND"}
-----------------------------------------------------------------------------
(* What the documents say of the program and the program does not do.      *)

(* CODEX_IMPLEMENTATION_PLAN.md: "Every request must contain numeric `seq` *)
(* and string `cmd`.  Every response must echo `seq` and `cmd`."  Here of  *)
(* an object that contains both, the number a valid one and no key twice.  *)
EveryResponseEchoes ==
  pc = "done" /\ json = "object" /\ KeysOnce(root) =>
    \A m, n \in Range(root) :
      /\ m.key = "seq" /\ FieldOK(m)
      /\ n.key = "cmd" /\ n.value.type = "string"
      => request.seq = m.value.floor /\ request.command_text = n.value.text
=============================================================================
