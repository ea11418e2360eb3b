----------------------- MODULE FactoryReplies_proofs ------------------------
(***************************************************************************)
(* Whatever allocations fail and whatever the session is: the fields a     *)
(* reply carries are true, no verdict contradicts another, a list is whole *)
(* or an error, and no object but a data object without an envelope        *)
(* outlives its reply.                                                     *)
(***************************************************************************)
EXTENDS FactoryReplies, FactorySession_proofs, SequenceTheorems

SessionKeys == {"state", "active", "unit_id", "pending", "passed", "failed"}
ItemKeys == {"id", "description", "owner", "status"}
Commands == {"identity", "safe", "session.abort", "session.start",
             "session.list", "session.finish", "fixture.record"}

(* Between two replies nothing is allocated but a lost data object, and    *)
(* each label of a reply knows how far its objects have come.              *)
HeapInv ==
  /\ pc \in {"ready", "line", "create"} => data = Null /\ root = Null
  /\ pc # "line" => sent = Null
  /\ pc \notin {"fill", "write"} => "root" \notin heap
  /\ pc \in {"fill", "write"} => data # Null
  /\ pc \notin {"ready", "line", "create"} /\ failures = 0 => data # Null
  /\ pc \in {"event", "handle", "mark"} => data \in {Null, Empty}
  /\ pc = "list" => data # Null /\ DOMAIN data = {"tests"}
  /\ data # Null => "null" \notin DOMAIN data
  /\ pc = "fill" => root = Empty

(* Which line is being answered at a label, and with what result so far.   *)
PhaseInv ==
  /\ pc = "create" =>
       \/ request.seq = 0 /\ request.cmd \in {"ready", "session.timeout"}
       \/ request.seq = 0 /\ request.cmd = "unknown" /\ result # "OK"
       \/ request.seq # 0 /\ result = "OK" /\ request.cmd \in Commands
       \/ /\ request.seq # 0 /\ result # "OK"
          /\ request.cmd \in {"unknown", "unsupported"}
  /\ pc = "event" => request.cmd \in {"ready", "session.timeout"}
  /\ pc \in {"handle", "mark", "list"} =>
       result = "OK" /\ request.cmd \in Commands
  /\ pc = "mark" => request.cmd = "session.start" /\ IsActive
                    /\ identity = ChipIdentity
  /\ pc = "list" => request.cmd = "session.list"

(* The items of a list so far.                                             *)
ItemsTrue(tests) ==
  /\ tests \in Seq({tests[i] : i \in DOMAIN tests})
  /\ Len(tests) <= Len(TestOrder)
  /\ \A i \in 1 .. Len(tests) :
       /\ \A k \in DOMAIN tests[i] : tests[i][k] = Item(TestOrder[i])[k]
       /\ failures = 0 => ItemKeys \subseteq DOMAIN tests[i]

ListInv ==
  pc = "list" => ItemsTrue(data.tests) /\ Len(data.tests) = index - 1

(* What the data of a handled command say.                                 *)
Told(d) ==
  /\ \A k \in DOMAIN d \cap SessionKeys : d[k] = SessionData(session)[k]
  /\ \A k \in DOMAIN d \cap IdentityKeys : d[k] = ChipIdentity[k]
  /\ "overall_pass" \in DOMAIN d =>
       /\ request.cmd = "session.finish"
       /\ d.overall_pass = OverallPass(result)
  /\ "tests" \in DOMAIN d =>
       /\ request.cmd = "session.list" /\ ItemsTrue(d.tests)
       /\ result = "OK" => Len(d.tests) = Len(TestOrder)

Completed ==
  result = "OK" /\ request.cmd = "session.finish" =>
    session.state = "COMPLETED"

DoneInv ==
  pc \in {"cleanup", "respond", "fill", "write"} =>
    /\ data # Null => Told(data)
    /\ failures = 0 =>
         Documented(request.cmd, result = "OK") \subseteq DOMAIN data
    /\ Completed

(* The envelope as far as there was memory for it.                         *)
Whole == Extended(Envelope, [data |-> data])
RootInv ==
  pc = "write" =>
    /\ DOMAIN root \subseteq DOMAIN Whole
    /\ \A k \in DOMAIN root : root[k] = Whole[k]
    /\ failures = 0 => DOMAIN root = DOMAIN Whole
    /\ "data" \notin DOMAIN root => failures > 0
    /\ root # Null

SentInv ==
  /\ VerdictsAgree /\ SessionToldAsIs /\ ListWhole
  /\ CompleteWithMemory /\ NothingLost
  /\ \A k \in DOMAIN Data \cap IdentityKeys : Data[k] = ChipIdentity[k]

Inv ==
  /\ SessionInv /\ TypeOK /\ HeapInv /\ PhaseInv /\ ListInv /\ DoneInv
  /\ RootInv /\ SentInv
-----------------------------------------------------------------------------
(* Objects and their fields.                                               *)
LEMMA NullApart ==
  ASSUME NEW d, "null" \notin DOMAIN d
  PROVE  d # Null
BY DEF Null

LEMMA EmptyObject == DOMAIN Empty = {} /\ Empty # Null
BY DEF Null, Empty

LEMMA ExtendedFields ==
  ASSUME NEW f, NEW g
  PROVE  /\ DOMAIN Extended(f, g) = DOMAIN f \cup DOMAIN g
         /\ \A k \in DOMAIN g : Extended(f, g)[k] = g[k]
         /\ \A k \in DOMAIN f \ DOMAIN g : Extended(f, g)[k] = f[k]
BY DEF Extended

LEMMA WithoutFields ==
  ASSUME NEW f, NEW keys
  PROVE  /\ DOMAIN Without(f, keys) = DOMAIN f \ keys
         /\ \A k \in DOMAIN f \ keys : Without(f, keys)[k] = f[k]
BY DEF Without

(* Losing nothing, and losing something, of an object.                     *)
LEMMA LossCount ==
  ASSUME RepliesAssumption, NEW fields, IsFiniteSet(DOMAIN fields),
         failures \in 0 .. MaxFailures, NEW lost \in Losses(fields)
  PROVE  /\ failures + Cardinality(lost) \in 0 .. MaxFailures
         /\ failures + Cardinality(lost) = 0 => failures = 0 /\ lost = {}
         /\ failures + Cardinality(lost) = failures => lost = {}
         /\ lost \subseteq DOMAIN fields
<1>1. /\ lost \subseteq DOMAIN fields
      /\ Cardinality(lost) <= MaxFailures - failures
  BY DEF Losses
<1>2. IsFiniteSet(lost)
  BY <1>1, FS_Subset
<1>3. Cardinality(lost) \in Nat /\ (Cardinality(lost) = 0 => lost = {})
  BY <1>2, FS_CardinalityType, FS_EmptySet
<1> QED
  BY <1>1, <1>3 DEF RepliesAssumption

LEMMA FiniteKeys ==
  /\ IsFiniteSet({})
  /\ \A S, x : IsFiniteSet(S) => IsFiniteSet(S \cup {x})
  /\ \A S, T : IsFiniteSet(S) /\ IsFiniteSet(T) => IsFiniteSet(S \cup T)
<1>1. IsFiniteSet({})
  BY FS_EmptySet
<1>2. \A S, x : IsFiniteSet(S) => IsFiniteSet(S \cup {x})
  BY FS_AddElement
<1>3. \A S, T : IsFiniteSet(S) /\ IsFiniteSet(T) => IsFiniteSet(S \cup T)
  BY FS_Union
<1> QED
  BY <1>1, <1>2, <1>3

LEMMA FiniteEnumeration ==
  ASSUME NEW a, NEW b, NEW c, NEW d, NEW e, NEW f, NEW g
  PROVE  IsFiniteSet({a, b, c, d, e, f, g})
<1>1. IsFiniteSet({a})
  BY FiniteKeys
<1>2. IsFiniteSet({a} \cup {b})
  BY <1>1, FiniteKeys
<1>3. IsFiniteSet({a} \cup {b} \cup {c})
  BY <1>2, FiniteKeys
<1>4. IsFiniteSet({a} \cup {b} \cup {c} \cup {d})
  BY <1>3, FiniteKeys
<1>5. IsFiniteSet({a} \cup {b} \cup {c} \cup {d} \cup {e})
  BY <1>4, FiniteKeys
<1>6. IsFiniteSet({a} \cup {b} \cup {c} \cup {d} \cup {e} \cup {f})
  BY <1>5, FiniteKeys
<1>7. IsFiniteSet({a} \cup {b} \cup {c} \cup {d} \cup {e} \cup {f} \cup {g})
  BY <1>6, FiniteKeys
<1>8. {a} \cup {b} \cup {c} \cup {d} \cup {e} \cup {f} \cup {g}
        = {a, b, c, d, e, f, g}
  OBVIOUS
<1> QED
  BY <1>7, <1>8

(* The fields of every reply are finitely many, and none is a null key.    *)
LEMMA SessionFields ==
  ASSUME NEW s
  PROVE  /\ DOMAIN SessionData(s) = SessionKeys
         /\ IsFiniteSet(SessionKeys)
<1>1. DOMAIN SessionData(s) = SessionKeys
  BY DEF SessionData, SessionKeys
<1>2. IsFiniteSet({"state", "active", "unit_id", "pending", "passed",
                   "failed", "failed"})
  BY FiniteEnumeration
<1>3. SessionKeys = {"state", "active", "unit_id", "pending", "passed",
                     "failed", "failed"}
  BY DEF SessionKeys
<1> QED
  BY <1>1, <1>2, <1>3

LEMMA IdentityFields ==
  /\ IdentityKeys = {"base_mac", "thread_eui64", "flash_size_bytes", "target",
                     "silicon_revision", "cores", "reset_reason"}
  /\ DOMAIN ChipIdentity = IdentityKeys /\ DOMAIN NoIdentity = IdentityKeys
  /\ IsFiniteSet(IdentityKeys)
<1>1. IdentityKeys = {"base_mac", "thread_eui64", "flash_size_bytes",
                      "target", "silicon_revision", "cores", "reset_reason"}
  BY DEF IdentityKeys, Reads
<1>2. DOMAIN ChipIdentity = IdentityKeys /\ DOMAIN NoIdentity = IdentityKeys
  BY DEF ChipIdentity, NoIdentity
<1>3. IsFiniteSet(IdentityKeys)
  BY <1>1, FiniteEnumeration
<1> QED
  BY <1>1, <1>2, <1>3

LEMMA EnvelopeFields ==
  /\ DOMAIN Envelope = {"seq", "cmd", "status", "code", "firmware",
                        "protocol", "product", "board"}
  /\ DOMAIN Whole = DOMAIN Envelope \cup {"data"}
  /\ DOMAIN Fallback = DOMAIN Envelope \cup {"data"}
  /\ IsFiniteSet(DOMAIN Whole)
  /\ Whole["data"] = data
  /\ Whole["status"] = IF result = "OK" THEN "ok" ELSE "error"
  /\ Whole["code"] = IF result = "OK" THEN SuccessCode ELSE Code(result)
<1>1. DOMAIN Envelope = {"seq", "cmd", "status", "code", "firmware",
                         "protocol", "product", "board"}
  BY DEF Envelope
<1>2. DOMAIN [data |-> data] = {"data"} /\ [data |-> data]["data"] = data
  OBVIOUS
<1>3. DOMAIN Whole = DOMAIN Envelope \cup {"data"}
  BY <1>2, ExtendedFields DEF Whole
<1>4. DOMAIN Fallback = DOMAIN Envelope \cup {"data"}
  BY <1>1 DEF Fallback
<1>5. IsFiniteSet(DOMAIN Whole)
  <2>1. IsFiniteSet({"seq", "cmd", "status", "code", "firmware",
                     "protocol", "product"})
    BY FiniteEnumeration
  <2>2. IsFiniteSet({"seq", "cmd", "status", "code", "firmware",
                     "protocol", "product"} \cup {"board"})
    BY <2>1, FiniteKeys
  <2>3. IsFiniteSet({"seq", "cmd", "status", "code", "firmware",
                     "protocol", "product"} \cup {"board"} \cup {"data"})
    BY <2>2, FiniteKeys
  <2>4. DOMAIN Whole = {"seq", "cmd", "status", "code", "firmware",
                        "protocol", "product"} \cup {"board"} \cup {"data"}
    BY <1>1, <1>3
  <2> QED
    BY <2>3, <2>4
<1>6. Whole["data"] = data
  <2>1. PICK g : g = [data |-> data]
    OBVIOUS
  <2>2. "data" \in DOMAIN g /\ g["data"] = data
    BY <1>2, <2>1
  <2>3. Extended(Envelope, g)["data"] = g["data"]
    BY <2>2 DEF Extended
  <2> QED
    BY <2>1, <2>2, <2>3 DEF Whole
<1>7. /\ Envelope["status"] = IF result = "OK" THEN "ok" ELSE "error"
      /\ Envelope["code"] = IF result = "OK" THEN SuccessCode ELSE Code(result)
  BY DEF Envelope
<1>8. Whole["status"] = Envelope["status"] /\ Whole["code"] = Envelope["code"]
  BY ZenonT(40), <1>1, <1>2, ExtendedFields DEF Whole
<1> QED
  BY <1>1, <1>3, <1>4, <1>5, <1>6, <1>7, <1>8

LEMMA ItemFields ==
  ASSUME NEW t
  PROVE  /\ IsFiniteSet(DOMAIN Item(t)) /\ ItemKeys \subseteq DOMAIN Item(t)
<1> DEFINE first == [id |-> t, description |-> t,
                     owner |-> OwnerName(Owner(t)),
                     status |-> StatusName(entries[t].status)]
<1>1. DOMAIN first = ItemKeys
  BY DEF ItemKeys
<1>2. IsFiniteSet(ItemKeys)
  <2>1. IsFiniteSet({"id", "description", "owner", "status", "status",
                     "status", "status"})
    BY FiniteEnumeration
  <2>2. ItemKeys = {"id", "description", "owner", "status", "status",
                    "status", "status"}
    BY DEF ItemKeys
  <2> QED
    BY <2>1, <2>2
<1>3. \A key, value : IsFiniteSet(DOMAIN Optional(key, value))
  <2> TAKE key, value
  <2>1. DOMAIN Optional(key, value) = {} \/ DOMAIN Optional(key, value) = {key}
    BY DEF Optional, Empty
  <2>2. IsFiniteSet({} \cup {key}) /\ {} \cup {key} = {key}
    BY FiniteKeys
  <2> QED
    BY <2>1, <2>2, FiniteKeys
<1>4. IsFiniteSet(DOMAIN Empty)
  BY EmptyObject, FiniteKeys
<1>5. \A f, g : IsFiniteSet(DOMAIN f) /\ IsFiniteSet(DOMAIN g) =>
                  IsFiniteSet(DOMAIN Extended(f, g))
  <2> TAKE f, g
  <2>1. DOMAIN Extended(f, g) = DOMAIN f \cup DOMAIN g
    BY ExtendedFields
  <2> QED
    BY <2>1, FiniteKeys
<1> DEFINE rest ==
      IF entries[t].evidence = NoEvidence THEN Empty
      ELSE Extended(
             Optional("detail", entries[t].evidence.detail),
             IF entries[t].evidence.value = "" THEN Empty
             ELSE Extended(Optional("value", entries[t].evidence.value),
                           Optional("unit", entries[t].evidence.unit)))
<1>6. IsFiniteSet(DOMAIN rest)
  BY <1>3, <1>4, <1>5, Zenon
<1>7. Item(t) = Extended(first, rest)
  BY DEF Item
<1> HIDE DEF first, rest
<1> QED
  BY <1>1, <1>2, <1>5, <1>6, <1>7, ExtendedFields
-----------------------------------------------------------------------------
(* What a series of additions leaves, when none of its fields was there.   *)
LEMMA AddedFields ==
  ASSUME RepliesAssumption, failures \in 0 .. MaxFailures,
         NEW fields, IsFiniteSet(DOMAIN fields), "null" \notin DOMAIN fields,
         \/ data = Null
         \/ "null" \notin DOMAIN data /\ DOMAIN data \cap DOMAIN fields = {},
         Add(fields)
  PROVE  /\ failures' \in 0 .. MaxFailures
         /\ failures' = 0 => failures = 0
         /\ data = Null => data' = Null
         /\ data # Null =>
              /\ data' # Null /\ "null" \notin DOMAIN data'
              /\ DOMAIN data \subseteq DOMAIN data'
              /\ \A k \in DOMAIN data' :
                   \/ k \in DOMAIN data /\ data'[k] = data[k]
                   \/ k \in DOMAIN fields /\ data'[k] = fields[k]
              /\ \A k \in DOMAIN data : data'[k] = data[k]
              /\ failures' = 0 => DOMAIN fields \subseteq DOMAIN data'
<1>1. CASE data = Null /\ UNCHANGED <<data, failures>>
  BY <1>1
<1>2. CASE /\ data # Null
           /\ \E lost \in Losses(fields) :
                /\ data' = Extended(data, Without(fields, lost))
                /\ failures' = failures + Cardinality(lost)
  <2>1. PICK lost \in Losses(fields) :
          /\ data' = Extended(data, Without(fields, lost))
          /\ failures' = failures + Cardinality(lost)
    BY <1>2
  <2>2. /\ failures' \in 0 .. MaxFailures
        /\ failures' = 0 => failures = 0 /\ lost = {}
        /\ lost \subseteq DOMAIN fields
    BY <2>1, LossCount
  <2> DEFINE g == Without(fields, lost)
  <2>3. /\ DOMAIN g = DOMAIN fields \ lost
        /\ \A k \in DOMAIN g : g[k] = fields[k]
    BY DEF Without
  <2> HIDE DEF g
  <2>4. /\ DOMAIN data' = DOMAIN data \cup DOMAIN g
        /\ \A k \in DOMAIN g : data'[k] = g[k]
        /\ \A k \in DOMAIN data \ DOMAIN g : data'[k] = data[k]
    BY <2>1 DEF Extended, g
  <2>5. "null" \notin DOMAIN data' /\ data' # Null
    BY <1>2, <2>3, <2>4, NullApart
  <2>6. DOMAIN data \cap DOMAIN g = {}
    BY <1>2, <2>3
  <2> QED
    BY <1>2, <2>2, <2>3, <2>4, <2>5, <2>6
<1> QED
  BY <1>1, <1>2 DEF Add

(* The sequence a list is, whatever is in it.                              *)
LEMMA ListAppend ==
  ASSUME NEW s, s \in Seq({s[i] : i \in DOMAIN s}), NEW x
  PROVE  LET t == Append(s, x)
         IN /\ t \in Seq({t[i] : i \in DOMAIN t})
            /\ Len(s) \in Nat /\ Len(t) = Len(s) + 1
            /\ \A i \in 1 .. Len(s) : t[i] = s[i]
            /\ t[Len(s) + 1] = x
<1> DEFINE S == {s[i] : i \in DOMAIN s}
           t == Append(s, x)
<1>1. /\ Len(s) \in Nat /\ DOMAIN s = 1 .. Len(s)
      /\ s \in [1 .. Len(s) -> S]
  BY LenProperties
<1>2. s \in Seq(S \cup {x})
  <2>1. s \in [1 .. Len(s) -> S \cup {x}]
    BY <1>1
  <2> HIDE DEF S
  <2> QED
    BY <1>1, <2>1
<1>3. /\ t \in Seq(S \cup {x}) /\ Len(t) = Len(s) + 1
      /\ \A i \in 1 .. Len(s) : t[i] = s[i]
      /\ t[Len(s) + 1] = x
  <2> HIDE DEF S
  <2> QED
    BY <1>2, AppendProperties
<1> DEFINE T == {t[i] : i \in DOMAIN t}
<1>4. /\ DOMAIN t = 1 .. Len(t) /\ Len(t) \in Nat
      /\ t \in [1 .. Len(t) -> S \cup {x}]
  <2> HIDE DEF S, t
  <2> QED
    BY <1>3, LenProperties
<1>5. t \in Seq(T)
  <2> HIDE DEF t, S
  <2>1. t \in [1 .. Len(t) -> T]
    BY <1>4
  <2> HIDE DEF T
  <2> QED
    BY <1>4, <2>1
<1> QED
  BY <1>1, <1>3, <1>5
-----------------------------------------------------------------------------
(* Nothing has been sent while a reply is in the making.                   *)
LEMMA NothingSent ==
  ASSUME sent' = Null, pc' # "line" \/ NothingLost'
  PROVE  SentInv'
<1>1. ~Has("code")' /\ ~Has("status")' /\ ~Has("data")'
  BY Zenon DEF Has
<1>2. Data' = Empty
  BY <1>1, Zenon DEF Data
<1>3. DOMAIN Data' = {}
  BY <1>2, EmptyObject
<1>4. VerdictsAgree' /\ ListWhole'
  BY <1>1, <1>3 DEF VerdictsAgree, ListWhole
<1>5. SessionToldAsIs'
  BY <1>3 DEF SessionToldAsIs
<1>6. CompleteWithMemory' /\ NothingLost'
  BY DEF CompleteWithMemory, NothingLost
<1>7. (\A k \in DOMAIN Data \cap IdentityKeys : Data[k] = ChipIdentity[k])'
  BY <1>3
<1> QED
  BY <1>4, <1>5, <1>6, <1>7, Zenon DEF SentInv

(* The parts of the invariant that speak of the middle of a reply.         *)
ReplyTypeOK ==
  /\ pc \in Labels /\ request.seq \in {-1, 0, 1}
  /\ result \in Results /\ index \in 1 .. Len(TestOrder) + 1
  /\ identity \in {ChipIdentity, NoIdentity}
  /\ heap \subseteq {"data", "root"} /\ failures \in 0 .. MaxFailures
  /\ data # Null => "data" \in heap
  /\ pc \in {"fill", "write"} <=> root # Null

LEMMA TypeParts ==
  /\ TypeOK <=> /\ SessionTypeOK /\ ReplyTypeOK
                /\ pc = "list" => data # Null /\ Len(data.tests) < index
  /\ Inv => SessionInv /\ SessionTypeOK /\ ReplyTypeOK
<1>1. TypeOK <=> /\ SessionTypeOK /\ ReplyTypeOK
                 /\ pc = "list" => data # Null /\ Len(data.tests) < index
  BY DEF TypeOK, ReplyTypeOK
<1> QED
  BY <1>1, Zenon DEF Inv, SessionInv

(* Outside a list, a reply in the making.                                  *)
LEMMA InTheMaking ==
  ASSUME SessionInv', ReplyTypeOK', HeapInv', PhaseInv', DoneInv',
         pc' \notin {"ready", "line", "list", "write"}
  PROVE  Inv'
<1>1. SessionTypeOK'
  BY Zenon DEF SessionInv
<1>2. TypeOK'
  BY <1>1 DEF TypeOK, ReplyTypeOK
<1>3. sent' = Null
  BY DEF HeapInv
<1>4. SentInv'
  BY <1>3, NothingSent
<1>5. ListInv' /\ RootInv'
  BY DEF ListInv, RootInv
<1> QED
  BY <1>2, <1>4, <1>5, Zenon DEF Inv

LEMMA BeginStep ==
  ASSUME RepliesAssumption, Inv, pc \in {"ready", "line"}, SessionInv',
         NEW line, NEW r \in Results, line.seq \in {-1, 0, 1},
         Begin(line, r),
         \/ line.seq = 0 /\ line.cmd \in {"ready", "session.timeout"}
         \/ line.seq = 0 /\ line.cmd = "unknown" /\ r # "OK"
         \/ line.seq # 0 /\ r = "OK" /\ line.cmd \in Commands
         \/ /\ line.seq # 0 /\ r # "OK"
            /\ line.cmd \in {"unknown", "unsupported"}
  PROVE  Inv'
<1>1. /\ request' = line /\ result' = r /\ pc' = "create" /\ failures' = 0
      /\ heap' = {} /\ sent' = Null /\ identity' = NoIdentity
      /\ index' = index /\ data' = data /\ root' = root
  BY DEF Begin, Goto
<1>2. data = Null /\ root = Null
  BY DEF Inv, HeapInv
<1>3. ReplyTypeOK'
  BY <1>1, <1>2, TypeParts DEF ReplyTypeOK, Labels, RepliesAssumption
<1>4. HeapInv'
  BY <1>1, <1>2 DEF HeapInv
<1>5. PhaseInv'
  BY <1>1 DEF PhaseInv
<1>6. DoneInv'
  BY <1>1 DEF DoneInv
<1> QED
  BY <1>1, <1>3, <1>4, <1>5, <1>6, InTheMaking

LEMMA SameSession ==
  ASSUME SessionInv, UNCHANGED sessionVars
  PROVE  SessionInv'
BY EarlyReturn, InvHasBase

(* The lines the station may send.                                         *)
LEMMA RequestLines ==
  ASSUME NEW l \in Requests
  PROVE  l.seq = 1 /\ l.cmd \in Commands
<1>1. CASE l \in {Line(1, c) : c \in {"identity", "safe", "session.abort",
                    "session.start", "session.list", "session.finish"}}
  BY <1>1 DEF Line, Commands
<1>2. CASE l \in [seq : {1}, cmd : {"fixture.record"}, test : TestInputs,
                  passed : BOOLEAN, evidence : Evidence]
  BY <1>2 DEF Commands
<1> QED
  BY <1>1, <1>2 DEF Requests

LEMMA BeginsStep ==
  ASSUME RepliesAssumption, Inv, Begins
  PROVE  Inv'
<1>0. SessionInv /\ "OK" \in Results /\ "FRAME_TOO_LONG" \in Results
  BY TypeParts DEF Results
<1>1. \A s, c : Line(s, c).seq = s /\ Line(s, c).cmd = c
  BY DEF Line
<1>2. CASE SendReady
  <2>1. SessionInv' /\ pc = "ready" /\ Begin(Line(0, "ready"), "OK")
    BY <1>0, <1>2, SameSession DEF SendReady
  <2> QED
    BY <1>0, <1>1, <2>1, BeginStep
<1>3. CASE TimeoutEvent
  <2>1. PICK c \in {"ok", "failed"}, r \in {"TIMEOUT", "CLEANUP"} :
          SessionExpire(Timeout, c, r) /\ Begin(Line(0, "session.timeout"), r)
    BY <1>3 DEF TimeoutEvent
  <2>2. SessionInv' /\ r \in Results
    BY <1>0, <2>1, ExpireCall, InvHasBase DEF Results
  <2> QED
    BY <1>1, <1>3, <2>1, <2>2, BeginStep DEF TimeoutEvent
<1>4. CASE DiscardedLine
  <2>1. SessionInv' /\ pc = "line"
        /\ Begin(Line(0, "unknown"), "FRAME_TOO_LONG")
    BY <1>0, <1>4, SameSession DEF DiscardedLine
  <2> QED
    BY <1>0, <1>1, <2>1, BeginStep
<1>5. CASE ProcessLine
  <2>1. SessionInv' /\ pc = "line"
    BY <1>0, <1>5, SameSession DEF ProcessLine
  <2>2. CASE \E l \in Requests : Begin(l, "OK")
    BY <1>0, <2>1, <2>2, RequestLines, BeginStep
  <2>3. CASE \E l \in {Line(-1, "unknown"), Line(1, "unsupported")},
                r \in ParseErrors : Begin(l, r)
    <3>1. PICK l \in {Line(-1, "unknown"), Line(1, "unsupported")},
               r \in ParseErrors : Begin(l, r)
      BY <2>3
    <3>2. r \in Results /\ r # "OK"
      BY DEF RepliesAssumption
    <3>3. l.seq \in {-1, 1} /\ l.cmd \in {"unknown", "unsupported"}
      BY <1>1
    <3> QED
      BY <2>1, <3>1, <3>2, <3>3, BeginStep
  <2> QED
    BY <1>5, <2>2, <2>3 DEF ProcessLine
<1> QED
  BY <1>2, <1>3, <1>4, <1>5 DEF Begins

LEMMA CreateDataStep ==
  ASSUME RepliesAssumption, Inv, CreateData
  PROVE  Inv'
<1>0. /\ ReplyTypeOK /\ SessionInv /\ pc = "create"
      /\ data = Null /\ root = Null /\ sent = Null /\ "root" \notin heap
  BY TypeParts DEF CreateData, Inv, HeapInv
<1>1. /\ pc' = Created
      /\ request' = request /\ result' = result /\ identity' = identity
      /\ index' = index /\ root' = root /\ sent' = sent
      /\ UNCHANGED sessionVars
  BY DEF CreateData, Goto
<1>2. \/ data' = Empty /\ heap' = {"data"} /\ failures' = failures
      \/ /\ data' = Null /\ heap' = heap /\ failures' \in 0 .. MaxFailures
         /\ failures' > 0
  BY <1>0 DEF CreateData, AllocationFails, ReplyTypeOK, RepliesAssumption
<1>3. \/ pc' = "event" /\ request.cmd \in {"ready", "session.timeout"}
      \/ pc' = "handle" /\ result = "OK" /\ request.cmd \in Commands
      \/ /\ pc' \in {"cleanup", "respond"} /\ result # "OK"
         /\ request.cmd \in {"unknown", "unsupported"}
  <2>1. \/ request.seq = 0 /\ request.cmd \in {"ready", "session.timeout"}
        \/ request.seq = 0 /\ request.cmd = "unknown" /\ result # "OK"
        \/ request.seq # 0 /\ result = "OK" /\ request.cmd \in Commands
        \/ /\ request.seq # 0 /\ result # "OK"
           /\ request.cmd \in {"unknown", "unsupported"}
    BY <1>0 DEF Inv, PhaseInv
  <2>2. CASE request.seq = 0 /\ request.cmd \in {"ready", "session.timeout"}
    BY <1>1, <2>2 DEF Created
  <2>3. CASE request.seq = 0 /\ request.cmd = "unknown" /\ result # "OK"
    BY <1>1, <2>3 DEF Created
  <2>4. CASE request.seq # 0 /\ result = "OK" /\ request.cmd \in Commands
    BY <1>1, <2>4 DEF Created, Commands
  <2>5. CASE /\ request.seq # 0 /\ result # "OK"
             /\ request.cmd \in {"unknown", "unsupported"}
    BY <1>1, <2>5 DEF Created
  <2> QED
    BY <2>1, <2>2, <2>3, <2>4, <2>5, Zenon
<1>4. SessionInv'
  BY <1>0, <1>1, SameSession
<1>5. ReplyTypeOK'
  BY <1>0, <1>1, <1>2, <1>3, EmptyObject DEF ReplyTypeOK, Labels
<1>6. HeapInv'
  BY <1>0, <1>1, <1>2, <1>3, EmptyObject DEF HeapInv
<1>7. PhaseInv'
  BY <1>1, <1>3 DEF PhaseInv
<1>8. DoneInv'
  <2> SUFFICES ASSUME pc' \in {"cleanup", "respond", "fill", "write"}
               PROVE  /\ data' # Null => Told(data)'
                      /\ Documented(request.cmd, result = "OK")' = {}
                      /\ Completed'
    BY DEF DoneInv
  <2>1. result' # "OK" /\ request'.cmd \in {"unknown", "unsupported"}
    BY <1>1, <1>3
  <2>2. Documented(request.cmd, result = "OK")' = {}
    BY <2>1 DEF Documented
  <2>3. data' # Null => DOMAIN data' = {}
    BY <1>2, EmptyObject
  <2>4. data' # Null => Told(data)'
    BY <2>3 DEF Told
  <2> QED
    BY <2>1, <2>2, <2>4 DEF Completed
<1> QED
  BY <1>3, <1>4, <1>5, <1>6, <1>7, <1>8, InTheMaking
-----------------------------------------------------------------------------
(* What is documented for a command does not depend on the session.        *)
LEMMA DocumentedFixed ==
  ASSUME NEW cmd, NEW ok
  PROVE  Documented(cmd, ok)' = Documented(cmd, ok)
<1>1. /\ DOMAIN SessionData(session) = SessionKeys
      /\ DOMAIN SessionData(session)' = SessionKeys
  BY DEF SessionData, SessionKeys
<1>2. ReadyData' = ReadyData /\ IdentityKeys' = IdentityKeys
  BY DEF ReadyData, IdentityKeys, Reads
<1> QED
  BY <1>1, <1>2 DEF Documented

(* A step after which the command, or event, is done with: it leaves the   *)
(* data object as it was, for a command that has no data to give, ...      *)
LEMMA ReturnedBare ==
  ASSUME Inv, pc = "handle", SessionInv',
         UNCHANGED <<request, root, heap, sent, index, data>>,
         failures' \in 0 .. MaxFailures, failures' = 0 => failures = 0,
         pc' = "cleanup", result' \in Results,
         identity' \in {ChipIdentity, NoIdentity},
         \/ result' # "OK" /\ request.cmd # "session.abort"
         \/ request.cmd = "safe"
  PROVE  Inv'
<1>0. /\ ReplyTypeOK /\ data \in {Null, Empty} /\ root = Null /\ sent = Null
      /\ "root" \notin heap /\ request.cmd \in Commands
      /\ failures = 0 => data # Null
  <2>1. ReplyTypeOK
    BY TypeParts
  <2> QED
    BY <2>1 DEF Inv, HeapInv, PhaseInv, ReplyTypeOK
<1>1. ReplyTypeOK'
  BY <1>0 DEF ReplyTypeOK, Labels
<1>2. HeapInv'
  BY <1>0, EmptyObject DEF HeapInv
<1>3. PhaseInv'
  BY DEF PhaseInv
<1>4. Documented(request.cmd, result = "OK")' = {}
  BY <1>0 DEF Documented, Commands
<1>5. data' # Null => Told(data)'
  BY <1>0, EmptyObject DEF Told
<1>6. Completed'
  BY DEF Completed
<1>7. DoneInv'
  BY <1>4, <1>5, <1>6 DEF DoneInv
<1> QED
  BY <1>1, <1>2, <1>3, <1>7, InTheMaking

(* ... or gives it fields that are true of the state it leaves.            *)
LEMMA ReturnedFields ==
  ASSUME RepliesAssumption, Inv, pc \in {"event", "handle", "mark"},
         SessionInv', UNCHANGED <<request, root, heap, sent, index>>,
         pc' \in {"cleanup", "respond"}, result' \in Results,
         identity' \in {ChipIdentity, NoIdentity},
         NEW fields, Add(fields),
         IsFiniteSet(DOMAIN fields), "null" \notin DOMAIN fields,
         \A k \in DOMAIN fields \cap SessionKeys :
           fields[k] = SessionData(session')[k],
         \A k \in DOMAIN fields \cap IdentityKeys :
           fields[k] = ChipIdentity[k],
         "overall_pass" \in DOMAIN fields =>
           /\ request.cmd = "session.finish"
           /\ fields["overall_pass"] = OverallPass(result'),
         "tests" \notin DOMAIN fields,
         Documented(request.cmd, result' = "OK") \subseteq DOMAIN fields,
         result' = "OK" /\ request.cmd = "session.finish" =>
           session'.state = "COMPLETED"
  PROVE  Inv'
<1>0. /\ ReplyTypeOK /\ data \in {Null, Empty} /\ root = Null /\ sent = Null
      /\ "root" \notin heap /\ failures \in 0 .. MaxFailures
      /\ failures = 0 => data # Null
  <2>1. ReplyTypeOK
    BY TypeParts
  <2> QED
    BY <2>1 DEF Inv, HeapInv, ReplyTypeOK
<1>1. DOMAIN data = {} \/ data = Null
  BY <1>0, EmptyObject
<1>2. /\ failures' \in 0 .. MaxFailures
      /\ failures' = 0 => failures = 0
      /\ data = Null => data' = Null
      /\ data # Null =>
           /\ data' # Null /\ "null" \notin DOMAIN data'
           /\ \A k \in DOMAIN data' :
                k \in DOMAIN fields /\ data'[k] = fields[k]
           /\ failures' = 0 => DOMAIN fields \subseteq DOMAIN data'
  <2>1. \/ data = Null
        \/ "null" \notin DOMAIN data /\ DOMAIN data \cap DOMAIN fields = {}
    BY <1>1
  <2> QED
    BY <1>0, <1>1, <2>1, AddedFields
<1>3. ReplyTypeOK'
  BY <1>0, <1>2 DEF ReplyTypeOK, Labels
<1>4. HeapInv'
  BY <1>0, <1>2 DEF HeapInv
<1>5. PhaseInv'
  BY DEF PhaseInv
<1>6. ASSUME data' # Null
      PROVE  Told(data)'
  <2>1. \A k \in DOMAIN data' : k \in DOMAIN fields /\ data'[k] = fields[k]
    BY <1>2, <1>6
  <2>2. "tests" \notin DOMAIN data'
    BY <2>1
  <2>3. \A k \in DOMAIN data' \cap SessionKeys :
          data'[k] = SessionData(session')[k]
    BY <2>1
  <2>4. \A k \in DOMAIN data' \cap IdentityKeys : data'[k] = ChipIdentity[k]
    BY <2>1
  <2>5. "overall_pass" \in DOMAIN data' =>
          /\ request'.cmd = "session.finish"
          /\ data'.overall_pass = OverallPass(result')
    BY <2>1
  <2> QED
    BY <2>2, <2>3, <2>4, <2>5 DEF Told
<1>7. failures' = 0 =>
        Documented(request.cmd, result = "OK")' \subseteq DOMAIN data'
  <2>1. PICK cmd, ok : cmd = request.cmd /\ ok = (result' = "OK")
    OBVIOUS
  <2>2. Documented(cmd, ok) \subseteq DOMAIN fields
    BY <2>1
  <2>3. request'.cmd = cmd
    BY <2>1
  <2>4. Documented(request.cmd, result = "OK")' = Documented(cmd, ok)'
    BY <2>1, <2>3 DEF Documented
  <2>5. Documented(cmd, ok)' = Documented(cmd, ok)
    BY DocumentedFixed
  <2> QED
    BY <1>0, <1>2, <2>2, <2>4, <2>5
<1>8. DoneInv'
  BY <1>6, <1>7 DEF DoneInv, Completed
<1> QED
  BY <1>3, <1>4, <1>5, <1>8, InTheMaking

LEMMA EventDataStep ==
  ASSUME RepliesAssumption, Inv, EventData
  PROVE  Inv'
<1> DEFINE fields == IF request.cmd = "ready" THEN ReadyData ELSE TimeoutData
<1>0. /\ ReplyTypeOK /\ SessionInv /\ pc = "event" /\ pc' = "respond"
      /\ request.cmd \in {"ready", "session.timeout"}
      /\ UNCHANGED <<request, root, heap, sent, index>>
      /\ result' = result /\ identity' = identity
      /\ UNCHANGED sessionVars /\ Add(fields)
  <2>1. ReplyTypeOK /\ SessionInv
    BY TypeParts
  <2> QED
    BY <2>1 DEF EventData, Inv, PhaseInv, Goto
<1>1. SessionInv'
  BY <1>0, SameSession
<1>2. DOMAIN fields = IF request.cmd = "ready"
                      THEN {"max_frame_bytes", "session_timeout_s",
                            "psw_en_policy", "production_release_capable"}
                      ELSE {"outputs_safe"}
  BY DEF ReadyData, TimeoutData
<1>3. IsFiniteSet(DOMAIN fields)
  <2>1. IsFiniteSet({"max_frame_bytes", "session_timeout_s",
                     "psw_en_policy", "production_release_capable",
                     "max_frame_bytes", "max_frame_bytes",
                     "max_frame_bytes"})
    BY FiniteEnumeration
  <2>2. IsFiniteSet({"outputs_safe", "outputs_safe", "outputs_safe",
                     "outputs_safe", "outputs_safe", "outputs_safe",
                     "outputs_safe"})
    BY FiniteEnumeration
  <2>3. DOMAIN ReadyData =
          {"max_frame_bytes", "session_timeout_s", "psw_en_policy",
           "production_release_capable", "max_frame_bytes",
           "max_frame_bytes", "max_frame_bytes"}
    BY DEF ReadyData
  <2>4. DOMAIN TimeoutData =
          {"outputs_safe", "outputs_safe", "outputs_safe", "outputs_safe",
           "outputs_safe", "outputs_safe", "outputs_safe"}
    BY DEF TimeoutData
  <2> QED
    BY <2>1, <2>2, <2>3, <2>4
<1>4. Documented(request.cmd, result' = "OK") = DOMAIN fields
  <2>1. CASE request.cmd = "ready"
    BY <2>1 DEF Documented
  <2>2. CASE request.cmd = "session.timeout"
    BY <1>2, <2>2 DEF Documented
  <2> QED
    BY <1>0, <2>1, <2>2
<1>5. PICK f : f = fields
  OBVIOUS
<1> HIDE DEF fields
<1>6. /\ "null" \notin DOMAIN f /\ "tests" \notin DOMAIN f
      /\ "overall_pass" \notin DOMAIN f
      /\ DOMAIN f \cap SessionKeys = {} /\ DOMAIN f \cap IdentityKeys = {}
  BY <1>2, <1>5, IdentityFields DEF SessionKeys
<1>7. /\ result' \in Results /\ identity' \in {ChipIdentity, NoIdentity}
  BY <1>0 DEF ReplyTypeOK
<1>8. Add(f) /\ IsFiniteSet(DOMAIN f)
      /\ Documented(request.cmd, result' = "OK") \subseteq DOMAIN f
  BY <1>0, <1>3, <1>4, <1>5
<1>9. /\ \A k \in DOMAIN f \cap SessionKeys : f[k] = SessionData(session')[k]
      /\ \A k \in DOMAIN f \cap IdentityKeys : f[k] = ChipIdentity[k]
  BY <1>6
<1>10. request.cmd # "session.finish"
  BY <1>0
<1> QED
  BY <1>0, <1>1, <1>6, <1>7, <1>8, <1>9, <1>10, ReturnedFields
-----------------------------------------------------------------------------
(* handle_request.  What every handler finds.                              *)
LEMMA AtHandler ==
  ASSUME Inv, pc \in {"handle", "mark"}
  PROVE  /\ ReplyTypeOK /\ SessionInv /\ request.cmd \in Commands
         /\ result = "OK" /\ failures \in 0 .. MaxFailures
         /\ identity \in {ChipIdentity, NoIdentity}
<1>1. ReplyTypeOK /\ SessionInv
  BY TypeParts
<1> QED
  BY <1>1 DEF Inv, PhaseInv, ReplyTypeOK

LEMMA IdentityReads ==
  ASSUME NEW ok \in BOOLEAN, IdentityRead(ok)
  PROVE  identity' = IF ok THEN ChipIdentity ELSE NoIdentity
<1>1. PICK failed \in SUBSET Reads :
        /\ ok = ReadOK(failed)
        /\ identity' = IF failed = {} THEN ChipIdentity ELSE NoIdentity
  BY DEF IdentityRead
<1>2. ok <=> failed = {}
  BY <1>1 DEF ReadOK
<1> QED
  BY <1>1, <1>2

LEMMA IdentityStep ==
  ASSUME RepliesAssumption, Inv, Identity
  PROVE  Inv'
<1>0. /\ pc = "handle" /\ request.cmd = "identity" /\ pc' = "cleanup"
      /\ UNCHANGED <<request, root, heap, sent, index>>
      /\ UNCHANGED sessionVars
  BY DEF Identity, Handling, HandlerFrame, Return, Goto
<1>1. SessionInv'
  BY <1>0, AtHandler, SameSession
<1>2. CASE IdentityRead(TRUE) /\ Add(identity') /\ Return("OK")
  <2>1. PICK f : f = ChipIdentity
    OBVIOUS
  <2>2. identity' = f /\ Add(f) /\ result' = "OK"
    BY <1>2, <2>1, IdentityReads DEF Return
  <2>3. DOMAIN f = IdentityKeys /\ IsFiniteSet(DOMAIN f)
    BY <2>1, IdentityFields
  <2>4. /\ "null" \notin DOMAIN f /\ "tests" \notin DOMAIN f
        /\ "overall_pass" \notin DOMAIN f
        /\ DOMAIN f \cap SessionKeys = {}
    BY <2>3, IdentityFields DEF SessionKeys
  <2>5. Documented(request.cmd, result' = "OK") \subseteq DOMAIN f
    BY <1>0, <2>2, <2>3 DEF Documented
  <2>6. /\ \A k \in DOMAIN f \cap SessionKeys :
             f[k] = SessionData(session')[k]
        /\ \A k \in DOMAIN f \cap IdentityKeys : f[k] = ChipIdentity[k]
    BY <2>1, <2>4
  <2>7. request.cmd # "session.finish" /\ result' \in Results
        /\ identity' \in {ChipIdentity, NoIdentity}
    BY <1>0, <2>1, <2>2 DEF Results
  <2> QED
    BY <1>0, <1>1, <2>2, <2>3, <2>4, <2>5, <2>6, <2>7, ReturnedFields
<1>3. CASE IdentityRead(FALSE) /\ NoFields /\ Return("HARDWARE")
  <2>1. identity' = NoIdentity /\ result' = "HARDWARE"
        /\ data' = data /\ failures' = failures
    BY <1>3, IdentityReads DEF NoFields, Return
  <2> QED
    BY <1>0, <1>1, <2>1, AtHandler, ReturnedBare DEF Results
<1> QED
  BY <1>2, <1>3 DEF Identity

LEMMA SafeStep ==
  ASSUME RepliesAssumption, Inv, Safe
  PROVE  Inv'
<1>1. /\ pc = "handle" /\ request.cmd = "safe" /\ pc' = "cleanup"
      /\ UNCHANGED <<request, root, heap, sent, index, data, failures>>
      /\ identity' = identity
      /\ UNCHANGED sessionVars /\ result' \in {"OK", "HARDWARE"}
  BY DEF Safe, Handling, HandlerFrame, CallFrame, Return, Goto, NoFields
<1>2. SessionInv'
  BY <1>1, AtHandler, SameSession
<1> QED
  BY <1>1, <1>2, AtHandler, ReturnedBare DEF Results

LEMMA NoSessionStep ==
  ASSUME RepliesAssumption, Inv, NoSession
  PROVE  Inv'
<1>1. /\ pc = "handle" /\ pc' = "cleanup" /\ result' = "INVALID_STATE"
      /\ request.cmd \in {"session.list", "session.finish", "fixture.record"}
      /\ UNCHANGED <<request, root, heap, sent, index, data, failures>>
      /\ identity' = identity /\ UNCHANGED sessionVars
  BY DEF NoSession, HandlerFrame, CallFrame, Return, Goto, NoFields
<1>2. SessionInv'
  BY <1>1, AtHandler, SameSession
<1> QED
  BY <1>1, <1>2, AtHandler, ReturnedBare DEF Results

LEMMA AbortStep ==
  ASSUME RepliesAssumption, Inv, Abort
  PROVE  Inv'
<1>0. /\ pc = "handle" /\ request.cmd = "session.abort" /\ pc' = "cleanup"
      /\ UNCHANGED <<request, root, heap, sent, index>>
      /\ identity' = identity /\ Add(SessionData(session'))
  BY DEF Abort, Handling, HandlerFrame, CallFrame, Return, Goto, Snapshot
<1>1. PICK c \in CleanupCalls, r \in Results :
        SessionAbort(c, r) /\ result' = r
  BY DEF Abort, Return
<1>2. SessionInv'
  BY <1>1, AtHandler, <1>0, AbortCall, InvHasBase
<1>3. PICK f : f = SessionData(session')
  OBVIOUS
<1>4. DOMAIN f = SessionKeys /\ IsFiniteSet(DOMAIN f) /\ Add(f)
  BY <1>0, <1>3, SessionFields
<1>5. /\ "null" \notin DOMAIN f /\ "tests" \notin DOMAIN f
      /\ "overall_pass" \notin DOMAIN f
      /\ DOMAIN f \cap IdentityKeys = {}
  BY <1>4, IdentityFields DEF SessionKeys
<1>6. Documented(request.cmd, result' = "OK") \subseteq DOMAIN f
  BY <1>0, <1>4, SessionFields DEF Documented
<1>7. /\ \A k \in DOMAIN f \cap SessionKeys : f[k] = SessionData(session')[k]
      /\ \A k \in DOMAIN f \cap IdentityKeys : f[k] = ChipIdentity[k]
  BY <1>3, <1>5
<1>8. request.cmd # "session.finish" /\ result' \in Results
      /\ identity' \in {ChipIdentity, NoIdentity}
  BY <1>0, <1>1, AtHandler
<1> QED
  BY <1>0, <1>2, <1>4, <1>5, <1>6, <1>7, <1>8, ReturnedFields

LEMMA StartStep ==
  ASSUME RepliesAssumption, Inv, Start
  PROVE  Inv'
<1>0. /\ pc = "handle" /\ request.cmd = "session.start"
      /\ UNCHANGED <<request, root, heap, sent, data, failures>>
  BY DEF Start, Handling, HandlerFrame, NoFields
<1>1. CASE IdentityRead(FALSE) /\ Return("HARDWARE") /\ UNCHANGED sessionVars
  <2>1. /\ identity' = NoIdentity /\ result' = "HARDWARE"
        /\ pc' = "cleanup" /\ index' = index
    BY <1>1, IdentityReads DEF Return, Goto
  <2>2. SessionInv'
    BY <1>0, <1>1, AtHandler, SameSession
  <2> QED
    BY <1>0, <2>1, <2>2, AtHandler, ReturnedBare DEF Results
<1>2. ASSUME NEW unit \in UnitInputs, NEW c \in CleanupCalls,
             NEW r \in Results, IdentityRead(TRUE),
             SessionStart(unit, 0, c, r),
             \/ r # "OK" /\ Return(r)
             \/ r = "OK" /\ Goto("mark") /\ UNCHANGED <<result, index>>
      PROVE  Inv'
  <2>1. SessionInv' /\ identity' = ChipIdentity
    <3>1. SessionInv'
      BY <1>0, <1>2, AtHandler, StartCall, InvHasBase
    <3>2. PICK ok \in BOOLEAN : ok = TRUE
      OBVIOUS
    <3>3. IdentityRead(ok)
      BY <1>2, <3>2
    <3>4. identity' = ChipIdentity
      BY <3>2, <3>3, IdentityReads
    <3> QED
      BY <3>1, <3>4
  <2>2. CASE r # "OK" /\ Return(r)
    <3>1. result' = r /\ pc' = "cleanup" /\ index' = index
      BY <2>2 DEF Return, Goto
    <3> QED
      BY <1>0, <2>1, <2>2, <3>1, AtHandler, ReturnedBare
  <2>3. CASE r = "OK" /\ Goto("mark") /\ UNCHANGED <<result, index>>
    <3>1. /\ ReplyTypeOK /\ data \in {Null, Empty} /\ root = Null
          /\ sent = Null /\ "root" \notin heap /\ result = "OK"
          /\ failures = 0 => data # Null
      <4>1. ReplyTypeOK /\ result = "OK"
        BY <1>0, AtHandler
      <4> QED
        BY <1>0, <4>1 DEF Inv, HeapInv, ReplyTypeOK
    <3>2. session'.state = "ACTIVE"
      BY <1>2, <2>3 DEF SessionStart
    <3>3. ReplyTypeOK'
      BY <1>0, <2>1, <2>3, <3>1 DEF ReplyTypeOK, Labels, Goto
    <3>4. HeapInv'
      BY <1>0, <2>3, <3>1, EmptyObject DEF HeapInv, Goto
    <3>5. PhaseInv'
      BY <1>0, <2>1, <2>3, <3>1, <3>2
         DEF PhaseInv, Goto, IsActive, Commands
    <3>6. DoneInv'
      BY <2>3 DEF DoneInv, Goto
    <3> QED
      BY <2>1, <2>3, <3>3, <3>4, <3>5, <3>6, InTheMaking DEF Goto
  <2> QED
    BY <1>2, <2>2, <2>3
<1> QED
  BY <1>1, <1>2 DEF Start

(* The results mark_identity_results records belong to the session that    *)
(* was just started.                                                       *)
LEMMA MarkSession ==
  ASSUME RepliesAssumption, SessionInv, IsActive, MarkIdentity
  PROVE  SessionInv'
<1> PICK e : e = entries'
  OBVIOUS
<1>1. /\ e = [t \in Tests |->
                IF t \in IdentityTests
                THEN [status |-> "PASS", evidence |-> StartEvidence]
                ELSE entries[t]]
      /\ made' = [t \in Tests |->
                    IF t \in IdentityTests THEN Tag ELSE made[t]]
      /\ session' = [session EXCEPT !.manifest = Summary(e)]
      /\ hasCleanup' = hasCleanup
  BY DEF MarkIdentity
<1>2. e \in [Tests -> Entry]
  BY <1>1 DEF RepliesAssumption, Entry, Statuses, SessionInv, SessionTypeOK
<1>3. Summary(e) \in Summaries
  BY <1>2, SummaryType
<1>4. /\ session' \in Sessions /\ session'.state = "ACTIVE"
      /\ session'.unit_id = session.unit_id
      /\ session'.started_us = session.started_us
  BY <1>1, <1>3 DEF SessionInv, SessionTypeOK, Sessions, IsActive
<1>5. Tag \in Tags /\ Tag' = Tag
  BY <1>4 DEF Tag, Tags, SessionInv, SessionTypeOK, Sessions
<1>6. SessionTypeOK'
  BY <1>1, <1>2, <1>4, <1>5 DEF SessionInv, SessionTypeOK
<1>7. Traceable'
  BY <1>1, <1>5 DEF SessionInv, Traceable
<1>8. IdleBeforeInit' /\ VerdictSound'
  BY <1>1, <1>4 DEF SessionInv, IdleBeforeInit, VerdictSound, IsActive
<1> QED
  BY <1>6, <1>7, <1>8 DEF SessionInv

LEMMA MarkIdentityStep ==
  ASSUME RepliesAssumption, Inv, MarkIdentity
  PROVE  Inv'
<1>0. /\ pc = "mark" /\ request.cmd = "session.start" /\ IsActive
      /\ pc' = "cleanup" /\ result' = "OK"
      /\ UNCHANGED <<request, root, heap, sent, index>>
      /\ identity' = identity /\ identity = ChipIdentity
      /\ Add(Extended(ChipIdentity, SessionData(session')))
  BY DEF MarkIdentity, HandlerFrame, Return, Goto, Snapshot, Inv, PhaseInv
<1>1. SessionInv'
  BY <1>0, AtHandler, MarkSession
<1>2. PICK s : s = SessionData(session')
  OBVIOUS
<1>3. PICK f : f = Extended(ChipIdentity, s)
  OBVIOUS
<1>4. DOMAIN s = SessionKeys
  BY <1>2, SessionFields
<1>5. /\ DOMAIN f = IdentityKeys \cup SessionKeys
      /\ \A k \in SessionKeys : f[k] = s[k]
      /\ \A k \in IdentityKeys \ SessionKeys : f[k] = ChipIdentity[k]
  BY <1>3, <1>4, IdentityFields DEF Extended
<1>6. IsFiniteSet(DOMAIN f)
  BY <1>5, IdentityFields, SessionFields, FiniteKeys
<1>7. /\ "null" \notin DOMAIN f /\ "tests" \notin DOMAIN f
      /\ "overall_pass" \notin DOMAIN f
      /\ IdentityKeys \cap SessionKeys = {}
  BY <1>5, IdentityFields DEF SessionKeys
<1>8. Documented(request.cmd, result' = "OK") \subseteq DOMAIN f
  BY <1>0, <1>5, SessionFields DEF Documented
<1>9. /\ \A k \in DOMAIN f \cap SessionKeys : f[k] = SessionData(session')[k]
      /\ \A k \in DOMAIN f \cap IdentityKeys : f[k] = ChipIdentity[k]
  BY <1>2, <1>5, <1>7
<1>10. /\ request.cmd # "session.finish" /\ result' \in Results
       /\ identity' \in {ChipIdentity, NoIdentity} /\ Add(f)
  BY <1>0, <1>2, <1>3 DEF Results
<1> QED
  BY <1>0, <1>1, <1>6, <1>7, <1>8, <1>9, <1>10, ReturnedFields

LEMMA FixtureRecordStep ==
  ASSUME RepliesAssumption, Inv, FixtureRecord
  PROVE  Inv'
<1>0. /\ pc = "handle" /\ request.cmd = "fixture.record"
      /\ pc' = "cleanup" /\ UNCHANGED <<request, root, heap, sent, index>>
      /\ identity' = identity
  BY DEF FixtureRecord, Handling, HandlerFrame, CallFrame, Return, Goto
<1>1. PICK r \in Results :
        /\ Record(request.test, "STATION", request.passed, request.evidence, r)
        /\ \/ r # "OK" /\ NoFields /\ Return(r)
           \/ /\ r = "OK"
              /\ Add([test_id |-> request.test, pass |-> request.passed])
              /\ Return("OK") \/ (~request.passed /\ Return("CLEANUP"))
  BY DEF FixtureRecord
<1>2. SessionInv'
  BY <1>0, <1>1, AtHandler, RecordCall, InvHasBase
<1>3. CASE r # "OK" /\ NoFields /\ Return(r)
  <2>1. result' = r /\ data' = data /\ failures' = failures
    BY <1>3 DEF Return, NoFields
  <2> QED
    BY <1>0, <1>2, <1>3, <2>1, AtHandler, ReturnedBare
<1>4. CASE /\ r = "OK"
           /\ Add([test_id |-> request.test, pass |-> request.passed])
           /\ Return("OK") \/ (~request.passed /\ Return("CLEANUP"))
  <2>1. PICK f : f = [test_id |-> request.test, pass |-> request.passed]
    OBVIOUS
  <2>2. DOMAIN f = {"test_id", "pass"} /\ Add(f)
        /\ result' \in {"OK", "CLEANUP"}
    BY <1>4, <2>1 DEF Return
  <2>3. IsFiniteSet(DOMAIN f)
    <3>1. IsFiniteSet({} \cup {"test_id"} \cup {"pass"})
      BY FiniteKeys
    <3>2. {} \cup {"test_id"} \cup {"pass"} = {"test_id", "pass"}
      OBVIOUS
    <3> QED
      BY <2>2, <3>1, <3>2
  <2>4. /\ "null" \notin DOMAIN f /\ "tests" \notin DOMAIN f
        /\ "overall_pass" \notin DOMAIN f
        /\ DOMAIN f \cap IdentityKeys = {} /\ DOMAIN f \cap SessionKeys = {}
    BY <2>2, IdentityFields DEF SessionKeys
  <2>5. Documented(request.cmd, result' = "OK") \subseteq DOMAIN f
    BY <1>0, <2>2 DEF Documented
  <2>6. /\ \A k \in DOMAIN f \cap SessionKeys :
             f[k] = SessionData(session')[k]
        /\ \A k \in DOMAIN f \cap IdentityKeys : f[k] = ChipIdentity[k]
    BY <2>4
  <2>7. /\ request.cmd # "session.finish" /\ result' \in Results
        /\ identity' \in {ChipIdentity, NoIdentity}
    BY <1>0, <2>2, AtHandler DEF Results
  <2> QED
    BY <1>0, <1>2, <2>2, <2>3, <2>4, <2>5, <2>6, <2>7, ReturnedFields
<1> QED
  BY <1>1, <1>3, <1>4

LEMMA FinishStep ==
  ASSUME RepliesAssumption, Inv, Finish
  PROVE  Inv'
<1>0. /\ pc = "handle" /\ request.cmd = "session.finish" /\ pc' = "cleanup"
      /\ UNCHANGED <<request, root, heap, sent, index>>
      /\ identity' = identity
  BY DEF Finish, Handling, HandlerFrame, CallFrame, Return, Goto
<1>1. PICK c \in CleanupCalls, r \in Results :
        /\ SessionFinish(c, r) /\ result' = r
        /\ Add(Extended(SessionData(session'),
                        [overall_pass |-> OverallPass(r)]))
  BY DEF Finish, Return, Snapshot
<1>2. SessionInv'
  BY <1>0, <1>1, AtHandler, FinishCall, InvHasBase
<1>3. r = "OK" => session'.state = "COMPLETED"
  <2> SUFFICES ASSUME r = "OK" PROVE session'.state = "COMPLETED"
    OBVIOUS
  <2>1. session' = [Refreshed(session) EXCEPT !.state = "COMPLETED"]
    BY <1>1 DEF SessionFinish
  <2>2. Refreshed(session) \in Sessions
    BY <1>0, AtHandler, RefreshedSession DEF SessionInv
  <2> QED
    BY <2>1, <2>2 DEF Sessions
<1>4. PICK s : s = SessionData(session')
  OBVIOUS
<1>5. PICK v : v = [overall_pass |-> OverallPass(r)]
  OBVIOUS
<1>6. PICK f : f = Extended(s, v)
  OBVIOUS
<1>7. DOMAIN s = SessionKeys
  BY <1>4, SessionFields
<1>8. DOMAIN v = {"overall_pass"} /\ v["overall_pass"] = OverallPass(r)
  BY <1>5
<1>9. /\ DOMAIN f = SessionKeys \cup {"overall_pass"}
      /\ f["overall_pass"] = OverallPass(r)
      /\ \A k \in SessionKeys : f[k] = s[k]
  <2>1. "overall_pass" \notin SessionKeys
    BY DEF SessionKeys
  <2>2. /\ DOMAIN f = SessionKeys \cup {"overall_pass"}
        /\ \A k \in {"overall_pass"} : f[k] = v[k]
        /\ \A k \in SessionKeys \ {"overall_pass"} : f[k] = s[k]
    BY <1>6, <1>7, <1>8 DEF Extended
  <2>3. f["overall_pass"] = OverallPass(r)
    BY <1>8, <2>2, Zenon
  <2>4. \A k \in SessionKeys : f[k] = s[k]
    BY <2>1, <2>2
  <2> QED
    BY <2>2, <2>3, <2>4, Zenon
<1>10. IsFiniteSet(DOMAIN f)
  <2>1. IsFiniteSet(SessionKeys)
    BY SessionFields
  <2>2. IsFiniteSet(SessionKeys \cup {"overall_pass"})
    BY <2>1, FiniteKeys, Zenon
  <2> QED
    BY <1>9, <2>2, Zenon
<1>11. /\ "null" \notin DOMAIN f /\ "tests" \notin DOMAIN f
       /\ DOMAIN f \cap IdentityKeys = {}
  BY <1>9, IdentityFields DEF SessionKeys
<1>12. Documented(request.cmd, result' = "OK") \subseteq DOMAIN f
  BY <1>0, <1>9, SessionFields DEF Documented
<1>13. /\ \A k \in DOMAIN f \cap SessionKeys :
            f[k] = SessionData(session')[k]
       /\ \A k \in DOMAIN f \cap IdentityKeys : f[k] = ChipIdentity[k]
  BY <1>4, <1>9, <1>11 DEF SessionKeys
<1>14. /\ result' = r /\ result' \in Results
       /\ identity' \in {ChipIdentity, NoIdentity} /\ Add(f)
  BY <1>0, <1>1, <1>4, <1>5, <1>6, AtHandler
<1>15. "overall_pass" \in DOMAIN f =>
         /\ request.cmd = "session.finish"
         /\ f["overall_pass"] = OverallPass(result')
  BY <1>0, <1>9, <1>14
<1> QED
  BY <1>0, <1>2, <1>3, <1>10, <1>11, <1>12, <1>13, <1>14, <1>15,
     ReturnedFields
-----------------------------------------------------------------------------
(* session.list.                                                           *)
LEMMA OrderLength ==
  ASSUME RepliesAssumption
  PROVE  Len(TestOrder) \in Nat /\ DOMAIN TestOrder = 1 .. Len(TestOrder)
<1>1. Cardinality(Tests) \in Nat
  BY FS_CardinalityType, ManifestAssumption
<1>2. TestOrder \in Seq(Tests)
  BY <1>1 DEF RepliesAssumption
<1> QED
  BY <1>2, LenProperties

LEMMA InTheList ==
  ASSUME RepliesAssumption, SessionInv', ReplyTypeOK', HeapInv', PhaseInv',
         ListInv', pc' = "list"
  PROVE  Inv'
<1>1. SessionTypeOK'
  BY Zenon DEF SessionInv
<1>2. data' # Null
  BY DEF HeapInv
<1>3. Len(data'.tests) = index' - 1 /\ index' \in 1 .. Len(TestOrder) + 1
  BY DEF ListInv, ReplyTypeOK
<1>4. Len(data'.tests) < index'
  <2>1. PICK i, n : i = index' /\ n = Len(TestOrder)
    OBVIOUS
  <2>2. n \in Nat
    BY <2>1, OrderLength
  <2>3. i \in 1 .. n + 1
    BY <1>3, <2>1
  <2>4. i - 1 < i
    BY <2>2, <2>3
  <2> QED
    BY <1>3, <2>1, <2>4
<1>5. TypeOK'
  BY <1>1, <1>2, <1>4 DEF TypeOK, ReplyTypeOK
<1>6. SentInv'
  BY NothingSent DEF HeapInv
<1>7. DoneInv' /\ RootInv'
  BY DEF DoneInv, RootInv
<1> QED
  BY <1>5, <1>6, <1>7, Zenon DEF Inv

(* The items stay true while the table does not change.                    *)
LEMMA ItemsKept ==
  ASSUME NEW s, ItemsTrue(s), UNCHANGED entries, failures' = 0 => failures = 0
  PROVE  ItemsTrue(s)'
<1>1. \A i : Item(TestOrder[i])' = Item(TestOrder[i])
  BY DEF Item
<1> QED
  BY <1>1 DEF ItemsTrue

(* What the data say stays true while the session does, whatever error     *)
(* replaces an error.                                                      *)
LEMMA ToldKept ==
  ASSUME UNCHANGED sessionVars, request' = request, data' = data,
         failures' = 0 => failures = 0, result' = "OK" <=> result = "OK",
         Told(data)
  PROVE  Told(data)'
<1>1. PICK d, s : d = data /\ s = SessionData(session)
  OBVIOUS
<1>2. session' = session /\ entries' = entries
  BY DEF sessionVars
<1>3. SessionData(session') = s
  BY <1>1, <1>2
<1>4. \A k \in DOMAIN data' \cap SessionKeys :
        data'[k] = SessionData(session')[k]
  BY <1>1, <1>3 DEF Told
<1>5. \A k \in DOMAIN data' \cap IdentityKeys : data'[k] = ChipIdentity[k]
  BY DEF Told
<1>6. "overall_pass" \in DOMAIN data' =>
        /\ request'.cmd = "session.finish"
        /\ data'.overall_pass = OverallPass(result')
  <2>1. OverallPass(result') = OverallPass(result)
    BY Zenon DEF OverallPass
  <2> QED
    BY <2>1 DEF Told
<1>7. "tests" \in DOMAIN data' =>
        /\ request'.cmd = "session.list" /\ ItemsTrue(data.tests)'
        /\ result' = "OK" => Len(data'.tests) = Len(TestOrder)
  <2> SUFFICES ASSUME "tests" \in DOMAIN data'
               PROVE  /\ request'.cmd = "session.list"
                      /\ ItemsTrue(data.tests)'
                      /\ result' = "OK" => Len(data'.tests) = Len(TestOrder)
    OBVIOUS
  <2>1. PICK t : t = data.tests
    OBVIOUS
  <2>2. ItemsTrue(t) /\ data'.tests = t
    BY <2>1 DEF Told
  <2>3. ItemsTrue(t)'
    BY <1>2, <2>2, ItemsKept
  <2>4. ItemsTrue(data.tests)'
    BY <2>2, <2>3 DEF ItemsTrue
  <2> QED
    BY <2>4 DEF Told
<1> QED
  BY <1>4, <1>5, <1>6, <1>7 DEF Told

LEMMA DocumentedKept ==
  ASSUME request' = request, result' = "OK" <=> result = "OK"
  PROVE  Documented(request.cmd, result = "OK")'
           = Documented(request.cmd, result = "OK")
<1>1. PICK cmd, ok : cmd = request.cmd /\ ok = (result = "OK")
  OBVIOUS
<1>2. Documented(request.cmd, result = "OK") = Documented(cmd, ok)
  BY <1>1
<1>3. request'.cmd = cmd /\ ok = (result' = "OK")
  BY <1>1, Zenon
<1>4. Documented(request.cmd, result = "OK")' = Documented(cmd, ok)'
  BY <1>3 DEF Documented
<1> QED
  BY <1>2, <1>4, DocumentedFixed

LEMMA ListStep ==
  ASSUME RepliesAssumption, Inv, List
  PROVE  Inv'
<1>0. /\ pc = "handle" /\ request.cmd = "session.list"
      /\ UNCHANGED <<request, root, heap, sent>>
      /\ identity' = identity /\ SessionTouch(0, "OK")
  BY DEF List, Handling, HandlerFrame, CallFrame
<1>1. SessionInv'
  BY <1>0, AtHandler, TouchCall, InvHasBase
<1>2. /\ ReplyTypeOK /\ data \in {Null, Empty} /\ root = Null
      /\ sent = Null /\ "root" \notin heap /\ result = "OK"
      /\ failures \in 0 .. MaxFailures
      /\ failures = 0 => data # Null
  <2>1. ReplyTypeOK /\ result = "OK"
    BY <1>0, AtHandler
  <2> QED
    BY <1>0, <2>1 DEF Inv, HeapInv, ReplyTypeOK
<1>3. CASE /\ data # Null
           /\ data' = Extended(data, [tests |-> <<>>]) /\ UNCHANGED failures
           /\ Goto("list") /\ index' = 1 /\ UNCHANGED result
  <2>1. data = Empty /\ pc' = "list"
    BY <1>2, <1>3 DEF Goto
  <2>2. PICK g : g = [tests |-> <<>>]
    OBVIOUS
  <2>3. DOMAIN g = {"tests"} /\ g["tests"] = <<>>
    BY <2>2
  <2>4. data' = Extended(data, g)
    BY <1>3, <2>2
  <2>5. DOMAIN data' = {"tests"} /\ data'["tests"] = <<>>
    BY <2>1, <2>3, <2>4, EmptyObject DEF Extended
  <2>6. data' # Null
    BY <2>5, NullApart
  <2>7. ReplyTypeOK'
    BY <1>0, <1>2, <1>3, <2>1, OrderLength DEF ReplyTypeOK, Labels
  <2>8. HeapInv'
    BY <1>0, <1>2, <2>1, <2>5, <2>6 DEF HeapInv
  <2>9. PhaseInv'
    BY <1>0, <1>2, <1>3, <2>1 DEF PhaseInv, Commands
  <2>10. ItemsTrue(<<>>)'
    BY OrderLength, EmptySeq, LenProperties DEF ItemsTrue
  <2>11. PICK e : e = <<>>
    OBVIOUS
  <2>12. ItemsTrue(e)' /\ Len(e) = 0 /\ data'.tests = e
    BY <2>5, <2>10, <2>11
  <2>13. ItemsTrue(data.tests)'
    BY <2>12 DEF ItemsTrue
  <2>14. ListInv'
    BY <1>3, <2>12, <2>13 DEF ListInv
  <2> QED
    BY <1>1, <2>1, <2>7, <2>8, <2>9, <2>14, InTheList
<1>4. ASSUME Return("NO_MEMORY"), data' = data,
             \/ NoFields
             \/ AllocationFails
      PROVE  Inv'
  <2>1. /\ pc' = "cleanup" /\ result' = "NO_MEMORY" /\ index' = index
    BY <1>4 DEF Return, Goto
  <2>2. /\ failures' \in 0 .. MaxFailures
        /\ failures' = 0 => failures = 0
    BY <1>2, <1>4 DEF NoFields, AllocationFails, RepliesAssumption
  <2> QED
    BY <1>0, <1>1, <1>4, <2>1, <2>2, AtHandler, ReturnedBare DEF Results
<1> QED
  BY <1>3, <1>4 DEF List, NoFields

LEMMA AtList ==
  ASSUME RepliesAssumption, Inv, pc = "list"
  PROVE  /\ ReplyTypeOK /\ SessionInv /\ sent = Null /\ root = Null
         /\ "root" \notin heap /\ request.cmd = "session.list"
         /\ result = "OK"
         /\ data # Null /\ DOMAIN data = {"tests"}
         /\ ItemsTrue(data.tests) /\ Len(data.tests) = index - 1
         /\ index \in 1 .. Len(TestOrder) + 1
         /\ failures \in 0 .. MaxFailures
<1>1. ReplyTypeOK /\ SessionInv
  BY TypeParts
<1> QED
  BY <1>1 DEF Inv, HeapInv, PhaseInv, ListInv, ReplyTypeOK

LEMMA ListItemStep ==
  ASSUME RepliesAssumption, Inv, ListItem
  PROVE  Inv'
<1>0. /\ pc = "list" /\ pc' = pc /\ index <= Len(TestOrder)
      /\ index' = index + 1 /\ result' = result
      /\ UNCHANGED sessionVars
      /\ UNCHANGED <<request, root, heap, sent>> /\ identity' = identity
  BY DEF ListItem, Listing, HandlerFrame, CallFrame
<1>1. PICK s : s = data.tests
  OBVIOUS
<1>2. PICK n, it : n = index /\ it = Item(TestOrder[n])
  OBVIOUS
<1>3. PICK lost \in Losses(it) :
        /\ data' = [data EXCEPT !.tests = Append(s, Without(it, lost))]
        /\ failures' = failures + Cardinality(lost)
  BY <1>1, <1>2 DEF ListItem
<1>4. PICK x : x = Without(it, lost)
  OBVIOUS
<1>5. PICK t : t = Append(s, x)
  OBVIOUS
<1>6. IsFiniteSet(DOMAIN it) /\ ItemKeys \subseteq DOMAIN it
  BY <1>2, ItemFields
<1>7. /\ failures' \in 0 .. MaxFailures
      /\ failures' = 0 => failures = 0 /\ lost = {}
  BY <1>0, <1>3, <1>6, AtList, LossCount
<1>8. /\ DOMAIN x = DOMAIN it \ lost
      /\ \A k \in DOMAIN x : x[k] = it[k]
  BY <1>4 DEF Without
<1>9. DOMAIN data' = {"tests"} /\ data'["tests"] = t
  BY <1>0, <1>3, <1>4, <1>5, AtList
<1>10. /\ ItemsTrue(s) /\ Len(s) = index - 1
       /\ s \in Seq({s[i] : i \in DOMAIN s})
  BY <1>0, <1>1, AtList DEF ItemsTrue
<1>11. /\ t \in Seq({t[i] : i \in DOMAIN t})
       /\ Len(s) \in Nat /\ Len(t) = Len(s) + 1
       /\ \A i \in 1 .. Len(s) : t[i] = s[i]
       /\ t[Len(s) + 1] = x
  BY <1>5, <1>10, ListAppend
<1>12. /\ n \in Nat /\ Len(t) = n /\ Len(s) = n - 1
       /\ Len(TestOrder) \in Nat /\ n <= Len(TestOrder) /\ index' = n + 1
       /\ index' \in 1 .. Len(TestOrder) + 1
  <2>1. Len(TestOrder) \in Nat /\ index \in 1 .. Len(TestOrder) + 1
    BY <1>0, AtList, OrderLength
  <2> QED
    BY <1>0, <1>2, <1>10, <1>11, <2>1
<1>13. ItemsTrue(s)'
  BY <1>0, <1>7, <1>10, ItemsKept DEF sessionVars
<1>14. it = Item(TestOrder[n])'
  BY <1>0, <1>2 DEF Item, sessionVars
<1>15. ItemsTrue(t)'
  <2>1. \A i \in 1 .. Len(t) : i \in 1 .. Len(s) \/ i = n
    BY <1>12
  <2>2. \A i \in 1 .. Len(s) :
          /\ \A k \in DOMAIN t[i] : t[i][k] = Item(TestOrder[i])'[k]
          /\ failures' = 0 => ItemKeys \subseteq DOMAIN t[i]
    BY ZenonT(40), <1>11, <1>13 DEF ItemsTrue
  <2>3. t[n] = x
    BY <1>11, <1>12
  <2>4. \A k \in DOMAIN t[n] : t[n][k] = Item(TestOrder[n])'[k]
    BY <1>8, <1>14, <2>3
  <2>5. failures' = 0 => ItemKeys \subseteq DOMAIN t[n]
    BY <1>6, <1>7, <1>8, <2>3
  <2>6. \A i \in 1 .. Len(t) :
          /\ \A k \in DOMAIN t[i] : t[i][k] = Item(TestOrder[i])'[k]
          /\ failures' = 0 => ItemKeys \subseteq DOMAIN t[i]
    BY <2>1, <2>2, <2>4, <2>5, Zenon
  <2>7. Len(t) <= Len(TestOrder)
    BY <1>12
  <2> QED
    BY <1>11, <2>6, <2>7, Zenon DEF ItemsTrue
<1>16. SessionInv'
  BY <1>0, AtList, SameSession
<1>17. data' # Null
  BY <1>9, NullApart
<1>18. ReplyTypeOK'
  BY <1>0, <1>7, <1>12, <1>17, AtList DEF ReplyTypeOK
<1>19. HeapInv'
  BY <1>0, <1>9, <1>17, AtList DEF HeapInv
<1>20. PhaseInv'
  BY <1>0, AtList DEF PhaseInv, Commands
<1>21. ListInv'
  BY <1>0, <1>9, <1>12, <1>15 DEF ListInv, ItemsTrue
<1> QED
  BY <1>0, <1>16, <1>18, <1>19, <1>20, <1>21, InTheList

LEMMA ItemFailsStep ==
  ASSUME RepliesAssumption, Inv, ItemFails
  PROVE  Inv'
<1>0. /\ pc = "list" /\ pc' = "cleanup" /\ result' = "NO_MEMORY"
      /\ UNCHANGED <<request, root, heap, sent, index, data>>
      /\ identity' = identity /\ UNCHANGED sessionVars /\ AllocationFails
  BY DEF ItemFails, Listing, HandlerFrame, CallFrame, Return, Goto
<1>1. failures' \in 0 .. MaxFailures /\ failures' # 0
  BY <1>0, AtList DEF AllocationFails, RepliesAssumption
<1>2. SessionInv'
  BY <1>0, AtList, SameSession
<1>3. ReplyTypeOK'
  BY <1>0, <1>1, AtList DEF ReplyTypeOK, Labels, Results
<1>4. HeapInv'
  BY <1>0, <1>1, AtList DEF HeapInv
<1>5. PhaseInv'
  BY <1>0 DEF PhaseInv
<1>6. Told(data)'
  <2>1. PICK s : s = data.tests
    OBVIOUS
  <2>2. ItemsTrue(s)'
    BY <1>0, <1>1, <2>1, AtList, ItemsKept DEF sessionVars
  <2>3. DOMAIN data' = {"tests"} /\ data'.tests = s
    BY <1>0, <2>1, AtList
  <2>4. /\ DOMAIN data' \cap SessionKeys = {}
        /\ DOMAIN data' \cap IdentityKeys = {}
        /\ "overall_pass" \notin DOMAIN data'
    BY <2>3, IdentityFields DEF SessionKeys
  <2>5. ItemsTrue(data.tests)'
    BY <2>2, <2>3 DEF ItemsTrue
  <2>6. request'.cmd = "session.list" /\ result' # "OK"
    BY <1>0, AtList
  <2> QED
    BY <2>4, <2>5, <2>6 DEF Told
<1>7. DoneInv'
  BY <1>0, <1>1, <1>6 DEF DoneInv, Completed
<1> QED
  BY <1>0, <1>2, <1>3, <1>4, <1>5, <1>7, InTheMaking

LEMMA ListEndStep ==
  ASSUME RepliesAssumption, Inv, ListEnd
  PROVE  Inv'
<1>0. /\ pc = "list" /\ index > Len(TestOrder) /\ SessionSnapshot
      /\ Add(SessionData(session')) /\ pc' = "cleanup" /\ result' = "OK"
      /\ UNCHANGED <<request, root, heap, sent, index>>
      /\ identity' = identity
  BY DEF ListEnd, HandlerFrame, CallFrame, Return, Goto
<1>1. SessionInv'
  BY <1>0, AtList, SnapshotCall, InvHasBase
<1>2. PICK f, s : f = SessionData(session') /\ s = data.tests
  OBVIOUS
<1>3. DOMAIN f = SessionKeys /\ IsFiniteSet(DOMAIN f) /\ Add(f)
  BY <1>0, <1>2, SessionFields
<1>4. /\ "null" \notin DOMAIN f /\ "tests" \notin DOMAIN f
      /\ "overall_pass" \notin DOMAIN f
      /\ DOMAIN f \cap IdentityKeys = {} /\ "tests" \notin IdentityKeys
  BY <1>3, IdentityFields DEF SessionKeys
<1>5. /\ failures' \in 0 .. MaxFailures
      /\ failures' = 0 => failures = 0
      /\ data' # Null /\ "null" \notin DOMAIN data'
      /\ "tests" \in DOMAIN data' /\ data'["tests"] = s
      /\ \A k \in DOMAIN data' :
           k = "tests" \/ (k \in DOMAIN f /\ data'[k] = f[k])
      /\ failures' = 0 => DOMAIN f \subseteq DOMAIN data'
  <2>1. /\ data # Null /\ DOMAIN data = {"tests"}
        /\ failures \in 0 .. MaxFailures
    BY <1>0, AtList
  <2>2. "null" \notin DOMAIN data /\ DOMAIN data \cap DOMAIN f = {}
    BY <1>4, <2>1
  <2> QED
    BY <1>2, <1>3, <1>4, <2>1, <2>2, AddedFields
<1>6. ReplyTypeOK'
  BY <1>0, <1>5, AtList DEF ReplyTypeOK, Labels, Results
<1>7. HeapInv'
  BY <1>0, <1>5, AtList DEF HeapInv
<1>8. PhaseInv'
  BY <1>0 DEF PhaseInv
<1>9. Told(data)'
  <2>1. ItemsTrue(s)
    BY <1>0, <1>2, AtList
  <2>2. ItemsTrue(s)'
    BY <1>0, <1>5, <2>1, ItemsKept DEF SessionSnapshot
  <2>3. ItemsTrue(data.tests)'
    BY <1>5, <2>2 DEF ItemsTrue
  <2>4. Len(data'.tests) = Len(TestOrder)
    <3>1. Len(s) = index - 1 /\ index \in 1 .. Len(TestOrder) + 1
      BY <1>0, <1>2, AtList
    <3>2. PICK i, n : i = index /\ n = Len(TestOrder)
      OBVIOUS
    <3>3. n \in Nat
      BY <3>2, OrderLength
    <3>4. i - 1 = n
      BY <1>0, <3>1, <3>2, <3>3
    <3> QED
      BY <1>5, <3>1, <3>2, <3>4
  <2>5. \A k \in DOMAIN data' \cap SessionKeys :
          data'[k] = SessionData(session')[k]
    BY <1>2, <1>3, <1>4, <1>5
  <2>6. \A k \in DOMAIN data' \cap IdentityKeys : data'[k] = ChipIdentity[k]
    BY <1>3, <1>4, <1>5
  <2>7. "overall_pass" \notin DOMAIN data'
    BY <1>4, <1>5
  <2>8. request'.cmd = "session.list"
    BY <1>0, AtList
  <2> QED
    BY <2>3, <2>4, <2>5, <2>6, <2>7, <2>8 DEF Told
<1>10. failures' = 0 =>
         Documented(request.cmd, result = "OK")' \subseteq DOMAIN data'
  <2>1. request'.cmd = "session.list" /\ result' = "OK"
    BY <1>0, AtList
  <2>2. Documented(request.cmd, result = "OK")' = SessionKeys \cup {"tests"}
    BY <2>1, SessionFields DEF Documented
  <2> QED
    BY <1>3, <1>5, <2>2
<1>11. Completed'
  BY <1>0, AtList DEF Completed
<1>12. DoneInv'
  BY <1>9, <1>10, <1>11 DEF DoneInv
<1> QED
  BY <1>0, <1>1, <1>6, <1>7, <1>8, <1>12, InTheMaking

(* The error cleanup may replace an error, never an OK.                    *)
LEMMA CleanupStep ==
  ASSUME RepliesAssumption, Inv, Cleanup
  PROVE  Inv'
<1>0. /\ pc = "cleanup" /\ pc' = "respond"
      /\ UNCHANGED <<request, root, heap, sent, index, data, failures>>
      /\ identity' = identity /\ UNCHANGED sessionVars
  BY DEF Cleanup, HandlerFrame, CallFrame, Goto
<1>1. result' \in Results /\ (result' = "OK" <=> result = "OK")
  BY DEF Cleanup, ErrorCleanup
<1>2. /\ ReplyTypeOK /\ SessionInv /\ sent = Null /\ root = Null
      /\ "root" \notin heap /\ (failures = 0 => data # Null)
      /\ data # Null => "null" \notin DOMAIN data
      /\ data # Null => Told(data)
      /\ failures = 0 =>
           Documented(request.cmd, result = "OK") \subseteq DOMAIN data
      /\ Completed
  <2>1. ReplyTypeOK /\ SessionInv
    BY TypeParts
  <2> QED
    BY <1>0, <2>1 DEF Inv, HeapInv, DoneInv, ReplyTypeOK
<1>3. SessionInv'
  BY <1>0, <1>2, SameSession
<1>4. ReplyTypeOK'
  BY <1>0, <1>1, <1>2 DEF ReplyTypeOK, Labels
<1>5. HeapInv'
  BY <1>0, <1>2 DEF HeapInv
<1>6. PhaseInv'
  BY <1>0 DEF PhaseInv
<1>7. data' # Null => Told(data)'
  BY <1>0, <1>1, <1>2, ToldKept
<1>8. failures' = 0 =>
        Documented(request.cmd, result = "OK")' \subseteq DOMAIN data'
  BY <1>0, <1>1, <1>2, DocumentedKept
<1>9. Completed'
  BY <1>0, <1>1, <1>2 DEF Completed, sessionVars
<1>10. DoneInv'
  BY <1>7, <1>8, <1>9 DEF DoneInv
<1> QED
  BY <1>0, <1>3, <1>4, <1>5, <1>6, <1>10, InTheMaking
-----------------------------------------------------------------------------
(* send_response.                                                          *)
LEMMA CreateRootStep ==
  ASSUME RepliesAssumption, Inv, CreateRoot
  PROVE  Inv'
<1>0. /\ pc = "respond" /\ pc' = "fill" /\ root = Null /\ root' = Empty
      /\ data' = IF data = Null THEN Empty ELSE data
      /\ heap' = heap \cup {"root", "data"}
      /\ UNCHANGED <<request, result, identity, index, failures, sent>>
      /\ UNCHANGED sessionVars
  BY DEF CreateRoot, RespondFrame, Goto
<1>1. /\ ReplyTypeOK /\ SessionInv /\ sent = Null
      /\ failures = 0 => data # Null
      /\ data # Null => "null" \notin DOMAIN data
      /\ data # Null => Told(data)
      /\ failures = 0 =>
           Documented(request.cmd, result = "OK") \subseteq DOMAIN data
      /\ Completed
  <2>1. ReplyTypeOK /\ SessionInv
    BY TypeParts
  <2> QED
    BY <1>0, <2>1 DEF Inv, HeapInv, DoneInv
<1>2. SessionInv'
  BY <1>0, <1>1, SameSession
<1>3. data' # Null /\ "null" \notin DOMAIN data' /\ root' # Null
  BY <1>0, <1>1, EmptyObject
<1>4. ReplyTypeOK'
  BY <1>0, <1>1, <1>3 DEF ReplyTypeOK, Labels
<1>5. HeapInv'
  BY <1>0, <1>1, <1>3 DEF HeapInv
<1>6. PhaseInv'
  BY <1>0 DEF PhaseInv
<1>7. Told(data)'
  <2>1. CASE data = Null
    <3>1. DOMAIN data' = {}
      BY <1>0, <2>1, EmptyObject
    <3> QED
      BY <3>1 DEF Told
  <2>2. CASE data # Null
    BY <1>0, <1>1, <2>2, ToldKept
  <2> QED
    BY <2>1, <2>2
<1>8. failures' = 0 =>
        Documented(request.cmd, result = "OK")' \subseteq DOMAIN data'
  BY <1>0, <1>1, DocumentedKept
<1>9. Completed'
  BY <1>0, <1>1 DEF Completed, sessionVars
<1>10. DoneInv'
  BY <1>7, <1>8, <1>9 DEF DoneInv
<1> QED
  BY <1>0, <1>2, <1>4, <1>5, <1>6, <1>10, InTheMaking

LEMMA FillRootStep ==
  ASSUME RepliesAssumption, Inv, FillRoot
  PROVE  Inv'
<1>0. /\ pc = "fill" /\ pc' = "write"
      /\ UNCHANGED <<request, result, identity, index, data, heap, sent>>
      /\ UNCHANGED sessionVars
  BY DEF FillRoot, RespondFrame, Goto
<1>1. /\ ReplyTypeOK /\ SessionInv /\ sent = Null
      /\ data # Null /\ "null" \notin DOMAIN data
      /\ Told(data) /\ failures \in 0 .. MaxFailures
      /\ failures = 0 =>
           Documented(request.cmd, result = "OK") \subseteq DOMAIN data
      /\ Completed
  <2>1. ReplyTypeOK /\ SessionInv
    BY TypeParts
  <2> QED
    BY <1>0, <2>1 DEF Inv, HeapInv, DoneInv, ReplyTypeOK
<1>2. PICK w : w = Whole
  OBVIOUS
<1>3. PICK lost \in Losses(w) :
        root' = Without(w, lost) /\ failures' = failures + Cardinality(lost)
  BY <1>2 DEF FillRoot, Whole
<1>4. IsFiniteSet(DOMAIN w) /\ "data" \in DOMAIN w /\ "null" \notin DOMAIN w
  BY <1>2, EnvelopeFields
<1>5. /\ failures' \in 0 .. MaxFailures
      /\ failures' = 0 => failures = 0 /\ lost = {}
  BY <1>1, <1>3, <1>4, LossCount
<1>6. /\ DOMAIN root' = DOMAIN w \ lost
      /\ \A k \in DOMAIN root' : root'[k] = w[k]
  BY <1>3 DEF Without
<1>7. root' # Null
  BY <1>4, <1>6, NullApart
<1>8. Whole' = w
  BY <1>0, <1>2 DEF Whole, Envelope, SuccessCode
<1>9. SessionInv'
  BY <1>0, <1>1, SameSession
<1>10. SessionTypeOK'
  BY <1>9, Zenon DEF SessionInv
<1>11. TypeOK'
  BY <1>0, <1>1, <1>5, <1>7, <1>10 DEF TypeOK, ReplyTypeOK, Labels
<1>12. HeapInv'
  BY <1>0, <1>1, <1>5 DEF HeapInv
<1>13. PhaseInv' /\ ListInv'
  BY <1>0 DEF PhaseInv, ListInv
<1>14. failures' = 0 => failures = 0
  BY <1>5
<1>15. Told(data)'
  BY <1>0, <1>1, <1>14, ToldKept
<1>16. failures' = 0 =>
         Documented(request.cmd, result = "OK")' \subseteq DOMAIN data'
  BY <1>0, <1>1, <1>5, DocumentedKept
<1>17. Completed'
  BY <1>0, <1>1 DEF Completed, sessionVars
<1>18. DoneInv'
  BY <1>15, <1>16, <1>17 DEF DoneInv
<1>19. RootInv'
  <2>1. "data" \notin DOMAIN root' => failures' > 0
    BY <1>4, <1>5, <1>6
  <2>2. failures' = 0 => DOMAIN root' = DOMAIN w
    BY <1>5, <1>6
  <2> QED
    BY <1>6, <1>7, <1>8, <2>1, <2>2 DEF RootInv
<1>20. SentInv'
  BY <1>0, <1>1, NothingSent
<1> QED
  BY <1>9, <1>11, <1>12, <1>13, <1>18, <1>19, <1>20, Zenon DEF Inv

LEMMA AtLine ==
  ASSUME SessionInv', ReplyTypeOK', HeapInv', SentInv', pc' = "line"
  PROVE  Inv'
<1>1. SessionTypeOK'
  BY Zenon DEF SessionInv
<1>2. TypeOK'
  BY <1>1 DEF TypeOK, ReplyTypeOK
<1>3. PhaseInv' /\ ListInv' /\ DoneInv' /\ RootInv'
  BY DEF PhaseInv, ListInv, DoneInv, RootInv
<1> QED
  BY <1>2, <1>3, Zenon DEF Inv

LEMMA SendFallbackStep ==
  ASSUME RepliesAssumption, Inv, SendFallback
  PROVE  Inv'
<1>0. /\ pc = "respond" /\ pc' = "line" /\ AllocationFails
      /\ data' = Null /\ sent' = Fallback
      /\ heap' = Deleted(heap) \/ heap' = Deleted(heap \cup {"root"})
      /\ UNCHANGED <<request, result, identity, index, root>>
      /\ UNCHANGED sessionVars
  BY DEF SendFallback, RespondFrame, Goto
<1>1. ReplyTypeOK /\ SessionInv
  BY TypeParts
<1>2. root = Null /\ heap' = {}
  BY <1>0, <1>1 DEF ReplyTypeOK, Deleted
<1>3. failures' \in 0 .. MaxFailures /\ failures' > 0
  BY <1>0, <1>1 DEF AllocationFails, ReplyTypeOK, RepliesAssumption
<1>4. SessionInv'
  BY <1>0, <1>1, SameSession
<1>5. ReplyTypeOK'
  BY <1>0, <1>1, <1>2, <1>3 DEF ReplyTypeOK, Labels
<1>6. HeapInv'
  BY <1>0, <1>2 DEF HeapInv
<1>7. SentInv'
  <2>1. PICK s : s = Fallback
    OBVIOUS
  <2>2. /\ DOMAIN s = {"seq", "cmd", "status", "code", "firmware",
                       "protocol", "product", "board", "data"}
        /\ s["status"] = "error" /\ s["code"] = "no_memory"
        /\ s["data"] = Empty
    BY <2>1 DEF Fallback
  <2>3. sent' = s /\ s # Null
    BY <1>0, <2>1, <2>2, NullApart
  <2>4. Data' = Empty
    BY <2>2, <2>3 DEF Data, Has
  <2>5. DOMAIN Data' = {}
    BY <2>4, EmptyObject
  <2>6. VerdictsAgree' /\ ListWhole'
    BY <2>2, <2>3, <2>5 DEF VerdictsAgree, ListWhole, StableCodes
  <2>7. SessionToldAsIs'
    BY <2>5 DEF SessionToldAsIs
  <2>8. CompleteWithMemory'
    BY <1>3 DEF CompleteWithMemory
  <2>9. NothingLost'
    BY <1>2 DEF NothingLost
  <2>10. (\A k \in DOMAIN Data \cap IdentityKeys : Data[k] = ChipIdentity[k])'
    BY <2>5
  <2> QED
    BY <2>6, <2>7, <2>8, <2>9, <2>10, Zenon DEF SentInv
<1> QED
  BY <1>0, <1>4, <1>5, <1>6, <1>7, AtLine

(* Every result has a documented code, and no error that of a success.     *)
LEMMA CodesStable ==
  ASSUME NEW r \in Results, r # "OK"
  PROVE  Code(r) \in StableCodes
BY DEF Results, Code, StableCodes

LEMMA VerdictCodes ==
  /\ "ok" \notin StableCodes /\ "pass" \notin StableCodes
  /\ SuccessCode \in {"ok", "pass"}
  /\ SuccessCode = "pass" <=> request.cmd = "session.finish"
BY DEF StableCodes, SuccessCode

(* The whole frame, or what there was memory for, is what was made.        *)
LEMMA WriteSent ==
  ASSUME RepliesAssumption, Inv, pc = "write", sent' = root,
         failures' = failures, UNCHANGED <<request, result>>,
         UNCHANGED sessionVars, NothingLost'
  PROVE  SentInv'
<1>1. PICK r, d, w, v : r = root /\ d = data /\ w = Whole
                        /\ v = SessionData(session)
  OBVIOUS
<1>2. /\ r # Null /\ DOMAIN r \subseteq DOMAIN w
      /\ \A k \in DOMAIN r : r[k] = w[k]
      /\ failures = 0 => DOMAIN r = DOMAIN w
  BY <1>1 DEF Inv, RootInv
<1>3. /\ result \in Results /\ d # Null /\ Completed
      /\ Told(data)
      /\ failures = 0 =>
           Documented(request.cmd, result = "OK") \subseteq DOMAIN d
  <2>1. ReplyTypeOK
    BY TypeParts
  <2> QED
    BY <1>1, <2>1 DEF Inv, HeapInv, DoneInv, ReplyTypeOK
<1>4. /\ DOMAIN w = DOMAIN Fallback /\ "data" \in DOMAIN w
      /\ w["data"] = d
      /\ w["status"] = IF result = "OK" THEN "ok" ELSE "error"
      /\ w["code"] = IF result = "OK" THEN SuccessCode ELSE Code(result)
  BY <1>1, EnvelopeFields
<1>5. sent' = r
  BY <1>1
<1>6. PICK e : e = Data'
  OBVIOUS
<1>7. /\ "data" \in DOMAIN r => e = d
      /\ "data" \notin DOMAIN r => DOMAIN e = {}
  BY <1>2, <1>4, <1>5, <1>6, EmptyObject DEF Data, Has
<1>8. \A k \in DOMAIN e : k \in DOMAIN d /\ e[k] = d[k] /\ e = d
  BY <1>7
<1>9. session' = session /\ entries' = entries
  BY DEF sessionVars
<1>10. /\ Has("code")' => r["code"] = w["code"]
       /\ Has("status")' => r["status"] = w["status"]
       /\ Has("code")' <=> "code" \in DOMAIN r
       /\ Has("status")' <=> "status" \in DOMAIN r
  BY <1>2, <1>5 DEF Has
<1>11. VerdictsAgree'
  <2>1. Has("code")' => sent'.code \in StableCodes \cup {"ok", "pass"}
    BY <1>3, <1>4, <1>5, <1>10, CodesStable, VerdictCodes
  <2>2. Has("status")' /\ Has("code")' =>
          (sent'.status = "error" <=> sent'.code \in StableCodes)
    BY <1>3, <1>4, <1>5, <1>10, CodesStable, VerdictCodes
  <2>3. Has("code")' =>
          (sent'.code = "pass" <=>
             result = "OK" /\ request.cmd = "session.finish")
    BY <1>3, <1>4, <1>5, <1>10, CodesStable, VerdictCodes
  <2>4. Has("code")' /\ sent'.code = "pass" => session'.state = "COMPLETED"
    BY <1>3, <1>9, <2>3 DEF Completed
  <2>5. ASSUME "overall_pass" \in DOMAIN e
        PROVE  /\ e.overall_pass => session'.state = "COMPLETED"
               /\ Has("code")' => (e.overall_pass <=> sent'.code = "pass")
    <3>1. e = d /\ "overall_pass" \in DOMAIN d
      BY <1>8, <2>5
    <3>2. request.cmd = "session.finish"
      BY <1>1, <1>3, <3>1 DEF Told
    <3>3. d.overall_pass = OverallPass(result)
      BY <1>1, <1>3, <3>1, Zenon DEF Told
    <3>4. e.overall_pass = (result = "OK")
      BY <3>1, <3>3, Zenon DEF OverallPass
    <3>5. e.overall_pass <=> result = "OK"
      BY <3>4
    <3> QED
      BY <1>3, <1>9, <2>3, <3>2, <3>5 DEF Completed
  <2> QED
    BY <1>6, <2>1, <2>2, <2>4, <2>5, Zenon DEF VerdictsAgree
<1>12. SessionToldAsIs'
  <2>1. SessionData(session)' = v /\ DOMAIN v = SessionKeys
    BY <1>1, <1>9, SessionFields
  <2>2. \A k \in DOMAIN d \cap SessionKeys : d[k] = v[k]
    BY <1>1, <1>3 DEF Told
  <2>3. \A k \in DOMAIN e \cap DOMAIN v : e[k] = v[k]
    BY <1>8, <2>1, <2>2
  <2> QED
    BY <1>6, <2>1, <2>3 DEF SessionToldAsIs
<1>13. \A k \in DOMAIN e \cap IdentityKeys : e[k] = ChipIdentity[k]
  <2>1. \A k \in DOMAIN d \cap IdentityKeys : d[k] = ChipIdentity[k]
    BY <1>1, <1>3 DEF Told
  <2> QED
    BY <1>8, <2>1
<1>14. ASSUME "tests" \in DOMAIN e
       PROVE  /\ ItemsTrue(d.tests) /\ e = d
              /\ DOMAIN d.tests = 1 .. Len(d.tests)
              /\ result = "OK" => Len(d.tests) = Len(TestOrder)
  <2>1. "tests" \in DOMAIN d /\ e = d
    BY <1>8, <1>14
  <2>2. /\ ItemsTrue(d.tests)
        /\ result = "OK" => Len(d.tests) = Len(TestOrder)
    BY <1>1, <1>3, <2>1 DEF Told
  <2>3. PICK t : t = d.tests
    OBVIOUS
  <2>4. t \in Seq({t[i] : i \in DOMAIN t})
    BY <2>2, <2>3 DEF ItemsTrue
  <2>5. DOMAIN t = 1 .. Len(t)
    BY <2>4, LenProperties
  <2> QED
    BY <2>1, <2>2, <2>3, <2>5
<1>15. ListWhole'
  <2> SUFFICES ASSUME Has("status")', sent'.status = "ok",
                      "tests" \in DOMAIN e
               PROVE  /\ Len(e.tests) = Len(TestOrder)
                      /\ \A i \in DOMAIN TestOrder :
                           \A k \in DOMAIN e.tests[i] :
                             e.tests[i][k] = Item(TestOrder[i])'[k]
    BY <1>6, Zenon DEF ListWhole
  <2>1. result = "OK"
    BY <1>4, <1>5, <1>10
  <2>2. \A i : Item(TestOrder[i])' = Item(TestOrder[i])
    BY <1>9 DEF Item
  <2>3. \A i \in 1 .. Len(e.tests) :
          \A k \in DOMAIN e.tests[i] :
            e.tests[i][k] = Item(TestOrder[i])[k]
    BY <1>14 DEF ItemsTrue
  <2>4. Len(e.tests) = Len(TestOrder)
    BY <1>14, <2>1
  <2>5. DOMAIN TestOrder = 1 .. Len(TestOrder)
    BY OrderLength
  <2>6. DOMAIN TestOrder = 1 .. Len(e.tests)
    BY <2>4, <2>5
  <2>7. \A i \in DOMAIN TestOrder :
          \A k \in DOMAIN e.tests[i] :
            e.tests[i][k] = Item(TestOrder[i])[k]
    BY <2>3, <2>6, Zenon
  <2>8. ASSUME NEW i \in DOMAIN TestOrder, NEW k \in DOMAIN e.tests[i]
        PROVE  e.tests[i][k] = Item(TestOrder[i])'[k]
    <3>1. PICK x : x = Item(TestOrder[i])
      OBVIOUS
    <3>2. e.tests[i][k] = x[k]
      BY <2>7, <3>1
    <3>3. Item(TestOrder[i])' = x
      BY <2>2, <3>1
    <3> QED
      BY <3>2, <3>3
  <2> QED
    BY <2>4, <2>8
<1>16. CompleteWithMemory'
  <2> SUFFICES ASSUME failures' = 0
               PROVE  /\ DOMAIN r = DOMAIN Fallback
                      /\ Documented(request.cmd, result = "OK")'
                           \subseteq DOMAIN e
                      /\ "tests" \in DOMAIN e =>
                           \A i \in DOMAIN e.tests :
                             ItemKeys \subseteq DOMAIN e.tests[i]
    <3>1. DOMAIN Fallback' = DOMAIN Fallback
      BY DEF Fallback
    <3>2. ItemKeys = {"id", "description", "owner", "status"}
      BY DEF ItemKeys
    <3> QED
      BY <1>5, <1>6, <3>1, <3>2, Zenon DEF CompleteWithMemory
  <2>1. failures = 0 /\ DOMAIN r = DOMAIN w
    BY <1>2
  <2>2. e = d
    BY <1>4, <1>7, <2>1
  <2>3. Documented(request.cmd, result = "OK")' \subseteq DOMAIN e
    BY <1>3, <2>1, <2>2, DocumentedKept
  <2>4. "tests" \in DOMAIN e =>
          \A i \in DOMAIN e.tests : ItemKeys \subseteq DOMAIN e.tests[i]
    BY <1>14, <2>1 DEF ItemsTrue
  <2> QED
    BY <1>4, <2>1, <2>3, <2>4
<1>17. (\A k \in DOMAIN Data \cap IdentityKeys : Data[k] = ChipIdentity[k])'
  BY <1>6, <1>13
<1> QED
  BY <1>11, <1>12, <1>15, <1>16, <1>17, Zenon DEF SentInv

LEMMA WriteStep ==
  ASSUME RepliesAssumption, Inv, Write
  PROVE  Inv'
<1>0. /\ pc = "write" /\ pc' = "line"
      /\ \/ sent' = root /\ failures' = failures
         \/ AllocationFails /\ sent' = Null
      /\ heap' = heap \ (IF "data" \in DOMAIN root THEN {"root", "data"}
                         ELSE {"root"})
      /\ root' = Null /\ data' = Null
      /\ UNCHANGED <<request, result, identity, index>>
      /\ UNCHANGED sessionVars
  BY DEF Write, RespondFrame, Goto
<1>1. ReplyTypeOK /\ SessionInv
  BY TypeParts
<1>2. /\ failures' \in 0 .. MaxFailures /\ failures \in 0 .. MaxFailures
      /\ failures > 0 => failures' > 0
      /\ failures' = failures \/ sent' = Null
  BY <1>0, <1>1 DEF AllocationFails, ReplyTypeOK, RepliesAssumption
<1>3. SessionInv'
  BY <1>0, <1>1, SameSession
<1>4. ReplyTypeOK'
  BY <1>0, <1>1, <1>2 DEF ReplyTypeOK, Labels
<1>5. HeapInv'
  BY <1>0 DEF HeapInv
<1>6. NothingLost'
  <2>1. heap \subseteq {"data", "root"}
    BY <1>1 DEF ReplyTypeOK
  <2>2. heap' \subseteq {"data"}
    BY <1>0, <2>1
  <2>3. "data" \notin DOMAIN root => failures > 0
    BY <1>0 DEF Inv, RootInv
  <2>4. heap' # {} => "data" \notin DOMAIN root
    BY <1>0, <2>1
  <2>5. Has("data")' => "data" \in DOMAIN root
    BY <1>0 DEF Has
  <2> QED
    BY <1>2, <2>2, <2>3, <2>4, <2>5 DEF NothingLost
<1>7. SentInv'
  <2>1. CASE sent' = Null
    BY <1>6, <2>1, NothingSent
  <2>2. CASE sent' = root /\ failures' = failures
    BY <1>0, <1>6, <2>2, WriteSent
  <2> QED
    BY <1>0, <2>1, <2>2
<1> QED
  BY <1>0, <1>3, <1>4, <1>5, <1>7, AtLine
-----------------------------------------------------------------------------
LEMMA InitInv ==
  ASSUME RepliesAssumption, Init
  PROVE  Inv
<1>0. /\ session = [Zeroed EXCEPT !.manifest = Summary(AllPending)]
      /\ hasCleanup = TRUE /\ entries = AllPending /\ made = NotMade
      /\ pc = "ready" /\ request = Line(0, "none") /\ result = "OK"
      /\ identity = NoIdentity /\ index = 1
      /\ data = Null /\ root = Null /\ heap = {}
      /\ failures = 0 /\ sent = Null
  BY DEF Init
<1>1. session \in Sessions /\ session.state = "IDLE"
  BY <1>0, SummaryType, AllPendingType DEF Sessions, Zeroed, States
<1>2. SessionTypeOK /\ IdleBeforeInit
  BY <1>0, <1>1, AllPendingType, NotMadeType
     DEF SessionTypeOK, IdleBeforeInit
<1>3. Traceable /\ VerdictSound
  BY <1>0, <1>1 DEF Traceable, AllPending, VerdictSound
<1>4. SessionInv
  BY <1>2, <1>3 DEF SessionInv
<1>5. request.seq = 0
  BY <1>0 DEF Line
<1>6. TypeOK
  BY <1>0, <1>2, <1>5, OrderLength
     DEF TypeOK, Labels, Results, RepliesAssumption
<1>7. HeapInv /\ PhaseInv /\ ListInv /\ DoneInv /\ RootInv
  BY <1>0 DEF HeapInv, PhaseInv, ListInv, DoneInv, RootInv
<1>8. SentInv
  <2>1. ~Has("code") /\ ~Has("status") /\ ~Has("data")
    BY <1>0 DEF Has
  <2>2. Data = Empty
    BY <2>1 DEF Data
  <2>3. DOMAIN Data = {}
    BY <2>2, EmptyObject
  <2>4. VerdictsAgree /\ ListWhole
    BY <2>1, <2>3 DEF VerdictsAgree, ListWhole
  <2>5. SessionToldAsIs /\ CompleteWithMemory /\ NothingLost
    BY <1>0, <2>3 DEF SessionToldAsIs, CompleteWithMemory, NothingLost
  <2> QED
    BY <2>3, <2>4, <2>5, Zenon DEF SentInv
<1> QED
  BY <1>4, <1>6, <1>7, <1>8 DEF Inv

LEMMA Stutter ==
  ASSUME Inv, UNCHANGED vars
  PROVE  Inv'
<1>1. /\ UNCHANGED <<session, hasCleanup, made, entries>>
      /\ UNCHANGED <<pc, request, result, identity, index>>
      /\ UNCHANGED <<data, root, heap, failures, sent>>
  BY DEF vars, sessionVars, replyVars
<1>2. SessionInv'
  <2>1. SessionInv
    BY TypeParts
  <2> QED
    BY <1>1, <2>1, SameSession DEF sessionVars
<1>3. SessionTypeOK'
  BY <1>2, Zenon DEF SessionInv
<1>4. TypeOK'
  BY <1>1, <1>3 DEF Inv, TypeOK
<1>5. HeapInv' /\ PhaseInv'
  BY <1>1 DEF Inv, HeapInv, PhaseInv, IsActive
<1>6. ListInv' /\ DoneInv' /\ RootInv'
  <2>1. ListInv'
    BY <1>1, ZenonT(40) DEF Inv, ListInv, ItemsTrue, Item
  <2>2. DoneInv'
    BY <1>1, ToldKept, DocumentedKept DEF Inv, DoneInv, Completed, sessionVars
  <2>3. Whole' = Whole
    BY <1>1 DEF Whole, Envelope, SuccessCode
  <2>4. RootInv'
    BY <1>1, <2>3 DEF Inv, RootInv
  <2> QED
    BY <2>1, <2>2, <2>4
<1>7. SentInv'
  <2>1. PICK v : v = SessionData(session)
    OBVIOUS
  <2>2. SessionData(session)' = v
    BY <1>1, <2>1
  <2>3. Data' = Data
    BY <1>1 DEF Data, Has
  <2>4. VerdictsAgree' /\ NothingLost'
    BY <1>1, <2>3 DEF Inv, SentInv, VerdictsAgree, NothingLost, Has
  <2>5. SessionToldAsIs'
    BY <2>1, <2>2, <2>3 DEF Inv, SentInv, SessionToldAsIs
  <2>6. ListWhole'
    <3>1. \A i : Item(TestOrder[i])' = Item(TestOrder[i])
      BY <1>1 DEF Item
    <3> QED
      BY <1>1, <2>3, <3>1 DEF Inv, SentInv, ListWhole, Has
  <2>7. CompleteWithMemory'
    <3>1. DOMAIN Fallback' = DOMAIN Fallback
      BY DEF Fallback
    <3>2. Documented(request.cmd, result = "OK")'
            = Documented(request.cmd, result = "OK")
      BY <1>1, DocumentedKept
    <3> QED
      BY <1>1, <2>3, <3>1, <3>2 DEF Inv, SentInv, CompleteWithMemory
  <2>8. (\A k \in DOMAIN Data \cap IdentityKeys : Data[k] = ChipIdentity[k])'
    BY <2>3 DEF Inv, SentInv
  <2> QED
    BY <2>4, <2>5, <2>6, <2>7, <2>8, Zenon DEF SentInv
<1> QED
  BY <1>2, <1>4, <1>5, <1>6, <1>7, Zenon DEF Inv

LEMMA StepInv ==
  ASSUME RepliesAssumption, Inv, [Next]_vars
  PROVE  Inv'
<1>1. CASE Begins
  BY <1>1, BeginsStep
<1>2. CASE CreateData
  BY <1>2, CreateDataStep
<1>3. CASE EventData
  BY <1>3, EventDataStep
<1>4. CASE Handle
  <2>1. CASE Identity
    BY <2>1, IdentityStep
  <2>2. CASE Safe
    BY <2>2, SafeStep
  <2>3. CASE Abort
    BY <2>3, AbortStep
  <2>4. CASE Start
    BY <2>4, StartStep
  <2>5. CASE MarkIdentity
    BY <2>5, MarkIdentityStep
  <2>6. CASE NoSession
    BY <2>6, NoSessionStep
  <2>7. CASE List
    BY <2>7, ListStep
  <2>8. CASE ListItem
    BY <2>8, ListItemStep
  <2>9. CASE ItemFails
    BY <2>9, ItemFailsStep
  <2>10. CASE ListEnd
    BY <2>10, ListEndStep
  <2>11. CASE FixtureRecord
    BY <2>11, FixtureRecordStep
  <2>12. CASE Finish
    BY <2>12, FinishStep
  <2>13. CASE Cleanup
    BY <2>13, CleanupStep
  <2> QED
    BY <1>4, <2>1, <2>2, <2>3, <2>4, <2>5, <2>6, <2>7, <2>8, <2>9, <2>10,
       <2>11, <2>12, <2>13, Zenon DEF Handle
<1>5. CASE Respond
  <2>1. CASE CreateRoot
    BY <2>1, CreateRootStep
  <2>2. CASE SendFallback
    BY <2>2, SendFallbackStep
  <2>3. CASE FillRoot
    BY <2>3, FillRootStep
  <2>4. CASE Write
    BY <2>4, WriteStep
  <2> QED
    BY <1>5, <2>1, <2>2, <2>3, <2>4, Zenon DEF Respond
<1>6. CASE UNCHANGED vars
  BY <1>6, Stutter
<1> QED
  BY <1>1, <1>2, <1>3, <1>4, <1>5, <1>6, Zenon DEF Next

(* Every state of every reply satisfies the inductive invariant, whatever  *)
(* calls of cJSON fail (factory_protocol.c).                               *)
THEOREM RepliesInvariant == Spec => []Inv
<1>1. Init => Inv
  BY InitInv, RepliesAssumption
<1>2. Inv /\ [Next]_vars => Inv'
  BY StepInv, RepliesAssumption
<1> QED
  BY <1>1, <1>2, PTL DEF Spec

(* The objects of a reply are where process_line and send_response expect  *)
(* them at every label.                                                    *)
THEOREM TypeCorrect == Spec => []TypeOK
<1>1. Inv => TypeOK
  BY Zenon DEF Inv
<1> QED
  BY <1>1, RepliesInvariant, PTL

(* The status, the code and the overall_pass of a reply that lost any of   *)
(* its fields never contradict each other, and a pass is only told of a    *)
(* completed session (send_response, handle_request).                      *)
THEOREM VerdictsNeverDisagree == Spec => []VerdictsAgree
<1>1. Inv => VerdictsAgree
  BY Zenon DEF Inv, SentInv
<1> QED
  BY <1>1, RepliesInvariant, PTL

(* The session fields of a reply are those of the session the command left *)
(* (add_session).                                                          *)
THEOREM SessionTold == Spec => []SessionToldAsIs
<1>1. Inv => SessionToldAsIs
  BY Zenon DEF Inv, SentInv
<1> QED
  BY <1>1, RepliesInvariant, PTL

(* No reply carries an identifier that was not read from the chip, and no  *)
(* session is started on one (factory_identity_read, handle_request).      *)
THEOREM NoIdentifierFabricated == Spec => []NeverFabricated
<1>1. Inv => NeverFabricated
  <2> SUFFICES ASSUME Inv PROVE NeverFabricated
    OBVIOUS
  <2>1. \A k \in DOMAIN Data \cap IdentityKeys : Data[k] = ChipIdentity[k]
    BY Zenon DEF Inv, SentInv
  <2>2. pc = "mark" => identity = ChipIdentity
    BY DEF Inv, PhaseInv
  <2> QED
    BY <2>1, <2>2, Zenon DEF NeverFabricated
<1> QED
  BY <1>1, RepliesInvariant, PTL

(* A list under status ok is the whole table, in its order                 *)
(* (handle_request, session.list).                                         *)
THEOREM ListIsWhole == Spec => []ListWhole
<1>1. Inv => ListWhole
  BY Zenon DEF Inv, SentInv
<1> QED
  BY <1>1, RepliesInvariant, PTL

(* While no allocation fails every reply carries what is documented of it  *)
(* (send_response, handle_request).                                        *)
THEOREM CompleteReplies == Spec => []CompleteWithMemory
<1>1. Inv => CompleteWithMemory
  BY Zenon DEF Inv, SentInv
<1> QED
  BY <1>1, RepliesInvariant, PTL

(* Only a data object that could not be added to its envelope outlives the *)
(* reply (send_response).                                                  *)
THEOREM NothingElseLost == Spec => []NothingLost
<1>1. Inv => NothingLost
  BY Zenon DEF Inv, SentInv
<1> QED
  BY <1>1, RepliesInvariant, PTL
=============================================================================
