----------------------- MODULE FactoryRequest_proofs ------------------------
(***************************************************************************)
(* For any line and any object: valid_utf8 accepts the well-formed texts   *)
(* and no other, factory_request_parse accepts the requests the protocol   *)
(* describes and no other, but for two departures, and a line is answered  *)
(* under the sequence number and command it has, or under neither.         *)
(***************************************************************************)
EXTENDS FactoryRequest, SequenceTheorems, TLAPS

(* The bytes that begin a character of n more, and the bits they carry.    *)
Lead(n) == IF n = 1 THEN 194 .. 223
           ELSE IF n = 2 THEN 224 .. 239 ELSE 240 .. 247
Marker(n) == IF n = 1 THEN 192 ELSE IF n = 2 THEN 224 ELSE 240

(* A code point with the bits of one more byte, and of the bytes of s.     *)
Shift(p, c) == p * 64 + (c - 128)

Bits1(s, n) == s[1] - Marker(n)
Bits2(s, n) == Shift(Bits1(s, n), s[2])
Bits3(s, n) == Shift(Bits2(s, n), s[3])
Bits4(s, n) == Shift(Bits3(s, n), s[4])

(* The beginning of a character of n more bytes, and its code point so far.*)
Begun(s, n, p) ==
  /\ s[1] \in Lead(n)
  /\ \/ Len(s) = 1 /\ p = Bits1(s, n)
     \/ Len(s) = 2 /\ Tail80(s[2]) /\ p = Bits2(s, n)
     \/ Len(s) = 3 /\ Tail80(s[2]) /\ Tail80(s[3]) /\ p = Bits3(s, n)

(* Between two characters nothing is left of the one before; within one    *)
(* the bytes that have come are a beginning of it.                         *)
TextInv ==
  /\ pc \notin {"text", "done"} => need = 0
  /\ pc # "done" /\ need = 0 => size = 0 /\ codepoint = 0 /\ char = <<>>
  /\ pc # "done" /\ need > 0 =>
       Len(char) = 1 + size - need /\ Begun(char, size, codepoint)

(* What the checks behind have established when the next one comes.        *)
EnvelopeOK ==
  /\ SeqValid(root) /\ Has(root, "cmd")
  /\ Fits(root, "cmd", Capacity.command_text)
  /\ Item(root, "cmd").text \in Commands
  /\ request = [Blank EXCEPT !.seq = Item(root, "seq").floor,
                             !.command_text = Item(root, "cmd").text,
                             !.command = Item(root, "cmd").text]

ChecksInv ==
  /\ pc \notin {"frame", "done"} =>
       prefixed /\ length \in PrefixLength + 1 .. MaxFrame
  /\ pc \in {"frame", "text", "json"} => json = "none"
  /\ pc \in {"frame", "text", "json", "envelope"} => request = Blank
  /\ pc \in {"envelope", "fields", "read"} =>
       json = "object" /\ ~HasDuplicateKeys(root)
  /\ pc \in {"fields", "read"} => EnvelopeOK
  /\ pc = "read" =>
       \A m \in Range(root) : FieldAllowed(request.command, m.key)

-----------------------------------------------------------------------------
(* The classes of bytes, as the masks of the code tell them apart.         *)
LEMMA ByteClasses ==
  ASSUME NEW c \in 0 .. 255
  PROVE  /\ c \div 32 = 6 <=> c \in 192 .. 223
         /\ c \div 16 = 14 <=> c \in 224 .. 239
         /\ c \div 8 = 30 <=> c \in 240 .. 247
         /\ c \div 64 = 2 <=> c \in 128 .. 191
         /\ c \in 192 .. 223 => c % 32 = c - 192
         /\ c \in 224 .. 239 => c % 16 = c - 224
         /\ c \in 240 .. 247 => c % 8 = c - 240
         /\ c \in 128 .. 191 => c % 64 = c - 128
OBVIOUS

Octet(c) == c \in 0 .. 255

(* A byte that is not a bad one begins a character.                        *)
Begins(c, n, rest) ==
  /\ n \in 1 .. 3 /\ n <= rest /\ c \in Lead(n) /\ c >= 128
  /\ FirstBits(c) = c - Marker(n)

Taken(c, rest) ==
  /\ c < 128 => c \in 1 .. 127
  /\ c >= 128 => Begins(c, Continuation(c), rest)

LEMMA LeadBytes ==
  ASSUME NEW c, NEW rest \in Nat, Octet(c), ~BadLead(c, rest)
  PROVE  Taken(c, rest)
<1>0. c \in 0 .. 255
  BY DEF Octet
<1>1. c # 0 /\ (c >= 128 => Continuation(c) # 0)
      /\ (Continuation(c) = 1 => FirstBits(c) >= 2)
  BY <1>0, ByteClasses DEF BadLead, FirstBits, Continuation
<1>2. Continuation(c) \in 0 .. 3 /\ Continuation(c) <= rest
  BY <1>0 DEF BadLead, Continuation
<1>3. CASE c \in 192 .. 223
  BY <1>0, <1>1, <1>2, <1>3, ByteClasses
     DEF Continuation, FirstBits, Lead, Marker, Begins, Taken
<1>4. CASE c \in 224 .. 239
  BY <1>0, <1>1, <1>2, <1>4, ByteClasses
     DEF Continuation, FirstBits, Lead, Marker, Begins, Taken
<1>5. CASE c \in 240 .. 247
  BY <1>0, <1>1, <1>2, <1>5, ByteClasses
     DEF Continuation, FirstBits, Lead, Marker, Begins, Taken
<1>6. CASE c \in 0 .. 191 \cup 248 .. 255
  BY <1>0, <1>1, <1>6, ByteClasses DEF Continuation, Taken
<1> QED
  BY <1>0, <1>3, <1>4, <1>5, <1>6

LEMMA LeadApart ==
  ASSUME NEW n \in 1 .. 3, NEW c \in Lead(n)
  PROVE  /\ c \notin 1 .. 127
         /\ \A m \in 1 .. 3 : c \in Lead(m) => m = n
BY DEF Lead

(* The length and the bytes of a well-formed character.                    *)
LEMMA FormOf ==
  ASSUME NEW s, WellFormed(s)
  PROVE  /\ \/ s[1] \in 1 .. 127 /\ Len(s) = 1
            \/ \E n \in 1 .. 3 : s[1] \in Lead(n) /\ Len(s) = n + 1
         /\ \A i \in 2 .. Len(s) : Tail80(s[i])
<1>1. CASE Len(s) = 1 /\ s[1] \in 1 .. 127
  BY <1>1
<1>2. CASE Len(s) = 2 /\ s[1] \in 194 .. 223 /\ Tail80(s[2])
  <2>1. s[1] \in Lead(1) /\ \A i \in 2 .. 2 : i = 2
    BY <1>2 DEF Lead
  <2> QED
    BY <1>2, <2>1
<1>3. CASE /\ Len(s) = 3 /\ Tail80(s[3])
           /\ s[1] \in 224 .. 239 /\ s[2] \in 128 .. 191
  <2>1. s[1] \in Lead(2) /\ \A i \in 2 .. 3 : i = 2 \/ i = 3
    BY <1>3 DEF Lead
  <2> QED
    BY <1>3, <2>1 DEF Tail80
<1>4. CASE /\ Len(s) = 4 /\ Tail80(s[3]) /\ Tail80(s[4])
           /\ s[1] \in 240 .. 244 /\ s[2] \in 128 .. 191
  <2>1. s[1] \in Lead(3) /\ \A i \in 2 .. 4 : i = 2 \/ i = 3 \/ i = 4
    BY <1>4 DEF Lead
  <2> QED
    BY <1>4, <2>1 DEF Tail80
<1>5. CASE Len(s) = 3 /\ Tail80(s[3])
  BY <1>3, <1>5 DEF WellFormed, Tail80
<1>6. CASE Len(s) = 4 /\ Tail80(s[3]) /\ Tail80(s[4])
  BY <1>4, <1>6 DEF WellFormed, Tail80
<1> QED
  BY <1>1, <1>2, <1>5, <1>6 DEF WellFormed

(* The code points of complete characters, by their number of bytes.       *)
LEMMA Points2 ==
  ASSUME NEW s, s[1] \in 194 .. 223, Tail80(s[2])
  PROVE  ~BadCodepoint(1, Bits2(s, 1))
<1>1. PICK a \in 194 .. 223, b \in 128 .. 191 : a = s[1] /\ b = s[2]
  BY SMTT(30) DEF Tail80
<1>2. PICK p \in 0 .. 2047 : p = (a - 192) * 64 + (b - 128)
  BY SMTT(30)
<1>3. ~BadCodepoint(1, p)
  BY SMTT(30) DEF BadCodepoint
<1> QED
  BY SMTT(30), <1>1, <1>2, <1>3 DEF Bits2, Bits1, Marker, Shift

LEMMA Points3 ==
  ASSUME NEW s, s[1] \in 224 .. 239, Tail80(s[2]), Tail80(s[3])
  PROVE  BadCodepoint(2, Bits3(s, 2)) <=>
           ~(\/ s[1] = 224 /\ s[2] \in 160 .. 191
             \/ s[1] \in (225 .. 236) \cup {238, 239}
             \/ s[1] = 237 /\ s[2] \in 128 .. 159)
<1>1. PICK a \in 224 .. 239, b \in 128 .. 191, c \in 128 .. 191 :
        a = s[1] /\ b = s[2] /\ c = s[3]
  BY ZenonT(30) DEF Tail80
<1>2. PICK p \in Int : p = ((a - 224) * 64 + (b - 128)) * 64 + (c - 128)
  BY SMTT(30)
<1>3. p = Bits3(s, 2)
  BY SMTT(30), <1>1, <1>2 DEF Bits3, Bits2, Bits1, Marker, Shift
<1>4. BadCodepoint(2, p) <=>
        ~(\/ a = 224 /\ b \in 160 .. 191
          \/ a \in (225 .. 236) \cup {238, 239}
          \/ a = 237 /\ b \in 128 .. 159)
  BY SMTT(30), <1>2 DEF BadCodepoint
<1> QED
  BY SMTT(30), <1>1, <1>3, <1>4

LEMMA Points4 ==
  ASSUME NEW s, s[1] \in 240 .. 247, Tail80(s[2]), Tail80(s[3]), Tail80(s[4])
  PROVE  BadCodepoint(3, Bits4(s, 3)) <=>
           ~(\/ s[1] = 240 /\ s[2] \in 144 .. 191
             \/ s[1] \in 241 .. 243
             \/ s[1] = 244 /\ s[2] \in 128 .. 143)
<1>1. PICK a \in 240 .. 247, b \in 128 .. 191, c \in 128 .. 191,
           d \in 128 .. 191 :
        a = s[1] /\ b = s[2] /\ c = s[3] /\ d = s[4]
  BY ZenonT(30) DEF Tail80
<1>2. PICK p \in Int :
        /\ p = (((a - 240) * 64 + (b - 128)) * 64 + (c - 128)) * 64
                 + (d - 128)
        /\ p = (a - 240) * 262144 + (b - 128) * 4096 + (c - 128) * 64
                 + (d - 128)
  BY SMTT(30)
<1>3. p = Bits4(s, 3)
  BY SMTT(30), <1>1, <1>2 DEF Bits4, Bits3, Bits2, Bits1, Marker, Shift
<1>4. BadCodepoint(3, p) <=> p < 65536 \/ p > 1114111
  BY SMTT(30), <1>2 DEF BadCodepoint
<1>5. BadCodepoint(3, p) <=>
        ~(\/ a = 240 /\ b \in 144 .. 191
          \/ a \in 241 .. 243
          \/ a = 244 /\ b \in 128 .. 143)
  <2>1. CASE a = 240
    BY SMTT(30), <1>2, <1>4, <2>1
  <2>2. CASE a \in 241 .. 243
    BY SMTT(30), <1>2, <1>4, <2>2
  <2>3. CASE a \in 244 .. 247
    BY SMTT(30), <1>2, <1>4, <2>3
  <2> QED
    BY SMTT(30), <2>1, <2>2, <2>3
<1> QED
  BY SMTT(30), <1>1, <1>3, <1>5

(* What a complete code point is refused for is what is ill-formed.        *)
LEMMA Complete ==
  ASSUME NEW s, NEW n \in 1 .. 3, s[1] \in Lead(n), Len(s) = n + 1,
         \A i \in 2 .. n + 1 : Tail80(s[i]),
         NEW p, p = IF n = 1 THEN Bits2(s, n)
                    ELSE IF n = 2 THEN Bits3(s, n) ELSE Bits4(s, n)
  PROVE  BadCodepoint(n, p) <=> ~WellFormed(s)
<1>1. Tail80(s[2]) /\ (n >= 2 => Tail80(s[3])) /\ (n = 3 => Tail80(s[4]))
  OBVIOUS
<1>2. CASE n = 1
  BY <1>1, <1>2, Points2 DEF Lead, WellFormed
<1>3. CASE n = 2
  BY <1>1, <1>3, Points3 DEF Lead, WellFormed, Tail80
<1>4. CASE n = 3
  BY <1>1, <1>4, Points4 DEF Lead, WellFormed, Tail80
<1> QED
  BY <1>2, <1>3, <1>4

(* When no character begins with these bytes and so few more.              *)
NoForm(s, room) ==
  \/ s[1] \notin 1 .. 127 /\ \A n \in 1 .. 3 : s[1] \notin Lead(n)
  \/ \E i \in 2 .. Len(s) : ~Tail80(s[i])
  \/ \E n \in 1 .. 3 : s[1] \in Lead(n) /\ Len(s) + room < n + 1
  \/ \E n \in 1 .. 3 :
       s[1] \in Lead(n) /\ Len(s) = n + 1 /\ ~WellFormed(s)

LEMMA NoCharacter ==
  ASSUME NEW s \in Seq(Byte), s # <<>>, NEW room \in Nat, NoForm(s, room)
  PROVE  \A n \in 0 .. 4 - Len(s) : n <= room =>
           \A rest \in [1 .. n -> Byte] : ~WellFormed(s \o rest)
<1> SUFFICES ASSUME NEW n \in 0 .. 4 - Len(s), n <= room,
                    NEW rest \in [1 .. n -> Byte], WellFormed(s \o rest)
             PROVE  FALSE
  OBVIOUS
<1>0. Len(s) \in Nat \ {0}
  BY EmptySeq
<1>1. rest \in Seq(Byte) /\ Len(rest) = n
  <2>1. n \in Nat
    BY <1>0
  <2> QED
    BY <2>1
<1> DEFINE t == s \o rest
<1>2. /\ t \in Seq(Byte) /\ Len(t) = Len(s) + n
      /\ \A i \in 1 .. Len(s) : t[i] = s[i]
  <2>1. /\ t \in Seq(Byte) /\ Len(t) = Len(s) + Len(rest)
        /\ \A i \in 1 .. Len(s) + Len(rest) :
             t[i] = IF i <= Len(s) THEN s[i] ELSE rest[i - Len(s)]
    BY <1>1, ConcatProperties
  <2> HIDE DEF t
  <2> QED
    BY <1>0, <1>1, <2>1
<1>3. n = 0 => t = s
  <2> SUFFICES ASSUME n = 0 PROVE t = s
    OBVIOUS
  <2>1. rest = <<>>
    BY <1>1, EmptySeq
  <2> QED
    BY <2>1, ConcatEmptySeq
<1> HIDE DEF t
<1>4. WellFormed(t)
  BY DEF t
<1>5. /\ \/ t[1] \in 1 .. 127 /\ Len(t) = 1
         \/ \E k \in 1 .. 3 : t[1] \in Lead(k) /\ Len(t) = k + 1
      /\ \A i \in 2 .. Len(t) : Tail80(t[i])
  BY <1>4, FormOf
<1>6. t[1] = s[1]
  BY <1>0, <1>2
<1>7. CASE s[1] \notin 1 .. 127 /\ \A k \in 1 .. 3 : s[1] \notin Lead(k)
  BY <1>5, <1>6, <1>7
<1>8. CASE \E i \in 2 .. Len(s) : ~Tail80(s[i])
  <2>1. PICK i \in 2 .. Len(s) : ~Tail80(s[i])
    BY <1>8
  <2>2. i \in 2 .. Len(t) /\ t[i] = s[i]
    BY <1>0, <1>2
  <2> QED
    BY <1>5, <2>1, <2>2
<1>9. ASSUME NEW k \in 1 .. 3, s[1] \in Lead(k)
      PROVE  Len(t) = k + 1
  <2>1. s[1] \notin 1 .. 127
    BY <1>9, LeadApart, Zenon
  <2>2. PICK m \in 1 .. 3 : s[1] \in Lead(m) /\ Len(t) = m + 1
    BY <1>5, <1>6, <2>1, Zenon
  <2>3. m = k
    BY <1>9, <2>2, LeadApart
  <2> QED
    BY <2>2, <2>3
<1>10. CASE \E k \in 1 .. 3 : s[1] \in Lead(k) /\ Len(s) + room < k + 1
  BY <1>0, <1>2, <1>9, <1>10
<1>11. CASE \E k \in 1 .. 3 :
              s[1] \in Lead(k) /\ Len(s) = k + 1 /\ ~WellFormed(s)
  BY <1>0, <1>2, <1>3, <1>4, <1>9, <1>11
<1> QED
  BY <1>7, <1>8, <1>10, <1>11 DEF NoForm
-----------------------------------------------------------------------------
(* The bytes of a character that is not over, and one more.                *)
LEMMA FirstPart ==
  ASSUME NEW n \in 1 .. 3, NEW s, s[1] \in Lead(n)
  PROVE  /\ Bits1(s, n) \in 0 .. 31
         /\ n >= 2 => Bits1(s, n) \in 0 .. 15
         /\ n = 3 => Bits1(s, n) \in 0 .. 7
<1>1. CASE n = 1
  BY <1>1 DEF Lead, Bits1, Marker
<1>2. CASE n = 2
  BY <1>2 DEF Lead, Bits1, Marker
<1>3. CASE n = 3
  BY <1>3 DEF Lead, Bits1, Marker
<1> QED
  BY <1>1, <1>2, <1>3

(* The points of so many bits, below the bound of one that is not over.    *)
TenBits == 0 .. 1023
NineBits == 0 .. 511

LEMMA NoPoint == 0 \in Unfinished
BY SMTT(30) DEF Unfinished

LEMMA ShiftFrom15 ==
  ASSUME NEW p \in 0 .. 15, NEW c, Tail80(c)
  PROVE  Shift(p, c) \in TenBits
<1>1. PICK a \in 0 .. 15, b \in 128 .. 191 : a = p /\ b = c
  BY ZenonT(40) DEF Tail80
<1>2. Shift(a, b) \in TenBits
  BY SMTT(30) DEF Shift, TenBits
<1> QED
  BY <1>1, <1>2, Zenon

LEMMA ShiftFrom7 ==
  ASSUME NEW p \in 0 .. 7, NEW c, Tail80(c)
  PROVE  Shift(p, c) \in NineBits
<1>1. PICK a \in 0 .. 7, b \in 128 .. 191 : a = p /\ b = c
  BY ZenonT(40) DEF Tail80
<1>2. Shift(a, b) \in NineBits
  BY SMTT(30) DEF Shift, NineBits
<1> QED
  BY <1>1, <1>2, Zenon

LEMMA ShiftFromNine ==
  ASSUME NEW p \in NineBits, NEW c, Tail80(c)
  PROVE  Shift(p, c) \in Unfinished
<1>1. PICK a \in 0 .. 511, b \in 128 .. 191 : a = p /\ b = c
  BY ZenonT(40) DEF Tail80, NineBits
<1>2. Shift(a, b) \in Unfinished
  BY SMTT(30) DEF Shift, Unfinished
<1> QED
  BY <1>1, <1>2, Zenon

(* The arithmetic of the code, which takes the low six bits.               *)
LEMMA ShiftBits ==
  ASSUME NEW p \in Int, NEW c \in 128 .. 191
  PROVE  Shift(p, c) = (p * 64) + (c % 64)
<1>1. c % 64 = c - 128
  OBVIOUS
<1> QED
  BY <1>1 DEF Shift

LEMMA BegunPoint ==
  ASSUME NEW n \in 1 .. 3, NEW s, NEW p, Begun(s, n, p), Len(s) <= n
  PROVE  p \in Unfinished
<1>0. s[1] \in Lead(n)
  BY DEF Begun
<1>1. /\ Bits1(s, n) \in 0 .. 31
      /\ n >= 2 => Bits1(s, n) \in 0 .. 15
      /\ n = 3 => Bits1(s, n) \in 0 .. 7
  BY <1>0, FirstPart
<1>2. CASE Len(s) = 1 /\ p = Bits1(s, n)
  <2>1. Bits1(s, n) \in Unfinished
    BY SMTT(30), <1>1 DEF Unfinished
  <2> QED
    BY <1>2, <2>1
<1>3. CASE Len(s) = 2 /\ Tail80(s[2]) /\ p = Bits2(s, n)
  <2>1. n >= 2
    BY <1>3
  <2>2. Bits2(s, n) \in TenBits
    BY <1>1, <1>3, <2>1, ShiftFrom15, Zenon DEF Bits2
  <2>3. \A i \in TenBits : i \in Unfinished
    BY SMTT(30) DEF TenBits, Unfinished
  <2> QED
    BY <1>3, <2>2, <2>3, Zenon
<1>4. CASE Len(s) = 3 /\ Tail80(s[2]) /\ Tail80(s[3]) /\ p = Bits3(s, n)
  <2>1. n = 3
    BY <1>4
  <2>2. Bits2(s, n) \in NineBits
    BY <1>1, <1>4, <2>1, ShiftFrom7, Zenon DEF Bits2
  <2>3. Bits3(s, n) \in Unfinished
    BY <1>4, <2>2, ShiftFromNine, Zenon DEF Bits3
  <2> QED
    BY <1>4, <2>3, Zenon
<1> QED
  BY <1>2, <1>3, <1>4, Zenon DEF Begun

LEMMA OneMore ==
  ASSUME NEW n \in 1 .. 3, NEW s \in Seq(Byte), NEW p \in Int,
         Begun(s, n, p), NEW c \in Byte, Tail80(c)
  PROVE  LET t == Append(s, c)
             q == Shift(p, c)
         IN /\ t \in Seq(Byte) /\ Len(t) = Len(s) + 1 /\ t[1] \in Lead(n)
            /\ \A i \in 2 .. Len(t) : Tail80(t[i])
            /\ Len(s) = 1 => q = Bits2(t, n)
            /\ Len(s) = 2 => q = Bits3(t, n)
            /\ Len(s) = 3 => q = Bits4(t, n)
            /\ Len(s) < 3 => Begun(t, n, q)
<1> DEFINE t == Append(s, c)
           q == Shift(p, c)
<1>1. /\ t \in Seq(Byte) /\ Len(t) = Len(s) + 1
      /\ \A i \in 1 .. Len(s) : t[i] = s[i]
      /\ t[Len(s) + 1] = c
  BY AppendProperties
<1> HIDE DEF t, q
<1>3. CASE Len(s) = 1 /\ p = Bits1(s, n)
  <2>1. Len(t) = 2 /\ t[1] = s[1] /\ t[2] = c
    BY <1>1, <1>3
  <2>2. q = Bits2(t, n) /\ t[1] \in Lead(n)
    BY <1>3, <2>1 DEF Bits2, Bits1, Begun, q
  <2>3. \A i \in 2 .. Len(t) : i = 2
    BY <2>1
  <2> QED
    BY <1>1, <1>3, <2>1, <2>2, <2>3 DEF Begun, t, q
<1>4. CASE Len(s) = 2 /\ Tail80(s[2]) /\ p = Bits2(s, n)
  <2>1. Len(t) = 3 /\ t[1] = s[1] /\ t[2] = s[2] /\ t[3] = c
    BY <1>1, <1>4
  <2>2. q = Bits3(t, n) /\ t[1] \in Lead(n)
    BY <1>4, <2>1 DEF Bits3, Bits2, Bits1, Begun, q
  <2>3. \A i \in 2 .. Len(t) : i = 2 \/ i = 3
    BY <2>1
  <2> QED
    BY <1>1, <1>4, <2>1, <2>2, <2>3 DEF Begun, t, q
<1>5. CASE Len(s) = 3 /\ Tail80(s[2]) /\ Tail80(s[3]) /\ p = Bits3(s, n)
  <2>1. /\ Len(t) = 4 /\ t[1] = s[1] /\ t[2] = s[2] /\ t[3] = s[3]
        /\ t[4] = c
    BY <1>1, <1>5
  <2>2. q = Bits4(t, n) /\ t[1] \in Lead(n)
    BY <1>5, <2>1 DEF Bits4, Bits3, Bits2, Bits1, Begun, q
  <2>3. \A i \in 2 .. Len(t) : i = 2 \/ i = 3 \/ i = 4
    BY <2>1
  <2> QED
    BY <1>1, <1>5, <2>1, <2>2, <2>3 DEF Begun, t, q
<1> QED
  BY <1>3, <1>4, <1>5 DEF Begun
-----------------------------------------------------------------------------
(* valid_utf8: what it knows of the text at each byte.                     *)
TextTypes ==
  /\ left \in 0 .. MaxFrame /\ size \in 0 .. 3 /\ need \in 0 .. size
  /\ need <= left \/ pc = "done"
  /\ codepoint \in Unfinished /\ char \in Seq(Byte) /\ well \in BOOLEAN

ScanInv == TextTypes /\ TextInv /\ TextAccepted /\ TextRefused

LEMMA BadLeadForm ==
  ASSUME NEW c \in 0 .. 255, NEW rest \in Nat, BadLead(c, rest)
  PROVE  NoForm(<<c>>, rest)
<1> DEFINE s == <<c>>
<1>1. s[1] = c /\ Len(s) = 1
  OBVIOUS
<1> HIDE DEF s
<1>2. ASSUME c \notin 1 .. 127 /\ \A n \in 1 .. 3 : c \notin Lead(n)
      PROVE  NoForm(s, rest)
  BY <1>1, <1>2 DEF NoForm
<1>3. CASE c = 0
  BY <1>2, <1>3 DEF Lead, s
<1>4. CASE c >= 128 /\ Continuation(c) = 0
  <2>1. c \notin 192 .. 247
    BY <1>4, ByteClasses DEF Continuation
  <2> QED
    BY <1>2, <1>4, <2>1 DEF s, Lead
<1>5. CASE Continuation(c) = 1 /\ FirstBits(c) < 2
  <2>1. c \in {192, 193}
    BY <1>5, ByteClasses DEF Continuation, FirstBits
  <2> QED
    BY <1>2, <2>1 DEF s, Lead
<1>6. CASE Continuation(c) > rest /\ c # 0
  <2>1. ASSUME NEW n \in 1 .. 3, c \in Lead(n)
        PROVE  Continuation(c) = n
    <3>1. CASE n = 1
      BY <2>1, <3>1, ByteClasses DEF Continuation, Lead
    <3>2. CASE n = 2
      BY <2>1, <3>2, ByteClasses DEF Continuation, Lead
    <3>3. CASE n = 3
      BY <2>1, <3>3, ByteClasses DEF Continuation, Lead
    <3> QED
      BY <3>1, <3>2, <3>3
  <2>2. CASE \A n \in 1 .. 3 : c \notin Lead(n)
    <3>1. c \notin 1 .. 127
      BY <1>6, ByteClasses DEF Continuation
    <3> QED
      BY <1>2, <2>2, <3>1 DEF s
  <2>3. CASE \E n \in 1 .. 3 : c \in Lead(n)
    <3>1. PICK n \in 1 .. 3 : c \in Lead(n)
      BY <2>3
    <3>2. Len(s) + rest < n + 1
      BY <1>1, <1>6, <2>1, <3>1
    <3> QED
      BY <1>1, <3>1, <3>2 DEF NoForm, s
  <2> QED
    BY <2>2, <2>3
<1> QED
  BY <1>3, <1>4, <1>5, <1>6 DEF BadLead, s

(* A text that is given up.                                                *)
LEMMA GivenUp ==
  ASSUME NEW s \in Seq(Byte), s # <<>>, NEW room \in Nat, NoForm(s, room),
         char' = s, left' = room
  PROVE  TextRefused'
<1>1. \A n \in 0 .. 4 - Len(s) : n <= room =>
        \A rest \in [1 .. n -> Byte] : ~WellFormed(s \o rest)
  BY NoCharacter
<1> QED
  BY <1>1, Zenon DEF TextRefused

LEMMA LeadByteScan ==
  ASSUME RequestAssumption, ScanInv, NEW c \in Byte, LeadByte(c)
  PROVE  ScanInv'
<1>0. /\ c \in 0 .. 255 /\ left - 1 \in Nat /\ left - 1 \in 0 .. MaxFrame
      /\ size = 0 /\ codepoint = 0 /\ char = <<>> /\ need = 0
      /\ pc = "text" /\ left' = left - 1
      /\ size \in 0 .. 3 /\ need \in 0 .. size /\ MaxFrame \in Nat
      /\ well \in BOOLEAN /\ well
  BY DEF RequestAssumption, ScanInv, TextTypes, TextInv, TextAccepted,
         LeadByte
<1>w. well
  BY <1>0
<1>1. CASE /\ BadLead(c, left - 1) /\ Reject("INVALID_REQUEST")
           /\ char' = <<c>> /\ UNCHANGED <<size, need, codepoint, well>>
  <2>1. <<c>> \in Seq(Byte) /\ <<c>> # <<>>
    OBVIOUS
  <2>2. PICK room \in Nat : room = left - 1
    BY <1>0
  <2>3. TextRefused'
    BY <1>0, <1>1, <2>1, <2>2, BadLeadForm, GivenUp
  <2>4. pc' = "done"
    BY <1>1 DEF Reject, Goto
  <2>5. TextTypes'
    BY <1>0, <1>1, <2>1, <2>4 DEF TextTypes, ScanInv
  <2>6. TextInv'
    BY <2>4 DEF TextInv
  <2>7. TextAccepted'
    BY <1>0, <1>1, <2>4 DEF TextAccepted
  <2> QED
    BY <2>3, <2>5, <2>6, <2>7 DEF ScanInv
<1>2. CASE /\ ~BadLead(c, left - 1) /\ c < 128
           /\ CharacterEnds /\ well' = (well /\ WellFormed(<<c>>))
  <2>1. c \in 1 .. 127
    <3>1. PICK rest \in Nat : rest = left - 1
      BY <1>0
    <3>2. ~BadLead(c, rest)
      BY <1>2, <3>1
    <3>3. Octet(c)
      BY <1>0 DEF Octet
    <3>4. Taken(c, rest)
      BY <3>2, <3>3, LeadBytes, Zenon
    <3> QED
      BY <1>2, <3>4 DEF Taken
  <2>2. WellFormed(<<c>>)
    BY <2>1 DEF WellFormed
  <2>3. /\ need' = 0 /\ size' = 0 /\ codepoint' = 0 /\ char' = <<>>
        /\ pc' = "text"
    BY <1>0, <1>2 DEF CharacterEnds
  <2>4. well'
    BY <1>w, <1>2, <2>2, Zenon
  <2>5. TextTypes'
    BY <1>0, <2>3, <2>4, NoPoint DEF TextTypes
  <2>6. TextInv'
    BY <2>3 DEF TextInv
  <2>7. TextAccepted' /\ TextRefused'
    BY <2>3, <2>4, Zenon DEF TextAccepted, TextRefused
  <2> QED
    BY <2>5, <2>6, <2>7 DEF ScanInv
<1>3. CASE /\ ~BadLead(c, left - 1) /\ c >= 128
           /\ size' = Continuation(c) /\ need' = Continuation(c)
           /\ codepoint' = FirstBits(c) /\ char' = <<c>>
           /\ UNCHANGED <<pc, result, well>>
  <2>1. PICK n \in 1 .. 3 :
          /\ n = Continuation(c) /\ n <= left - 1 /\ c \in Lead(n)
          /\ FirstBits(c) = c - Marker(n)
    <3>1. PICK rest \in Nat : rest = left - 1
      BY <1>0
    <3>2. Octet(c)
      BY <1>0 DEF Octet
    <3>3. ~BadLead(c, rest)
      BY <1>3, <3>1
    <3>4. /\ Continuation(c) \in 1 .. 3 /\ Continuation(c) <= rest
          /\ c \in Lead(Continuation(c))
          /\ FirstBits(c) = c - Marker(Continuation(c))
      <4>1. Taken(c, rest)
        BY <3>2, <3>3, LeadBytes, Zenon
      <4> QED
        BY <1>3, <4>1 DEF Taken, Begins
    <3> QED
      BY <3>1, <3>4
  <2>2. <<c>> \in Seq(Byte) /\ Len(<<c>>) = 1 /\ <<c>>[1] = c
    OBVIOUS
  <2>3. PICK s : s = <<c>>
    OBVIOUS
  <2>4. Begun(s, n, FirstBits(c))
    BY <2>1, <2>2, <2>3 DEF Begun, Bits1
  <2>5. FirstBits(c) \in Unfinished
    <3>1. Len(s) <= n
      BY <2>2, <2>3
    <3> QED
      BY <2>4, <3>1, BegunPoint, Zenon
  <2>6. TextTypes'
    BY <1>0, <1>3, <2>1, <2>2, <2>5 DEF TextTypes
  <2>7. /\ pc' = "text" /\ need' = n /\ size' = n /\ char' = s
        /\ codepoint' = FirstBits(c)
    BY <1>0, <1>3, <2>1, <2>3
  <2>8. Begun(char', size', codepoint')
    BY <2>4, <2>7, Zenon
  <2>9. Len(char') = 1 + size' - need'
    BY <2>2, <2>3, <2>7
  <2>10. TextInv'
    BY <2>7, <2>8, <2>9 DEF TextInv
  <2>11. TextAccepted' /\ TextRefused'
    BY <1>w, <1>3, <2>7, Zenon DEF TextAccepted, TextRefused
  <2> QED
    BY <2>6, <2>10, <2>11 DEF ScanInv
<1> QED
  BY <1>1, <1>2, <1>3, Zenon DEF LeadByte

LEMMA ContinuationByteScan ==
  ASSUME RequestAssumption, ScanInv, NEW c \in Byte, ContinuationByte(c)
  PROVE  ScanInv'
<1> DEFINE p == (codepoint * 64) + (c % 64)
           s == Append(char, c)
<1>0. /\ c \in 0 .. 255 /\ left \in 0 .. MaxFrame /\ MaxFrame \in Nat
      /\ left - 1 \in Nat /\ left - 1 \in 0 .. MaxFrame
      /\ size \in 1 .. 3 /\ need \in 1 .. size /\ need <= left
      /\ codepoint \in Unfinished /\ char \in Seq(Byte)
      /\ Len(char) = 1 + size - need /\ Begun(char, size, codepoint)
      /\ pc = "text" /\ left' = left - 1
      /\ well \in BOOLEAN /\ well
  BY DEF RequestAssumption, ScanInv, TextTypes, TextInv, TextAccepted,
         ContinuationByte
<1>1. /\ s \in Seq(Byte) /\ Len(s) = Len(char) + 1 /\ s # <<>>
      /\ Len(s) \in 2 .. size + 1 /\ s[Len(s)] = c /\ s[1] = char[1]
  <2>1. /\ s \in Seq(Byte) /\ Len(s) = Len(char) + 1
        /\ s[Len(char) + 1] = c
        /\ \A i \in 1 .. Len(char) : s[i] = char[i]
    BY <1>0, AppendProperties
  <2>2. s # <<>>
    BY <1>0, <2>1, EmptySeq
  <2> HIDE DEF s
  <2> QED
    BY <1>0, <2>1, <2>2
<1>2. c \div 64 = 2 <=> Tail80(c)
  BY <1>0, ByteClasses DEF Tail80
<1>3. char[1] \in Lead(size)
  BY <1>0 DEF Begun
<1>4. ASSUME Tail80(c)
      PROVE  /\ \A i \in 2 .. Len(s) : Tail80(s[i])
             /\ Len(s) = 2 => p = Bits2(s, size)
             /\ Len(s) = 3 => p = Bits3(s, size)
             /\ Len(s) = 4 => p = Bits4(s, size)
             /\ Len(s) < 4 => Begun(s, size, p)
  <2>1. codepoint \in Int
    <3>1. codepoint \in Unfinished
      BY <1>0
    <3> QED
      BY SMTT(30), <3>1 DEF Unfinished
  <2>2. p = Shift(codepoint, c)
    BY <1>4, <2>1, ShiftBits DEF Tail80
  <2>3. PICK a \in Seq(Byte), k \in 1 .. 3, q \in Int :
          a = char /\ k = size /\ q = codepoint
    BY <1>0, <2>1
  <2>4. /\ \A i \in 2 .. Len(Append(a, c)) : Tail80(Append(a, c)[i])
        /\ Len(a) = 1 => Shift(q, c) = Bits2(Append(a, c), k)
        /\ Len(a) = 2 => Shift(q, c) = Bits3(Append(a, c), k)
        /\ Len(a) = 3 => Shift(q, c) = Bits4(Append(a, c), k)
        /\ Len(a) < 3 => Begun(Append(a, c), k, Shift(q, c))
    <3>1. Begun(a, k, q)
      BY <1>0, <2>3
    <3> QED
      BY <1>4, <3>1, OneMore
  <2>5. /\ Len(s) = 2 <=> Len(char) = 1
        /\ Len(s) = 3 <=> Len(char) = 2
        /\ Len(s) = 4 <=> Len(char) = 3
        /\ Len(s) < 4 <=> Len(char) < 3
    <3> HIDE DEF s
    <3> QED
      BY <1>0, <1>1
  <2> HIDE DEF p
  <2> QED
    BY <2>2, <2>3, <2>4, <2>5, Zenon DEF s
<1>5. ASSUME Tail80(c), need = 1
      PROVE  BadCodepoint(size, p) <=> ~WellFormed(s)
  <2>1. Len(s) = size + 1
    <3> HIDE DEF s
    <3> QED
      BY <1>0, <1>1, <1>5
  <2>2. p = IF size = 1 THEN Bits2(s, size)
            ELSE IF size = 2 THEN Bits3(s, size) ELSE Bits4(s, size)
    <3> HIDE DEF s, p
    <3> QED
      BY <1>0, <1>4, <1>5, <2>1
  <2> HIDE DEF s, p
  <2>3. \A i \in 2 .. size + 1 : Tail80(s[i])
    BY <1>4, <1>5, <2>1
  <2>4. s[1] \in Lead(size)
    BY <1>1, <1>3
  <2> QED
    BY <1>0, <2>1, <2>2, <2>3, <2>4, Complete
<1> HIDE DEF s, p
<1>6. CASE /\ c \div 64 # 2 \/ (need = 1 /\ BadCodepoint(size, p))
           /\ Reject("INVALID_REQUEST")
           /\ char' = s /\ UNCHANGED <<size, need, codepoint, well>>
  <2>1. PICK room \in Nat : room = left - 1
    BY <1>0
  <2>2. NoForm(s, room)
    <3>1. CASE ~Tail80(c)
      <4>1. Len(s) \in 2 .. Len(s)
        BY <1>0, <1>1
      <4> QED
        BY <1>1, <3>1, <4>1, Zenon DEF NoForm
    <3>2. CASE Tail80(c)
      <4>1. need = 1 /\ ~WellFormed(s)
        BY <1>2, <1>5, <1>6, <3>2
      <4>2. Len(s) = size + 1 /\ s[1] \in Lead(size) /\ size \in 1 .. 3
        BY <1>0, <1>1, <1>3, <4>1
      <4> QED
        BY <4>1, <4>2, Zenon DEF NoForm
    <3> QED
      BY <3>1, <3>2
  <2>3. TextRefused'
    BY <1>0, <1>1, <1>6, <2>1, <2>2, GivenUp
  <2>4. pc' = "done"
    BY <1>6 DEF Reject, Goto
  <2>5. TextTypes'
    BY <1>0, <1>1, <1>6, <2>4 DEF TextTypes
  <2>6. TextInv'
    BY <2>4 DEF TextInv
  <2>7. TextAccepted'
    BY <1>0, <1>6, <2>4 DEF TextAccepted
  <2> QED
    BY <2>3, <2>5, <2>6, <2>7 DEF ScanInv
<1>7. CASE /\ c \div 64 = 2 /\ need > 1
           /\ need' = need - 1 /\ codepoint' = p /\ char' = s
           /\ UNCHANGED <<pc, result, size, well>>
  <2>1. Tail80(c)
    BY <1>2, <1>7
  <2>2. Len(s) <= size /\ Len(s) < 4 /\ Len(s) = 1 + size - (need - 1)
    BY <1>0, <1>1, <1>7
  <2>3. Begun(s, size, p)
    BY <1>4, <2>1, <2>2
  <2>4. p \in Unfinished
    BY <1>0, <2>2, <2>3, BegunPoint, Zenon
  <2>5. TextTypes'
    BY <1>0, <1>1, <1>7, <2>4 DEF TextTypes
  <2>6. Begun(char', size', codepoint')
    BY <1>7, <2>3
  <2>7. TextInv'
    BY <1>0, <1>7, <2>2, <2>6 DEF TextInv
  <2>8. pc' = "text" /\ well' = well
    BY <1>0, <1>7
  <2>9. TextAccepted' /\ TextRefused'
    BY <1>0, <2>8, Zenon DEF TextAccepted, TextRefused
  <2> QED
    BY <2>5, <2>7, <2>9 DEF ScanInv
<1>8. CASE /\ c \div 64 = 2 /\ need = 1 /\ ~BadCodepoint(size, p)
           /\ CharacterEnds /\ well' = (well /\ WellFormed(s))
  <2>1. WellFormed(s)
    BY <1>2, <1>5, <1>8
  <2>2. /\ need' = 0 /\ size' = 0 /\ codepoint' = 0 /\ char' = <<>>
        /\ pc' = "text"
    BY <1>0, <1>8 DEF CharacterEnds
  <2>3. well'
    BY <1>0, <1>8, <2>1, Zenon
  <2>4. TextTypes'
    BY <1>0, <2>2, <2>3, NoPoint DEF TextTypes
  <2>5. TextInv'
    BY <2>2 DEF TextInv
  <2>6. TextAccepted' /\ TextRefused'
    BY <2>2, <2>3, Zenon DEF TextAccepted, TextRefused
  <2> QED
    BY <2>4, <2>5, <2>6 DEF ScanInv
<1> QED
  BY <1>6, <1>7, <1>8, Zenon DEF ContinuationByte, p, s
-----------------------------------------------------------------------------
(* Looking up a key among members whose keys are unique.                   *)
LEMMA Lookup ==
  ASSUME NEW r, IsObject(r), ~HasDuplicateKeys(r)
  PROVE  /\ \A m \in Range(r) : Has(r, m.key) /\ Item(r, m.key) = m.value
         /\ \A key : Has(r, key) =>
              \E m \in Range(r) : m.key = key /\ m.value = Item(r, key)
<1>1. DOMAIN r = 1 .. Len(r) /\ Len(r) \in Nat
  BY LenProperties DEF IsObject
<1>2. \A i, j \in DOMAIN r : r[i].key = r[j].key => i = j
  BY <1>1 DEF HasDuplicateKeys
<1>3. ASSUME NEW m \in Range(r)
      PROVE  Has(r, m.key) /\ Item(r, m.key) = m.value
  <2>1. PICK i \in DOMAIN r : r[i] = m
    BY Zenon DEF Range
  <2> DEFINE k == CHOOSE k \in DOMAIN r : r[k].key = m.key
  <2>3. k \in DOMAIN r /\ r[k].key = m.key
    BY <2>1, Zenon
  <2>4. k = i
    BY <1>2, <2>1, <2>3, Zenon
  <2> QED
    BY <2>1, <2>3, <2>4, Zenon DEF Has, Item
<1>4. ASSUME NEW key, Has(r, key)
      PROVE  \E m \in Range(r) : m.key = key /\ m.value = Item(r, key)
  <2> DEFINE k == CHOOSE k \in DOMAIN r : r[k].key = key
  <2>2. k \in DOMAIN r /\ r[k].key = key
    BY <1>4, Zenon DEF Has
  <2>3. r[k] \in Range(r)
    BY <2>2, Zenon DEF Range
  <2> QED
    BY <2>2, <2>3, Zenon DEF Item
<1> QED
  BY <1>3, <1>4

LEMMA OnceUnlessTwice ==
  ASSUME NEW r, IsObject(r)
  PROVE  KeysOnce(r) <=> ~HasDuplicateKeys(r)
<1>1. DOMAIN r = 1 .. Len(r) /\ Len(r) \in Nat
  BY LenProperties DEF IsObject
<1> QED
  BY <1>1 DEF HasDuplicateKeys, KeysOnce

(* A field of an object is as described when its item passes its check.    *)
ItemOK(r, key) == FieldTaken([key |-> key, value |-> Item(r, key)])

LEMMA SameField ==
  ASSUME NEW m, NEW w, m.key = w.key, m.value = w.value
  PROVE  FieldOK(m) <=> FieldOK(w)
BY Zenon DEF FieldOK

LEMMA FieldItems ==
  ASSUME NEW r, IsObject(r), ~HasDuplicateKeys(r)
  PROVE  /\ (\A m \in Range(r) : FieldTaken(m)) <=>
              \A key \in Keys(r) : ItemOK(r, key)
         /\ \A key : key \in Keys(r) <=> Has(r, key)
         /\ \A key \in Keys(r) : IsValue(Item(r, key))
<1>1. ASSUME NEW m \in Range(r)
      PROVE  FieldTaken(m) <=> ItemOK(r, m.key)
  <2>1. Item(r, m.key) = m.value
    BY Lookup, Zenon
  <2>2. ASSUME NEW w, w.key = m.key, w.value = m.value
        PROVE  FieldTaken(m) <=> FieldTaken(w)
    <3>1. FieldOK(m) <=> FieldOK(w)
      BY <2>2, SameField, Zenon
    <3>2. (AnyUnit(m) <=> AnyUnit(w)) /\ (EmptyText(m) <=> EmptyText(w))
      BY <2>2, Zenon DEF AnyUnit, EmptyText
    <3> QED
      BY <3>1, <3>2, Zenon DEF FieldTaken
  <2> DEFINE w == [key |-> m.key, value |-> Item(r, m.key)]
  <2>4. w.key = m.key /\ w.value = m.value
    BY <2>1
  <2>5. ItemOK(r, m.key) <=> FieldTaken(w)
    BY DEF ItemOK
  <2> HIDE DEF w
  <2> QED
    BY <2>2, <2>4, <2>5, Zenon
<1>2. ASSUME NEW key
      PROVE  key \in Keys(r) <=> Has(r, key)
  <2>1. ASSUME Has(r, key)
        PROVE  key \in Keys(r)
    <3>1. \E m \in Range(r) : m.key = key
      BY <2>1, Lookup, Zenon
    <3> QED
      BY <3>1 DEF Keys
  <2>2. ASSUME key \in Keys(r)
        PROVE  Has(r, key)
    <3>1. PICK m \in Range(r) : m.key = key
      BY <2>2 DEF Keys
    <3> QED
      BY <3>1, Lookup, Zenon
  <2> QED
    BY <2>1, <2>2
<1>3. ASSUME NEW key \in Keys(r)
      PROVE  IsValue(Item(r, key))
  <2>1. PICK m \in Range(r) : m.key = key
    BY Zenon DEF Keys
  <2> QED
    BY <2>1, Lookup, Zenon DEF IsObject
<1> QED
  BY <1>1, <1>2, <1>3, Zenon DEF Keys

(* The check of each field, as the code makes it.                          *)
LEMMA SeqCheck ==
  ASSUME NEW r, IsValue(Item(r, "seq")), Has(r, "seq"), RequestAssumption
  PROVE  ItemOK(r, "seq") <=> SeqValid(r)
<1> DEFINE v == Item(r, "seq")
<1>1. ItemOK(r, "seq") <=>
        /\ v.type = "number" /\ v.finite
        /\ v.whole /\ v.floor \in 1 .. Int32Max
  BY DEF ItemOK, FieldTaken, FieldOK, AnyUnit, EmptyText
<1>2. v.type = "number" => v.floor \in Int
  BY DEF IsValue
<1>3. SeqValid(r) <=>
        /\ v.type = "number" /\ v.finite /\ v.floor >= 1
        /\ v.floor <= Int32Max /\ v.whole
  BY DEF SeqValid
<1> HIDE DEF v
<1> QED
  BY <1>1, <1>2, <1>3 DEF RequestAssumption

LEMMA PassCheck ==
  ASSUME NEW r
  PROVE  ItemOK(r, "pass") <=> Item(r, "pass").type = "bool"
BY DEF ItemOK, FieldTaken, FieldOK, AnyUnit, EmptyText

LEMMA ValueCheck ==
  ASSUME NEW r
  PROVE  ItemOK(r, "value") <=>
           Item(r, "value").type = "number" /\ Item(r, "value").finite
BY DEF ItemOK, FieldTaken, FieldOK, AnyUnit, EmptyText

LEMMA CmdCheck ==
  ASSUME NEW r, IsValue(Item(r, "cmd"))
  PROVE  ItemOK(r, "cmd") <=> Fits(r, "cmd", Capacity.command_text)
<1>1. ItemOK(r, "cmd") <=>
        /\ Item(r, "cmd").type = "string"
        /\ Item(r, "cmd").length \in 1 .. 31
  BY DEF ItemOK, FieldTaken, FieldOK, AnyUnit, EmptyText
<1>2. Item(r, "cmd").type = "string" => Item(r, "cmd").length \in Nat
  BY DEF IsValue
<1>3. Capacity.command_text = 32
  BY DEF Capacity
<1> QED
  BY <1>1, <1>2, <1>3 DEF Fits

LEMMA UnitIdCheck ==
  ASSUME NEW r, IsValue(Item(r, "unit_id"))
  PROVE  ItemOK(r, "unit_id") <=> Fits(r, "unit_id", Capacity["unit_id"])
<1>1. ItemOK(r, "unit_id") <=>
        /\ Item(r, "unit_id").type = "string"
        /\ Item(r, "unit_id").length \in 1 .. 47
  BY DEF ItemOK, FieldTaken, FieldOK, AnyUnit, EmptyText
<1>2. Item(r, "unit_id").type = "string" => Item(r, "unit_id").length \in Nat
  BY DEF IsValue
<1>3. Capacity["unit_id"] = 48
  BY DEF Capacity
<1> QED
  BY <1>1, <1>2, <1>3 DEF Fits

LEMMA TestIdCheck ==
  ASSUME NEW r, IsValue(Item(r, "test_id"))
  PROVE  ItemOK(r, "test_id") <=> Fits(r, "test_id", Capacity["test_id"])
<1>1. ItemOK(r, "test_id") <=>
        /\ Item(r, "test_id").type = "string"
        /\ Item(r, "test_id").length \in 1 .. 39
  BY DEF ItemOK, FieldTaken, FieldOK, AnyUnit, EmptyText
<1>2. Item(r, "test_id").type = "string" => Item(r, "test_id").length \in Nat
  BY DEF IsValue
<1>3. Capacity["test_id"] = 40
  BY DEF Capacity
<1> QED
  BY <1>1, <1>2, <1>3 DEF Fits

LEMMA UnitCheck ==
  ASSUME NEW r, IsValue(Item(r, "unit"))
  PROVE  ItemOK(r, "unit") <=> Fits(r, "unit", Capacity["unit"])
<1>1. ItemOK(r, "unit") <=>
        /\ Item(r, "unit").type = "string"
        /\ Item(r, "unit").length \in 1 .. 15
  BY DEF ItemOK, FieldTaken, FieldOK, AnyUnit, EmptyText
<1>2. Item(r, "unit").type = "string" => Item(r, "unit").length \in Nat
  BY DEF IsValue
<1>3. Capacity["unit"] = 16
  BY DEF Capacity
<1> QED
  BY <1>1, <1>2, <1>3 DEF Fits

LEMMA DetailCheck ==
  ASSUME NEW r, IsValue(Item(r, "detail"))
  PROVE  ItemOK(r, "detail") <=> Fits(r, "detail", Capacity["detail"])
<1>1. ItemOK(r, "detail") <=>
        /\ Item(r, "detail").type = "string"
        /\ Item(r, "detail").length \in 1 .. 95
  BY DEF ItemOK, FieldTaken, FieldOK, AnyUnit, EmptyText
<1>2. Item(r, "detail").type = "string" => Item(r, "detail").length \in Nat
  BY DEF IsValue
<1>3. Capacity["detail"] = 96
  BY DEF Capacity
<1> QED
  BY <1>1, <1>2, <1>3 DEF Fits

(* The keys a command may carry.                                           *)
LEMMA AllowedKeys ==
  ASSUME NEW command, NEW field
  PROVE  FieldAllowed(command, field) <=>
           field \in Required(command) \cup Optional(command)
BY DEF FieldAllowed, Required, Optional

LEMMA DescribedBy ==
  ASSUME NEW r, IsObject(r), ~HasDuplicateKeys(r), Has(r, "cmd"),
         NEW c, Item(r, "cmd").text = c
  PROVE  Described(r) <=>
           /\ c \in Commands /\ Required(c) \subseteq Keys(r)
           /\ \A m \in Range(r) : FieldAllowed(c, m.key)
           /\ \A key \in Keys(r) : ItemOK(r, key)
<1>1. KeysOnce(r)
  BY OnceUnlessTwice
<1>2. (\A m \in Range(r) : FieldTaken(m)) <=>
        \A key \in Keys(r) : ItemOK(r, key)
  BY FieldItems, Zenon
<1>3. (\A m \in Range(r) : FieldAllowed(c, m.key)) <=>
        Keys(r) \subseteq Required(c) \cup Optional(c)
  BY AllowedKeys, Zenon DEF Keys
<1>4. FieldsComplete(r)
      <=> /\ c \in Commands /\ Required(c) \subseteq Keys(r)
          /\ Keys(r) \subseteq Required(c) \cup Optional(c)
  <2>1. PICK w \in Range(r) : w.key = "cmd" /\ w.value = Item(r, "cmd")
    BY Lookup, Zenon
  <2>2. \A m \in Range(r) : m.key = "cmd" => m.value.text = c
    <3>1. \A m \in Range(r) : Item(r, m.key) = m.value
      BY Lookup, Zenon
    <3> QED
      BY <3>1, Zenon
  <2>3. w.value.text = c
    BY <2>1, <2>2, Zenon
  <2> QED
    BY <2>1, <2>2, <2>3, Zenon DEF FieldsComplete
<1> QED
  BY <1>1, <1>2, <1>3, <1>4, Zenon DEF Described

(* What has to hold of the fields for the last step to accept them.        *)
ReadOK(command) ==
  /\ command = "session.start" => StringOK("unit_id", TRUE)
  /\ command = "fixture.record" =>
       /\ StringOK("test_id", TRUE) /\ PassOK /\ ValueOK
       /\ StringOK("unit", FALSE) /\ StringOK("detail", FALSE)

LEMMA ReadChecks ==
  ASSUME RequestAssumption, IsObject(root), ~HasDuplicateKeys(root),
         EnvelopeOK,
         \A m \in Range(root) : FieldAllowed(request.command, m.key)
  PROVE  ReadOK(request.command) <=> Described(root)
<1> DEFINE c == request.command
           H(key) == Has(root, key)
           V(key) == ItemOK(root, key)
<1>1. /\ c = Item(root, "cmd").text /\ c \in Commands
      /\ H("seq") /\ H("cmd")
  BY DEF EnvelopeOK, SeqValid, Blank
<1>2. \A key : key \in Keys(root) <=> H(key)
  BY FieldItems, Zenon
<1>3. \A key : H(key) => IsValue(Item(root, key))
  BY <1>2, FieldItems, Zenon
<1>4. V("seq") /\ V("cmd")
  BY <1>1, <1>3, SeqCheck, CmdCheck, Zenon DEF EnvelopeOK
<1>5. \A key : H(key) => FieldAllowed(c, key)
  BY <1>2, Zenon DEF Keys
<1>6. Described(root) <=>
        Required(c) \subseteq Keys(root) /\ \A key \in Keys(root) : V(key)
  BY <1>1, DescribedBy, Zenon
<1>7. /\ StringOK("unit_id", TRUE) <=> H("unit_id") /\ V("unit_id")
      /\ StringOK("test_id", TRUE) <=> H("test_id") /\ V("test_id")
      /\ StringOK("unit", FALSE) <=> (H("unit") => V("unit"))
      /\ StringOK("detail", FALSE) <=> (H("detail") => V("detail"))
  BY <1>3, UnitIdCheck, TestIdCheck, UnitCheck, DetailCheck, Zenon
     DEF StringOK
<1>8. /\ PassOK <=> H("pass") /\ V("pass")
      /\ ValueOK <=> (H("value") => V("value"))
  BY PassCheck, ValueCheck, Zenon DEF PassOK, ValueOK
<1> HIDE DEF c, H, V
<1>9. CASE c \notin {"session.start", "fixture.record"}
  <2>1. \A key : H(key) => key \in {"seq", "cmd"}
    BY <1>5, <1>9 DEF FieldAllowed
  <2>2. Required(c) = {"seq", "cmd"}
    BY <1>9 DEF Required
  <2>3. Described(root)
    BY <1>1, <1>2, <1>4, <1>6, <2>1, <2>2
  <2> QED
    BY <1>9, <2>3 DEF ReadOK, c
<1>10. CASE c = "session.start"
  <2>1. \A key : H(key) => key \in {"seq", "cmd", "unit_id"}
    BY <1>5, <1>10 DEF FieldAllowed
  <2>2. Required(c) = {"seq", "cmd", "unit_id"}
    BY <1>10 DEF Required
  <2>3. Described(root) <=> H("unit_id") /\ V("unit_id")
    BY <1>1, <1>2, <1>4, <1>6, <2>1, <2>2
  <2> QED
    BY <1>7, <1>10, <2>3 DEF ReadOK, c
<1>11. CASE c = "fixture.record"
  <2>1. \A key : H(key) => key \in {"seq", "cmd", "test_id", "pass",
                                    "value", "unit", "detail"}
    BY <1>5, <1>11 DEF FieldAllowed
  <2>2. Required(c) = {"seq", "cmd", "test_id", "pass"}
    BY <1>11 DEF Required
  <2>3. Required(c) \subseteq Keys(root) <=> H("test_id") /\ H("pass")
    BY <1>1, <1>2, <2>2
  <2>4. (\A key \in Keys(root) : V(key)) <=>
          /\ H("test_id") => V("test_id")
          /\ H("pass") => V("pass")
          /\ H("value") => V("value")
          /\ H("unit") => V("unit")
          /\ H("detail") => V("detail")
    BY <1>2, <1>4, <2>1
  <2> QED
    BY <1>6, <1>7, <1>8, <1>11, <2>3, <2>4 DEF ReadOK, c
<1> QED
  BY <1>9, <1>10, <1>11

(* What is taken over is what the object says.                             *)
LEMMA SaysCopied ==
  ASSUME NEW key, IsObject(root), ~HasDuplicateKeys(root)
  PROVE  Says(root, key, Copied(key))
<1>1. CASE Has(root, key)
  BY <1>1, Lookup, Zenon DEF Says, Copied
<1>2. CASE ~Has(root, key)
  BY <1>2, Zenon DEF Says, Copied
<1> QED
  BY <1>1, <1>2
-----------------------------------------------------------------------------
(* The steps, and what each leaves to the next.                            *)
CheckTypes ==
  /\ pc \in {"frame", "text", "json", "envelope", "fields", "read", "done"}
  /\ length \in 0 .. MaxFrame + 1 /\ prefixed \in BOOLEAN
  /\ json \in {"none", "bad", "trailing", "object"} /\ IsObject(root)
  /\ result \in Results
  /\ request.seq \in Int /\ request.command \in Commands \cup {"UNKNOWN"}

Inv == /\ ScanInv /\ CheckTypes /\ ChecksInv
       /\ ParsedAsDescribed /\ AnsweredAsAsked

LEMMA BlankTypes == Blank.seq \in Int /\ Blank.command = "UNKNOWN"
                    /\ Blank.seq = -1 /\ Blank.command_text = "unknown"
BY DEF Blank

(* A line given up before its object was there.                            *)
LEMMA RefusedEarly ==
  ASSUME json' # "object", request' = Blank,
         result' \notin {"OK", "UNKNOWN_COMMAND"}
  PROVE  ParsedAsDescribed' /\ AnsweredAsAsked'
BY BlankTypes DEF ParsedAsDescribed, AnsweredAsAsked

(* A step of which the request is not the result.                          *)
LEMMA NotYet ==
  ASSUME pc' # "done"
  PROVE  ParsedAsDescribed' /\ AnsweredAsAsked'
BY DEF ParsedAsDescribed, AnsweredAsAsked

LEMMA SameText ==
  ASSUME ScanInv, UNCHANGED textVars, pc # "done", pc # "frame",
         pc' \notin {"frame", "text"}, need = 0, left = 0
  PROVE  ScanInv'
<1>1. /\ left' = left /\ size' = size /\ need' = need /\ char' = char
      /\ codepoint' = codepoint /\ well' = well
  BY DEF textVars
<1>2. size = 0 /\ codepoint = 0 /\ char = <<>> /\ well
  BY DEF ScanInv, TextInv, TextAccepted
<1>3. TextTypes'
  BY <1>1 DEF ScanInv, TextTypes
<1>4. TextInv'
  BY <1>1, <1>2 DEF TextInv
<1>5. TextAccepted' /\ TextRefused'
  BY <1>1, <1>2, Zenon DEF TextAccepted, TextRefused
<1> QED
  BY <1>3, <1>4, <1>5 DEF ScanInv

LEMMA CheckFrameStep ==
  ASSUME RequestAssumption, Inv, CheckFrame
  PROVE  Inv'
<1>0. /\ pc = "frame" /\ need = 0 /\ size = 0 /\ codepoint = 0
      /\ char = <<>> /\ json = "none" /\ request = Blank /\ well
      /\ length \in 0 .. MaxFrame + 1 /\ MaxFrame \in Nat
      /\ PrefixLength \in Nat /\ left \in 0 .. MaxFrame
  BY DEF Inv, ScanInv, TextTypes, TextInv, TextAccepted, ChecksInv,
         CheckTypes, CheckFrame, RequestAssumption
<1>1. /\ UNCHANGED <<length, prefixed, size, need, codepoint, char, well,
                     json, root, request>>
  BY DEF CheckFrame, lineVars
<1>2. CASE /\ Reject("FRAME_TOO_LONG") \/ Reject("INVALID_FRAME")
           /\ UNCHANGED left
  <2>1. pc' = "done" /\ result' \in {"FRAME_TOO_LONG", "INVALID_FRAME"}
    BY <1>2 DEF Reject, Goto
  <2>2. ScanInv'
    <3>1. TextTypes'
      BY <1>1, <1>2, <2>1 DEF Inv, ScanInv, TextTypes
    <3>2. TextInv' /\ TextAccepted'
      BY <1>0, <1>1, <2>1 DEF TextInv, TextAccepted
    <3>3. TextRefused'
      BY <1>0, <1>1, Zenon DEF TextRefused
    <3> QED
      BY <3>1, <3>2, <3>3 DEF ScanInv
  <2>3. CheckTypes'
    BY <1>1, <2>1 DEF Inv, CheckTypes, Results
  <2>4. ChecksInv'
    BY <2>1 DEF ChecksInv
  <2>5. ParsedAsDescribed' /\ AnsweredAsAsked'
    BY <1>0, <1>1, <2>1, RefusedEarly
  <2> QED
    BY <2>2, <2>3, <2>4, <2>5 DEF Inv
<1>3. CASE /\ length <= MaxFrame /\ length > PrefixLength /\ prefixed
           /\ left' = length - PrefixLength
           /\ Goto("text") /\ UNCHANGED result
  <2>1. pc' = "text" /\ left' \in 0 .. MaxFrame
    BY <1>0, <1>3 DEF Goto
  <2>2. ScanInv'
    <3>1. TextTypes'
      BY <1>0, <1>1, <2>1 DEF Inv, ScanInv, TextTypes
    <3>2. TextInv' /\ TextAccepted'
      BY <1>0, <1>1, <2>1 DEF TextInv, TextAccepted
    <3>3. TextRefused'
      BY <2>1, Zenon DEF TextRefused
    <3> QED
      BY <3>1, <3>2, <3>3 DEF ScanInv
  <2>3. CheckTypes'
    BY <1>1, <1>3, <2>1 DEF Inv, CheckTypes
  <2>4. ChecksInv'
    BY <1>0, <1>1, <1>3, <2>1 DEF ChecksInv
  <2>5. ParsedAsDescribed' /\ AnsweredAsAsked'
    BY <2>1, NotYet
  <2> QED
    BY <2>2, <2>3, <2>4, <2>5 DEF Inv
<1> QED
  BY <1>2, <1>3 DEF CheckFrame

LEMMA ScanStep ==
  ASSUME RequestAssumption, Inv,
         NEW c \in Byte, LeadByte(c) \/ ContinuationByte(c)
  PROVE  Inv'
<1>0. ScanInv'
  BY LeadByteScan, ContinuationByteScan, Zenon DEF Inv
<1>1. /\ UNCHANGED <<length, prefixed, json, root, request>>
      /\ pc = "text" /\ json = "none" /\ request = Blank
  BY DEF LeadByte, ContinuationByte, lineVars, Inv, ChecksInv
<1>2. \/ pc' = "done" /\ result' = "INVALID_REQUEST"
      \/ pc' = "text" /\ result' = result
  BY DEF LeadByte, ContinuationByte, CharacterEnds, Reject, Goto
<1>3. CheckTypes'
  BY <1>1, <1>2 DEF Inv, CheckTypes, Results
<1>4. ChecksInv'
  BY <1>1, <1>2 DEF Inv, ChecksInv
<1>5. ParsedAsDescribed' /\ AnsweredAsAsked'
  BY <1>1, <1>2, RefusedEarly, NotYet
<1> QED
  BY <1>0, <1>3, <1>4, <1>5 DEF Inv

LEMMA TextEndStep ==
  ASSUME RequestAssumption, Inv, TextEnd
  PROVE  Inv'
<1>1. /\ UNCHANGED <<length, prefixed, textVars, json, root, request, result>>
      /\ pc = "text" /\ pc' = "json" /\ need = 0 /\ left = 0
  BY DEF TextEnd, lineVars, Goto
<1>2. ScanInv'
  BY <1>1, SameText DEF Inv
<1>3. CheckTypes'
  BY <1>1 DEF Inv, CheckTypes
<1>4. ChecksInv'
  BY <1>1 DEF Inv, ChecksInv
<1>5. ParsedAsDescribed' /\ AnsweredAsAsked'
  BY <1>1, NotYet
<1> QED
  BY <1>2, <1>3, <1>4, <1>5 DEF Inv

(* What is known of the text at the checks behind it.                      *)
LEMMA TextOver ==
  ASSUME Inv, pc \in {"json", "envelope", "fields", "read"}
  PROVE  need = 0 /\ left = 0
BY DEF Inv, ScanInv, TextInv, TextAccepted

LEMMA ParseJsonStep ==
  ASSUME RequestAssumption, Inv, ParseJson
  PROVE  Inv'
<1>0. /\ pc = "json" /\ UNCHANGED <<length, prefixed, textVars, request>>
      /\ request = Blank /\ pc' \in {"done", "envelope"}
  BY DEF ParseJson, lineVars, Reject, Goto, Inv, ChecksInv
<1>1. ScanInv'
  BY <1>0, TextOver, SameText DEF Inv
<1>2. CASE /\ json' \in {"bad", "trailing"} /\ UNCHANGED root
           /\ pc' = "done" /\ result' \in {"INVALID_JSON", "INVALID_REQUEST"}
  <2>1. CheckTypes'
    BY <1>0, <1>2 DEF Inv, CheckTypes, Results
  <2>2. ChecksInv'
    BY <1>2 DEF ChecksInv
  <2>3. ParsedAsDescribed' /\ AnsweredAsAsked'
    BY <1>0, <1>2, RefusedEarly
  <2> QED
    BY <1>1, <2>1, <2>2, <2>3 DEF Inv
<1>3. CASE json' = "object" /\ root' \in Objects
  <2>1. PICK r \in Objects : r = root'
    BY <1>3
  <2>2. IsObject(r)
    BY DEF RequestAssumption
  <2>3. CASE HasDuplicateKeys(r) /\ pc' = "done"
             /\ result' = "INVALID_REQUEST"
    <3>1. CheckTypes'
      BY <1>0, <1>3, <2>1, <2>2, <2>3 DEF Inv, CheckTypes, Results
    <3>2. ChecksInv'
      BY <2>3 DEF ChecksInv
    <3>3. ~Described(root') /\ ~Identified(root')
      BY <2>1, <2>2, <2>3, OnceUnlessTwice, Zenon DEF Described, Identified
    <3>4. ParsedAsDescribed'
      BY <2>3, <3>3 DEF ParsedAsDescribed
    <3>5. AnsweredAsAsked'
      BY <1>0, <2>3, <3>3, BlankTypes DEF AnsweredAsAsked
    <3> QED
      BY <1>1, <3>1, <3>2, <3>4, <3>5 DEF Inv
  <2>4. CASE ~HasDuplicateKeys(r) /\ pc' = "envelope" /\ UNCHANGED result
    <3>1. CheckTypes'
      BY <1>0, <1>3, <2>1, <2>2, <2>4 DEF Inv, CheckTypes
    <3>2. ChecksInv'
      BY <1>0, <1>3, <2>1, <2>4 DEF Inv, ChecksInv
    <3>3. ParsedAsDescribed' /\ AnsweredAsAsked'
      BY <2>4, NotYet
    <3> QED
      BY <1>1, <3>1, <3>2, <3>3 DEF Inv
  <2> QED
    BY <1>0, <1>3, <2>1, <2>3, <2>4, Zenon DEF ParseJson, Reject, Goto
<1> QED
  BY <1>2, <1>3 DEF ParseJson, Reject, Goto

(* An object says what it is when its envelope is in order.                *)
LEMMA IdentifiedBy ==
  ASSUME RequestAssumption, NEW r, IsObject(r), ~HasDuplicateKeys(r)
  PROVE  Identified(r) <=> /\ SeqValid(r) /\ Has(r, "cmd")
                           /\ Fits(r, "cmd", Capacity.command_text)
<1>1. KeysOnce(r)
  BY OnceUnlessTwice
<1>2. /\ \A key : key \in Keys(r) <=> Has(r, key)
      /\ \A key \in Keys(r) : IsValue(Item(r, key))
  BY FieldItems, Zenon
<1>3. ASSUME NEW key \in {"seq", "cmd"}
      PROVE  (\E m \in Range(r) : m.key = key /\ FieldOK(m))
               <=> Has(r, key) /\ ItemOK(r, key)
  <2> DEFINE w == [key |-> key, value |-> Item(r, key)]
  <2>1. ItemOK(r, key) <=> FieldOK(w)
    BY DEF ItemOK, FieldTaken, AnyUnit, EmptyText
  <2>2. w.key = key /\ w.value = Item(r, key)
    OBVIOUS
  <2> HIDE DEF w
  <2>3. ASSUME NEW m, m.key = key, m.value = Item(r, key)
        PROVE  FieldOK(m) <=> FieldOK(w)
    <3>1. m.key = w.key /\ m.value = w.value
      BY <2>2, <2>3, Zenon
    <3> QED
      BY <3>1, SameField, Zenon
  <2>4. \A m \in Range(r) :
          m.key = key => Has(r, key) /\ m.value = Item(r, key)
    BY Lookup, Zenon
  <2>5. Has(r, key) =>
          \E m \in Range(r) : m.key = key /\ m.value = Item(r, key)
    BY Lookup, Zenon
  <2> QED
    BY <2>1, <2>3, <2>4, <2>5, Zenon
<1>4. Has(r, "seq") => (ItemOK(r, "seq") <=> SeqValid(r))
  BY <1>2, SeqCheck, Zenon
<1>5. Has(r, "cmd") =>
        (ItemOK(r, "cmd") <=> Fits(r, "cmd", Capacity.command_text))
  BY <1>2, CmdCheck, Zenon
<1>6. SeqValid(r) => Has(r, "seq")
  BY DEF SeqValid
<1>7. Identified(r) <=> /\ Has(r, "seq") /\ ItemOK(r, "seq")
                        /\ Has(r, "cmd") /\ ItemOK(r, "cmd")
  BY <1>1, <1>3, Zenon DEF Identified
<1> QED
  BY <1>4, <1>5, <1>6, <1>7, Zenon

LEMMA EnvelopeStep ==
  ASSUME RequestAssumption, Inv, Envelope
  PROVE  Inv'
<1> DEFINE text == Item(root, "cmd").text
           valid == SeqValid(root) /\ Has(root, "cmd")
                      /\ Fits(root, "cmd", Capacity.command_text)
<1>0. /\ pc = "envelope" /\ UNCHANGED <<length, prefixed, textVars>>
      /\ json' = json /\ root' = root
      /\ request = Blank /\ pc' \in {"done", "fields"}
      /\ json = "object" /\ ~HasDuplicateKeys(root) /\ IsObject(root)
      /\ prefixed /\ length \in PrefixLength + 1 .. MaxFrame
  BY DEF Envelope, lineVars, Reject, Goto, Inv, ChecksInv, CheckTypes
<1>1. ScanInv'
  BY <1>0, TextOver, SameText DEF Inv
<1>2. Described(root) => valid /\ text \in Commands
  <2> SUFFICES ASSUME Described(root)
               PROVE  valid /\ text \in Commands
    OBVIOUS
  <2>1. Has(root, "cmd")
    <3>1. PICK m \in Range(root) : m.key = "cmd"
      BY Zenon DEF Described, FieldsComplete
    <3> QED
      BY <1>0, <3>1, Lookup, Zenon
  <2>2. /\ text \in Commands /\ Required(text) \subseteq Keys(root)
        /\ \A key \in Keys(root) : ItemOK(root, key)
    BY <1>0, <2>1, DescribedBy, Zenon
  <2>3. "seq" \in Keys(root) /\ "cmd" \in Keys(root)
    BY <2>2 DEF Required
  <2>4. /\ \A key : key \in Keys(root) <=> Has(root, key)
        /\ \A key \in Keys(root) : IsValue(Item(root, key))
    BY <1>0, FieldItems, Zenon
  <2>5. SeqValid(root)
    BY <2>2, <2>3, <2>4, SeqCheck, Zenon
  <2>6. Fits(root, "cmd", Capacity.command_text)
    BY <2>2, <2>3, <2>4, CmdCheck, Zenon
  <2> QED
    BY <2>1, <2>2, <2>5, <2>6, Zenon
<1>3. CASE ~valid /\ Reject("INVALID_REQUEST") /\ UNCHANGED request
  <2>1. pc' = "done" /\ result' = "INVALID_REQUEST" /\ request' = Blank
    BY <1>0, <1>3 DEF Reject, Goto
  <2>2. CheckTypes'
    BY <1>0, <2>1, BlankTypes DEF Inv, CheckTypes, Results
  <2>3. ChecksInv'
    BY <2>1 DEF ChecksInv
  <2>4. ParsedAsDescribed'
    BY <1>0, <1>2, <1>3, <2>1 DEF ParsedAsDescribed
  <2>5. AnsweredAsAsked'
    <3>1. ~Identified(root')
      BY <1>0, <1>3, IdentifiedBy, Zenon
    <3> QED
      BY <2>1, <3>1, BlankTypes DEF AnsweredAsAsked
  <2> QED
    BY <1>1, <2>2, <2>3, <2>4, <2>5 DEF Inv
<1>4. CASE /\ valid
           /\ request' = [request EXCEPT !.seq = Item(root, "seq").floor,
                                         !.command_text = text,
                                         !.command = CommandFromText(text)]
           /\ \/ text \notin Commands /\ Reject("UNKNOWN_COMMAND")
              \/ text \in Commands /\ Goto("fields") /\ UNCHANGED result
  <2>1. /\ request'.seq = Item(root, "seq").floor
        /\ request'.command_text = text
        /\ request'.command = CommandFromText(text)
    BY <1>0, <1>4 DEF Blank
  <2>2. Item(root, "seq").floor \in Int
        /\ Item(root, "seq").floor \in 1 .. Int32Max
    <3>1. PICK m \in Range(root) : m.key = "seq"
                                   /\ m.value = Item(root, "seq")
      BY <1>0, <1>4, Lookup, Zenon DEF SeqValid
    <3>2. IsValue(Item(root, "seq"))
      BY <1>0, <3>1 DEF IsObject
    <3>3. Item(root, "seq").floor \in Int
      BY <1>4, <3>2 DEF IsValue, SeqValid
    <3> QED
      BY <1>4, <3>3 DEF SeqValid, RequestAssumption
  <2>3. /\ request'.seq \in Int
        /\ request'.command \in Commands \cup {"UNKNOWN"}
    BY <2>1, <2>2 DEF CommandFromText
  <2>4. CASE text \notin Commands /\ Reject("UNKNOWN_COMMAND")
    <3>1. pc' = "done" /\ result' = "UNKNOWN_COMMAND"
      BY <2>4 DEF Reject, Goto
    <3>2. CheckTypes'
      BY <1>0, <2>3, <3>1 DEF Inv, CheckTypes, Results
    <3>3. ChecksInv'
      BY <3>1 DEF ChecksInv
    <3>4. ParsedAsDescribed'
      BY <1>0, <1>2, <2>4, <3>1 DEF ParsedAsDescribed
    <3>5. AnsweredAsAsked'
      <4>1. Identified(root)
        BY <1>0, <1>4, IdentifiedBy, Zenon
      <4>2. \A m \in Range(root) :
              /\ m.key = "seq" => request'.seq = m.value.floor
              /\ m.key = "cmd" => request'.command_text = m.value.text
        <5>1. \A m \in Range(root) : Item(root, m.key) = m.value
          BY <1>0, Lookup, Zenon
        <5> QED
          BY <2>1, <5>1, Zenon
      <4>3. request'.command_text \notin Commands
        BY <2>1, <2>4
      <4> QED
        BY <1>0, <3>1, <4>1, <4>2, <4>3, Zenon DEF AnsweredAsAsked
    <3> QED
      BY <1>1, <3>2, <3>3, <3>4, <3>5 DEF Inv
  <2>5. CASE text \in Commands /\ Goto("fields") /\ UNCHANGED result
    <3>1. pc' = "fields" /\ result' = result
      BY <2>5 DEF Goto
    <3>2. CheckTypes'
      BY <1>0, <2>3, <3>1 DEF Inv, CheckTypes
    <3>3. EnvelopeOK'
      <4>1. request' = [Blank EXCEPT !.seq = Item(root, "seq").floor,
                                     !.command_text = text,
                                     !.command = text]
        BY <1>0, <1>4, <2>5 DEF CommandFromText
      <4> QED
        BY <1>0, <1>4, <2>5, <4>1, Zenon DEF EnvelopeOK
    <3>4. ChecksInv'
      BY <1>0, <3>1, <3>3 DEF ChecksInv
    <3>5. ParsedAsDescribed' /\ AnsweredAsAsked'
      BY <3>1, NotYet
    <3> QED
      BY <1>1, <3>2, <3>4, <3>5 DEF Inv
  <2> QED
    BY <1>4, <2>4, <2>5, Zenon
<1> QED
  BY <1>3, <1>4, Zenon DEF Envelope

(* A request whose envelope is in order is answered as asked.              *)
LEMMA EnvelopeAnswers ==
  ASSUME RequestAssumption, IsObject(root), ~HasDuplicateKeys(root),
         EnvelopeOK
  PROVE  /\ Identified(root)
         /\ \A m \in Range(root) :
              /\ m.key = "seq" => request.seq = m.value.floor
              /\ m.key = "cmd" => request.command_text = m.value.text
         /\ request.command_text \in Commands
<1>1. /\ request.seq = Item(root, "seq").floor
      /\ request.command_text = Item(root, "cmd").text
      /\ request.command_text \in Commands
  BY DEF EnvelopeOK, Blank
<1>2. \A m \in Range(root) : Item(root, m.key) = m.value
  BY Lookup, Zenon
<1>3. Identified(root)
  BY IdentifiedBy, Zenon DEF EnvelopeOK
<1> QED
  BY <1>1, <1>2, <1>3, Zenon

LEMMA CheckFieldsStep ==
  ASSUME RequestAssumption, Inv, CheckFields
  PROVE  Inv'
<1>0. /\ pc = "fields" /\ UNCHANGED <<length, prefixed, textVars>>
      /\ json' = json /\ root' = root /\ request' = request
      /\ json = "object" /\ ~HasDuplicateKeys(root) /\ IsObject(root)
      /\ prefixed /\ length \in PrefixLength + 1 .. MaxFrame
      /\ EnvelopeOK /\ pc' \in {"done", "read"}
  BY DEF CheckFields, lineVars, Reject, Goto, Inv, ChecksInv, CheckTypes
<1>1. ScanInv'
  BY <1>0, TextOver, SameText DEF Inv
<1>2. EnvelopeOK'
  BY <1>0 DEF EnvelopeOK
<1>3. CASE /\ \A m \in Range(root) : FieldAllowed(request.command, m.key)
           /\ Goto("read") /\ UNCHANGED result
  <2>1. pc' = "read" /\ result' = result
    BY <1>3 DEF Goto
  <2>2. CheckTypes'
    BY <1>0, <2>1 DEF Inv, CheckTypes
  <2>3. ChecksInv'
    BY <1>0, <1>2, <1>3, <2>1 DEF ChecksInv
  <2>4. ParsedAsDescribed' /\ AnsweredAsAsked'
    BY <2>1, NotYet
  <2> QED
    BY <1>1, <2>2, <2>3, <2>4 DEF Inv
<1>4. CASE /\ \E m \in Range(root) : ~FieldAllowed(request.command, m.key)
           /\ Reject("INVALID_REQUEST")
  <2>1. pc' = "done" /\ result' = "INVALID_REQUEST"
    BY <1>4 DEF Reject, Goto
  <2>2. CheckTypes'
    BY <1>0, <2>1 DEF Inv, CheckTypes, Results
  <2>3. ChecksInv'
    BY <2>1 DEF ChecksInv
  <2>4. Item(root, "cmd").text = request.command
    BY <1>0 DEF EnvelopeOK, Blank
  <2>5. ~Described(root)
    BY <1>0, <1>4, <2>4, DescribedBy, Zenon DEF EnvelopeOK
  <2>6. ParsedAsDescribed'
    BY <1>0, <2>1, <2>5 DEF ParsedAsDescribed
  <2>7. AnsweredAsAsked'
    BY <1>0, <2>1, EnvelopeAnswers DEF AnsweredAsAsked
  <2> QED
    BY <1>1, <2>2, <2>3, <2>6, <2>7 DEF Inv
<1> QED
  BY <1>3, <1>4, Zenon DEF CheckFields

(* A field the command does not carry is empty, and absent.                *)
LEMMA SaysNothing ==
  ASSUME NEW key, key \notin {"seq", "cmd"}, NEW command,
         ~FieldAllowed(command, key),
         \A m \in Range(root) : FieldAllowed(command, m.key),
         IsObject(root), ~HasDuplicateKeys(root)
  PROVE  /\ ~Has(root, key) /\ Says(root, key, "")
         /\ \A m \in Range(root) : m.key # key
<1>1. \A m \in Range(root) : m.key # key
  BY Zenon
<1>2. ~Has(root, key)
  BY <1>1, Lookup, Zenon
<1> QED
  BY <1>1, <1>2, Zenon DEF Says

LEMMA ReadFieldsStep ==
  ASSUME RequestAssumption, Inv, ReadFields
  PROVE  Inv'
<1> DEFINE c == request.command
           Takes == /\ Says(root, "unit_id", request'.unit_id)
                    /\ Says(root, "test_id", request'.test_id)
                    /\ Says(root, "unit", request'.unit)
                    /\ Says(root, "detail", request'.detail)
                    /\ \A m \in Range(root) :
                         /\ m.key = "pass" => request'.passed = m.value.truth
                         /\ m.key = "value" => request'.value = m.value
                    /\ ~Has(root, "value") => request'.value = "none"
<1>0. /\ pc = "read" /\ UNCHANGED <<length, prefixed, textVars>>
      /\ json' = json /\ root' = root /\ pc' = "done"
      /\ json = "object" /\ ~HasDuplicateKeys(root) /\ IsObject(root)
      /\ prefixed /\ length \in PrefixLength + 1 .. MaxFrame
      /\ EnvelopeOK /\ result' \in {"OK", "INVALID_REQUEST"}
      /\ \A m \in Range(root) : FieldAllowed(c, m.key)
  BY DEF ReadFields, lineVars, Reject, Goto, Inv, ChecksInv, CheckTypes
<1>1. ScanInv'
  BY <1>0, TextOver, SameText DEF Inv
<1>2. /\ request.unit_id = "" /\ request.test_id = "" /\ request.unit = ""
      /\ request.detail = "" /\ request.value = "none"
      /\ request = [request EXCEPT !.seq = request.seq]
  BY <1>0 DEF EnvelopeOK, Blank
<1>3. /\ result' = "OK" <=> ReadOK(c)
      /\ request'.seq = request.seq /\ request'.command = request.command
      /\ request'.command_text = request.command_text
      /\ result' = "OK" => Takes
  <2>1. CASE c \notin {"session.start", "fixture.record"}
    <3>1. result' = "OK" /\ request' = request
      BY <2>1 DEF ReadFields, Reject
    <3>2. /\ ~FieldAllowed(c, "unit_id") /\ ~FieldAllowed(c, "test_id")
          /\ ~FieldAllowed(c, "unit") /\ ~FieldAllowed(c, "detail")
          /\ ~FieldAllowed(c, "pass") /\ ~FieldAllowed(c, "value")
      BY <2>1 DEF FieldAllowed
    <3>3. /\ \A m \in Range(root) : m.key # "pass" /\ m.key # "value"
          /\ Says(root, "unit_id", "") /\ Says(root, "test_id", "")
          /\ Says(root, "unit", "") /\ Says(root, "detail", "")
      BY <1>0, <3>2, SaysNothing
    <3>4. Takes
      BY <1>2, <3>1, <3>3
    <3> HIDE DEF Takes
    <3> QED
      BY <2>1, <3>1, <3>4 DEF ReadOK
  <2>2. CASE c = "session.start"
    <3>1. /\ ~FieldAllowed(c, "test_id") /\ ~FieldAllowed(c, "unit")
          /\ ~FieldAllowed(c, "detail") /\ ~FieldAllowed(c, "pass")
          /\ ~FieldAllowed(c, "value")
      BY <2>2 DEF FieldAllowed
    <3>2. /\ \A m \in Range(root) : m.key # "pass" /\ m.key # "value"
          /\ Says(root, "test_id", "") /\ Says(root, "unit", "")
          /\ Says(root, "detail", "")
      BY <1>0, <3>1, SaysNothing
    <3>3. ReadOK(c) <=> StringOK("unit_id", TRUE)
      BY <2>2 DEF ReadOK
    <3>4. CASE /\ StringOK("unit_id", TRUE) /\ Reject("OK")
               /\ request' = [request EXCEPT !.unit_id = Copied("unit_id")]
      <4>1. Says(root, "unit_id", Copied("unit_id"))
        BY <1>0, SaysCopied
      <4>2. /\ request'.seq = request.seq
            /\ request'.command = request.command
            /\ request'.command_text = request.command_text
            /\ request'.unit_id = Copied("unit_id")
            /\ request'.test_id = "" /\ request'.unit = ""
            /\ request'.detail = "" /\ request'.value = "none"
        BY <1>0, <3>4 DEF EnvelopeOK, Blank
      <4>3. Takes
        BY <3>2, <4>1, <4>2
      <4> HIDE DEF Takes
      <4> QED
        BY <3>3, <3>4, <4>2, <4>3 DEF Reject
    <3>5. CASE /\ ~StringOK("unit_id", TRUE) /\ Reject("INVALID_REQUEST")
               /\ UNCHANGED request
      BY <3>3, <3>5 DEF Reject
    <3> QED
      BY <2>2, <3>4, <3>5, Zenon DEF ReadFields
  <2>3. CASE c = "fixture.record"
    <3> DEFINE valid == /\ StringOK("test_id", TRUE) /\ PassOK /\ ValueOK
                        /\ StringOK("unit", FALSE)
                        /\ StringOK("detail", FALSE)
    <3>1. ~FieldAllowed(c, "unit_id")
      BY <2>3 DEF FieldAllowed
    <3>2. Says(root, "unit_id", "")
      BY <1>0, <3>1, SaysNothing
    <3>3. ReadOK(c) <=> valid
      BY <2>3 DEF ReadOK
    <3>4. CASE /\ valid /\ Reject("OK")
               /\ request' =
                    [request EXCEPT
                       !.test_id = Copied("test_id"),
                       !.passed = Item(root, "pass").truth,
                       !.value = IF Has(root, "value")
                                 THEN Item(root, "value") ELSE "none",
                       !.unit = Copied("unit"),
                       !.detail = Copied("detail")]
      <4>1. /\ Says(root, "test_id", Copied("test_id"))
            /\ Says(root, "unit", Copied("unit"))
            /\ Says(root, "detail", Copied("detail"))
        BY <1>0, SaysCopied
      <4>2. /\ request'.seq = request.seq
            /\ request'.command = request.command
            /\ request'.command_text = request.command_text
            /\ request'.unit_id = "" /\ request'.test_id = Copied("test_id")
            /\ request'.unit = Copied("unit")
            /\ request'.detail = Copied("detail")
            /\ request'.passed = Item(root, "pass").truth
            /\ request'.value = IF Has(root, "value")
                                THEN Item(root, "value") ELSE "none"
        BY <1>0, <3>4 DEF EnvelopeOK, Blank
      <4>3. \A m \in Range(root) :
              /\ m.key = "pass" => Item(root, "pass") = m.value
              /\ m.key = "value" => Has(root, "value")
                                    /\ Item(root, "value") = m.value
        <5>1. \A m \in Range(root) :
                Has(root, m.key) /\ Item(root, m.key) = m.value
          BY <1>0, Lookup, Zenon
        <5> QED
          BY <5>1, Zenon
      <4>4. Takes
        BY <3>2, <4>1, <4>2, <4>3, Zenon
      <4> HIDE DEF Takes, valid
      <4> QED
        BY <3>3, <3>4, <4>2, <4>4 DEF Reject
    <3>5. CASE ~valid /\ Reject("INVALID_REQUEST") /\ UNCHANGED request
      <4> HIDE DEF valid
      <4> QED
        BY <3>3, <3>5 DEF Reject
    <3> QED
      BY <2>3, <3>4, <3>5, Zenon DEF ReadFields
  <2> QED
    BY <2>1, <2>2, <2>3
<1>4. ReadOK(c) <=> Described(root)
  BY <1>0, ReadChecks DEF Inv
<1>5. CheckTypes'
  BY <1>0, <1>3 DEF Inv, CheckTypes, Results
<1>6. ChecksInv'
  BY <1>0 DEF ChecksInv
<1>7. ParsedAsDescribed'
  <2>1. result' = "OK" => Takes
    BY <1>3
  <2>2. result' = "OK" <=> /\ prefixed' /\ json' = "object"
                           /\ length' \in PrefixLength + 1 .. MaxFrame
                           /\ Described(root')
    BY <1>0, <1>3, <1>4
  <2> QED
    BY <1>0, <2>1, <2>2, Zenon DEF ParsedAsDescribed
<1>8. AnsweredAsAsked'
  BY <1>0, <1>3, EnvelopeAnswers DEF AnsweredAsAsked
<1> QED
  BY <1>1, <1>5, <1>6, <1>7, <1>8 DEF Inv
-----------------------------------------------------------------------------
LEMMA InitInv ==
  ASSUME RequestAssumption, Init
  PROVE  Inv
<1>1. IsObject(<<>>)
  BY DEF RequestAssumption
<1>2. ScanInv
  <2>1. TextTypes
    BY DEF RequestAssumption, Init, TextTypes, Unfinished
  <2>2. TextInv /\ TextAccepted
    BY DEF Init, TextInv, TextAccepted
  <2>3. TextRefused
    BY DEF Init, TextRefused
  <2> QED
    BY <2>1, <2>2, <2>3 DEF ScanInv
<1>3. CheckTypes
  BY <1>1, BlankTypes DEF Init, CheckTypes, Results
<1>4. ChecksInv
  BY DEF Init, ChecksInv
<1>5. ParsedAsDescribed /\ AnsweredAsAsked
  BY DEF Init, ParsedAsDescribed, AnsweredAsAsked
<1> QED
  BY <1>2, <1>3, <1>4, <1>5 DEF Inv

LEMMA StepInv ==
  ASSUME RequestAssumption, Inv, [Next]_vars
  PROVE  Inv'
<1>1. CASE Next
  BY <1>1, CheckFrameStep, ScanStep, TextEndStep, ParseJsonStep,
     EnvelopeStep, CheckFieldsStep, ReadFieldsStep, Zenon DEF Next, Scan
<1>2. CASE UNCHANGED vars
  <2>1. /\ UNCHANGED <<pc, length, prefixed, left, size, need, codepoint>>
        /\ UNCHANGED <<char, well, json, root, request, result>>
    BY <1>2 DEF vars, lineVars, textVars
  <2>2. ScanInv'
    BY <2>1 DEF Inv, ScanInv, TextTypes, TextInv, TextAccepted, TextRefused
  <2>3. CheckTypes'
    BY <2>1 DEF Inv, CheckTypes
  <2>4. ChecksInv'
    <3>1. EnvelopeOK' <=> EnvelopeOK
      BY <2>1 DEF EnvelopeOK
    <3> QED
      BY <2>1, <3>1 DEF Inv, ChecksInv
  <2>5. ParsedAsDescribed' /\ AnsweredAsAsked'
    BY <2>1 DEF Inv, ParsedAsDescribed, AnsweredAsAsked
  <2> QED
    BY <2>2, <2>3, <2>4, <2>5 DEF Inv
<1> QED
  BY <1>1, <1>2

(* The inductive invariant holds of every line (factory_request_parse).    *)
THEOREM RequestInvariant == Spec => []Inv
<1>1. RequestAssumption
  BY RequestAssumption
<1>2. Init => Inv
  BY <1>1, InitInv
<1>3. Inv /\ [Next]_vars => Inv'
  BY <1>1, StepInv
<1> QED
  BY <1>2, <1>3, PTL DEF Spec

(* Every variable of the parser stays within its type.                     *)
THEOREM TypeCorrect == Spec => []TypeOK
<1>1. Inv => TypeOK
  BY DEF Inv, ScanInv, TextTypes, CheckTypes, TypeOK
<1> QED
  BY <1>1, RequestInvariant, PTL

(* valid_utf8 accepts well-formed UTF-8 and nothing else, for every line.  *)
THEOREM AcceptsOnlyWellFormed == Spec => []TextAccepted
<1>1. Inv => TextAccepted
  BY DEF Inv, ScanInv
<1> QED
  BY <1>1, RequestInvariant, PTL

(* valid_utf8 gives up only on bytes that no others could have completed.  *)
THEOREM RefusesOnlyIllFormed == Spec => []TextRefused
<1>1. Inv => TextRefused
  BY DEF Inv, ScanInv
<1> QED
  BY <1>1, RequestInvariant, PTL

(* factory_request_parse accepts the requests the protocol document        *)
(* describes and no other, but for the characters of unit_id and an empty  *)
(* unit or detail, and takes over what they say, whatever the object.      *)
THEOREM ParsesDescribed == Spec => []ParsedAsDescribed
<1>1. Inv => ParsedAsDescribed
  BY DEF Inv
<1> QED
  BY <1>1, RequestInvariant, PTL

(* factory_request_parse answers every object that has a sequence number   *)
(* and a command within bounds under these two, whatever else is wrong     *)
(* with it, and every other line under neither.                            *)
THEOREM AnswersAsAsked == Spec => []AnsweredAsAsked
<1>1. Inv => AnsweredAsAsked
  BY DEF Inv
<1> QED
  BY <1>1, RequestInvariant, PTL
=============================================================================
