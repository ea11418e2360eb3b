-------------------------- MODULE MCFactoryRequest --------------------------
(***************************************************************************)
(* The bytes on both sides of every boundary of UTF-8, and the objects     *)
(* that tell the checks apart: every combination of the fields, each       *)
(* absent, right (a text at its longest) or wrong (a text one too long, or *)
(* empty, or of characters the document does not allow), of unit_id, unit  *)
(* and detail one wrong at a time; and each with its first field given     *)
(* again.                                                                  *)
(***************************************************************************)
EXTENDS FactoryRequest

CONSTANT MaxInt32

Boundaries == {0, 1, 127, 128, 143, 144, 159, 160, 191, 192, 193, 194, 223,
               224, 225, 236, 237, 238, 239, 240, 241, 243, 244, 245, 247,
               248, 255}

Number(n, whole, finite) ==
  [type |-> "number", floor |-> n, whole |-> whole, finite |-> finite]
Text(t, n) ==
  [type |-> "string", text |-> t, length |-> n, plain |-> TRUE]
Foreign(t, n) == [Text(t, n) EXCEPT !.plain = FALSE]
Truth(b) == [type |-> "bool", truth |-> b]
Other == [type |-> "other"]

Values == [
  seq |-> {Number(MaxInt32, TRUE, TRUE), Number(MaxInt32 + 1, TRUE, TRUE),
           Number(0, TRUE, TRUE), Number(1, FALSE, TRUE)},
  cmd |-> {Text("safe", 4), Text("session.start", 13),
           Text("fixture.record", 14), Text("reboot", 31), Text("long", 32)},
  unit_id |-> {Text("unit", 47), Text("unit", 48), Text("", 0),
               Foreign("unit/1", 47)},
  test_id |-> {Text("pwm", 39), Text("pwm", 40)},
  pass |-> {Truth(TRUE), Other},
  value |-> {Number(1, FALSE, TRUE), Number(1, TRUE, FALSE)},
  unit |-> {Text("mV", 15), Text("mV", 16), Text("", 0)},
  detail |-> {Text("d", 95), Text("d", 96), Text("", 0)},
  note |-> {Other}]

(* Each field absent, or once with one of its values.                      *)
Field(key) == {<<>>} \cup {<<[key |-> key, value |-> v]>> : v \in Values[key]}

Right(key) ==
  {r \in Field(key) :
     r = <<>> \/ r[1].value.length \in 1 .. Capacity[key] - 1}

Measurements ==
  {f \o g \o h :
     f \in Field("value"), g \in Right("unit"), h \in Right("detail")}
  \cup Field("unit") \cup Field("detail")

Records == {d \o e \o f :
              d \in Field("test_id"), e \in Field("pass"), f \in Measurements}

Arguments ==
  Field("unit_id") \cup {c \o d : c \in Right("unit_id"), d \in Records}

Once == {a \o b \o c \o d : a \in Field("seq"), b \in Field("cmd"),
                            c \in Arguments, d \in Field("note")}

(* A field given again, at the end.                                        *)
Twice == {Append(r, r[1]) : r \in {q \in Once : q # <<>>}}

MCObjects == Once \cup Twice
=============================================================================
