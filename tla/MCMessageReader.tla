--------------------------- MODULE MCMessageReader ---------------------------
(***************************************************************************)
(* Schemas and inputs for checking MessageReader, and a reference for what *)
(* the bytes of a message mean, independent of how the serializer reads    *)
(* them: the bytes are split into records, one per tag, and the document   *)
(* is made from the records.  A text is the sequence of its bytes, so that *)
(* what is read from an input needs no name.                               *)
(***************************************************************************)
EXTENDS MessageReader, MCMessages

CONSTANT Texts   \* the texts an input holds

Names == << <<77>>, <<72>>, <<87>> >>

MCText         == Texts \cup {Base64(t) : t \in Texts} \cup {Names[i] : i \in 1 .. 3}
MCTextBytes    == [t \in MCText |-> t]
MCTextWith(bytes) == bytes
MCDecodedBytes == [t \in MCText |-> << >>]
MCUtf8         == {t \in MCText : \A i \in DOMAIN t : t[i] < 128}

-----------------------------------------------------------------------------
SingularTypes ==
  <<"INT32", "SINT32", "UINT32", "INT64", "SINT64", "UINT64", "BOOL", "FIXED32",
    "SFIXED32", "FLOAT", "FIXED64", "SFIXED64", "DOUBLE", "STRING", "BYTES">>

FieldOfEach(label) ==
  [i \in DOMAIN SingularTypes |-> F(SingularTypes[i], i, SingularTypes[i], label)]
    \o << EnumField("ENUM", 16, label, Names, <<0, 1, 2>>) >>

Every == FieldOfEach("OPTIONAL")
Lists == SubSeq(FieldOfEach("REPEATED"), 1, 13)
           \o << EnumField("ENUM", 16, "REPEATED", Names, <<0, 1, 2>>) >>

Chain ==
  << F("label", 1, "STRING", "OPTIONAL"),
     MessageField("next", 2, "OPTIONAL", "Chain"),
     F("list", 3, "BOOL", "REPEATED"),
     F("count", 4, "SINT32", "OPTIONAL"),
     MessageField("every", 5, "OPTIONAL", "Every"),
     MessageField("lists", 6, "OPTIONAL", "Lists"),
     F("group", 16, "GROUP", "OPTIONAL"),
     MessageField("kids", 17, "REPEATED", "Chain") >>

Departing ==
  << F("list", 1, "INT32", "REPEATED"),
     EnumField("mode", 2, "OPTIONAL", Names, <<0, 2, 5>>),
     MessageField("inner", 3, "OPTIONAL", "Departing"),
     EnumField("modes", 4, "REPEATED", Names, <<0, 1, 2>>) >>

FieldsOf == [Every |-> Every, Lists |-> Lists, Chain |-> Chain, Departing |-> Departing]

MCMessageType == IF Root = "Chain" THEN {"Chain", "Every", "Lists"} ELSE {Root}
MCSchema      == [type \in MCMessageType |-> FieldsOf[type]]
MCField       == UNION {Range(FieldsOf[type]) : type \in MCMessageType}

-----------------------------------------------------------------------------
(***************************************************************************)
(* Inputs are strings of records.                                          *)
(***************************************************************************)
Tagged(number, wire, bytes)  == VarintBytes(8 * number + wire) \o bytes
Prefixed(number, bytes)      == Tagged(number, 2, LengthDelimitedBytes(bytes))

\* Up to two of the given strings, one after the other.
UpToTwo(strings) == {<< >>} \cup strings \cup {s \o t : s, t \in strings}

(***************************************************************************)
(* The contents a field of each type may have: the edges of its varints    *)
(* and integers, one with a padded varint.                                 *)
(***************************************************************************)
SampleTexts == {<< >>, <<65>>, <<65, 66>>, <<65, 66, 67>>, <<195, 40>>}

Samples(f) ==
  CASE f.type = "ENUM"       -> {<<0>>, <<2>>, <<129, 0>>}
    [] f.type = "BOOL"       -> {<<0>>, <<1>>, <<128, 1>>}
    [] f.type \in TextTypes  -> {LengthDelimitedBytes(t) : t \in SampleTexts}
    [] f.type \in FixedTypes -> {FixedBytes(f.type, x) : x \in {0, -1, 2 ^ 15, 258}}
    [] OTHER                 -> {<<0>>, <<127>>, <<255, 1>>, <<128, 128, 4>>,
                                 <<255, 255, 255, 7>>, <<129, 128, 0>>}

Singles(f) == {Tagged(f.number, WireTypeOf(f.type), c) : c \in Samples(f)}

\* A field twice, or followed by the next one.
ScalarInputs ==
  UNION {{r \o s : r \in Singles(Every[i]),
                   s \in Singles(Every[i]) \cup Singles(Every[(i % Len(Every)) + 1])} :
           i \in DOMAIN Every}

(***************************************************************************)
(* Repeated fields: single records, packed records of up to two elements,  *)
(* and a mixture of both.                                                  *)
(***************************************************************************)
ListRecords(f) ==
  Singles(f) \cup {Prefixed(f.number, cs) : cs \in UpToTwo(Samples(f))}

ListInputs ==
  UNION {{r \o s : r \in ListRecords(Lists[i]), s \in {<< >>} \cup Singles(Lists[i])} :
           i \in DOMAIN Lists}

(***************************************************************************)
(* Chains of messages, three deep, their fields in any order and repeated, *)
(* but each next in a single record.                                       *)
(***************************************************************************)
Label(text) == Prefixed(1, text)
Count(n)    == Tagged(4, 0, <<n>>)

Leaves == {<< >>, Label(<<65>>), Label(<<66, 66>>) \o Label(<<65>>), Count(3) \o Label(<<65>>)}
Short  == {<< >>, Label(<<65>>), Count(1)}
Nexts  == {Prefixed(2, s) : s \in Short} \cup {Prefixed(2, Prefixed(2, s)) : s \in Short}
Kids   == {Prefixed(17, s) : s \in Short \cup {Prefixed(2, Count(1))}}

ChainInputs ==
  {s \o t \o u \o v : s \in Leaves, t \in {<< >>} \cup Nexts, u \in UpToTwo(Kids),
                      v \in Short}

(***************************************************************************)
(* Any bytes of a small alphabet: tags of the fields of Chain, small and   *)
(* large numbers, and unfinished varints; and a packed list whose element  *)
(* is as long as no varint may be.                                         *)
(***************************************************************************)
Alphabet  == {0, 1, 2, 10, 18, 26, 131, 128}
Endless   == [i \in 1 .. MaxVarintSize |-> 128]
AnyInputs == UNION {[1 .. n -> Alphabet] : n \in 0 .. 5}
               \cup {Tagged(3, 2, <<n>> \o Endless \o t) : n \in 0 .. 7, t \in {<< >>, <<10, 0>>}}
AnyTexts  == UNION {[1 .. n -> Alphabet] : n \in 0 .. 3}

ChainTexts == {<<66, 66>>}

NestedInputs ==
  ChainInputs \cup {Prefixed(5, s) : s \in ScalarInputs}
              \cup {Prefixed(6, s) : s \in ListInputs}

ReaderInputs == NestedInputs \cup AnyInputs
ReaderTexts  == SampleTexts \cup ChainTexts \cup AnyTexts

(***************************************************************************)
(* A message that shows the departures: an element of a list, the number   *)
(* of an enumerator, a singular message in two records.                    *)
(***************************************************************************)
DepartingInputs ==
  {Tagged(1, 0, <<5>>) \o Tagged(2, 0, <<2>>)
     \o Prefixed(3, Tagged(2, 0, <<0>>)) \o Prefixed(3, Tagged(1, 0, <<7>>))}

\* A packed list of enumerators whose element is no varint.
EndlessInputs == {Tagged(4, 2, Endless)}

-----------------------------------------------------------------------------
From(bytes, i) == SubSeq(bytes, i, Len(bytes))

(***************************************************************************)
(* How many bytes the varint at the start takes, 0 if there is none.       *)
(***************************************************************************)
VarintLength(bytes) ==
  LET last == {k \in 1 .. MaxVarintSize : k <= Len(bytes) /\ bytes[k] < 128}
  IN  IF last = {} THEN 0 ELSE Min(last)

VarintAt(bytes) == VarintNumber(SubSeq(bytes, 1, VarintLength(bytes)))

(***************************************************************************)
(* The record at the start of the bytes: field number, wire type, contents *)
(* and what follows it.  No record has number 0 or reaches past the end.   *)
(***************************************************************************)
NoRecord == [number |-> 0, wire |-> 0, contents |-> << >>, rest |-> << >>]

RecordAt(bytes) ==
  LET key  == VarintLength(bytes)
      wire == VarintAt(bytes) % 8
      body == From(bytes, key + 1)
      \* bytes before the contents, and bytes of contents
      head == IF wire = 2 THEN VarintLength(body) ELSE 0
      size == CASE wire = 0 -> VarintLength(body)
                [] wire = 1 -> Bits64 \div 8
                [] wire = 5 -> Bits32 \div 8
                [] wire = 2 /\ head > 0 -> VarintAt(body)
                [] OTHER -> 0
  IN  IF key = 0 \/ VarintAt(bytes) < 8 \/ wire \in {3, 4, 6, 7}
         \/ (wire = 2 /\ head = 0) \/ (wire = 0 /\ size = 0)
         \/ head + size > Len(body)
      THEN NoRecord
      ELSE [number   |-> VarintAt(bytes) \div 8,
            wire     |-> wire,
            contents |-> SubSeq(body, head + 1, head + size),
            rest     |-> From(body, head + size + 1)]

RECURSIVE Records(_)

Records(bytes) ==
  IF bytes = << >> THEN << >>
  ELSE IF RecordAt(bytes).number = 0 THEN <<NoRecord>>
  ELSE <<RecordAt(bytes)>> \o Records(RecordAt(bytes).rest)

(***************************************************************************)
(* The values a packed record holds, one string of bytes each.             *)
(***************************************************************************)
RECURSIVE Unpacked(_, _)

Unpacked(type, bytes) ==
  LET n == IF type \in VarintTypes THEN VarintLength(bytes) ELSE FixedSize(type)
  IN  IF bytes = << >> THEN << >>
      ELSE IF n = 0 \/ n > Len(bytes) THEN << << >> >>
      ELSE <<SubSeq(bytes, 1, n)>> \o Unpacked(type, From(bytes, n + 1))

IsPackedRecord(f, r) ==
  f.label = "REPEATED" /\ f.type \in ScalarTypes /\ r.wire = 2

RecordsOf(f, records) == SelectSeq(records, LAMBDA r : r.number = f.number)

(***************************************************************************)
(* The contents of field f, in order; packed or not.                       *)
(***************************************************************************)
Contents(f, records) ==
  LET own == RecordsOf(f, records)
  IN  FlattenSeq([i \in DOMAIN own |->
                    IF IsPackedRecord(f, own[i]) THEN Unpacked(f.type, own[i].contents)
                                                 ELSE <<own[i].contents>>])

-----------------------------------------------------------------------------
(***************************************************************************)
(* The bytes are a message of the type: every record belongs to a field    *)
(* and has its wire type, every text is UTF-8, every enumerator declared.  *)
(***************************************************************************)
NumberIn(f, contents) ==
  Decoded(f.type, IF f.type \in VarintTypes THEN VarintNumber(contents)
                                            ELSE FixedNumber(contents))

RECURSIVE IsMessage(_, _, _)

IsValue(f, contents, utf8) ==
  CASE f.type = "MESSAGE" -> IsMessage(f.message, contents, utf8)
    [] f.type = "STRING"  -> TextWith(contents) \in utf8
    [] f.type = "BYTES"   -> TRUE
    [] f.type = "ENUM"    -> contents # << >>
                               /\ \E i \in DOMAIN f.values : f.numbers[i] = NumberIn(f, contents)
    [] OTHER              -> contents # << >>

IsMessage(type, bytes, utf8) ==
  LET records == Records(bytes)
      fields  == Range(Schema[type])
  IN  /\ \A r \in Range(records) :
           \E f \in fields :
             /\ f.number = r.number
             /\ f.type # "GROUP"
             /\ r.wire = WireTypeOf(f.type) \/ IsPackedRecord(f, r)
      /\ \A f \in fields :
           \A contents \in Range(Contents(f, records)) : IsValue(f, contents, utf8)

-----------------------------------------------------------------------------
(***************************************************************************)
(* The document the bytes of a message stand for.  A repeated field is the *)
(* array of all its values, a singular one the last value, and the parts   *)
(* of a message that comes in several records are merged, which is what    *)
(* reading their concatenation does.  A scalar field or a text that does   *)
(* not occur has its default, which is no value at all if it is repeated.  *)
(***************************************************************************)
NameOf(f, x) == f.values[CHOOSE i \in DOMAIN f.values : f.numbers[i] = x]

RECURSIVE Meaning(_, _)

ValueOf(f, contents) ==
  CASE f.type = "MESSAGE"       -> Meaning(f.message, contents)
    [] f.type = "STRING"        -> String(TextWith(contents))
    [] f.type = "BYTES"         -> String(TextWith(Base64(contents)))
    [] f.type = "ENUM"          -> String(NameOf(f, NumberIn(f, contents)))
    [] f.type = "BOOL"          -> Boolean(NumberIn(f, contents) = 1)
    [] f.type \in RealTypes     -> Number(NumberIn(f, contents))
    [] OTHER                    -> Number(2 * NumberIn(f, contents))

DefaultOf(f) ==
  CASE f.type \in TextTypes -> String(TextWith(<< >>))
    [] f.type = "ENUM"      -> String(f.values[1])
    [] f.type = "BOOL"      -> Boolean(FALSE)
    [] OTHER                -> Number(0)

FieldMeaning(f, all) ==
  CASE f.label = "REPEATED" -> Array([i \in DOMAIN all |-> ValueOf(f, all[i])])
    [] f.type = "MESSAGE"   -> Meaning(f.message, FlattenSeq(all))
    [] all = << >>          -> DefaultOf(f)
    [] OTHER                -> ValueOf(f, all[Len(all)])

Meaning(type, bytes) ==
  LET records == Records(bytes)
      Present == {f \in Range(Schema[type]) :
                    \/ Contents(f, records) # << >>
                    \/ f.type \in ScalarTypes \cup TextTypes}
      FieldNamed(key) == CHOOSE f \in Present : f.name = key
  IN  IF Present = {} THEN Null
      ELSE Object([key \in {f.name : f \in Present} |->
                     FieldMeaning(FieldNamed(key), Contents(FieldNamed(key), records))])

-----------------------------------------------------------------------------
(***************************************************************************)
(* The document without the default first element of its repeated fields,  *)
(* in the document itself and in those of nested messages.                 *)
(***************************************************************************)
RECURSIVE Listed(_, _)

Listed(type, json) ==
  LET FieldNamed(key)  == CHOOSE f \in Range(Schema[type]) : f.name = key
      Nested(f, value) ==
        IF f.type = "MESSAGE" THEN Listed(f.message, value) ELSE value
      NestedEach(f, seq)   == [k \in DOMAIN seq |-> Nested(f, seq[k])]
  IN  IF json.kind # "object" THEN json
      ELSE Object([key \in DOMAIN json.members |->
             LET f == FieldNamed(key)  value == json.members[key]
             IN  CASE f.label # "REPEATED" -> Nested(f, value)
                   [] HasDefault(f)        -> Array(Tail(value.elements))
                   [] OTHER                -> Array(NestedEach(f, value.elements))])

Deserializer ==
  INSTANCE Serialization WITH
    Given     <- Inputs,
    Promised  <- {s \in Inputs : IsMessage(Root, s, Utf8)},
    Forbidden <- {},
    AnswerTo  <- [s \in Inputs |-> Meaning(Root, s)],
    given     <- input,
    state     <- IF phase = "read" THEN "running"
                 ELSE IF phase \in Failures THEN "failed" ELSE "returned",
    answer    <- IF phase = "returned" THEN Listed(Root, Document) ELSE Null

(***************************************************************************)
(* readMessage implements its promise: bytes that are a message are        *)
(* answered with the document they stand for, but for the default first    *)
(* element of a repeated field; any other bytes with some document or an   *)
(* exception.  Every call ends.                                            *)
(***************************************************************************)
KeepsReadPromise == Deserializer!Spec

=============================================================================
