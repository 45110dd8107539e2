---------------------------- MODULE MessageValues ----------------------------
(***************************************************************************)
(* The two inputs of ProtoMessageSerializer: the message descriptor it was *)
(* constructed with (lib/src/protofile.cpp) and the JSON document it is    *)
(* given, after json::parse.  This module says how the serializer looks a  *)
(* field up, what it converts the JSON value to, and when the conversion   *)
(* throws.                                                                 *)
(*                                                                         *)
(* A message type is a sequence of fields in declaration order, each a     *)
(* record                                                                  *)
(*   name, jsonName, lowerName   the keys findJsonMember tries             *)
(*   number, type, label         as declared in the .proto file            *)
(*   message                     the type of a MESSAGE field               *)
(*   values                      the value names of an ENUM field          *)
(* A JSON value is a record with a kind, and                               *)
(*   text       (string)   an element of Text                              *)
(*   halves     (number)   twice the number: fractions are multiples of    *)
(*                         one half, an integer has an even value          *)
(*   truth      (boolean)                                                  *)
(*   elements   (array)    a sequence of JSON values                       *)
(*   members    (object)   a function from keys to JSON values             *)
(***************************************************************************)
EXTENDS WireFormat

CONSTANTS
  MessageType,    \* the message types of the loaded .proto file
  Field,          \* their fields
  Schema,         \* the sequence of fields of each message type
  Json,           \* the JSON values, closed under elements and members
  Text,           \* the JSON strings
  TextBytes,      \* the UTF-8 bytes of each text
  DecodedBytes    \* what base64_decode returns for each text

Labels == {"OPTIONAL", "REQUIRED", "REPEATED"}
Kinds  == {"null", "boolean", "number", "string", "array", "object"}

Null           == [kind |-> "null"]
Boolean(b)     == [kind |-> "boolean", truth |-> b]
Number(halves) == [kind |-> "number", halves |-> halves]
String(text)   == [kind |-> "string", text |-> text]
Array(seq)     == [kind |-> "array", elements |-> seq]
Object(fcn)    == [kind |-> "object", members |-> fcn]

ASSUME SchemaAssumption ==
  /\ Schema \in [MessageType -> Seq(Field)]
  /\ \A f \in Field :
       /\ f.number \in Nat \ {0}
       /\ f.type \in FieldTypes
       /\ f.label \in Labels
       /\ f.type = "MESSAGE" => f.message \in MessageType
       /\ f.type = "ENUM" => f.values \in Seq(Text)

ASSUME JsonAssumption ==
  \A v \in Json :
    /\ v.kind \in Kinds
    /\ v.kind = "boolean" => v.truth \in BOOLEAN
    /\ v.kind = "number" => v.halves \in Int
    /\ v.kind = "string" => v.text \in Text
    /\ v.kind = "array" => v.elements \in Seq(Json)
    /\ v.kind = "object" => \A key \in DOMAIN v.members : v.members[key] \in Json

(***************************************************************************)
(* base64 yields at most three bytes for every four characters.            *)
(***************************************************************************)
ASSUME TextAssumption ==
  /\ TextBytes \in [Text -> Seq(Octet)]
  /\ DecodedBytes \in [Text -> Seq(Octet)]
  /\ \A t \in Text : Len(DecodedBytes[t]) <= Len(TextBytes[t])

-----------------------------------------------------------------------------
(***************************************************************************)
(* findJsonMember: the JSON name first, then the declared name, then the   *)
(* declared name in lower case.  nlohmann's find is end() on a value that  *)
(* is not an object.                                                       *)
(***************************************************************************)
FieldKeys(f) == {f.jsonName, f.name, f.lowerName}

Keys(v) == IF v.kind = "object" THEN DOMAIN v.members ELSE {}

HasMember(f, v) == FieldKeys(f) \cap Keys(v) # {}

Member(f, v) ==
  v.members[IF f.jsonName \in Keys(v) THEN f.jsonName
            ELSE IF f.name \in Keys(v) THEN f.name
            ELSE f.lowerName]

(***************************************************************************)
(* The values that both calculateMessageSize and writeMessage visit for    *)
(* field f of the object v: each element of the array of a repeated field, *)
(* the member itself otherwise.                                            *)
(***************************************************************************)
Visited(f, v) ==
  IF ~ HasMember(f, v) THEN << >>
  ELSE IF Member(f, v).kind = "array" /\ f.label = "REPEATED"
       THEN Member(f, v).elements
       ELSE <<Member(f, v)>>

-----------------------------------------------------------------------------
(***************************************************************************)
(* value.get<T>() of nlohmann::json 3.7.3.  A number converts to every     *)
(* arithmetic type; a boolean converts to bool and to the arithmetic types *)
(* other than json's own int64_t, uint64_t and double.  Anything else      *)
(* throws json::type_error.  The ENUM case of the serializer looks at the  *)
(* kind itself and never throws; a MESSAGE field is not converted.         *)
(***************************************************************************)
Converts(f, v) ==
  \/ f.type \in {"MESSAGE", "ENUM"}
  \/ f.type \in TextTypes /\ v.kind = "string"
  \/ f.type = "BOOL" /\ v.kind = "boolean"
  \/ f.type \in Int32Types \cup {"FLOAT"} /\ v.kind \in {"number", "boolean"}
  \/ f.type \in Int64Types \cup {"DOUBLE"} /\ v.kind = "number"

Halves(v) ==
  CASE v.kind = "number"              -> v.halves
    [] v.kind = "boolean" /\ v.truth  -> 2
    [] OTHER                          -> 0

(***************************************************************************)
(* static_cast from a JSON number to an integer drops the fraction.        *)
(***************************************************************************)
Truncated(v) ==
  IF Halves(v) >= 0 THEN Halves(v) \div 2 ELSE -((-Halves(v)) \div 2)

(***************************************************************************)
(* An ENUM given by name is written as the position of the name in         *)
(* ProtoEnum::values: the number of values std::find skips.  An unknown    *)
(* name writes nothing, as zero does.                                      *)
(***************************************************************************)
Skipped(f, v) == {i \in DOMAIN f.values : \A j \in 1 .. i : f.values[j] # v.text}

EnumValue(f, v) ==
  CASE v.kind = "number" -> Signed(Truncated(v), Bits32)
    [] v.kind = "string" /\ Cardinality(Skipped(f, v)) < Len(f.values) ->
         Cardinality(Skipped(f, v))
    [] OTHER -> 0

\* As if every signed type was read with get<int32_t>.
ScalarValueNarrow(f, v) ==
  CASE f.type = "ENUM"          -> EnumValue(f, v)
    [] f.type \in RealTypes     -> Halves(v)
    [] f.type \in SignedTypes \ {"ENUM"} ->
         Signed(Truncated(v), Bits32)
    [] OTHER                    -> Unsigned(Truncated(v), WidthOf(f.type))

(***************************************************************************)
(* The C++ value of a scalar field; a FLOAT or DOUBLE counts in halves.    *)
(***************************************************************************)
ScalarValue(f, v) ==
  CASE f.type = "ENUM"          -> EnumValue(f, v)
    [] f.type \in RealTypes     -> Halves(v)
    [] f.type \in SignedTypes \ {"ENUM"} ->
         Signed(Truncated(v), WidthOf(f.type))
    [] OTHER                    -> Unsigned(Truncated(v), WidthOf(f.type))
=============================================================================
