-------------------------- MODULE ProtobufEncoding --------------------------
(***************************************************************************)
(* A reference for what a message means, independent of how the serializer *)
(* computes it: which JSON documents represent a message of a given type,  *)
(* by the JSON mapping of protobuf, and the message's encoding.  Both are  *)
(* recursive over the document.                                            *)
(***************************************************************************)
EXTENDS MessageValues

Parts(v) ==
  CASE v.kind = "array"  -> {v.elements[i] : i \in DOMAIN v.elements}
    [] v.kind = "object" -> {v.members[key] : key \in DOMAIN v.members}
    [] OTHER             -> {}

Depth[v \in Json] ==
  LET depths == {0} \cup {Depth[w] + 1 : w \in Parts(v)}
  IN  CHOOSE d \in depths : \A e \in depths : e <= d

(***************************************************************************)
(* A document is a finite tree.                                            *)
(***************************************************************************)
ASSUME DepthAssumption ==
  /\ Depth \in [Json -> Nat]
  /\ \A v \in Json : \A w \in Parts(v) : Depth[w] < Depth[v]

(***************************************************************************)
(* The names of an enumeration are declared once, each with a number.      *)
(***************************************************************************)
ASSUME EnumAssumption ==
  \A f \in Field :
    f.type = "ENUM" =>
      /\ f.numbers \in [DOMAIN f.values -> Int]
      /\ \A i, j \in DOMAIN f.values : f.values[i] = f.values[j] => i = j

-----------------------------------------------------------------------------
LowestValue(type) == IF type \in SignedTypes THEN -(2 ^ (WidthOf(type) - 1)) ELSE 0

HighestValue(type) ==
  IF type \in SignedTypes THEN 2 ^ (WidthOf(type) - 1) - 1
                          ELSE 2 ^ WidthOf(type) - 1

IsIntegerOf(type, v) ==
  /\ v.kind = "number"
  /\ v.halves % 2 = 0
  /\ v.halves \div 2 \in LowestValue(type) .. HighestValue(type)

(***************************************************************************)
(* The JSON value v, which represents messages of the given types, is a    *)
(* value of field f, or one element of it.                                 *)
(***************************************************************************)
RepresentsValue(f, v, types) ==
  CASE f.type = "MESSAGE"      -> f.message \in types
    [] f.type = "GROUP"        -> FALSE
    [] f.type \in TextTypes    -> v.kind = "string"
    [] f.type = "BOOL"         -> v.kind = "boolean"
    [] f.type \in RealTypes    -> v.kind = "number"
    [] f.type = "ENUM"         -> \/ IsIntegerOf(f.type, v)
                                  \/ v.kind = "string" /\ (\E i \in DOMAIN f.values : f.values[i] = v.text)
    [] OTHER                   -> IsIntegerOf(f.type, v)

RepresentsField(f, v, represented) ==
  /\ ~ HasMember(f, v) => f.label # "REQUIRED"
  /\ HasMember(f, v) /\ f.label = "REPEATED" => Member(f, v).kind = "array"
  /\ \A k \in DOMAIN Visited(f, v) :
       RepresentsValue(f, Visited(f, v)[k], represented[Visited(f, v)[k]])

(***************************************************************************)
(* The types of which a value represents a message: each member belongs to *)
(* one field, and each field has values of its type.                       *)
(***************************************************************************)
IsMessageOf(type, v, represented) ==
  /\ v.kind = "object"
  /\ \A key \in DOMAIN v.members :
       Cardinality({i \in DOMAIN Schema[type] :
                      key \in FieldKeys(Schema[type][i])}) = 1
  /\ \A i \in DOMAIN Schema[type] : RepresentsField(Schema[type][i], v, represented)

Represented[v \in Json] == {type \in MessageType : IsMessageOf(type, v, Represented)}

Represents(type, v) == type \in Represented[v]

-----------------------------------------------------------------------------
(***************************************************************************)
(* The number a scalar stands for; an enumeration's name stands for the    *)
(* number declared with it.                                                *)
(***************************************************************************)
Meaning(f, v) ==
  CASE v.kind = "string"                              ->
         f.numbers[CHOOSE i \in DOMAIN f.values : f.values[i] = v.text]
    [] v.kind = "number" /\ f.type \notin RealTypes   -> v.halves \div 2
    [] v.kind = "number" /\ f.type \in RealTypes      -> v.halves
    [] OTHER                                          -> IF v.truth THEN 1 ELSE 0

(***************************************************************************)
(* The default value of an optional field is not on the wire.  The         *)
(* elements of a repeated field and the required fields always are.        *)
(***************************************************************************)
IsDefault(f, v) ==
  CASE f.type = "MESSAGE" -> FALSE
    [] f.type = "STRING"  -> TextBytes[v.text] = << >>
    [] f.type = "BYTES"   -> DecodedBytes[v.text] = << >>
    [] OTHER              -> Meaning(f, v) = 0

(***************************************************************************)
(* encodings are those of the value v as a message.                        *)
(***************************************************************************)
ContentsBytes(f, v, encodings) ==
  CASE f.type = "MESSAGE"        -> LengthDelimitedBytes(encodings[f.message])
    [] f.type = "STRING"         -> LengthDelimitedBytes(TextBytes[v.text])
    [] f.type = "BYTES"          -> LengthDelimitedBytes(DecodedBytes[v.text])
    [] f.type \in VarintTypes    -> VarintBytes(VarintValue(f.type, Meaning(f, v)))
    [] OTHER                     -> FixedBytes(f.type, Meaning(f, v))

ValueBytes(f, v, encodings) ==
  IF f.label = "OPTIONAL" /\ IsDefault(f, v)
  THEN << >>
  ELSE TagBytes(f.number, f.type) \o ContentsBytes(f, v, encodings)

(***************************************************************************)
(* The first n of the given parts one behind the other, for each n.        *)
(***************************************************************************)
Joins(parts, n) ==
  LET join[k \in 0 .. n] == IF k = 0 THEN << >> ELSE join[k - 1] \o parts[k]
  IN  join

Joined(parts, n) == Joins(parts, n)[n]

ValueParts(f, v, encodings) ==
  [k \in DOMAIN Visited(f, v) |->
     ValueBytes(f, Visited(f, v)[k], encodings[Visited(f, v)[k]])]

FieldParts(type, v, encodings) ==
  [i \in DOMAIN Schema[type] |->
     Joined(ValueParts(Schema[type][i], v, encodings), Len(Visited(Schema[type][i], v)))]

(***************************************************************************)
(* The fields in declaration order; repeated scalars one by one, which     *)
(* every parser accepts whether the field is declared packed or not.       *)
(***************************************************************************)
Encodings[v \in Json] ==
  [type \in MessageType |->
     IF type \in Represented[v]
     THEN Joined(FieldParts(type, v, Encodings), Len(Schema[type]))
     ELSE << >>]

Encoding(type, v) == Encodings[v][type]

-----------------------------------------------------------------------------
(***************************************************************************)
(* The values the serializer does not encode as protobuf does: a BYTES     *)
(* field, an empty STRING, a zero that is not optional, and the name of an *)
(* enumerator whose number is not its position.                            *)
(***************************************************************************)
Departs(f, v) ==
  CASE f.type = "MESSAGE" -> FALSE
    [] f.type = "BYTES"   -> f.label # "OPTIONAL" \/ TextBytes[v.text] # << >>
    [] f.type = "STRING"  -> TextBytes[v.text] = << >>
    [] OTHER              ->
         \/ f.label # "OPTIONAL" /\ Meaning(f, v) = 0
         \/ /\ f.type = "ENUM" /\ v.kind = "string"
            /\ \E i \in DOMAIN f.values : f.values[i] = v.text /\ f.numbers[i] # i - 1

NoDepartures ==
  \A v \in Json : \A type \in Represented[v] : \A i \in DOMAIN Schema[type] :
    LET f == Schema[type][i]
    IN  \A k \in DOMAIN Visited(f, v) : ~ Departs(f, Visited(f, v)[k])
=============================================================================
