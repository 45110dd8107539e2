----------------------------- MODULE MCMessages -----------------------------
(***************************************************************************)
(* Short names for writing schemas and JSON documents, shared by the       *)
(* models of the serializer.                                               *)
(***************************************************************************)
EXTENDS MessageValues, SequencesExt

F(name, number, type, label) ==
  [name |-> name, jsonName |-> name, lowerName |-> name, number |-> number,
   type |-> type, label |-> label]

MessageField(name, number, label, message) ==
  [message |-> message] @@ F(name, number, "MESSAGE", label)

(***************************************************************************)
(* values is what ProtoEnum keeps, numbers what the .proto file declares.  *)
(***************************************************************************)
EnumField(name, number, label, values, numbers) ==
  [values |-> values, numbers |-> numbers] @@ F(name, number, "ENUM", label)

B(b)        == Boolean(b)
N(halves)   == Number(halves)
S(text)     == String(text)
Arr(seq)    == Array(seq)
Obj(fcn)    == Object(fcn)
Empty       == Obj([key \in {} |-> Null])

RECURSIVE Within(_)

Within(v) ==
  {v} \cup
  CASE v.kind = "array"  -> UNION {Within(v.elements[i]) : i \in DOMAIN v.elements}
    [] v.kind = "object" -> UNION {Within(v.members[k]) : k \in DOMAIN v.members}
    [] OTHER             -> {}

PhoneTypes == <<"MOBILE", "HOME", "WORK">>

-----------------------------------------------------------------------------
(***************************************************************************)
(* The objects with any of the given values, or none, for each key.        *)
(***************************************************************************)
NoMembers == [key \in {} |-> Null]

Objects(choices) ==
  LET Given(key) == {NoMembers} \cup {key :> v : v \in choices[key]}
      Extend(key, maps) == {m @@ g : m \in maps, g \in Given(key)}
  IN  {Obj(m) : m \in FoldSet(Extend, {NoMembers}, DOMAIN choices)}

Lists012(values) == {Arr(<< >>)} \cup {Arr(<<v>>) : v \in values}
                      \cup {Arr(<<v, w>>) : v, w \in values}
=============================================================================
