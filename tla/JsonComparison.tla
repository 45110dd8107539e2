--------------------------- MODULE JsonComparison ---------------------------
(***************************************************************************)
(* JSON values, and operator== and operator< of basic_json in              *)
(* lib/include/json.hpp as the repository has changed it: two              *)
(* floating-point numbers are equal when they are close.                   *)
(* test_protomessageserializer.cpp compares the document that readMessage  *)
(* returned with its reference document by operator==.                     *)
(*                                                                         *)
(* A value is a record of its type and its contents: a number (a           *)
(* number_float counts in fractions, One of them to the unit), a text (the *)
(* sequence of its octets), a truth value, a sequence of elements, or a    *)
(* sequence of members in the order of keys.                               *)
(***************************************************************************)
EXTENDS JsonInteger, SequencesExt

CONSTANTS
  One,            \* the fractions that make up 1.0
  Tolerance       \* 0.00001f in fractions

ASSUME ComparisonAssumption == One \in Nat \ {0} /\ Tolerance \in Nat

Numeric == {"number_integer", "number_unsigned", "number_float"}

Null           == [type |-> "null"]
Truth(b)       == [type |-> "boolean", truth |-> b]
Integer(n)     == [type |-> "number_integer", number |-> n]
Natural(n)     == [type |-> "number_unsigned", number |-> n]
Float(n)       == [type |-> "number_float", number |-> n]
Text(octets)   == [type |-> "string", text |-> octets]
Array(seq)     == [type |-> "array", elements |-> seq]
Object(seq)    == [type |-> "object", members |-> seq]
Member(key, v) == [key |-> key, value |-> v]

IsArray(v)  == v.type = "array"
IsObject(v) == v.type = "object"
IsText(v)   == v.type = "string"

-----------------------------------------------------------------------------
(***************************************************************************)
(* static_cast between the types of numbers.                               *)
(***************************************************************************)
ToInteger(number) ==
  LET n == number % 2 ^ Bits IN IF n >= 2 ^ (Bits - 1) THEN n - 2 ^ Bits ELSE n

ToFloat(v) == IF v.type = "number_float" THEN v.number ELSE v.number * One

AreIntegers(l, r) == "number_float" \notin {l.type, r.type}

Abs(n) == IF n < 0 THEN -n ELSE n

\* As if an integer and an unsigned number had nothing in common.
NumbersEqualByType(l, r) ==
  CASE l.type = "number_float" /\ r.type = "number_float" ->
         Abs(l.number - r.number) <= Tolerance
    [] l.type = r.type      -> l.number = r.number
    [] AreIntegers(l, r)    -> FALSE
    [] OTHER                -> ToFloat(l) = ToFloat(r)

NumbersEqual(l, r) ==
  CASE l.type = "number_float" /\ r.type = "number_float" ->
         Abs(l.number - r.number) <= Tolerance
    [] l.type = r.type      -> l.number = r.number
    [] AreIntegers(l, r)    -> ToInteger(l.number) = ToInteger(r.number)
    [] OTHER                -> ToFloat(l) = ToFloat(r)

\* As if only the left operand was converted.
NumbersLessLeftCast(l, r) ==
  CASE l.type = r.type      -> l.number < r.number
    [] AreIntegers(l, r)    -> ToInteger(l.number) < r.number
    [] OTHER                -> ToFloat(l) < ToFloat(r)

NumbersLess(l, r) ==
  CASE l.type = r.type      -> l.number < r.number
    [] AreIntegers(l, r)    -> ToInteger(l.number) < ToInteger(r.number)
    [] OTHER                -> ToFloat(l) < ToFloat(r)

(***************************************************************************)
(* operator< of value_t: null < boolean < number < object < array < string *)
(***************************************************************************)
TypeOrder(type) ==
  CASE type = "null" -> 0 [] type = "boolean" -> 1 [] type \in Numeric -> 2
    [] type = "object" -> 3 [] type = "array" -> 4 [] type = "string" -> 5

-----------------------------------------------------------------------------
(***************************************************************************)
(* operator< of std::vector, std::map, std::pair and std::string:          *)
(* lexicographical, by the elements' operator< alone.                      *)
(***************************************************************************)
Lexicographically(s, t, Smaller(_, _)) ==
  \E k \in 1 .. Len(s) + 1 :
    /\ \A j \in 1 .. k - 1 :
         j \in DOMAIN t /\ ~ Smaller(s[j], t[j]) /\ ~ Smaller(t[j], s[j])
    /\ k \in DOMAIN t
    /\ k \in DOMAIN s => Smaller(s[k], t[k])

TextLess(s, t) == Lexicographically(s, t, <)

RECURSIVE Equal(_, _), Less(_, _)

Equal(l, r) ==
  CASE {l.type, r.type} \subseteq Numeric -> NumbersEqual(l, r)
    [] l.type # r.type -> FALSE
    [] l.type = "array" ->
         /\ Len(l.elements) = Len(r.elements)
         /\ \A k \in DOMAIN l.elements : Equal(l.elements[k], r.elements[k])
    [] l.type = "object" ->
         /\ Len(l.members) = Len(r.members)
         /\ \A k \in DOMAIN l.members :
              /\ l.members[k].key = r.members[k].key
              /\ Equal(l.members[k].value, r.members[k].value)
    [] l.type = "string"  -> l.text = r.text
    [] l.type = "boolean" -> l.truth = r.truth
    [] OTHER -> TRUE

MemberLess(p, q) ==
  TextLess(p.key, q.key) \/ (p.key = q.key /\ Less(p.value, q.value))

Less(l, r) ==
  CASE {l.type, r.type} \subseteq Numeric -> NumbersLess(l, r)
    [] l.type # r.type    -> TypeOrder(l.type) < TypeOrder(r.type)
    [] l.type = "array"   -> Lexicographically(l.elements, r.elements, Less)
    [] l.type = "object"  -> Lexicographically(l.members, r.members, MemberLess)
    [] l.type = "string"  -> TextLess(l.text, r.text)
    [] l.type = "boolean" -> ~ l.truth /\ r.truth
    [] OTHER -> FALSE
=============================================================================
