------------------------------ MODULE JsonBson ------------------------------
(***************************************************************************)
(* BSON: write_bson and parse_bson_internal of lib/include/json.hpp.  A    *)
(* document announces its size; the size is computed from the value by one *)
(* set of functions, and the document written by another.                  *)
(***************************************************************************)
EXTENDS JsonBinary

\* A number in the order of BSON, the least significant octet first.
Little(n, width) == Reverse(Low(n, width))

Int32(count) == Little(Number(count), 4)

\* The elements of an array have their indices for keys.
Entries(v) ==
  IF IsObject(v) THEN v.members
  ELSE [k \in DOMAIN v.elements |-> Member(to_string(k - 1), v.elements[k])]

-----------------------------------------------------------------------------
(***************************************************************************)
(* Sizes.                                                                  *)
(***************************************************************************)
\* calc_bson_entry_header_size, which throws when the key ends too early.
CanBeKey(name) == 0 \notin ToSet(name)

calc_bson_entry_header_size(name) == 1 + Len(name) + 1

calc_bson_integer_size(n) == IF FitsSigned(n, 4) THEN 4 ELSE 8

calc_bson_unsigned_size(n) == IF FitsBoth(n, 4) THEN 4 ELSE 8

calc_bson_string_size(text) == 4 + Len(text) + 1

RECURSIVE DocumentSize(_), HasKeys(_)

\* As if every index had one digit.
ElementSizeOneDigit(name, v) ==
  (IF name # << >> /\ IsDigit(name[1]) THEN 3 ELSE calc_bson_entry_header_size(name))
    + (CASE IsArray(v) \/ IsObject(v)     -> DocumentSize(v)
         [] v.type = "boolean"            -> 1
         [] v.type = "number_float"       -> 8
         [] v.type = "number_integer"     -> calc_bson_integer_size(v.number)
         [] v.type = "number_unsigned"    -> calc_bson_unsigned_size(v.number)
         [] IsText(v)                     -> calc_bson_string_size(v.text)
         [] v.type = "null"               -> 0)

calc_bson_element_size(name, v) ==
  calc_bson_entry_header_size(name)
    + (CASE IsArray(v) \/ IsObject(v)     -> DocumentSize(v)
         [] v.type = "boolean"            -> 1
         [] v.type = "number_float"       -> 8
         [] v.type = "number_integer"     -> calc_bson_integer_size(v.number)
         [] v.type = "number_unsigned"    -> calc_bson_unsigned_size(v.number)
         [] IsText(v)                     -> calc_bson_string_size(v.text)
         [] v.type = "null"               -> 0)

\* calc_bson_object_size and calc_bson_array_size.
DocumentSize(v) ==
  LET AddSize(sum, m) == sum + calc_bson_element_size(m.key, m.value)
  IN  4 + FoldLeft(AddSize, 0, Entries(v)) + 1

HasKeys(v) ==
  IsArray(v) \/ IsObject(v) =>
    \A k \in DOMAIN Entries(v) : CanBeKey(Entries(v)[k].key) /\ HasKeys(Entries(v)[k].value)

-----------------------------------------------------------------------------
(***************************************************************************)
(* Documents.                                                              *)
(***************************************************************************)
Header(name, type) == <<type>> \o name \o <<0>>

write_bson_integer(name, n) ==
  IF FitsSigned(n, 4) THEN Header(name, \h10) \o Little(n, 4)
  ELSE Header(name, \h12) \o Little(n, 8)

write_bson_unsigned(name, n) ==
  IF FitsBoth(n, 4) THEN Header(name, \h10) \o Little(n, 4)
  ELSE IF ~ Negative(n) THEN Header(name, \h12) \o Little(n, 8)
  ELSE <<407>>

write_bson_string(name, text) ==
  Header(name, \h02) \o Int32(Len(text) + 1) \o text \o <<0>>

RECURSIVE WriteDocument(_)

write_bson_element(name, v) ==
  CASE IsObject(v)                -> Header(name, \h03) \o WriteDocument(v)
    [] IsArray(v)                 -> Header(name, \h04) \o WriteDocument(v)
    [] v.type = "boolean"         -> Header(name, \h08) \o <<IF v.truth THEN 1 ELSE 0>>
    [] v.type = "number_float"    -> Header(name, \h01) \o Little(v.number, 8)
    [] v.type = "number_integer"  -> write_bson_integer(name, v.number)
    [] v.type = "number_unsigned" -> write_bson_unsigned(name, v.number)
    [] IsText(v)                  -> write_bson_string(name, v.text)
    [] v.type = "null"            -> Header(name, \h0A)

\* write_bson_object and write_bson_array.
WriteDocument(v) ==
  LET m == Entries(v)
  IN  Int32(DocumentSize(v))
        \o Concatenated(Len(m), LAMBDA k : write_bson_element(m[k].key, m[k].value)) \o <<0>>

\* The sizes of all that is in a document are computed before it is written.
to_bson(v) ==
  IF ~ IsObject(v) THEN Fail(317)
  ELSE IF ~ HasKeys(v) THEN Fail(409)
  ELSE Output(WriteDocument(v))

-----------------------------------------------------------------------------
LittleRead(s, at, width, Value(_)) ==
  NumberRead(s, at, width, LAMBDA o : Value(Signed(Reverse(o))))

get_bson_cstr(s, at) ==
  LET ends == {k \in at .. Len(s) : s[k] = 0}
      last == CHOOSE k \in ends : \A j \in ends : k <= j
  IN  IF ends = {} THEN Fail(110) ELSE Found(SubSeq(s, at, last - 1), last + 1)

\* The octet behind the text is read, and what it is not looked at.
get_bson_string(s, at) ==
  Then(LittleRead(s, at, 4, LAMBDA n : n), LAMBDA len :
    IF Negative(len.value) \/ Size(len.value) = 0 THEN Fail(112)
    ELSE Then(get_string(s, len.next, Size(len.value) - 1), LAMBDA r :
           IF At(s, r.next) = EndOfFile THEN Fail(Discarded) ELSE Found(r.value, r.next + 1)))

RECURSIVE BsonValue(_, _, _), parse_bson_element_list(_, _, _, _)

\* As if the list ended with the input.
ListEndsWithInput(s, at, v, is_array) ==
  CASE At(s, at) \in {0, EndOfFile} -> Found(v, at + 1)
    [] OTHER ->
         Then(get_bson_cstr(s, at + 1), LAMBDA key :
           Then(BsonValue(s, s[at], key.next), LAMBDA r :
             parse_bson_element_list(s, r.next,
               IF is_array THEN Array(Append(v.elements, r.value))
               ELSE SetKey(v, key.value, r.value), is_array)))

\* Adds to what it is given, an array or an object.
parse_bson_element_list(s, at, v, is_array) ==
  CASE At(s, at) = 0   -> Found(v, at + 1)
    [] At(s, at) = EndOfFile -> Fail(110)
    [] OTHER ->
         Then(get_bson_cstr(s, at + 1), LAMBDA key :
           Then(BsonValue(s, s[at], key.next), LAMBDA r :
             parse_bson_element_list(s, r.next,
               IF is_array THEN Array(Append(v.elements, r.value))
               ELSE SetKey(v, key.value, r.value), is_array)))

\* The size is read, and not used.
parse_bson_internal(s, at) ==
  Then(get_number(s, at, 4),
       LAMBDA r : parse_bson_element_list(s, r.next, EmptyObject, FALSE))

parse_bson_array(s, at) ==
  Then(get_number(s, at, 4),
       LAMBDA r : parse_bson_element_list(s, r.next, EmptyArray, TRUE))

BsonValue(s, type, at) ==
  CASE type = \h01 -> NumberRead(s, at, 8, LAMBDA o : Float(Reverse(o)))
    [] type = \h02 -> TextRead(get_bson_string(s, at))
    [] type = \h03 -> parse_bson_internal(s, at)
    [] type = \h04 -> parse_bson_array(s, at)
    [] type = \h08 -> Found(Truth(At(s, at) # 0), at + 1)
    [] type = \h0A -> Found(Null, at)
    [] type = \h10 -> LittleRead(s, at, 4, Integer)
    [] type = \h12 -> LittleRead(s, at, 8, Integer)
    [] OTHER       -> Fail(114)

from_bson(s) == AtEnd(s, parse_bson_internal(s, 1))
=============================================================================
