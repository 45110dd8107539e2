----------------------------- MODULE JsonUbjson -----------------------------
(***************************************************************************)
(* UBJSON: write_ubjson and parse_ubjson_internal of lib/include/json.hpp. *)
(* A value follows its marker; the elements of a container that announces  *)
(* their type have no markers of their own.                                *)
(***************************************************************************)
EXTENDS JsonBinary

\* The markers, which are characters.
Mark == [Z |-> 90, T |-> 84, F |-> 70, N |-> 78, i |-> 105, U |-> 85, I |-> 73, l |-> 108,
         L |-> 76, d |-> 100, D |-> 68, C |-> 67, S |-> 83, type |-> 36, size |-> 35,
         array |-> 91, arrayEnd |-> 93, object |-> 123, objectEnd |-> 125]

NumberMarks == {Mark.U, Mark.i, Mark.I, Mark.l, Mark.L}

WidthOf(mark) ==
  CASE mark \in {Mark.U, Mark.i} -> 1 [] mark = Mark.I -> 2
    [] mark = Mark.l -> 4 [] mark = Mark.L -> 8

\* i, I, l and L by the width, as a power of two.
SignedMark(m) == <<Mark.i, Mark.I, Mark.l, Mark.L>>[m + 1]

-----------------------------------------------------------------------------
(***************************************************************************)
(* write_number_with_ubjson_prefix for unsigned and for signed numbers.    *)
(***************************************************************************)
WriteUnsigned(n, add_prefix) ==
  LET byte == FitsUnsigned(n, 1) /\ ~ FitsBoth(n, 1)
      mark == IF byte THEN Mark.U ELSE SignedMark(SignedPower(n))
  IN  IF Negative(n) THEN <<407>>
      ELSE (IF add_prefix THEN <<mark>> ELSE << >>) \o Low(n, WidthOf(mark))

WriteSigned(n, add_prefix) ==
  LET byte == ~ FitsSigned(n, 1) /\ FitsUnsigned(n, 1)
      mark == IF byte THEN Mark.U ELSE SignedMark(SignedPower(n))
  IN  (IF add_prefix THEN <<mark>> ELSE << >>) \o Low(n, WidthOf(mark))

\* As if the numbers from 128 to 255 had no type of their own.
UbjsonPrefixWithoutByte(v) ==
  CASE v.type = "null"         -> Mark.Z
    [] v.type = "boolean"      -> IF v.truth THEN Mark.T ELSE Mark.F
    [] v.type = "number_float" -> Mark.D
    [] v.type \in Numeric \ {"number_float"} -> SignedMark(SignedPower(v.number))
    [] IsText(v)               -> Mark.S
    [] IsArray(v)              -> Mark.array
    [] IsObject(v)             -> Mark.object

IntegerPrefix(n) ==
  CASE FitsSigned(n, 1)                             -> Mark.i
    [] ~ FitsSigned(n, 1) /\ FitsUnsigned(n, 1)     -> Mark.U
    [] OTHER                                        -> SignedMark(SignedPower(n))

UnsignedPrefix(n) ==
  CASE FitsBoth(n, 1)                               -> Mark.i
    [] ~ FitsBoth(n, 1) /\ FitsUnsigned(n, 1)       -> Mark.U
    [] Negative(n)                                  -> Mark.L
    [] OTHER                                        -> SignedMark(SignedPower(n))

ubjson_prefix(v) ==
  CASE v.type = "null"            -> Mark.Z
    [] v.type = "boolean"         -> IF v.truth THEN Mark.T ELSE Mark.F
    [] v.type = "number_integer"  -> IntegerPrefix(v.number)
    [] v.type = "number_unsigned" -> UnsignedPrefix(v.number)
    [] v.type = "number_float"    -> Mark.D
    [] IsText(v)                  -> Mark.S
    [] IsArray(v)                 -> Mark.array
    [] IsObject(v)                -> Mark.object

WriteSize(count) == WriteUnsigned(Number(count), TRUE)

(***************************************************************************)
(* use_count and use_type; the type is written if all the values have the  *)
(* same.                                                                   *)
(***************************************************************************)
Plain      == [count |-> FALSE, type |-> FALSE]
WithCounts == [count |-> TRUE, type |-> FALSE]
WithTypes  == [count |-> TRUE, type |-> TRUE]

SamePrefix(options, values) ==
  /\ options.type /\ values # << >>
  /\ \A k \in DOMAIN values : ubjson_prefix(values[k]) = ubjson_prefix(values[1])

Opening(options, values) ==
  (IF SamePrefix(options, values) THEN <<Mark.type, ubjson_prefix(values[1])>> ELSE << >>)
    \o (IF options.count THEN <<Mark.size>> \o WriteSize(Len(values)) ELSE << >>)

Closing(options, mark) == IF options.count THEN << >> ELSE <<mark>>

Prefix(v, add_prefix) == IF add_prefix THEN <<ubjson_prefix(v)>> ELSE << >>

RECURSIVE write_ubjson(_, _, _)

UbjsonText(text) == WriteSize(Len(text)) \o text

UbjsonArray(e, options) ==
  LET Element(k) == write_ubjson(e[k], options, ~ SamePrefix(options, e))
  IN  Opening(options, e) \o Concatenated(Len(e), Element)
        \o Closing(options, Mark.arrayEnd)

UbjsonObject(m, options) ==
  LET values  == [k \in DOMAIN m |-> m[k].value]
      Pair(k) == UbjsonText(m[k].key)
                   \o write_ubjson(values[k], options, ~ SamePrefix(options, values))
  IN  Opening(options, values) \o Concatenated(Len(m), Pair)
        \o Closing(options, Mark.objectEnd)

write_ubjson(v, options, add_prefix) ==
  CASE v.type \in {"null", "boolean"} -> Prefix(v, add_prefix)
    [] v.type = "number_integer"      -> WriteSigned(v.number, add_prefix)
    [] v.type = "number_unsigned"     -> WriteUnsigned(v.number, add_prefix)
    [] v.type = "number_float"        -> Prefix(v, add_prefix) \o v.number
    [] IsText(v)   -> Prefix(v, add_prefix) \o UbjsonText(v.text)
    [] IsArray(v)  -> Prefix(v, add_prefix) \o UbjsonArray(v.elements, options)
    [] IsObject(v) -> Prefix(v, add_prefix) \o UbjsonObject(v.members, options)

to_ubjson(v, options) == Output(write_ubjson(v, options, TRUE))

-----------------------------------------------------------------------------
(***************************************************************************)
(* get_ignore_noop: the position of the next octet that is no N.           *)
(***************************************************************************)
RECURSIVE get_ignore_noop(_, _)

get_ignore_noop(s, at) == IF At(s, at) = Mark.N THEN get_ignore_noop(s, at + 1) ELSE at

UbjsonNumber(mark, octets) == IF mark = Mark.U THEN Unsigned(octets) ELSE Signed(octets)

\* A length that is negative reads nothing.
Length(n) == IF Negative(n) THEN 0 ELSE Size(n)

get_ubjson_string(s, at) ==
  LET mark == At(s, at)
  IN  CASE mark = EndOfFile           -> Fail(110)
        [] mark \in NumberMarks ->
             Then(NumberRead(s, at + 1, WidthOf(mark), LAMBDA o : UbjsonNumber(mark, o)),
                  LAMBDA r : get_string(s, r.next, IF mark = Mark.U THEN Size(r.value)
                                                   ELSE Length(r.value)))
        [] OTHER                -> Fail(113)

get_ubjson_size_value(s, from) ==
  LET at   == get_ignore_noop(s, from)
      mark == At(s, at)
  IN  IF mark \in NumberMarks
      THEN NumberRead(s, at + 1, WidthOf(mark), LAMBDA o : Size(UbjsonNumber(mark, o)))
      ELSE Fail(113)

(***************************************************************************)
(* The size and the type of a container; without a size its first octet    *)
(* has been read already.                                                  *)
(***************************************************************************)
SizeAndType(r, type) ==
  Then(r, LAMBDA q : Found([size |-> q.value, type |-> type],
                          IF q.value = Indefinite THEN q.next - 1 ELSE q.next))

get_ubjson_size_type(s, from) ==
  LET at   == get_ignore_noop(s, from)
      hash == get_ignore_noop(s, at + 2)
  IN  CASE At(s, at) = Mark.size -> SizeAndType(get_ubjson_size_value(s, at + 1), 0)
        [] At(s, at) = Mark.type ->
             IF EndOfFile \in {At(s, at + 1), At(s, hash)} THEN Fail(110)
             ELSE IF At(s, hash) # Mark.size THEN Fail(112)
             ELSE SizeAndType(get_ubjson_size_value(s, hash + 1), At(s, at + 1))
        [] OTHER -> Found([size |-> Indefinite, type |-> 0], at)

RECURSIVE get_ubjson_value(_, _, _), SizedElements(_, _, _, _, _), Elements(_, _, _),
          SizedMembers(_, _, _, _, _), Members(_, _, _)

parse_ubjson_internal(s, from) ==
  LET at == get_ignore_noop(s, from) IN get_ubjson_value(s, At(s, at), at + 1)

\* A value of the type of its container, if there is one.
ValueOfType(s, type, at) ==
  IF type = 0 THEN parse_ubjson_internal(s, at) ELSE get_ubjson_value(s, type, at)

SizedElements(s, type, at, size, e) ==
  IF size = 0 \/ type = Mark.N THEN Found(Array(e), at)
  ELSE Then(ValueOfType(s, type, at),
            LAMBDA r : SizedElements(s, type, r.next, size - 1, Append(e, r.value)))

Elements(s, at, e) ==
  IF At(s, at) = Mark.arrayEnd THEN Found(Array(e), at + 1)
  ELSE Then(get_ubjson_value(s, At(s, at), at + 1),
            LAMBDA r : Elements(s, get_ignore_noop(s, r.next), Append(e, r.value)))

get_ubjson_array(s, at) ==
  Then(get_ubjson_size_type(s, at), LAMBDA r :
    IF r.value.size = Indefinite THEN Elements(s, r.next, << >>)
    ELSE Started(r.value.size,
                 SizedElements(s, r.value.type, r.next, r.value.size, << >>)))

SizedMembers(s, type, at, size, v) ==
  IF size = 0 THEN Found(v, at)
  ELSE Then(get_ubjson_string(s, at), LAMBDA key :
         Then(ValueOfType(s, type, key.next), LAMBDA r :
           SizedMembers(s, type, r.next, size - 1, SetKey(v, key.value, r.value))))

Members(s, at, v) ==
  IF At(s, at) = Mark.objectEnd THEN Found(v, at + 1)
  ELSE Then(get_ubjson_string(s, at), LAMBDA key :
         Then(parse_ubjson_internal(s, key.next), LAMBDA r :
           Members(s, get_ignore_noop(s, r.next), SetKey(v, key.value, r.value))))

get_ubjson_object(s, at) ==
  Then(get_ubjson_size_type(s, at), LAMBDA r :
    IF r.value.size = Indefinite THEN Members(s, r.next, EmptyObject)
    ELSE Started(r.value.size,
                 SizedMembers(s, r.value.type, r.next, r.value.size, EmptyObject)))

ReadUbjsonNumber(s, mark, at) ==
  CASE mark = Mark.U -> NumberRead(s, at, 1, LAMBDA o : Natural(Unsigned(o)))
    [] mark = Mark.d -> NumberRead(s, at, 4, LAMBDA o : Float(FromSingle(o)))
    [] mark = Mark.D -> NumberRead(s, at, 8, Float)
    [] OTHER         -> NumberRead(s, at, WidthOf(mark), LAMBDA o : Integer(Signed(o)))

ReadChar(s, at) ==
  CASE At(s, at) = EndOfFile      -> Fail(110)
    [] At(s, at) > 127      -> Fail(113)
    [] At(s, at) \in 0 .. 127 -> Found(Text(<<s[at]>>), at + 1)

\* The value behind a marker that was read.
get_ubjson_value(s, mark, at) ==
  CASE mark = EndOfFile                                    -> Fail(110)
    [] mark \in {Mark.T, Mark.F}                     -> Found(Truth(mark = Mark.T), at)
    [] mark = Mark.Z                                 -> Found(Null, at)
    [] mark \in NumberMarks \cup {Mark.d, Mark.D}    -> ReadUbjsonNumber(s, mark, at)
    [] mark = Mark.C                                 -> ReadChar(s, at)
    [] mark = Mark.S                                 -> TextRead(get_ubjson_string(s, at))
    [] mark = Mark.array                             -> get_ubjson_array(s, at)
    [] mark = Mark.object                            -> get_ubjson_object(s, at)
    [] OTHER                                         -> Fail(112)

from_ubjson(s) ==
  Then(parse_ubjson_internal(s, 1),
       LAMBDA r : AtEnd(s, [r EXCEPT !.next = get_ignore_noop(s, r.next)]))
=============================================================================
