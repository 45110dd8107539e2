------------------------------ MODULE JsonCbor ------------------------------
(***************************************************************************)
(* CBOR: write_cbor and parse_cbor_internal of lib/include/json.hpp.  The  *)
(* first octet of a value tells its kind and, in its low five bits, how    *)
(* the number begins that is the value or counts what follows.             *)
(***************************************************************************)
EXTENDS JsonBinary

CborHead(kind, n) ==
  IF FitsUnsigned(n, 1) /\ n[8] <= 23 THEN <<kind + n[8]>>
  ELSE <<kind + 24 + Power(n)>> \o Low(n, 2 ^ Power(n))

CborInteger(v) ==
  IF v.type = "number_integer" /\ Negative(v.number)
  THEN CborHead(\h20, Complement(v.number))
  ELSE CborHead(\h00, v.number)

CborText(text) == CborHead(\h60, Number(Len(text))) \o text

RECURSIVE write_cbor(_)

CborArray(e) ==
  CborHead(\h80, Number(Len(e))) \o Concatenated(Len(e), LAMBDA k : write_cbor(e[k]))

CborObject(m) ==
  CborHead(\hA0, Number(Len(m)))
    \o Concatenated(Len(m), LAMBDA k : CborText(m[k].key) \o write_cbor(m[k].value))

write_cbor(v) ==
  CASE v.type = "null"         -> <<\hF6>>
    [] v.type = "boolean"      -> <<IF v.truth THEN \hF5 ELSE \hF4>>
    [] v.type = "number_float" -> <<\hFB>> \o v.number
    [] v.type \in Numeric \ {"number_float"} -> CborInteger(v)
    [] IsText(v)               -> CborText(v.text)
    [] IsArray(v)              -> CborArray(v.elements)
    [] IsObject(v)             -> CborObject(v.members)

to_cbor(v) == Output(write_cbor(v))

-----------------------------------------------------------------------------
(***************************************************************************)
(* The number of a head.                                                   *)
(***************************************************************************)
CborCount(s, at) ==
  LET low == s[at] % 32
  IN  IF low < 24 THEN Found(Unsigned(<<low>>), at + 1)
      ELSE NumberRead(s, at + 1, 2 ^ (low - 24), Unsigned)

ReadCborUnsigned(s, at) ==
  Then(CborCount(s, at), LAMBDA r : Found(Natural(r.value), r.next))

\* The absolute value, as if there was a zero among the negative numbers.
ReadCborAbsolute(s, at) ==
  Then(CborCount(s, at), LAMBDA r :
    Found(Integer(IF r.value[8] = 0 THEN r.value
                 ELSE Complement([r.value EXCEPT ![8] = @ - 1])), r.next))

ReadCborNegative(s, at) ==
  Then(CborCount(s, at), LAMBDA r : Found(Integer(Complement(r.value)), r.next))

RECURSIVE get_cbor_string(_, _), CborChunks(_, _, _)

\* Strings up to the octet FF, each of which may be made of others.
CborChunks(s, at, text) ==
  IF At(s, at) = \hFF THEN Found(text, at + 1)
  ELSE Then(get_cbor_string(s, at), LAMBDA r : CborChunks(s, r.next, text \o r.value))

get_cbor_string(s, at) ==
  CASE At(s, at) = EndOfFile               -> Fail(110)
    [] At(s, at) \in \h60 .. \h7B    ->
         Then(CborCount(s, at), LAMBDA r : get_string(s, r.next, Size(r.value)))
    [] At(s, at) = \h7F              -> CborChunks(s, at + 1, << >>)
    [] OTHER                         -> Fail(113)

ReadCborFloat(s, at) ==
  CASE s[at] = \hF9 -> NumberRead(s, at + 1, 2, LAMBDA o : Float(FromHalf(o)))
    [] s[at] = \hFA -> NumberRead(s, at + 1, 4, LAMBDA o : Float(FromSingle(o)))
    [] s[at] = \hFB -> NumberRead(s, at + 1, 8, Float)

RECURSIVE parse_cbor_internal(_, _), get_cbor_array(_, _, _, _), get_cbor_object(_, _, _, _)

CborEnds(s, at, size) == size = 0 \/ (size = Indefinite /\ At(s, at) = \hFF)

CborEnd(at, size) == IF size = Indefinite THEN at + 1 ELSE at

get_cbor_array(s, at, size, e) ==
  IF CborEnds(s, at, size) THEN Found(Array(e), CborEnd(at, size))
  ELSE Then(parse_cbor_internal(s, at),
            LAMBDA r : get_cbor_array(s, r.next, Less1(size), Append(e, r.value)))

get_cbor_object(s, at, size, v) ==
  IF CborEnds(s, at, size) THEN Found(v, CborEnd(at, size))
  ELSE Then(get_cbor_string(s, at), LAMBDA key :
         Then(parse_cbor_internal(s, key.next), LAMBDA r :
           get_cbor_object(s, r.next, Less1(size), SetKey(v, key.value, r.value))))

ReadCborArray(s, at) ==
  IF s[at] = \h9F THEN get_cbor_array(s, at + 1, Indefinite, << >>)
  ELSE Then(CborCount(s, at), LAMBDA r :
         Started(Size(r.value), get_cbor_array(s, r.next, Size(r.value), << >>)))

ReadCborObject(s, at) ==
  IF s[at] = \hBF THEN get_cbor_object(s, at + 1, Indefinite, EmptyObject)
  ELSE Then(CborCount(s, at), LAMBDA r :
         Started(Size(r.value), get_cbor_object(s, r.next, Size(r.value), EmptyObject)))

parse_cbor_internal(s, at) ==
  LET head == At(s, at)
  IN  CASE head = EndOfFile                               -> Fail(110)
        [] head \in \h00 .. \h1B                    -> ReadCborUnsigned(s, at)
        [] head \in \h20 .. \h3B                    -> ReadCborNegative(s, at)
        [] head \in (\h60 .. \h7B) \cup {\h7F}      -> TextRead(get_cbor_string(s, at))
        [] head \in (\h80 .. \h9B) \cup {\h9F}      -> ReadCborArray(s, at)
        [] head \in (\hA0 .. \hBB) \cup {\hBF}      -> ReadCborObject(s, at)
        [] head \in {\hF4, \hF5}                    -> Found(Truth(head = \hF5), at + 1)
        [] head = \hF6                              -> Found(Null, at + 1)
        [] head \in \hF9 .. \hFB                    -> ReadCborFloat(s, at)
        [] OTHER                                    -> Fail(112)

from_cbor(s) == AtEnd(s, parse_cbor_internal(s, 1))
=============================================================================
