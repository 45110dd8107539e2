--------------------------- MODULE JsonMessagePack ---------------------------
(***************************************************************************)
(* MessagePack: write_msgpack and parse_msgpack_internal of                *)
(* lib/include/json.hpp.                                                   *)
(***************************************************************************)
EXTENDS JsonBinary

\* The octet, and the number in as many octets as its width is.
Marked(marker, n, width) == <<marker>> \o Low(n, width)

MsgPackUnsigned(n) ==
  IF FitsBoth(n, 1) THEN Low(n, 1)
  ELSE Marked(\hCC + Power(n), n, 2 ^ Power(n))

MsgPackNegative(n) ==
  IF FitsSigned(n, 1) /\ n[8] >= 224 THEN Low(n, 1)
  ELSE Marked(\hD0 + SignedPower(n), n, 2 ^ SignedPower(n))

MsgPackInteger(v) ==
  IF v.type = "number_integer" /\ Negative(v.number) THEN MsgPackNegative(v.number)
  ELSE MsgPackUnsigned(v.number)

MsgPackText(text) ==
  LET n == Number(Len(text))
  IN  CASE Len(text) <= 31        -> <<\hA0 + Len(text)>> \o text
        [] Len(text) \in 32 .. 255 -> Marked(\hD9, n, 1) \o text
        [] OTHER                  -> Marked(\hDA, n, 2) \o text

\* As if 16 elements were counted in the four bits of the octet.
MsgPackSizeShort(few, marker, count) ==
  IF count <= 16 THEN <<few + (count % 16)>> ELSE Marked(marker, Number(count), 2)

MsgPackSize(few, marker, count) ==
  IF count <= 15 THEN <<few + count>> ELSE Marked(marker, Number(count), 2)

RECURSIVE write_msgpack(_)

MsgPackArray(e) ==
  MsgPackSize(\h90, \hDC, Len(e)) \o Concatenated(Len(e), LAMBDA k : write_msgpack(e[k]))

MsgPackObject(m) ==
  MsgPackSize(\h80, \hDE, Len(m))
    \o Concatenated(Len(m), LAMBDA k : MsgPackText(m[k].key) \o write_msgpack(m[k].value))

write_msgpack(v) ==
  CASE v.type = "null"         -> <<\hC0>>
    [] v.type = "boolean"      -> <<IF v.truth THEN \hC3 ELSE \hC2>>
    [] v.type = "number_float" -> <<\hCB>> \o v.number
    [] v.type \in Numeric \ {"number_float"} -> MsgPackInteger(v)
    [] IsText(v)               -> MsgPackText(v.text)
    [] IsArray(v)              -> MsgPackArray(v.elements)
    [] IsObject(v)             -> MsgPackObject(v.members)

to_msgpack(v) == Output(write_msgpack(v))

-----------------------------------------------------------------------------
ReadMsgPackNumber(s, at) ==
  CASE s[at] = \hCA           -> NumberRead(s, at + 1, 4, LAMBDA o : Float(FromSingle(o)))
    [] s[at] = \hCB           -> NumberRead(s, at + 1, 8, Float)
    [] s[at] \in \hCC .. \hCF ->
         NumberRead(s, at + 1, 2 ^ (s[at] - \hCC), LAMBDA o : Natural(Unsigned(o)))
    [] s[at] \in \hD0 .. \hD3 ->
         NumberRead(s, at + 1, 2 ^ (s[at] - \hD0), LAMBDA o : Integer(Signed(o)))

\* The size in an octet of its own, or in two or four that follow.
SizeRead(s, at, width) == NumberRead(s, at + 1, width, LAMBDA o : Size(Unsigned(o)))

get_msgpack_string(s, at) ==
  CASE At(s, at) = EndOfFile            -> Fail(110)
    [] At(s, at) \in \hA0 .. \hBF -> get_string(s, at + 1, s[at] % 32)
    [] At(s, at) \in \hD9 .. \hDB ->
         Then(SizeRead(s, at, 2 ^ (s[at] - \hD9)), LAMBDA r : get_string(s, r.next, r.value))
    [] OTHER                      -> Fail(113)

RECURSIVE parse_msgpack_internal(_, _), get_msgpack_array(_, _, _, _),
          get_msgpack_object(_, _, _, _)

get_msgpack_array(s, at, size, e) ==
  IF size = 0 THEN Found(Array(e), at)
  ELSE Then(parse_msgpack_internal(s, at),
            LAMBDA r : get_msgpack_array(s, r.next, size - 1, Append(e, r.value)))

get_msgpack_object(s, at, size, v) ==
  IF size = 0 THEN Found(v, at)
  ELSE Then(get_msgpack_string(s, at), LAMBDA key :
         Then(parse_msgpack_internal(s, key.next), LAMBDA r :
           get_msgpack_object(s, r.next, size - 1, SetKey(v, key.value, r.value))))

ReadMsgPackArray(s, at) ==
  IF s[at] <= \h9F THEN get_msgpack_array(s, at + 1, s[at] % 16, << >>)
  ELSE Then(SizeRead(s, at, 2 ^ (s[at] - \hDB)),
            LAMBDA r : get_msgpack_array(s, r.next, r.value, << >>))

ReadMsgPackObject(s, at) ==
  IF s[at] <= \h8F THEN get_msgpack_object(s, at + 1, s[at] % 16, EmptyObject)
  ELSE Then(SizeRead(s, at, 2 ^ (s[at] - \hDD)),
            LAMBDA r : get_msgpack_object(s, r.next, r.value, EmptyObject))

PositiveFixint(s, at) == Found(Natural(Unsigned(<<s[at]>>)), at + 1)

NegativeFixint(s, at) == Found(Integer(Signed(<<s[at]>>)), at + 1)

parse_msgpack_internal(s, at) ==
  LET head == At(s, at)
  IN  CASE head = EndOfFile                                 -> Fail(110)
        [] head \in \h00 .. \h7F                      -> PositiveFixint(s, at)
        [] head \in (\h80 .. \h8F) \cup {\hDE, \hDF}  -> ReadMsgPackObject(s, at)
        [] head \in (\h90 .. \h9F) \cup {\hDC, \hDD}  -> ReadMsgPackArray(s, at)
        [] head \in (\hA0 .. \hBF) \cup \hD9 .. \hDB  -> TextRead(get_msgpack_string(s, at))
        [] head = \hC0                                -> Found(Null, at + 1)
        [] head \in {\hC2, \hC3}                      -> Found(Truth(head = \hC3), at + 1)
        [] head \in \hCA .. \hD3                      -> ReadMsgPackNumber(s, at)
        [] head \in \hE0 .. \hFF                      -> NegativeFixint(s, at)
        [] OTHER                                      -> Fail(112)

from_msgpack(s) == AtEnd(s, parse_msgpack_internal(s, 1))
=============================================================================
