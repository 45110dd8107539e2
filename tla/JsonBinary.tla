----------------------------- MODULE JsonBinary -----------------------------
(***************************************************************************)
(* What the four binary formats of lib/include/json.hpp have in common:    *)
(* numbers and their octets, and the reader's utility functions.           *)
(*                                                                         *)
(* A number has 64 bits here: it is the sequence of its eight octets, the  *)
(* most significant one first, and the bits of a number_float are those of *)
(* its representation.  What is read is answered by the value and by the   *)
(* position behind it, or by the number of the exception.                  *)
(***************************************************************************)
EXTENDS JsonPointer

Octet == 0 .. 255

EndOfFile == -1           \* std::char_traits<char>::eof()

\* The number of the octet at the position, and the end behind the last.
At(s, at) == IF at <= Len(s) THEN s[at] ELSE EndOfFile

Fail(error) == [error |-> error]

Found(v, next) == [error |-> NoError, value |-> v, next |-> next]

Then(r, Continue(_)) == IF r.error = NoError THEN Continue(r) ELSE r

\* What from_bson and the others return when the reader fails without error.
Discarded == 1

-----------------------------------------------------------------------------
(***************************************************************************)
(* Numbers: static_cast between the widths, and numeric_limits.            *)
(***************************************************************************)
Widened(octets, fill) ==
  [k \in 1 .. 8 |-> IF k > 8 - Len(octets) THEN octets[k - 8 + Len(octets)] ELSE fill]

Negative(n) == n[1] >= 128

Unsigned(octets) == Widened(octets, 0)

Signed(octets) == Widened(octets, IF Negative(octets) THEN 255 ELSE 0)

Low(n, width) == SubSeq(n, 9 - width, 8)

FitsUnsigned(n, width) == n = Unsigned(Low(n, width))

FitsSigned(n, width) == n = Signed(Low(n, width))

\* An unsigned number up to the largest signed one of the width.
FitsBoth(n, width) == FitsSigned(n, width) /\ ~ Negative(n)

\* The least of the widths that hold an unsigned number, as a power of two.
Power(n) ==
  CHOOSE m \in 0 .. 3 : /\ FitsUnsigned(n, 2 ^ m)
                        /\ m > 0 => ~ FitsUnsigned(n, 2 ^ (m - 1))

SignedPower(n) ==
  CHOOSE m \in 0 .. 3 : /\ FitsSigned(n, 2 ^ m)
                        /\ m > 0 => ~ FitsSigned(n, 2 ^ (m - 1))

\* -1 - n
Complement(n) == [k \in 1 .. 8 |-> 255 - n[k]]

\* A number of less than 65536 as its octets.
Number(count) == Unsigned(<<count \div 256, count % 256>>)

Concatenated(n, Part(_)) == FlattenSeq([k \in 1 .. n |-> Part(k)])

(***************************************************************************)
(* A size_t that was read: Indefinite is size_t(-1), Excess is more than   *)
(* any container's max_size, Huge more than there is to read.              *)
(***************************************************************************)
Indefinite == -1
Huge       == 2 ^ 20
Excess     == 2 ^ 21

Size(n) ==
  CASE n = Widened(<< >>, 255)    -> Indefinite
    [] n[1] >= 8                  -> Excess
    [] ~ FitsUnsigned(n, 2)       -> Huge
    [] OTHER                      -> 256 * n[7] + n[8]

\* What is left to read after one of so many, or after one of indefinitely many.
Less1(size) == IF size = Indefinite THEN size ELSE size - 1

-----------------------------------------------------------------------------
(***************************************************************************)
(* float and half precision as double: a number of 24 bits that is not     *)
(* zero, scaled by a power of two.                                         *)
(***************************************************************************)
DoubleBits(sign, exponent, fraction) ==
  <<128 * sign + exponent \div 16, 16 * (exponent % 16) + fraction \div 2 ^ 19,
    (fraction \div 2 ^ 11) % 256, (fraction \div 8) % 256, 32 * (fraction % 8), 0, 0, 0>>

Scaled(sign, number, power) ==
  LET high == CHOOSE h \in 0 .. 23 : number \in 2 ^ h .. 2 ^ (h + 1) - 1
  IN  IF number = 0 THEN DoubleBits(sign, 0, 0)
      ELSE DoubleBits(sign, 1023 + high + power, number * 2 ^ (23 - high) - 2 ^ 23)

FromSingle(o) ==
  LET sign     == o[1] \div 128
      exponent == 2 * (o[1] % 128) + o[2] \div 128
      fraction == 65536 * (o[2] % 128) + 256 * o[3] + o[4]
  IN  CASE exponent = 255 /\ fraction = 0 -> DoubleBits(sign, 2047, 0)
        [] exponent = 255 -> DoubleBits(sign, 2047, 2 ^ 22 + (fraction % 2 ^ 22))
        [] exponent = 0   -> Scaled(sign, fraction, -149)
        [] OTHER          -> Scaled(sign, 2 ^ 23 + fraction, exponent - 150)

FromHalf(o) ==
  LET sign     == o[1] \div 128
      exponent == (o[1] % 128) \div 4
      mantissa == 256 * (o[1] % 4) + o[2]
  IN  CASE exponent = 0  -> Scaled(sign, mantissa, -24)
        [] exponent = 31 -> DoubleBits(sign, 2047, IF mantissa = 0 THEN 0 ELSE 2 ^ 22)
        [] OTHER         -> Scaled(sign, mantissa + 1024, exponent - 25)

-----------------------------------------------------------------------------
(***************************************************************************)
(* The reader's functions, all of which end at the end of the input.       *)
(***************************************************************************)
get_number(s, at, width) ==
  IF at + width - 1 > Len(s) THEN Fail(110)
  ELSE Found(SubSeq(s, at, at + width - 1), at + width)

get_string(s, at, len) ==
  IF len = Indefinite \/ at + len - 1 > Len(s) THEN Fail(110)
  ELSE Found(SubSeq(s, at, at + len - 1), at + len)

\* A number as its octets, and the value that is made of it.
NumberRead(s, at, width, Value(_)) ==
  Then(get_number(s, at, width), LAMBDA r : Found(Value(r.value), r.next))

\* A string as a value.
TextRead(r) == Then(r, LAMBDA q : Found(Text(q.value), q.next))

\* start_array and start_object of json_sax_dom_parser.
Started(size, r) == IF size = Excess THEN Fail(408) ELSE r

\* sax_parse: in strict mode the input must be at its end.
AtEnd(s, r) == IF r.error = NoError /\ At(s, r.next) # EndOfFile THEN Fail(110) ELSE r

(***************************************************************************)
(* What a writer wrote: an exception is the last that it writes, in the    *)
(* place of an octet.                                                      *)
(***************************************************************************)
Output(octets) ==
  LET thrown == SelectSeq(octets, LAMBDA o : o \notin Octet)
  IN  IF thrown = << >> THEN [error |-> NoError, octets |-> octets]
      ELSE Fail(Head(thrown))
=============================================================================
