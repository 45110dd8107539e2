----------------------------- MODULE JsonInteger -----------------------------
(***************************************************************************)
(* serializer::dump_integer in lib/include/json.hpp, which writes two      *)
(* digits at a time into a buffer, from the last to the first.             *)
(***************************************************************************)
EXTENDS Integers, Sequences

CONSTANT
  Bits            \* the width of number_integer_t and number_unsigned_t, 64

ASSUME BitsAssumption == Bits \in Nat \ {0}

\* What the provers do not know of powers.
ASSUME PowerAssumption == 2 ^ (Bits - 1) \in Nat /\ 2 ^ Bits \in Nat

MaxUnsigned == 2 ^ Bits - 1
IntegerRange == -(2 ^ (Bits - 1)) .. 2 ^ (Bits - 1) - 1

Digits == <<"0", "1", "2", "3", "4", "5", "6", "7", "8", "9">>

Digit    == {Digits[d] : d \in 1 .. 10}
ValueOf(digit) == (CHOOSE d \in 1 .. 10 : Digits[d] = digit) - 1

-----------------------------------------------------------------------------
(***************************************************************************)
(* count_digits counts four digits in each turn of its loop.               *)
(***************************************************************************)
\* Off by one: 10, 100, ... are given the digits of 9, 99, ...
CountDigitsShort(number) ==
  LET Count[x \in 0 .. number] ==
        IF x <= 10 THEN 1 ELSE IF x <= 100 THEN 2 ELSE IF x <= 1000 THEN 3
        ELSE IF x <= 10000 THEN 4 ELSE 4 + Count[x \div 10000]
  IN  Count[number]

count_digits(number) ==
  LET Count[x \in 0 .. number] ==
        IF x < 10 THEN 1 ELSE IF x < 100 THEN 2 ELSE IF x < 1000 THEN 3
        ELSE IF x < 10000 THEN 4 ELSE 4 + Count[x \div 10000]
  IN  Count[number]

TwoDigits(x) == <<Digits[(x \div 10) + 1], Digits[(x % 10) + 1]>>

(***************************************************************************)
(* The digits that dump_integer writes, from the last two to the first.    *)
(***************************************************************************)
Written(number) ==
  LET From[x \in 0 .. number] ==
        IF x >= 100 THEN From[x \div 100] \o TwoDigits(x % 100)
        ELSE IF x >= 10 THEN TwoDigits(x) ELSE <<Digits[x + 1]>>
  IN  From[number]

\* The absolute value of a negative number, which may not be representable.
remove_sign(x) == -(x + 1) + 1

(***************************************************************************)
(* The digits end at n_chars; what they leave of the buffer is undefined   *)
(* but for the sign in front.                                              *)
(***************************************************************************)
Undefined == "?"

dump_integer(x) ==
  LET abs_value == IF x < 0 THEN remove_sign(x) ELSE x
      n_chars   == count_digits(abs_value) + (IF x < 0 THEN 1 ELSE 0)
      digits    == Written(abs_value)
      gap       == n_chars - Len(digits)
  IN  [k \in 1 .. n_chars |->
         IF k > gap THEN digits[k - gap]
         ELSE IF x < 0 /\ k = 1 THEN "-" ELSE Undefined]
=============================================================================
