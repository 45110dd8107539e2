----------------------------- MODULE JsonNumber -----------------------------
(***************************************************************************)
(* Numbers in JSON text: lexer::scan_number of lib/include/json.hpp, an    *)
(* automaton of labels and gotos that decides by the form of a number      *)
(* which of the three number types it gets.  An integer is dumped and      *)
(* scanned again, or a text is scanned.  The specification is part of that *)
(* in JsonCalls.                                                           *)
(***************************************************************************)
EXTENDS JsonInteger

CONSTANTS
  Texts,          \* character sequences behind which the input ends
  Numbers         \* integers to dump

ASSUME NumberAssumption ==
  /\ Texts \subseteq Seq(STRING)
  /\ Numbers \subseteq -(2 ^ (Bits - 1)) .. 2 ^ Bits - 1

VARIABLES
  input, position,
  label,          \* the state of scan_number
  number_type,
  token_buffer,
  token,          \* "none", "scanning", or the token returned
  value           \* of an integer token

numberVars == <<input, position, label, number_type, token_buffer, token, value>>

-----------------------------------------------------------------------------
(***************************************************************************)
(* The labels of scan_number and its gotos.                                *)
(***************************************************************************)
Labels == {"init", "minus", "zero", "any1", "decimal1", "decimal2",
           "exponent", "sign", "any2", "done", "error"}

\* Where what was read is no number yet.
Unfinished == {"init", "minus", "decimal1", "exponent", "sign"}

\* As if a zero could be followed by digits.
GotoOctal(from, c) ==
  CASE from = "init" /\ c = "-"                                  -> "minus"
    [] from \in {"init", "minus", "zero", "any1"} /\ c \in Digit -> "any1"
    [] from \in {"zero", "any1"} /\ c = "."                      -> "decimal1"
    [] from \in {"zero", "any1", "decimal2"} /\ c \in {"e", "E"} -> "exponent"
    [] from \in {"decimal1", "decimal2"} /\ c \in Digit          -> "decimal2"
    [] from = "exponent" /\ c \in {"+", "-"}                     -> "sign"
    [] from \in {"exponent", "sign", "any2"} /\ c \in Digit      -> "any2"
    [] OTHER -> IF from \in Unfinished THEN "error" ELSE "done"

Goto(from, c) ==
  CASE from = "init" /\ c = "-"                                  -> "minus"
    [] from \in {"init", "minus"} /\ c = "0"                     -> "zero"
    [] from \in {"init", "minus"} /\ c \in Digit \ {"0"}         -> "any1"
    [] from = "any1" /\ c \in Digit                              -> "any1"
    [] from \in {"zero", "any1"} /\ c = "."                      -> "decimal1"
    [] from \in {"zero", "any1", "decimal2"} /\ c \in {"e", "E"} -> "exponent"
    [] from \in {"decimal1", "decimal2"} /\ c \in Digit          -> "decimal2"
    [] from = "exponent" /\ c \in {"+", "-"}                     -> "sign"
    [] from \in {"exponent", "sign", "any2"} /\ c \in Digit      -> "any2"
    [] OTHER -> IF from \in Unfinished THEN "error" ELSE "done"

TypeAt(to) ==
  CASE to = "minus"                     -> "value_integer"
    [] to \in {"decimal1", "exponent"}  -> "value_float"
    [] OTHER                            -> number_type

Eof == "eof"

Current == IF position <= Len(input) THEN input[position] ELSE Eof

ScanInit(text) ==
  /\ input = text /\ position = 1 /\ label = "init"
  /\ number_type = "value_unsigned" /\ token_buffer = << >>
  /\ token = "scanning" /\ value = 0

NotScanning ==
  /\ input = << >> /\ position = 1 /\ label = "init"
  /\ number_type = "value_unsigned" /\ token_buffer = << >>
  /\ token = "none" /\ value = 0

\* scan() calls scan_number at a minus sign or a digit only.
NumberInit ==
  \/ \E text \in Texts :
       text # << >> /\ text[1] \in Digit \cup {"-"} /\ ScanInit(text)
  \/ \E x \in Numbers : ScanInit(dump_integer(x))

Read ==
  /\ token = "scanning" /\ Goto(label, Current) \notin {"done", "error"}
  /\ label' = Goto(label, Current)
  /\ number_type' = TypeAt(label')
  /\ token_buffer' = Append(token_buffer, Current)
  /\ position' = position + 1
  /\ UNCHANGED <<input, token, value>>

ScanFails ==
  /\ token = "scanning" /\ Goto(label, Current) = "error"
  /\ token' = "parse_error"
  /\ UNCHANGED <<input, position, label, number_type, token_buffer, value>>

(***************************************************************************)
(* strtoull and strtoll: the value, if it is in the range of the type.     *)
(***************************************************************************)
Magnitude(digits) ==
  LET Sum[k \in 0 .. Len(digits)] ==
        IF k = 0 THEN 0 ELSE 10 * Sum[k - 1] + ValueOf(digits[k])
  IN  Sum[Len(digits)]

Converted ==
  IF token_buffer[1] = "-" THEN -Magnitude(Tail(token_buffer))
  ELSE Magnitude(token_buffer)

\* As if the errno of strtoll was ignored.
InRangeUnsigned ==
  \/ number_type = "value_unsigned" /\ Converted \in 0 .. MaxUnsigned
  \/ number_type = "value_integer"

InRange ==
  \/ number_type = "value_unsigned" /\ Converted \in 0 .. MaxUnsigned
  \/ number_type = "value_integer" /\ Converted \in IntegerRange

(***************************************************************************)
(* scan_number_done: the character behind the number is ungot, and the     *)
(* number converted.  An integer out of range becomes a float.             *)
(***************************************************************************)
ScanDone ==
  /\ token = "scanning" /\ Goto(label, Current) = "done"
  /\ label' = "done"
  /\ IF InRange
     THEN token' = number_type /\ value' = Converted
     ELSE token' = "value_float" /\ UNCHANGED value
  /\ UNCHANGED <<input, position, number_type, token_buffer>>

Scan == Read \/ ScanFails \/ ScanDone

(***************************************************************************)
(* The numbers alone.                                                      *)
(***************************************************************************)
NumberSpec == (NumberInit \/ NotScanning) /\ [][Scan]_numberVars

-----------------------------------------------------------------------------
(***************************************************************************)
(* number = [ - ] ( 0 / digit1-9 *digit ) [ . 1*digit ]                    *)
(*          [ e [ - / + ] 1*digit ]                                        *)
(***************************************************************************)
Part(t, from, to) == SubSeq(t, from, to)

AreDigits(t) == t # << >> /\ \A k \in DOMAIN t : t[k] \in Digit

IsInteger(t) == AreDigits(t) /\ (t[1] = "0" => Len(t) = 1)

UnsignedPart(t) == IF t # << >> /\ t[1] = "-" THEN Tail(t) ELSE t

WithoutSign(t) == IF t # << >> /\ t[1] \in {"-", "+"} THEN Tail(t) ELSE t

IsDecimal(t) ==
  \/ IsInteger(t)
  \/ \E k \in DOMAIN t : /\ t[k] = "."
                         /\ IsInteger(Part(t, 1, k - 1))
                         /\ AreDigits(Part(t, k + 1, Len(t)))

IsNumber(t) ==
  LET u == UnsignedPart(t)
  IN  \/ IsDecimal(u)
      \/ \E k \in DOMAIN u : /\ u[k] \in {"e", "E"}
                             /\ IsDecimal(Part(u, 1, k - 1))
                             /\ AreDigits(WithoutSign(Part(u, k + 1, Len(u))))

IsWhole(t) == IsInteger(UnsignedPart(t))

\* The beginning of a number.
CanContinue(t) == IsNumber(t) \/ IsNumber(Append(t, "0"))

NextCharacter == SubSeq(input, position, IF position <= Len(input) THEN position ELSE position - 1)

-----------------------------------------------------------------------------
(***************************************************************************)
(* An integer token has exactly the value of its digits: whole numbers     *)
(* that fit get the integer type of their sign, the others become floating *)
(* point instead of wrapping around.                                       *)
(***************************************************************************)
SignedValue(t) == IF t[1] = "-" THEN -Magnitude(Tail(t)) ELSE Magnitude(t)

KeepsValue ==
  IF ~ IsWhole(token_buffer) THEN token = "value_float"
  ELSE LET x == SignedValue(token_buffer)
       IN  CASE token_buffer[1] = "-" /\ x \in IntegerRange ->
                  token = "value_integer" /\ value = x
             [] token_buffer[1] # "-" /\ x \in 0 .. MaxUnsigned ->
                  token = "value_unsigned" /\ value = x
             [] OTHER -> token = "value_float"

(***************************************************************************)
(* The scanner reads as far as the text is the beginning of a number, no   *)
(* further and no less, returns a number if what it read is one, and keeps *)
(* its value.                                                              *)
(***************************************************************************)
ScansNumbers ==
  /\ token \notin {"none", "scanning"} =>
       /\ token_buffer = SubSeq(input, 1, position - 1)
       /\ token_buffer # << >> => CanContinue(token_buffer)
       /\ NextCharacter # << >> => ~ CanContinue(token_buffer \o NextCharacter)
  /\ token = "parse_error" => ~ IsNumber(token_buffer)
  /\ token \notin {"none", "scanning", "parse_error"} =>
       IsNumber(token_buffer) /\ KeepsValue

(***************************************************************************)
(* Every integer is dumped as a number, read to its end and with the same  *)
(* value, the least one included, whose absolute value has no              *)
(* representation; only its type may change, to that of its sign.          *)
(***************************************************************************)
IntegersComeBack ==
  [][\A x \in Numbers :
       input = dump_integer(x) /\ token' \notin {"none", "scanning"} =>
         /\ token' = IF x < 0 THEN "value_integer" ELSE "value_unsigned"
         /\ value' = x
         /\ position' = Len(input) + 1]_numberVars
=============================================================================
