----------------------------- MODULE JsonString -----------------------------
(***************************************************************************)
(* Strings in JSON text.  A string is either scanned from a document and   *)
(* then dumped, as a text that serializeMessage is given, or dumped as the *)
(* bytes that readMessage found in a message; what was dumped is scanned   *)
(* by whoever gets the document.  Scanner and serializer each have a UTF-8 *)
(* automaton of their own.                                                 *)
(***************************************************************************)
EXTENDS JsonStringDump

-----------------------------------------------------------------------------
(***************************************************************************)
(* lexer::scan_string, behind the opening quote: one step for each turn of *)
(* its loop, that is for each byte, escape or code point of the literal.   *)
(***************************************************************************)
VARIABLES
  input,          \* the bytes behind the opening quote
  position,       \* of the next byte, from 1
  token_buffer,   \* the string scanned so far
  token           \* "none", "scanning", "value_string" or "parse_error"

scanVars == <<input, position, token_buffer, token>>

Eof == -1

At(k) == IF k <= Len(input) THEN input[k] ELSE Eof

Current == At(position)

Scanning == token = "scanning"

Accept(bytes, read) ==
  /\ token_buffer' = token_buffer \o bytes
  /\ position' = position + read
  /\ UNCHANGED <<input, token>>

ParseError ==
  /\ token' = "parse_error"
  /\ UNCHANGED <<input, position, token_buffer>>

-----------------------------------------------------------------------------
ScanIdle ==
  /\ input = << >> /\ position = 1 /\ token_buffer = << >> /\ token = "none"

ScanString(text) ==
  /\ input' = text /\ position' = 1 /\ token_buffer' = << >>
  /\ token' = "scanning"

ClosingQuote ==
  /\ Scanning /\ Current = 34
  /\ token' = "value_string"
  /\ position' = position + 1
  /\ UNCHANGED <<input, token_buffer>>

(***************************************************************************)
(* The end of the input, U+0000 to U+001F, and bytes that begin no         *)
(* character: 80 to C1 and F5 to FF.                                       *)
(***************************************************************************)
Unexpected ==
  /\ Scanning /\ Current \in {Eof} \cup (0 .. 31) \cup (128 .. 193) \cup (245 .. 255)
  /\ ParseError

Plain ==
  /\ Scanning /\ Current \in (32 .. 127) \ {34, 92}
  /\ Accept(<<Current>>, 1)

-----------------------------------------------------------------------------
(***************************************************************************)
(* next_byte_in_range: the bytes that may follow the first one.            *)
(***************************************************************************)
Trail == 128 .. 191

\* As if ED could be followed by any continuation.
RangesWithSurrogates(first) ==
  CASE first \in 194 .. 223 -> <<Trail>>
    [] first = 224          -> <<160 .. 191, Trail>>
    [] first \in 225 .. 239 -> <<Trail, Trail>>
    [] first = 240          -> <<144 .. 191, Trail, Trail>>
    [] first \in 241 .. 243 -> <<Trail, Trail, Trail>>
    [] first = 244          -> <<128 .. 143, Trail, Trail>>

Ranges(first) ==
  CASE first \in 194 .. 223 -> <<Trail>>
    [] first = 224          -> <<160 .. 191, Trail>>
    [] first = 237          -> <<128 .. 159, Trail>>
    [] first \in 225 .. 239 \ {237} -> <<Trail, Trail>>
    [] first = 240          -> <<144 .. 191, Trail, Trail>>
    [] first \in 241 .. 243 -> <<Trail, Trail, Trail>>
    [] first = 244          -> <<128 .. 143, Trail, Trail>>

next_byte_in_range(ranges) ==
  \A k \in 1 .. Len(ranges) : At(position + k) \in ranges[k]

MultiByte ==
  /\ Scanning /\ Current \in 194 .. 244
  /\ IF next_byte_in_range(Ranges(Current))
     THEN LET n == Len(Ranges(Current))
          IN  Accept(SubSeq(input, position, position + n), n + 1)
     ELSE ParseError

-----------------------------------------------------------------------------
(***************************************************************************)
(* Escapes.  The letter behind the backslash stands for a byte, or is the  *)
(* u of \uxxxx.                                                            *)
(***************************************************************************)
EscapeLetters == {34, 92, 47, 98, 102, 110, 114, 116}

Unescaped(letter) ==
  CASE letter = 98  -> 8
    [] letter = 102 -> 12
    [] letter = 110 -> 10
    [] letter = 114 -> 13
    [] letter = 116 -> 9
    [] OTHER        -> letter

ShortEscaped ==
  /\ Scanning /\ Current = 92 /\ At(position + 1) \in EscapeLetters
  /\ Accept(<<Unescaped(At(position + 1))>>, 2)

ForbiddenEscape ==
  /\ Scanning /\ Current = 92 /\ At(position + 1) \notin EscapeLetters \cup {117}
  /\ ParseError

HexDigits == (48 .. 57) \cup (65 .. 70) \cup (97 .. 102)

HexValue(c) ==
  CASE c \in 48 .. 57 -> c - 48 [] c \in 65 .. 70 -> c - 55 [] OTHER -> c - 87

(***************************************************************************)
(* get_codepoint: the four digits behind the u at k, or -1.                *)
(***************************************************************************)
get_codepoint(k) ==
  IF \E d \in 1 .. 4 : At(k + d) \notin HexDigits THEN -1
  ELSE HexValue(At(k + 1)) * 4096 + HexValue(At(k + 2)) * 256
         + HexValue(At(k + 3)) * 16 + HexValue(At(k + 4))

IsHighSurrogate(u) == 55296 <= u /\ u <= 56319
IsLowSurrogate(u)  == 56320 <= u /\ u <= 57343

(***************************************************************************)
(* The code point of an escape or of a surrogate pair, in UTF-8.           *)
(***************************************************************************)
Bytes(c) ==
  LET Follows(shift) == 128 + ((c \div shift) % 64)
  IN  IF c < 128 THEN <<c>>
      ELSE IF c <= 2047 THEN <<192 + (c \div 64), Follows(1)>>
      ELSE IF c <= 65535
      THEN <<224 + (c \div 4096), Follows(64), Follows(1)>>
      ELSE <<240 + (c \div 262144), Follows(4096), Follows(64), Follows(1)>>

Paired(high, low) == high * 1024 + low - 56613888    \* 0x35FDC00

OpensUnicode == Scanning /\ Current = 92 /\ At(position + 1) = 117

First  == get_codepoint(position + 1)

Second ==
  IF At(position + 6) = 92 /\ At(position + 7) = 117
  THEN get_codepoint(position + 7) ELSE -1

UnicodeEscaped ==
  /\ OpensUnicode /\ First >= 0 /\ ~ IsHighSurrogate(First) /\ ~ IsLowSurrogate(First)
  /\ Accept(Bytes(First), 6)

SurrogatePair ==
  /\ OpensUnicode /\ IsHighSurrogate(First) /\ IsLowSurrogate(Second)
  /\ Accept(Bytes(Paired(First, Second)), 12)

BrokenUnicode ==
  /\ OpensUnicode
  /\ \/ First = -1
     \/ IsLowSurrogate(First)
     \/ IsHighSurrogate(First) /\ ~ IsLowSurrogate(Second)
  /\ ParseError

ScanStep ==
  \/ ClosingQuote \/ Unexpected \/ Plain \/ MultiByte \/ ShortEscaped
  \/ ForbiddenEscape \/ UnicodeEscaped \/ SurrogatePair \/ BrokenUnicode

-----------------------------------------------------------------------------
(***************************************************************************)
(* The reference: UTF-8 as Unicode defines it, by the value of the code    *)
(* points and not by tables of bytes.                                      *)
(***************************************************************************)
Octet == 0 .. 255

IsScalarValue(c) == 0 <= c /\ c <= 1114111 /\ ~ (55296 <= c /\ c <= 57343)  \* no surrogate

LeadingOctets == <<0 .. 127, 192 .. 223, 224 .. 239, 240 .. 247>>
LeastCoded    == <<0, 128, 2048, 65536>>            \* the shortest form only

(***************************************************************************)
(* The code point whose encoding c is, if c is one.                        *)
(***************************************************************************)
CodePoint(c) ==
  LET Bits(k) == c[k] - 128
  IN  CASE Len(c) = 1 -> c[1]
        [] Len(c) = 2 -> (c[1] - 192) * 64 + Bits(2)
        [] Len(c) = 3 -> (c[1] - 224) * 4096 + Bits(2) * 64 + Bits(3)
        [] Len(c) = 4 -> (c[1] - 240) * 262144 + Bits(2) * 4096 + Bits(3) * 64 + Bits(4)

IsCharacter(c) ==
  /\ Len(c) \in 1 .. 4
  /\ c[1] \in LeadingOctets[Len(c)]
  /\ \A k \in 2 .. Len(c) : c[k] \in 128 .. 191
  /\ CodePoint(c) >= LeastCoded[Len(c)]
  /\ IsScalarValue(CodePoint(c))

(***************************************************************************)
(* Characters cannot overlap, so a text is a sequence of characters if     *)
(* each of its octets lies in one.                                         *)
(***************************************************************************)
InCharacter(text, k) ==
  \E first \in 1 .. k, last \in k .. Len(text) : IsCharacter(SubSeq(text, first, last))

WellFormed(text) == \A k \in 1 .. Len(text) : InCharacter(text, k)

-----------------------------------------------------------------------------
CONSTANTS
  Literals,       \* what may stand behind an opening quote
  Strings         \* what may be dumped

ASSUME StringAssumption ==
  Literals \subseteq Seq(Octet) /\ Strings \subseteq Seq(Octet)

VARIABLE turn     \* "parse", "dump", "reparse"

vars == <<dumpVars, scanVars, turn>>

Init ==
  \/ /\ turn = "parse"
     /\ input \in Literals /\ position = 1 /\ token_buffer = << >>
     /\ token = "scanning"
     /\ DumpInit(<< >>, FALSE, "strict") /\ dump = "idle"
  \/ /\ turn = "dump"
     /\ \E string \in Strings, ascii \in BOOLEAN, handler \in Handlers :
          DumpInit(string, ascii, handler)
     /\ dump = "dumping"
     /\ ScanIdle

Parse ==
  /\ turn \in {"parse", "reparse"}
  /\ ScanStep
  /\ UNCHANGED <<dumpVars, turn>>

DumpParsed ==
  /\ turn = "parse" /\ token = "value_string"
  /\ turn' = "dump"
  /\ \E ascii \in BOOLEAN, handler \in Handlers :
       DumpString(token_buffer, ascii, handler)
  /\ UNCHANGED scanVars

Dump ==
  /\ turn = "dump"
  /\ DumpStep
  /\ UNCHANGED <<scanVars, turn>>

Reparse ==
  /\ turn = "dump" /\ dump = "dumped"
  /\ turn' = "reparse"
  /\ ScanString(output \o <<Quote>>)
  /\ UNCHANGED dumpVars

Next == Parse \/ DumpParsed \/ Dump \/ Reparse

Spec == Init /\ [][Next]_vars /\ WF_vars(Next)

-----------------------------------------------------------------------------
TypeOK ==
  /\ turn \in {"parse", "dump", "reparse"}
  /\ s \in Seq(Octet) /\ ensure_ascii \in BOOLEAN /\ error_handler \in Handlers
  /\ i \in 1 .. Len(s) + 1
  /\ state \in 0 .. 8
  /\ codepoint \in Nat
  /\ string_buffer \in Seq(Octet) /\ output \in Seq(Octet)
  /\ bytes_after_last_accept \in 0 .. Len(string_buffer)
  /\ undumped_chars \in Nat /\ reach \in Nat
  /\ dump \in {"idle", "dumping", "dumped", "threw"}
  /\ input \in Seq(Octet) /\ position \in Nat /\ token_buffer \in Seq(Octet)
  /\ token \in {"none", "scanning", "value_string", "parse_error"}

(***************************************************************************)
(* Nothing is written behind the end of string_buffer: the 13 bytes that   *)
(* the flush leaves free are enough for what is copied of an incomplete    *)
(* character, the longest escape and the zero snprintf appends.            *)
(***************************************************************************)
StaysInBuffer == reach <= BufferSize

(***************************************************************************)
(* The strict handler throws for exactly the strings that are not UTF-8,   *)
(* the others for none: the automaton of the serializer is right.          *)
(***************************************************************************)
ThrowsIfIllFormed ==
  /\ dump = "threw" => error_handler = "strict" /\ ~ WellFormed(s)
  /\ dump = "dumped" /\ error_handler = "strict" => WellFormed(s)

(***************************************************************************)
(* Whatever a literal holds, the string scanned from it is UTF-8: no       *)
(* escape and no sequence of bytes lets a lone surrogate, an overlong or a *)
(* truncated character through, so that dump accepts what parse returned.  *)
(***************************************************************************)
ScansUtf8 == token = "value_string" => WellFormed(token_buffer)

(***************************************************************************)
(* What was dumped is a literal and is scanned to its end, to the string   *)
(* that was dumped if it was UTF-8.                                        *)
(***************************************************************************)
ComesBack ==
  turn = "reparse" =>
    /\ token # "parse_error"
    /\ token = "value_string" =>
         /\ position = Len(input) + 1
         /\ WellFormed(s) => token_buffer = s

(***************************************************************************)
(* Every call returns or throws, although the serializer may go back and   *)
(* read a byte again.                                                      *)
(***************************************************************************)
ReturnsOrThrows == <>[](dump = "threw" \/ token \in {"value_string", "parse_error"})
=============================================================================
