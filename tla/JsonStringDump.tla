--------------------------- MODULE JsonStringDump ---------------------------
(***************************************************************************)
(* serializer::dump_escaped of lib/include/json.hpp: the bytes of a string *)
(* are decoded one by one as UTF-8, escaped into a fixed buffer, and the   *)
(* buffer is written out whenever the next code point might not fit.       *)
(* ProtoMessageSerializer::readMessage calls it, through dump(), for each  *)
(* key and text with ensure_ascii false and the strict error handler; the  *)
(* other options are modelled as well.                                     *)
(***************************************************************************)
EXTENDS Integers, Sequences

CONSTANTS
  BufferSize      \* the size of string_buffer, 512 in the code

ASSUME BufferAssumption == BufferSize \in Nat /\ BufferSize >= 16

VARIABLES
  s,              \* the string to escape
  ensure_ascii, error_handler,
  i,              \* the index of the next byte of s, from 1
  state,          \* of the UTF-8 decoder
  codepoint,
  string_buffer,  \* its first `bytes' bytes
  bytes_after_last_accept,
  undumped_chars,
  reach,          \* how many bytes of the buffer were ever written
  output,         \* what the output adapter got
  dump            \* "idle", "dumping", "dumped", or "threw" type_error 316

dumpVars ==
  <<s, ensure_ascii, error_handler, i, state, codepoint, string_buffer,
    bytes_after_last_accept, undumped_chars, reach, output, dump>>

Handlers == {"strict", "ignore", "replace"}

-----------------------------------------------------------------------------
(***************************************************************************)
(* decode: the automaton of the table utf8d.  The first half of the table  *)
(* gives the class of a byte, the second half the next state.  State 0     *)
(* accepts, 1 rejects; 2 and 3 expect one and two more bytes, 4 to 8 a     *)
(* second byte of a limited range.                                         *)
(***************************************************************************)
UTF8_ACCEPT == 0
UTF8_REJECT == 1

ByteClass(byte) ==
  CASE byte \in 0 .. 127   -> 0
    [] byte \in 128 .. 143 -> 1
    [] byte \in 144 .. 159 -> 9
    [] byte \in 160 .. 191 -> 7
    [] byte \in 194 .. 223 -> 2
    [] byte = 224          -> 10
    [] byte = 237          -> 4
    [] byte \in 225 .. 239 \ {237} -> 3
    [] byte = 240          -> 11
    [] byte \in 241 .. 243 -> 6
    [] byte = 244          -> 5
    [] OTHER               -> 8    \* 192, 193 and 245 .. 255

\* As if a surrogate could be encoded in three bytes.
NextStateWithSurrogates(from, class) ==
  CASE from = 0 /\ class = 0 -> 0
    [] from = 0 /\ class = 2 -> 2
    [] from = 0 /\ class \in {3, 4} -> 3
    [] from = 0 /\ class = 10 -> 4
    [] from = 0 /\ class = 11 -> 6
    [] from = 0 /\ class = 6 -> 7
    [] from = 0 /\ class = 5 -> 8
    [] from = 2 /\ class \in {1, 7, 9} -> 0
    [] from = 3 /\ class \in {1, 7, 9} -> 2
    [] from = 4 /\ class = 7 -> 2
    [] from = 6 /\ class \in {7, 9} -> 3
    [] from = 7 /\ class \in {1, 7, 9} -> 3
    [] from = 8 /\ class = 1 -> 3
    [] OTHER -> 1

NextState(from, class) ==
  CASE from = 0 /\ class = 0 -> 0
    [] from = 0 /\ class = 2 -> 2
    [] from = 0 /\ class = 3 -> 3
    [] from = 0 /\ class = 4 -> 5
    [] from = 0 /\ class = 10 -> 4
    [] from = 0 /\ class = 11 -> 6
    [] from = 0 /\ class = 6 -> 7
    [] from = 0 /\ class = 5 -> 8
    [] from = 2 /\ class \in {1, 7, 9} -> 0
    [] from = 3 /\ class \in {1, 7, 9} -> 2
    [] from = 4 /\ class = 7 -> 2
    [] from = 5 /\ class \in {1, 9} -> 2
    [] from = 6 /\ class \in {7, 9} -> 3
    [] from = 7 /\ class \in {1, 7, 9} -> 3
    [] from = 8 /\ class = 1 -> 3
    [] OTHER -> 1

Decoded == NextState(state, ByteClass(s[i]))

DecodedCodepoint ==
  IF state # UTF8_ACCEPT THEN codepoint * 64 + (s[i] % 64)
  ELSE s[i] % 2 ^ (IF ByteClass(s[i]) > 8 THEN 0 ELSE 8 - ByteClass(s[i]))

-----------------------------------------------------------------------------
(***************************************************************************)
(* What a code point adds to the buffer.  Escapes in hexadecimal are       *)
(* printed by snprintf, which also writes a terminating zero.              *)
(***************************************************************************)
Quote       == 34
Backslash   == 92
ShortEscape ==
  [c \in {8, 9, 10, 12, 13, Quote, Backslash} |->
     CASE c = 8  -> 98
       [] c = 9  -> 116
       [] c = 10 -> 110
       [] c = 12 -> 102
       [] c = 13 -> 114
       [] OTHER  -> c]

HexDigit(d) == IF d < 10 THEN 48 + d ELSE 87 + d

UnicodeEscape(u) ==
  <<Backslash, 117, HexDigit(u \div 4096), HexDigit((u \div 256) % 16),
    HexDigit((u \div 16) % 16), HexDigit(u % 16)>>

\* Off by one: U+001F is taken for printable.
InHexadecimalBelow(c) == c < 31 \/ (ensure_ascii /\ c >= 127)

InHexadecimal(c) == c <= 31 \/ (ensure_ascii /\ c >= 127)

Escaped(c) ==
  IF c \in DOMAIN ShortEscape THEN <<Backslash, ShortEscape[c]>>
  ELSE IF ~ InHexadecimal(c) THEN <<s[i]>>
  ELSE IF c <= 65535 THEN UnicodeEscape(c)
  ELSE UnicodeEscape(55232 + (c \div 1024)) \o UnicodeEscape(56320 + (c % 1024))

Terminator(c) ==
  IF c \notin DOMAIN ShortEscape /\ InHexadecimal(c) THEN 1 ELSE 0

Highest(m, n) == IF m < n THEN n ELSE m

\* As if the surrogate pair had been forgotten when the reserve was chosen.
FlushLate(buffer) ==
  IF BufferSize - Len(buffer) < 7
  THEN string_buffer' = << >> /\ output' = output \o buffer
  ELSE string_buffer' = buffer /\ UNCHANGED output

Flush(buffer) ==
  IF BufferSize - Len(buffer) < 13
  THEN string_buffer' = << >> /\ output' = output \o buffer
  ELSE string_buffer' = buffer /\ UNCHANGED output

-----------------------------------------------------------------------------
DumpInit(string, ascii, handler) ==
  /\ s = string /\ ensure_ascii = ascii /\ error_handler = handler
  /\ i = 1 /\ state = UTF8_ACCEPT /\ codepoint = 0
  /\ string_buffer = << >> /\ bytes_after_last_accept = 0
  /\ undumped_chars = 0 /\ reach = 0 /\ output = << >>

(***************************************************************************)
(* The serializer is constructed for this string.                          *)
(***************************************************************************)
DumpString(string, ascii, handler) ==
  /\ dump = "idle"
  /\ dump' = "dumping"
  /\ s' = string /\ ensure_ascii' = ascii /\ error_handler' = handler
  /\ i' = 1 /\ state' = UTF8_ACCEPT /\ codepoint' = 0
  /\ string_buffer' = << >> /\ bytes_after_last_accept' = 0
  /\ undumped_chars' = 0 /\ reach' = 0 /\ output' = << >>

HasByte == dump = "dumping" /\ i <= Len(s)

Read ==
  /\ i' = i + 1
  /\ codepoint' = DecodedCodepoint
  /\ UNCHANGED <<s, ensure_ascii, error_handler>>

AcceptCodepoint ==
  /\ HasByte /\ Decoded = UTF8_ACCEPT
  /\ Read
  /\ state' = UTF8_ACCEPT
  /\ LET c      == DecodedCodepoint
         buffer == string_buffer \o Escaped(c)
     IN  /\ Flush(buffer)
         /\ reach' = Highest(reach, Len(buffer) + Terminator(c))
  /\ bytes_after_last_accept' = Len(string_buffer')
  /\ undumped_chars' = 0
  /\ UNCHANGED dump

Incomplete ==
  /\ HasByte /\ Decoded \notin {UTF8_ACCEPT, UTF8_REJECT}
  /\ Read
  /\ state' = Decoded
  /\ string_buffer' = IF ensure_ascii THEN string_buffer
                                      ELSE Append(string_buffer, s[i])
  /\ reach' = Highest(reach, Len(string_buffer'))
  /\ undumped_chars' = undumped_chars + 1
  /\ UNCHANGED <<bytes_after_last_accept, output, dump>>

RejectByte ==
  /\ HasByte /\ Decoded = UTF8_REJECT /\ error_handler = "strict"
  /\ Read
  /\ state' = UTF8_REJECT
  /\ dump' = "threw"
  /\ UNCHANGED <<string_buffer, bytes_after_last_accept, undumped_chars,
                 reach, output>>

Replacement ==
  IF ensure_ascii THEN UnicodeEscape(65533) ELSE <<239, 191, 189>>

AcceptedBytes == SubSeq(string_buffer, 1, bytes_after_last_accept)

(***************************************************************************)
(* A byte that does not continue the code point begun before it is read    *)
(* again, as it may begin another one.                                     *)
(***************************************************************************)
\* As if it was read again in any case.
RereadAlways == i

Reread == IF undumped_chars > 0 THEN i ELSE i + 1

SkipInvalid ==
  /\ HasByte /\ Decoded = UTF8_REJECT /\ error_handler # "strict"
  /\ i' = Reread
  /\ codepoint' = DecodedCodepoint
  /\ state' = UTF8_ACCEPT
  /\ undumped_chars' = 0
  /\ IF error_handler = "replace"
     THEN /\ Flush(AcceptedBytes \o Replacement)
          /\ reach' = Highest(reach, Len(AcceptedBytes \o Replacement))
          /\ bytes_after_last_accept' = Len(string_buffer')
     ELSE /\ string_buffer' = AcceptedBytes
          /\ UNCHANGED <<reach, bytes_after_last_accept, output>>
  /\ UNCHANGED <<s, ensure_ascii, error_handler, dump>>

DumpEnds ==
  /\ dump = "dumping" /\ i = Len(s) + 1
  /\ IF state = UTF8_ACCEPT
     THEN dump' = "dumped" /\ output' = output \o string_buffer
     ELSE IF error_handler = "strict"
     THEN dump' = "threw" /\ UNCHANGED output
     ELSE /\ dump' = "dumped"
          /\ output' = output \o AcceptedBytes
               \o (IF error_handler = "replace" THEN Replacement ELSE << >>)
  /\ UNCHANGED <<s, ensure_ascii, error_handler, i, state, codepoint,
                 string_buffer, bytes_after_last_accept, undumped_chars, reach>>

DumpStep ==
  \/ AcceptCodepoint \/ Incomplete \/ RejectByte \/ SkipInvalid \/ DumpEnds
=============================================================================
