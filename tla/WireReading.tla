----------------------------- MODULE WireReading -----------------------------
(***************************************************************************)
(* The reading half of the protobuf wire format: what the calls of         *)
(* google::protobuf::io::CodedInputStream and of WireFormatLite::Read...   *)
(* in lib/src/protomessageserializer.cpp return, and where they leave the  *)
(* stream.  Both classes are outside the repository.                       *)
(*                                                                         *)
(* A stream is the bytes s, the number p of bytes consumed and the current *)
(* limit l.  A read answers with a record: whether it succeeded (ok), the  *)
(* value stored in the caller's variable (value) and the new position      *)
(* (next).  readField ignores ok, so that the other two matter after a     *)
(* failure as well.                                                        *)
(***************************************************************************)
EXTENDS WireFormat, SequencesExt

CONSTANT TextWith(_)   \* the JSON string a std::string with these bytes becomes

Reading(ok, value, next) == [ok |-> ok, value |-> value, next |-> next]

MaxInt == 2 ^ (Bits32 - 1) - 1

-----------------------------------------------------------------------------
(***************************************************************************)
(* ReadVarint64.  A varint without a last byte is not consumed if it is    *)
(* decoded from an array, which needs MaxVarintSize bytes or a last byte   *)
(* at the limit; otherwise it is consumed byte by byte up to the limit.    *)
(***************************************************************************)
VarintNumber(bytes) ==
  LET Low[k \in 0 .. Len(bytes)] ==
        IF k = 0 THEN 0 ELSE Low[k - 1] + 128 ^ (k - 1) * (bytes[k] % 128)
  IN  Low[Len(bytes)]

VarintEnds(s, p, l) ==
  {k \in 1 .. MaxVarintSize :
     /\ p + k <= l
     /\ s[p + k] < 128
     /\ \A j \in 1 .. k - 1 : s[p + j] >= 128}

DecodedFromArray(s, p, l) == l - p >= MaxVarintSize \/ (l > p /\ s[l] < 128)

ReadVarint(s, p, l) ==
  IF VarintEnds(s, p, l) # {}
  THEN LET k == CHOOSE k \in VarintEnds(s, p, l) : TRUE
       IN  Reading(TRUE,
                   Unsigned(VarintNumber(SubSeq(s, p + 1, p + k)), Bits64), p + k)
  ELSE Reading(FALSE, 0, IF DecodedFromArray(s, p, l) THEN p ELSE l)

(***************************************************************************)
(* ReadTag: 0 at the limit and if there is no varint.                      *)
(***************************************************************************)
ReadTag(s, p, l) ==
  LET v == ReadVarint(s, p, l)
  IN  Reading(v.ok, Unsigned(v.value, Bits32), v.next)

GetTagWireType(tag)    == tag % 8
GetTagFieldNumber(tag) == tag \div 8

(***************************************************************************)
(* ReadVarintSizeAsInt: a length above INT_MAX is refused, and not         *)
(* consumed either if it was decoded from an array.                        *)
(***************************************************************************)
ReadVarintSizeAsInt(s, p, l) ==
  LET v == ReadVarint(s, p, l)
  IN  IF v.ok /\ v.value \in 0 .. MaxInt THEN v
      ELSE Reading(FALSE, -1,
                   IF v.ok /\ DecodedFromArray(s, p, l) THEN p ELSE v.next)

(***************************************************************************)
(* ReadVarint32 into a uint32_t whose value becomes an int: -1 if the read *)
(* fails.                                                                  *)
(***************************************************************************)
ReadVarint32AsInt(s, p, l) ==
  LET v == ReadVarint(s, p, l)
  IN  Reading(v.ok, IF v.ok THEN Signed(v.value, Bits32) ELSE -1, v.next)

-----------------------------------------------------------------------------
(***************************************************************************)
(* ReadPrimitive<CType, DeclaredType>.  The caller's variable holds zero   *)
(* before; a failed read leaves it, except that ReadVarint32 stores all    *)
(* ones directly into a uint32_t.  A failed read of a fixed-width value    *)
(* consumes what is left.                                                  *)
(***************************************************************************)
FixedNumber(bytes) ==
  LET Low[k \in 0 .. Len(bytes)] ==
        IF k = 0 THEN 0 ELSE Low[k - 1] + 256 ^ (k - 1) * bytes[k]
  IN  Low[Len(bytes)]

ZigZagDecode(n) == IF n % 2 = 0 THEN n \div 2 ELSE -((n \div 2) + 1)

Decoded(type, n) ==
  CASE type = "BOOL"                   -> IF n # 0 THEN 1 ELSE 0
    [] type \in {"SINT32", "SINT64"}   -> ZigZagDecode(Unsigned(n, WidthOf(type)))
    [] type \in SignedTypes \cup RealTypes -> Signed(n, WidthOf(type))
    [] OTHER                           -> Unsigned(n, WidthOf(type))

ValueAfterFailure(type) == IF type = "UINT32" THEN 2 ^ Bits32 - 1 ELSE 0

ReadPrimitive(type, s, p, l) ==
  IF type \in VarintTypes
  THEN LET v == ReadVarint(s, p, l)
       IN  Reading(v.ok, IF v.ok THEN Decoded(type, v.value)
                                 ELSE ValueAfterFailure(type), v.next)
  ELSE LET q == p + FixedSize(type)
       IN  IF q <= l
           THEN Reading(TRUE, Decoded(type, FixedNumber(SubSeq(s, p + 1, q))), q)
           ELSE Reading(FALSE, 0, l)

(***************************************************************************)
(* ReadString and ReadBytes.  A length that is negative as an int reads    *)
(* nothing; one beyond the limit reads what there is.                      *)
(***************************************************************************)
ReadBytes(s, p, l) ==
  LET v == ReadVarint32AsInt(s, p, l)
  IN  IF v.value < 0 THEN Reading(FALSE, << >>, v.next)
      ELSE IF v.value <= l - v.next
      THEN Reading(TRUE, SubSeq(s, v.next + 1, v.next + v.value), v.next + v.value)
      ELSE Reading(FALSE, SubSeq(s, v.next + 1, l), l)

(***************************************************************************)
(* ReadPackedFixedSizePrimitive: nothing is read unless the length is a    *)
(* multiple of the size.  If the values do not all fit before the limit,   *)
(* those that do are read and the rest is consumed.                        *)
(***************************************************************************)
ReadPackedFixed(type, s, p, l) ==
  LET v     == ReadVarintSizeAsInt(s, p, l)
      size  == FixedSize(type)
      count == IF v.value <= l - v.next THEN v.value \div size
                                        ELSE (l - v.next) \div size
      Value(i) == Decoded(type, FixedNumber(SubSeq(s, v.next + (i - 1) * size + 1,
                                                      v.next + i * size)))
  IN  IF ~ v.ok \/ v.value % size # 0 THEN Reading(FALSE, << >>, v.next)
      ELSE Reading(v.value <= l - v.next, [i \in 1 .. count |-> Value(i)],
                   IF v.value <= l - v.next THEN v.next + v.value ELSE l)

(***************************************************************************)
(* PushLimit: the new limit of the stream.  A length that is negative or   *)
(* reaches beyond the current limit leaves the current one in force.       *)
(***************************************************************************)
PushLimit(length, p, l) == IF length \in 0 .. l - p - 1 THEN p + length ELSE l

-----------------------------------------------------------------------------
(***************************************************************************)
(* base64_encode: four characters for three bytes, padded with `='.        *)
(***************************************************************************)
Base64Character(sextet) ==
  CASE sextet < 26 -> sextet + 65
    [] sextet \in 26 .. 51 -> sextet + 71
    [] sextet \in 52 .. 61 -> sextet - 4
    [] sextet = 62 -> 43
    [] OTHER -> 47

Base64(bytes) ==
  LET Byte(k)   == IF k <= Len(bytes) THEN bytes[k] ELSE 0
      Group(g)  == 65536 * Byte(3 * g + 1) + 256 * Byte(3 * g + 2) + Byte(3 * g + 3)
      Sextet(i) == (Group(i \div 4) \div (64 ^ (3 - (i % 4)))) % 64
      Used      == (4 * Len(bytes) + 2) \div 3
  IN  [i \in 1 .. 4 * ((Len(bytes) + 2) \div 3) |->
         IF i <= Used THEN Base64Character(Sextet(i - 1)) ELSE 61]
=============================================================================
