----------------------------- MODULE WireFormat -----------------------------
(***************************************************************************)
(* The protobuf wire format, as far as lib/src/protomessageserializer.cpp  *)
(* uses it.  The functions are those of google::protobuf::internal::       *)
(* WireFormatLite and google::protobuf::io::CodedOutputStream, which are   *)
(* outside the repository: each operator below is what the serializer's    *)
(* calls rely on.  A byte is a number in Octet.                            *)
(*                                                                         *)
(* The widths of the C++ integers are constants: the program has           *)
(* Bits32 = 32 and Bits64 = 64, a model may take smaller ones, so that the *)
(* wrap-around values stay within reach of a model checker.                *)
(***************************************************************************)
EXTENDS Integers, Sequences, FiniteSets

CONSTANTS
  Bits32,   \* width of int32_t, uint32_t and float
  Bits64    \* width of int64_t, uint64_t and double

ASSUME WidthAssumption ==
  /\ Bits32 \in Nat
  /\ Bits64 \in Nat
  /\ Bits32 >= 8 /\ Bits32 % 8 = 0 /\ Bits64 % 8 = 0
  /\ Bits32 < Bits64

Octet == 0 .. 255

(***************************************************************************)
(* A varint holds seven bits per byte, so this many bytes at most.         *)
(***************************************************************************)
MaxVarintSize == (Bits64 + 6) \div 7

(***************************************************************************)
(* Arithmetic facts about powers, true whatever the widths are.  They are  *)
(* named here because the provers have no theory of exponentiation.        *)
(***************************************************************************)
ASSUME PowerAssumption ==
  /\ \A k \in 0 .. MaxVarintSize : 128 ^ k \in Nat \ {0}
  /\ \A k \in 1 .. MaxVarintSize : (128 ^ k) % 8 = 0
  /\ \A k \in 0 .. Bits64 \div 8 : 256 ^ k \in Nat \ {0}
  /\ 2 ^ (Bits32 - 1) \in Nat \ {0}
  /\ 2 ^ (Bits64 - 1) \in Nat \ {0}
  /\ 2 ^ Bits32 = 2 * 2 ^ (Bits32 - 1)
  /\ 2 ^ Bits64 = 2 * 2 ^ (Bits64 - 1)

-----------------------------------------------------------------------------
(***************************************************************************)
(* Field types, named after MessageField::Type in lib/include/protofile.h. *)
(***************************************************************************)
Int32Types   == {"INT32", "SINT32", "UINT32", "FIXED32", "SFIXED32"}
Int64Types   == {"INT64", "SINT64", "UINT64", "FIXED64", "SFIXED64"}
RealTypes    == {"FLOAT", "DOUBLE"}
VarintTypes  == {"INT32", "SINT32", "UINT32", "INT64", "SINT64", "UINT64",
                 "BOOL", "ENUM"}
Fixed32Types == {"FIXED32", "SFIXED32", "FLOAT"}
Fixed64Types == {"FIXED64", "SFIXED64", "DOUBLE"}
FixedTypes   == Fixed32Types \cup Fixed64Types
ScalarTypes  == VarintTypes \cup FixedTypes
TextTypes    == {"STRING", "BYTES"}
FieldTypes   == ScalarTypes \cup TextTypes \cup {"MESSAGE", "GROUP"}

SignedTypes  == {"INT32", "SINT32", "SFIXED32", "INT64", "SINT64", "SFIXED64",
                 "ENUM"}

WidthOf(type) == IF type \in Int64Types \cup {"DOUBLE"} THEN Bits64 ELSE Bits32

WireTypeOf(type) ==
  CASE type \in VarintTypes  -> 0
    [] type \in Fixed64Types -> 1
    [] type \in Fixed32Types -> 5
    [] type = "GROUP"        -> 3
    [] OTHER                 -> 2

-----------------------------------------------------------------------------
(***************************************************************************)
(* Unsigned and two's complement readings of an integer in a given width.  *)
(***************************************************************************)
Unsigned(x, bits) == x % (2 ^ bits)

Signed(x, bits) == ((x + 2 ^ (bits - 1)) % (2 ^ bits)) - 2 ^ (bits - 1)

(***************************************************************************)
(* VarintSize32 and VarintSize64: one byte per group of seven bits.        *)
(***************************************************************************)
VarintSize(n) == 1 + Cardinality({k \in 1 .. MaxVarintSize - 1 : n >= 128 ^ k})

VarintOctet(n, i) ==
  ((n \div (128 ^ (i - 1))) % 128) + (IF i < VarintSize(n) THEN 128 ELSE 0)

(***************************************************************************)
(* WriteVarint32ToArray and WriteVarint64ToArray.                          *)
(***************************************************************************)
VarintBytes(n) == [i \in 1 .. VarintSize(n) |-> VarintOctet(n, i)]

(***************************************************************************)
(* The number a varint type puts on the wire: 32-bit signed values and     *)
(* enumerations are sign-extended to 64 bits, SINT types are zigzagged.    *)
(***************************************************************************)
VarintValue(type, x) ==
  CASE type \in {"SINT32", "SINT64"} -> IF x >= 0 THEN 2 * x ELSE -2 * x - 1
    [] type \in {"UINT32", "UINT64"} -> x
    [] OTHER                         -> Unsigned(x, Bits64)

FixedSize(type) == WidthOf(type) \div 8

(***************************************************************************)
(* Little-endian bytes of a fixed-width value.  A FLOAT or DOUBLE is       *)
(* represented by the bytes of its number of halves: a different number    *)
(* has different bytes, as IEEE 754 has.                                   *)
(***************************************************************************)
FixedBytes(type, x) ==
  [i \in 1 .. FixedSize(type) |->
     (Unsigned(x, WidthOf(type)) \div (256 ^ (i - 1))) % 256]

(***************************************************************************)
(* TagSize measures the tag with wire type 0, WriteTagToArray writes it    *)
(* with the wire type of the field.                                        *)
(***************************************************************************)
TagSize(number) == VarintSize(8 * number)

TagBytes(number, type) == VarintBytes(8 * number + WireTypeOf(type))

(***************************************************************************)
(* StringSize and BytesSize: the length prefix and the contents.           *)
(***************************************************************************)
LengthDelimitedSize(length) == VarintSize(length) + length

LengthDelimitedBytes(bytes) == VarintBytes(Len(bytes)) \o bytes
=============================================================================
