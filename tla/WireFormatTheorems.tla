------------------------- MODULE WireFormatTheorems -------------------------
(***************************************************************************)
(* Lemmas about the wire format: the bytes written for a value are octets, *)
(* and there are as many as the size functions say.                        *)
(***************************************************************************)
EXTENDS WireFormat, FiniteSetTheorems, TLAPS

Groups(n) == {k \in 1 .. MaxVarintSize - 1 : n >= 128 ^ k}

LEMMA MaxVarintSizeType == MaxVarintSize \in Nat \ {0}
BY WidthAssumption DEF MaxVarintSize

LEMMA GroupsFinite ==
  ASSUME NEW n \in Nat
  PROVE  /\ IsFiniteSet(Groups(n))
         /\ Cardinality(Groups(n)) \in 0 .. MaxVarintSize - 1
<1> DEFINE M == MaxVarintSize - 1
           I == 1 .. M
<1>1. M \in Nat
  BY MaxVarintSizeType
<1> HIDE DEF M
<1>2. IsFiniteSet(I) /\ Cardinality(I) = IF 1 > M THEN 0 ELSE M - 1 + 1
  BY <1>1, FS_Interval
<1>3. (IF 1 > M THEN 0 ELSE M - 1 + 1) = M
  BY <1>1
<1>4. Groups(n) \subseteq I
  BY DEF Groups, M
<1>5. IsFiniteSet(Groups(n)) /\ Cardinality(Groups(n)) <= Cardinality(I)
  BY <1>2, <1>4, FS_Subset
<1>6. Cardinality(Groups(n)) \in Nat
  BY <1>5, FS_CardinalityType
<1> QED BY <1>1, <1>2, <1>3, <1>5, <1>6 DEF M

(***************************************************************************)
(* A varint has at least one byte and at most MaxVarintSize.               *)
(***************************************************************************)
LEMMA VarintSizeType ==
  ASSUME NEW n \in Nat
  PROVE  VarintSize(n) \in 1 .. MaxVarintSize
<1>1. VarintSize(n) = 1 + Cardinality(Groups(n))
  BY DEF VarintSize, Groups
<1> QED BY <1>1, GroupsFinite, MaxVarintSizeType

LEMMA VarintSizeGrows ==
  ASSUME NEW m \in Nat, NEW n \in Nat, m <= n
  PROVE  VarintSize(m) <= VarintSize(n)
<1>1. \A k \in 1 .. MaxVarintSize - 1 : 128 ^ k \in Nat
  BY PowerAssumption, MaxVarintSizeType
<1>2. Groups(m) \subseteq Groups(n)
  BY <1>1 DEF Groups
<1>3. Cardinality(Groups(m)) <= Cardinality(Groups(n))
  BY <1>2, GroupsFinite, FS_Subset
<1>4. VarintSize(m) = 1 + Cardinality(Groups(m))
  BY DEF VarintSize, Groups
<1>5. VarintSize(n) = 1 + Cardinality(Groups(n))
  BY DEF VarintSize, Groups
<1> QED BY <1>3, <1>4, <1>5, GroupsFinite, MaxVarintSizeType

(***************************************************************************)
(* The wire type in the three low bits of a tag never adds a byte.         *)
(***************************************************************************)
LEMMA TagSizeIgnoresWireType ==
  ASSUME NEW number \in Nat, NEW w \in 0 .. 7
  PROVE  VarintSize(8 * number + w) = VarintSize(8 * number)
<1>1. ASSUME NEW k \in 1 .. MaxVarintSize - 1
      PROVE  (8 * number + w >= 128 ^ k) <=> (8 * number >= 128 ^ k)
  <2>1. 128 ^ k \in Nat /\ (128 ^ k) % 8 = 0
    BY PowerAssumption, MaxVarintSizeType
  <2>2. \A p \in Nat : p % 8 = 0 => ((8 * number + w >= p) <=> (8 * number >= p))
    OBVIOUS
  <2> QED BY <2>1, <2>2
<1>2. Groups(8 * number + w) = Groups(8 * number)
  BY <1>1 DEF Groups
<1> QED BY <1>2 DEF VarintSize, Groups

(***************************************************************************)
(* A sequence given by a function is one of its length.                    *)
(***************************************************************************)
LEMMA VarintBytesLength ==
  ASSUME NEW n \in Nat
  PROVE  /\ VarintBytes(n) \in Seq(Octet)
         /\ Len(VarintBytes(n)) = VarintSize(n)
<1> DEFINE s == VarintSize(n)
<1>1. s \in Nat /\ s <= MaxVarintSize
  BY VarintSizeType, MaxVarintSizeType
<1>2. ASSUME NEW i \in 1 .. s
      PROVE  VarintOctet(n, i) \in Octet
  <2>1. 128 ^ (i - 1) \in Nat \ {0}
    BY <1>1, PowerAssumption, MaxVarintSizeType
  <2>2. \A p \in Nat \ {0} : (n \div p) % 128 \in 0 .. 127
    OBVIOUS
  <2>3. (n \div (128 ^ (i - 1))) % 128 \in 0 .. 127
    BY <2>1, <2>2
  <2> QED BY <2>3 DEF VarintOctet, Octet
<1> HIDE DEF s
<1>3. VarintBytes(n) = [i \in 1 .. s |-> VarintOctet(n, i)]
  BY DEF VarintBytes, s
<1>4. VarintBytes(n) \in [1 .. s -> Octet]
  BY <1>2, <1>3
<1>5. VarintBytes(n) \in Seq(Octet) /\ Len(VarintBytes(n)) = s
  BY <1>1, <1>4
<1> QED BY <1>5 DEF s

LEMMA TagBytesLength ==
  ASSUME NEW number \in Nat \ {0}, NEW type
  PROVE  /\ TagBytes(number, type) \in Seq(Octet)
         /\ Len(TagBytes(number, type)) = TagSize(number)
         /\ TagSize(number) \in Nat
<1>1. WireTypeOf(type) \in 0 .. 7
  BY DEF WireTypeOf
<1> DEFINE w == WireTypeOf(type)
<1> HIDE DEF w
<1>2. 8 * number + w \in Nat /\ 8 * number \in Nat /\ w \in 0 .. 7
  BY <1>1 DEF w
<1>3. VarintSize(8 * number + w) = VarintSize(8 * number)
  BY <1>2, TagSizeIgnoresWireType
<1>4. TagBytes(number, type) = VarintBytes(8 * number + w)
  BY DEF TagBytes, w
<1>5. VarintSize(8 * number) \in Nat
  BY <1>2, VarintSizeType, MaxVarintSizeType
<1> QED BY <1>2, <1>3, <1>4, <1>5, VarintBytesLength DEF TagSize

LEMMA LengthDelimitedLength ==
  ASSUME NEW bytes \in Seq(Octet)
  PROVE  /\ LengthDelimitedBytes(bytes) \in Seq(Octet)
         /\ Len(LengthDelimitedBytes(bytes)) = LengthDelimitedSize(Len(bytes))
         /\ LengthDelimitedSize(Len(bytes)) \in Nat
<1>1. Len(bytes) \in Nat
  OBVIOUS
<1>2. /\ VarintBytes(Len(bytes)) \in Seq(Octet)
      /\ Len(VarintBytes(Len(bytes))) = VarintSize(Len(bytes))
      /\ VarintSize(Len(bytes)) \in Nat
  BY <1>1, VarintBytesLength, VarintSizeType, MaxVarintSizeType
<1> QED BY <1>1, <1>2 DEF LengthDelimitedBytes, LengthDelimitedSize

LEMMA LengthDelimitedSizeGrows ==
  ASSUME NEW m \in Nat, NEW n \in Nat, m <= n
  PROVE  /\ LengthDelimitedSize(m) <= LengthDelimitedSize(n)
         /\ LengthDelimitedSize(m) \in Nat
         /\ LengthDelimitedSize(n) \in Nat
BY VarintSizeGrows, VarintSizeType, MaxVarintSizeType DEF LengthDelimitedSize

-----------------------------------------------------------------------------
(***************************************************************************)
(* The C++ conversions to a fixed width.                                   *)
(***************************************************************************)
LEMMA WidthPower ==
  ASSUME NEW bits \in {Bits32, Bits64}
  PROVE  /\ 2 ^ bits \in Nat \ {0}
         /\ 2 ^ (bits - 1) \in Nat \ {0}
         /\ 2 ^ bits = 2 * 2 ^ (bits - 1)
<1>1. 2 ^ (bits - 1) \in Nat \ {0} /\ 2 ^ bits = 2 * 2 ^ (bits - 1)
  BY PowerAssumption
<1> DEFINE h == 2 ^ (bits - 1)
<1>2. h \in Nat \ {0} => 2 * h \in Nat \ {0}
  OBVIOUS
<1> QED BY <1>1, <1>2

LEMMA UnsignedType ==
  ASSUME NEW x \in Int, NEW bits \in {Bits32, Bits64}
  PROVE  Unsigned(x, bits) \in Nat
<1>1. \A p \in Nat \ {0} : x % p \in Nat
  OBVIOUS
<1> QED BY <1>1, WidthPower DEF Unsigned

LEMMA SignedType ==
  ASSUME NEW x \in Int, NEW bits \in {Bits32, Bits64}
  PROVE  Signed(x, bits) \in Int
<1>1. \A p, q \in Nat \ {0} : ((x + q) % p) - q \in Int
  OBVIOUS
<1> QED BY <1>1, WidthPower DEF Signed

(***************************************************************************)
(* A conversion keeps the numbers of its range.                            *)
(***************************************************************************)
LEMMA UnsignedKeeps ==
  ASSUME NEW x \in Nat, NEW bits \in {Bits32, Bits64}, x < 2 ^ bits
  PROVE  Unsigned(x, bits) = x
<1>1. \A p \in Nat \ {0} : x < p => x % p = x
  OBVIOUS
<1> QED BY <1>1, WidthPower DEF Unsigned

LEMMA SignedKeeps ==
  ASSUME NEW x \in Int, NEW bits \in {Bits32, Bits64},
         -(2 ^ (bits - 1)) <= x, x < 2 ^ (bits - 1)
  PROVE  Signed(x, bits) = x
<1> DEFINE h == 2 ^ (bits - 1)
<1>1. h \in Nat \ {0} /\ 2 ^ bits = 2 * h
  BY WidthPower
<1>2. -h <= x /\ x < h
  OBVIOUS
<1>3. Signed(x, bits) = ((x + h) % (2 ^ bits)) - h
  BY DEF Signed
<1> HIDE DEF h
<1>4. x + h \in Nat /\ x + h < 2 * h /\ 2 * h \in Nat \ {0}
  BY <1>1, <1>2
<1>5. \A a \in Nat, p \in Nat \ {0} : a < p => a % p = a
  OBVIOUS
<1>6. (x + h) % (2 * h) = x + h
  BY <1>4, <1>5
<1> QED BY <1>1, <1>3, <1>6

LEMMA FixedBytesLength ==
  ASSUME NEW type, NEW x \in Int
  PROVE  /\ FixedBytes(type, x) \in Seq(Octet)
         /\ Len(FixedBytes(type, x)) = FixedSize(type)
         /\ FixedSize(type) \in Nat
<1> DEFINE s == FixedSize(type)
           u == Unsigned(x, WidthOf(type))
<1>1. WidthOf(type) \in {Bits32, Bits64}
  BY DEF WidthOf
<1>2. s \in Nat /\ s <= Bits64 \div 8
  BY <1>1, WidthAssumption DEF FixedSize
<1>3. u \in Nat
  BY <1>1, UnsignedType
<1> HIDE DEF s, u
<1>4. ASSUME NEW i \in 1 .. s
      PROVE  (u \div (256 ^ (i - 1))) % 256 \in Octet
  <2>1. i - 1 \in 0 .. Bits64 \div 8
    BY <1>2, WidthAssumption
  <2>2. 256 ^ (i - 1) \in Nat \ {0}
    BY <2>1, PowerAssumption
  <2>3. \A p \in Nat \ {0} : (u \div p) % 256 \in 0 .. 255
    BY <1>3
  <2> QED BY <2>2, <2>3 DEF Octet
<1>5. FixedBytes(type, x) = [i \in 1 .. s |-> (u \div (256 ^ (i - 1))) % 256]
  BY DEF FixedBytes, s, u
<1>6. FixedBytes(type, x) \in [1 .. s -> Octet]
  BY <1>4, <1>5
<1>7. FixedBytes(type, x) \in Seq(Octet) /\ Len(FixedBytes(type, x)) = s
  BY <1>2, <1>6
<1> QED BY <1>2, <1>7 DEF s

LEMMA VarintValueType ==
  ASSUME NEW type, NEW x \in Int, type \in {"UINT32", "UINT64"} => x \in Nat
  PROVE  VarintValue(type, x) \in Nat
<1>1. Unsigned(x, Bits64) \in Nat
  BY UnsignedType
<1> QED BY <1>1 DEF VarintValue
=============================================================================
