------------------------ MODULE MessageReaderTheorems ------------------------
(***************************************************************************)
(* Safety of readMessage, for all message types and all inputs: it stays   *)
(* inside the message it was started for, never reads a byte twice, and    *)
(* can only be kept from ending by the loop over a packed enumeration.     *)
(***************************************************************************)
EXTENDS MessageReader, WireFormatTheorems, SequenceTheorems, WellFoundedInduction

-----------------------------------------------------------------------------
(***************************************************************************)
(* A set of numbers has a least one: induction without a predicate.        *)
(***************************************************************************)
LEMMA LeastNumber ==
  ASSUME NEW T \in SUBSET Nat, T # {}
  PROVE  \E n \in T : \A m \in T : n <= m
<1>1. PICK n \in T : \A m \in T : ~ (<<m, n>> \in OpToRel(<, Nat))
  BY NatLessThanWellFounded, WFMin
<1>2. ASSUME NEW m \in T
      PROVE  ~ (m < n)
  <2>1. m \in Nat /\ n \in Nat
    OBVIOUS
  <2>2. m < n => <<m, n>> \in OpToRel(<, Nat)
    BY <2>1, Zenon DEF OpToRel
  <2> QED BY <1>1, <2>2
<1> QED
  BY <1>2

(***************************************************************************)
(* The function that adds up the values of g exists.                       *)
(***************************************************************************)
Sums(m, g) == {f \in [0 .. m -> Nat] :
                 f[0] = 0 /\ \A k \in 1 .. m : f[k] = f[k - 1] + g[k]}

LEMMA MoreSums ==
  ASSUME NEW n \in Nat, NEW g \in [1 .. n -> Nat], NEW m \in 1 .. n,
         NEW f \in Sums(m - 1, g)
  PROVE  Sums(m, g) # {}
<1>1. PICK l \in Nat : l = m - 1 /\ m = l + 1
  OBVIOUS
<1>2. f \in [0 .. l -> Nat] /\ f[0] = 0 /\ \A k \in 1 .. l : f[k] = f[k - 1] + g[k]
  BY <1>1 DEF Sums
<1>3. g[m] \in Nat /\ f[l] \in Nat
  BY <1>1, <1>2
<1> DEFINE h == [k \in 0 .. m |-> IF k = m THEN f[l] + g[m] ELSE f[k]]
<1>4. h \in [0 .. m -> Nat]
  BY <1>1, <1>2, <1>3
<1>5. h[0] = 0
  BY <1>1, <1>2
<1>6. ASSUME NEW k \in 1 .. m
      PROVE  h[k] = h[k - 1] + g[k]
  <2>1. CASE k = m
    <3>1. h[k] = f[l] + g[m] /\ h[k - 1] = f[l]
      BY <1>1, <2>1
    <3> QED BY <2>1, <3>1
  <2>2. CASE k # m
    <3>1. k \in 1 .. l
      BY <1>1, <2>2
    <3>2. h[k] = f[k] /\ h[k - 1] = f[k - 1]
      BY <1>1, <3>1
    <3> QED BY <1>2, <3>1, <3>2
  <2> QED BY <2>1, <2>2
<1> HIDE DEF h
<1>7. h \in Sums(m, g)
  BY <1>4, <1>5, <1>6 DEF Sums
<1> QED
  BY <1>7

LEMMA SumsExist ==
  ASSUME NEW n \in Nat, NEW g \in [1 .. n -> Nat]
  PROVE  Sums(n, g) # {}
<1> DEFINE T == {m \in 0 .. n : Sums(m, g) = {}}
<1>1. T \in SUBSET Nat
  OBVIOUS
<1>2. CASE T = {}
  <2>1. n \in 0 .. n
    OBVIOUS
  <2> QED BY <1>2, <2>1
<1>3. CASE T # {}
  <2> HIDE DEF T
  <2>1. PICK m \in T : \A k \in T : m <= k
    BY <1>1, <1>3, LeastNumber
  <2>2. m \in 0 .. n /\ Sums(m, g) = {}
    BY <2>1 DEF T
  <2>3. CASE m = 0
    <3>1. [k \in 0 .. 0 |-> 0] \in Sums(0, g)
      BY SMT DEF Sums
    <3> QED BY <2>2, <2>3, <3>1
  <2>4. CASE m # 0
    <3>1. m - 1 \in 0 .. n /\ ~ (m <= m - 1) /\ m \in 1 .. n
      BY <2>2, <2>4
    <3>2. m - 1 \notin T
      BY <2>1, <3>1
    <3>3. Sums(m - 1, g) # {}
      BY <3>1, <3>2 DEF T
    <3> QED BY <2>2, <3>1, <3>3, MoreSums
  <2> QED BY <2>3, <2>4
<1> QED
  BY <1>2, <1>3

(***************************************************************************)
(* VarintNumber is defined by recursion: what it adds up is a number.      *)
(***************************************************************************)
LEMMA SumsAreNumbers ==
  ASSUME NEW n \in Nat, NEW g \in [1 .. n -> Nat], NEW f,
         f = [k \in 0 .. n |-> IF k = 0 THEN 0 ELSE f[k - 1] + g[k]]
  PROVE  f[n] \in Nat
<1> DEFINE T == {k \in 0 .. n : f[k] \notin Nat}
<1>1. T \in SUBSET Nat
  OBVIOUS
<1>2. CASE T = {}
  <2>1. n \in 0 .. n
    OBVIOUS
  <2> QED BY <1>2, <2>1
<1>3. CASE T # {}
  <2> HIDE DEF T
  <2>1. PICK m \in T : \A k \in T : m <= k
    BY <1>1, <1>3, LeastNumber
  <2>2. m \in 0 .. n /\ f[m] \notin Nat
    BY <2>1 DEF T
  <2>3. m # 0
    <3>1. f[0] = 0
      BY SMT
    <3> QED BY <2>2, <3>1
  <2>4. m - 1 \in 0 .. n /\ ~ (m <= m - 1) /\ m \in 1 .. n
    BY <2>2, <2>3
  <2>5. f[m - 1] \in Nat
    BY <2>1, <2>4 DEF T
  <2>6. f[m] = f[m - 1] + g[m] /\ g[m] \in Nat
    BY <2>3, <2>4
  <2> QED BY <2>2, <2>5, <2>6
<1> QED
  BY <1>2, <1>3

LEMMA VarintNumberType ==
  ASSUME NEW bytes \in Seq(Octet), Len(bytes) <= MaxVarintSize
  PROVE  VarintNumber(bytes) \in Nat
<1> DEFINE n == Len(bytes)
           g == [k \in 1 .. n |-> 128 ^ (k - 1) * (bytes[k] % 128)]
           Adds(f) == f = [k \in 0 .. n |->
                             IF k = 0 THEN 0
                             ELSE f[k - 1] + 128 ^ (k - 1) * (bytes[k] % 128)]
           Low == CHOOSE f : Adds(f)
<1>1. VarintNumber(bytes) = Low[n]
  BY DEF VarintNumber
<1>2. n \in Nat /\ MaxVarintSize \in Nat
  BY MaxVarintSizeType
<1>3. ASSUME NEW k \in 1 .. n
      PROVE  128 ^ (k - 1) * (bytes[k] % 128) \in Nat
  <2>1. k - 1 \in 0 .. MaxVarintSize
    BY <1>2
  <2>2. 128 ^ (k - 1) \in Nat
    BY <2>1, PowerAssumption
  <2>3. bytes[k] % 128 \in Nat
    <3>1. bytes[k] \in Octet
      OBVIOUS
    <3>2. \A x \in Octet : x % 128 \in Nat
      BY SMT DEF Octet
    <3> QED BY <3>1, <3>2
  <2>4. \A a, b \in Nat : a * b \in Nat
    BY SMT
  <2> QED BY <2>2, <2>3, <2>4
<1>4. g \in [1 .. n -> Nat]
  BY <1>3
<1>5. \A f : Adds(f) <=> f = [k \in 0 .. n |-> IF k = 0 THEN 0 ELSE f[k - 1] + g[k]]
  <2> TAKE f
  <2>1. \A k \in 0 .. n : k # 0 => g[k] = 128 ^ (k - 1) * (bytes[k] % 128)
    BY <1>2
  <2>2. [k \in 0 .. n |-> IF k = 0 THEN 0
                          ELSE f[k - 1] + 128 ^ (k - 1) * (bytes[k] % 128)]
        = [k \in 0 .. n |-> IF k = 0 THEN 0 ELSE f[k - 1] + g[k]]
    <3> HIDE DEF g
    <3> QED BY <2>1
  <2> QED BY <2>2
<1> HIDE DEF g, Adds
<1>6. PICK f \in [0 .. n -> Nat] : f[0] = 0 /\ \A k \in 1 .. n : f[k] = f[k - 1] + g[k]
  BY <1>2, <1>4, SumsExist DEF Sums
<1>7. f = [k \in 0 .. n |-> IF k = 0 THEN 0 ELSE f[k - 1] + g[k]]
  <2>1. f = [k \in 0 .. n |-> f[k]]
    BY <1>6
  <2>2. \A k \in 0 .. n : f[k] = IF k = 0 THEN 0 ELSE f[k - 1] + g[k]
    BY <1>2, <1>6
  <2> QED BY <2>1, <2>2
<1>8. Adds(Low)
  BY <1>5, <1>7
<1> HIDE DEF Low, n
<1>9. Low[n] \in Nat
  BY <1>2, <1>4, <1>5, <1>8, SumsAreNumbers
<1> QED
  BY <1>1, <1>9 DEF n

-----------------------------------------------------------------------------
(***************************************************************************)
(* Where a read leaves the stream: not before it and not behind the limit. *)
(***************************************************************************)
Ahead(v, p, l) == v.next \in Int /\ p <= v.next /\ v.next <= l

LEMMA VarintReads ==
  ASSUME NEW s \in Seq(Octet), NEW p \in Nat, NEW l \in Nat, p <= l, l <= Len(s)
  PROVE  /\ Ahead(ReadVarint(s, p, l), p, l)
         /\ ReadVarint(s, p, l).ok \in BOOLEAN
         /\ ReadVarint(s, p, l).ok =>
              p < ReadVarint(s, p, l).next /\ ReadVarint(s, p, l).value \in Nat
         /\ ~ ReadVarint(s, p, l).ok => ReadVarint(s, p, l).value = 0
<1> DEFINE v == ReadVarint(s, p, l)
<1>1. CASE VarintEnds(s, p, l) # {}
  <2> DEFINE k == CHOOSE k \in VarintEnds(s, p, l) : TRUE
  <2>1. v = Reading(TRUE, Unsigned(VarintNumber(SubSeq(s, p + 1, p + k)), Bits64), p + k)
    BY <1>1 DEF ReadVarint
  <2>2. k \in VarintEnds(s, p, l)
    BY <1>1
  <2> HIDE DEF k
  <2>3. k \in 1 .. MaxVarintSize /\ p + k <= l
    BY <2>2 DEF VarintEnds
  <2>4. k \in Nat /\ k >= 1 /\ k <= MaxVarintSize
    BY <2>3, MaxVarintSizeType
  <2>5. SubSeq(s, p + 1, p + k) \in Seq(Octet) /\ Len(SubSeq(s, p + 1, p + k)) = k
    <3>1. \A i \in p + 1 .. p + k : s[i] \in Octet
      BY <2>3, <2>4
    <3>2. /\ SubSeq(s, p + 1, p + k) \in Seq(Octet)
          /\ Len(SubSeq(s, p + 1, p + k)) = IF p + 1 <= p + k THEN p + k - (p + 1) + 1 ELSE 0
      BY <2>4, <3>1, SubSeqProperties
    <3> QED BY <2>4, <3>2
  <2>6. VarintNumber(SubSeq(s, p + 1, p + k)) \in Nat
    BY <2>4, <2>5, VarintNumberType
  <2>7. Unsigned(VarintNumber(SubSeq(s, p + 1, p + k)), Bits64) \in Nat
    BY <2>6, UnsignedType
  <2> QED BY <2>1, <2>3, <2>4, <2>7 DEF Reading, Ahead
<1>2. CASE VarintEnds(s, p, l) = {}
  <2>1. v = Reading(FALSE, 0, IF DecodedFromArray(s, p, l) THEN p ELSE l)
    BY <1>2 DEF ReadVarint
  <2> QED BY <2>1 DEF Reading, Ahead
<1> QED
  BY <1>1, <1>2

LEMMA TagReads ==
  ASSUME NEW s \in Seq(Octet), NEW p \in Nat, NEW l \in Nat, p <= l, l <= Len(s)
  PROVE  /\ Ahead(ReadTag(s, p, l), p, l)
         /\ ReadTag(s, p, l).value # 0 => p < ReadTag(s, p, l).next
<1> DEFINE v == ReadVarint(s, p, l)
<1>1. /\ Ahead(v, p, l) /\ v.ok \in BOOLEAN /\ (v.ok => p < v.next)
      /\ (~ v.ok => v.value = 0)
  BY VarintReads
<1>2. ReadTag(s, p, l) = Reading(v.ok, Unsigned(v.value, Bits32), v.next)
  BY DEF ReadTag
<1> HIDE DEF v
<1>3. ~ v.ok => Unsigned(v.value, Bits32) = 0
  <2>1. 2 ^ Bits32 \in Nat \ {0}
    BY WidthPower
  <2>2. \A q \in Nat \ {0} : 0 % q = 0
    BY SMT
  <2> QED BY <1>1, <2>1, <2>2 DEF Unsigned
<1> QED
  BY <1>1, <1>2, <1>3 DEF Reading, Ahead

LEMMA SizeReads ==
  ASSUME NEW s \in Seq(Octet), NEW p \in Nat, NEW l \in Nat, p <= l, l <= Len(s)
  PROVE  /\ Ahead(ReadVarintSizeAsInt(s, p, l), p, l)
         /\ ReadVarintSizeAsInt(s, p, l).ok \in BOOLEAN
         /\ ReadVarintSizeAsInt(s, p, l).ok => ReadVarintSizeAsInt(s, p, l).value \in Nat
<1> DEFINE v == ReadVarint(s, p, l)
           w == ReadVarintSizeAsInt(s, p, l)
<1>1. Ahead(v, p, l) /\ v.ok \in BOOLEAN /\ (v.ok => v.value \in Nat)
  BY VarintReads
<1>2. \/ w = v
      \/ w = Reading(FALSE, -1, p)
      \/ w = Reading(FALSE, -1, v.next)
  BY DEF ReadVarintSizeAsInt
<1> HIDE DEF v, w
<1>3. ASSUME w = v
      PROVE  Ahead(w, p, l) /\ w.ok \in BOOLEAN /\ (w.ok => w.value \in Nat)
  BY <1>1, <1>3
<1>4. ASSUME NEW q \in Int, p <= q, q <= l, w = Reading(FALSE, -1, q)
      PROVE  Ahead(w, p, l) /\ w.ok \in BOOLEAN /\ (w.ok => w.value \in Nat)
  <2>1. w.ok = FALSE /\ w.next = q
    BY <1>4 DEF Reading
  <2> QED BY <1>4, <2>1 DEF Ahead
<1>5. v.next \in Int /\ p <= v.next /\ v.next <= l
  BY <1>1 DEF Ahead
<1>6. Ahead(w, p, l) /\ w.ok \in BOOLEAN /\ (w.ok => w.value \in Nat)
  <2>1. CASE w = v
    BY <1>3, <2>1
  <2>2. CASE w = Reading(FALSE, -1, p)
    <3>1. p \in Int /\ p <= p
      OBVIOUS
    <3> QED BY <1>4, <2>2, <3>1
  <2>3. CASE w = Reading(FALSE, -1, v.next)
    BY <1>4, <1>5, <2>3
  <2> QED BY <1>2, <2>1, <2>2, <2>3
<1> QED
  BY <1>6 DEF w

LEMMA IntReads ==
  ASSUME NEW s \in Seq(Octet), NEW p \in Nat, NEW l \in Nat, p <= l, l <= Len(s)
  PROVE  /\ Ahead(ReadVarint32AsInt(s, p, l), p, l)
         /\ ReadVarint32AsInt(s, p, l).value \in Int
<1> DEFINE v == ReadVarint(s, p, l)
<1>1. Ahead(v, p, l) /\ v.ok \in BOOLEAN /\ (v.ok => v.value \in Nat)
  BY VarintReads
<1>2. ReadVarint32AsInt(s, p, l)
        = Reading(v.ok, IF v.ok THEN Signed(v.value, Bits32) ELSE -1, v.next)
  BY DEF ReadVarint32AsInt
<1> HIDE DEF v
<1>3. v.ok => Signed(v.value, Bits32) \in Int
  <2>1. v.ok => v.value \in Int
    BY <1>1
  <2> QED BY <2>1, SignedType
<1> QED
  BY <1>1, <1>2, <1>3 DEF Reading, Ahead

LEMMA PrimitiveReads ==
  ASSUME NEW s \in Seq(Octet), NEW p \in Nat, NEW l \in Nat, p <= l, l <= Len(s), NEW type
  PROVE  /\ Ahead(ReadPrimitive(type, s, p, l), p, l)
         /\ ReadPrimitive(type, s, p, l).ok \in BOOLEAN
         /\ ReadPrimitive(type, s, p, l).ok => p < ReadPrimitive(type, s, p, l).next
<1>1. CASE type \in VarintTypes
  <2> DEFINE v == ReadVarint(s, p, l)
  <2>1. Ahead(v, p, l) /\ v.ok \in BOOLEAN /\ (v.ok => p < v.next)
    BY VarintReads
  <2>2. ReadPrimitive(type, s, p, l)
          = Reading(v.ok, IF v.ok THEN Decoded(type, v.value)
                                  ELSE ValueAfterFailure(type), v.next)
    BY <1>1 DEF ReadPrimitive
  <2> HIDE DEF v
  <2> QED BY <2>1, <2>2 DEF Reading, Ahead
<1>2. CASE type \notin VarintTypes
  <2>1. FixedSize(type) \in Nat /\ FixedSize(type) >= 1
    BY WidthAssumption DEF FixedSize, WidthOf
  <2>2. \/ /\ p + FixedSize(type) <= l
           /\ ReadPrimitive(type, s, p, l)
                = Reading(TRUE, Decoded(type, FixedNumber(SubSeq(s, p + 1, p + FixedSize(type)))),
                          p + FixedSize(type))
        \/ ReadPrimitive(type, s, p, l) = Reading(FALSE, 0, l)
    BY <1>2 DEF ReadPrimitive
  <2>3. \/ /\ p + FixedSize(type) <= l /\ ReadPrimitive(type, s, p, l).ok = TRUE
           /\ ReadPrimitive(type, s, p, l).next = p + FixedSize(type)
        \/ ReadPrimitive(type, s, p, l).ok = FALSE /\ ReadPrimitive(type, s, p, l).next = l
    BY <2>2 DEF Reading
  <2>4. PICK size \in Nat : size = FixedSize(type) /\ size >= 1
    BY <2>1
  <2>5. CASE ReadPrimitive(type, s, p, l).ok = TRUE
    <3>1. p + size <= l /\ ReadPrimitive(type, s, p, l).next = p + size
      BY <2>3, <2>4, <2>5
    <3>2. Ahead(ReadPrimitive(type, s, p, l), p, l) /\ p < ReadPrimitive(type, s, p, l).next
      BY <2>4, <3>1 DEF Ahead
    <3> QED BY <2>5, <3>2, Zenon
  <2>6. CASE ReadPrimitive(type, s, p, l).ok = FALSE
    <3>1. ReadPrimitive(type, s, p, l).next = l \/ (p + size <= l /\ ReadPrimitive(type, s, p, l).next = p + size)
      BY <2>3, <2>4
    <3>2. Ahead(ReadPrimitive(type, s, p, l), p, l)
      BY <2>4, <3>1 DEF Ahead
    <3> QED BY <2>6, <3>2, Zenon
  <2> QED BY <2>3, <2>5, <2>6
<1> QED
  BY <1>1, <1>2

LEMMA BytesRead ==
  ASSUME NEW s \in Seq(Octet), NEW p \in Nat, NEW l \in Nat, p <= l, l <= Len(s)
  PROVE  Ahead(ReadBytes(s, p, l), p, l)
<1> DEFINE v == ReadVarint32AsInt(s, p, l)
<1>1. Ahead(v, p, l) /\ v.value \in Int
  BY IntReads
<1>2. \/ /\ v.value < 0
         /\ ReadBytes(s, p, l) = Reading(FALSE, << >>, v.next)
      \/ /\ ~ (v.value < 0) /\ v.value <= l - v.next
         /\ ReadBytes(s, p, l) = Reading(TRUE, SubSeq(s, v.next + 1, v.next + v.value),
                                         v.next + v.value)
      \/ ReadBytes(s, p, l) = Reading(FALSE, SubSeq(s, v.next + 1, l), l)
  BY DEF ReadBytes
<1> HIDE DEF v
<1> QED
  BY <1>1, <1>2 DEF Reading, Ahead

LEMMA PackedFixedReads ==
  ASSUME NEW s \in Seq(Octet), NEW p \in Nat, NEW l \in Nat, p <= l, l <= Len(s), NEW type
  PROVE  Ahead(ReadPackedFixed(type, s, p, l), p, l)
<1> DEFINE v == ReadVarintSizeAsInt(s, p, l)
<1>1. Ahead(v, p, l) /\ v.ok \in BOOLEAN /\ (v.ok => v.value \in Nat)
  BY SizeReads
<1>2. \/ ReadPackedFixed(type, s, p, l).next = v.next
      \/ v.ok /\ v.value <= l - v.next /\ ReadPackedFixed(type, s, p, l).next = v.next + v.value
      \/ ReadPackedFixed(type, s, p, l).next = l
  BY DEF ReadPackedFixed, Reading
<1> HIDE DEF v
<1> QED
  BY <1>1, <1>2 DEF Ahead

(***************************************************************************)
(* A limit is never pushed beyond the one in force.                        *)
(***************************************************************************)
LEMMA LimitsNest ==
  ASSUME NEW p \in Nat, NEW l \in Nat, p <= l, NEW length
  PROVE  PushLimit(length, p, l) \in Nat /\ p <= PushLimit(length, p, l)
           /\ PushLimit(length, p, l) <= l
  BY DEF PushLimit

-----------------------------------------------------------------------------
(***************************************************************************)
(* The stack of calls: only the document and the unprintable members of a  *)
(* call change while it is active.                                         *)
(***************************************************************************)
IsCall(c) ==
  c = [type |-> c.type, field |-> c.field, json |-> c.json,
       unprintable |-> c.unprintable, outer |-> c.outer]

Stack(cs) ==
  /\ cs \in Seq({cs[i] : i \in 1 .. Len(cs)})
  /\ \A i \in 1 .. Len(cs) : IsCall(cs[i])

SameFrame(c, d) == c.type = d.type /\ c.field = d.field /\ c.outer = d.outer

Keeps(ds, cs) ==
  /\ Stack(ds) /\ Len(ds) = Len(cs)
  /\ \A i \in 1 .. Len(cs) : SameFrame(ds[i], cs[i])

(***************************************************************************)
(* A loop over a packed field runs only while no tag has been read.        *)
(***************************************************************************)
Inv == StaysInside /\ Stack(calls) /\ (loop # << >> => tag = 0)

(***************************************************************************)
(* What is left to do, in a unit of which a byte is worth four, a tag two  *)
(* and a call, a loop and the whole reading one.                           *)
(***************************************************************************)
Remaining ==
  4 * (Len(input) - pos) + Len(calls) + (IF tag # 0 THEN 2 ELSE 0)
    + (IF loop # << >> THEN 1 ELSE 0) + (IF phase = "read" THEN 1 ELSE 0)

Idles == PackedEnum /\ pos' = pos

NearsEnd == Remaining' < Remaining \/ Idles

LEMMA Updating ==
  ASSUME NEW cs, Stack(cs), cs # << >>, NEW e, IsCall(e), SameFrame(e, cs[Len(cs)])
  PROVE  Keeps([cs EXCEPT ![Len(cs)] = e], cs)
<1> DEFINE S == {cs[i] : i \in 1 .. Len(cs)}
           ds == [cs EXCEPT ![Len(cs)] = e]
<1>1. cs \in Seq(S) /\ \A i \in 1 .. Len(cs) : IsCall(cs[i])
  BY Zenon DEF Stack
<1> HIDE DEF S
<1>2. cs \in Seq(S \cup {e}) /\ e \in S \cup {e}
  BY <1>1
<1>3. Len(cs) \in Nat /\ Len(cs) >= 1 /\ DOMAIN cs = 1 .. Len(cs)
  BY <1>1
<1>4. ds \in Seq(S \cup {e}) /\ Len(ds) = Len(cs)
  BY <1>2, <1>3
<1>5. \A i \in 1 .. Len(cs) : ds[i] = IF i = Len(cs) THEN e ELSE cs[i]
  BY <1>3
<1> HIDE DEF ds
<1>6. ds \in Seq({ds[i] : i \in 1 .. Len(ds)})
  <2>1. ds \in [1 .. Len(ds) -> {ds[i] : i \in 1 .. Len(ds)}]
    BY <1>4
  <2> QED BY <1>3, <1>4, <2>1
<1>7. \A i \in 1 .. Len(cs) : IsCall(ds[i]) /\ SameFrame(ds[i], cs[i])
  BY <1>1, <1>5 DEF SameFrame
<1>8. Keeps(ds, cs)
  BY <1>4, <1>6, <1>7, Zenon DEF Keeps, Stack
<1> QED
  BY <1>8 DEF ds

LEMMA SameKept ==
  ASSUME NEW cs, Stack(cs)
  PROVE  Keeps(cs, cs)
  BY DEF Keeps, SameFrame

LEMMA TopIsCall ==
  ASSUME NEW cs, Stack(cs), cs # << >>
  PROVE  Len(cs) \in Nat /\ Len(cs) >= 1 /\ DOMAIN cs = 1 .. Len(cs) /\ IsCall(cs[Len(cs)])
<1> DEFINE S == {cs[i] : i \in 1 .. Len(cs)}
<1>1. cs \in Seq(S) /\ \A i \in 1 .. Len(cs) : IsCall(cs[i])
  BY Zenon DEF Stack
<1> HIDE DEF S
<1> QED
  BY <1>1

LEMMA Redocumented ==
  ASSUME NEW c, IsCall(c), NEW json, NEW unprintable
  PROVE  /\ IsCall([c EXCEPT !.json = json, !.unprintable = unprintable])
         /\ SameFrame([c EXCEPT !.json = json, !.unprintable = unprintable], c)
         /\ IsCall([c EXCEPT !.json = json]) /\ SameFrame([c EXCEPT !.json = json], c)
<1> DEFINE d == [type |-> c.type, field |-> c.field, json |-> json,
                 unprintable |-> c.unprintable, outer |-> c.outer]
           e == [type |-> c.type, field |-> c.field, json |-> json,
                 unprintable |-> unprintable, outer |-> c.outer]
           b == [type |-> c.type, field |-> c.field, json |-> c.json,
                 unprintable |-> c.unprintable, outer |-> c.outer]
<1>1. c = b
  BY DEF IsCall
<1>2. [b EXCEPT !.json = json] = d
  OBVIOUS
<1>3. [d EXCEPT !.unprintable = unprintable] = e
  OBVIOUS
<1>4. IsCall(d) /\ SameFrame(d, c) /\ IsCall(e) /\ SameFrame(e, c)
  BY DEF IsCall, SameFrame
<1> HIDE DEF b, d, e
<1>5. [c EXCEPT !.json = json] = d
  BY <1>1, <1>2
<1>6. [c EXCEPT !.json = json, !.unprintable = unprintable] = e
  BY <1>3, <1>5
<1> QED
  BY <1>4, <1>5, <1>6

(***************************************************************************)
(* Assigning a value changes no frame, in whatever way it is done.         *)
(***************************************************************************)
LEMMA AssigningKeeps ==
  ASSUME NEW cs, Stack(cs), cs # << >>, NEW f, NEW v, NEW bad
  PROVE  Keeps(Assigning(cs, f, v, bad), cs)
<1> DEFINE c == cs[Len(cs)]
           u == IF bad THEN c.unprintable \cup {f.name}
                ELSE IF f.label = "REPEATED" THEN c.unprintable
                ELSE c.unprintable \ {f.name}
           e == [c EXCEPT !.json = Assigned(f, v, c.json), !.unprintable = u]
<1>1. Assigning(cs, f, v, bad) = [cs EXCEPT ![Len(cs)] = e]
  BY DEF Assigning
<1>2. IsCall(c)
  BY TopIsCall
<1> HIDE DEF u, c
<1>3. IsCall(e) /\ SameFrame(e, c)
  BY <1>2, Redocumented
<1> HIDE DEF e
<1>4. SameFrame(e, cs[Len(cs)])
  BY <1>3 DEF c
<1> QED
  BY <1>1, <1>3, <1>4, Updating

LEMMA EachKeeps ==
  ASSUME Stack(calls), calls # << >>, NEW f, NEW xs
  PROVE  Keeps(AssignEach(f, xs), calls)
<1> DEFINE c == calls[Len(calls)]
           e == [c EXCEPT !.json = AllAssigned(f, xs, c.json)]
<1>1. IsCall(c) /\ DOMAIN calls = 1 .. Len(calls) /\ Len(calls) \in 1 .. Len(calls)
  BY TopIsCall
<1>2. AssignEach(f, xs) = [calls EXCEPT ![Len(calls)] = e]
  BY <1>1 DEF AssignEach
<1> HIDE DEF c
<1>3. IsCall(e) /\ SameFrame(e, c)
  BY <1>1, Redocumented
<1> HIDE DEF e
<1>4. SameFrame(e, calls[Len(calls)])
  BY <1>3 DEF c
<1> QED
  BY <1>2, <1>3, <1>4, Updating

LEMMA KeepsTwice ==
  ASSUME NEW cs, NEW ds, NEW es, Keeps(ds, cs), Keeps(es, ds)
  PROVE  Keeps(es, cs)
  BY DEF Keeps, SameFrame

LEMMA CappedKeeps ==
  ASSUME NEW cs, Stack(cs), cs # << >>, NEW f
  PROVE  Keeps(Capped(f, cs), cs)
<1> DEFINE c == cs[Len(cs)]
           j == [c.json EXCEPT !.members[f.name].elements = Tail(@)]
           e == [c EXCEPT !.json = j]
<1>1. IsCall(c) /\ DOMAIN cs = 1 .. Len(cs) /\ Len(cs) \in 1 .. Len(cs)
  BY TopIsCall
<1>2. Capped(f, cs) = cs \/ Capped(f, cs) = [cs EXCEPT ![Len(cs)] = e]
  BY <1>1 DEF Capped
<1> HIDE DEF c, j
<1>3. IsCall(e) /\ SameFrame(e, c)
  BY <1>1, Redocumented
<1> HIDE DEF e
<1>4. SameFrame(e, cs[Len(cs)])
  BY <1>3 DEF c
<1> QED
  BY <1>2, <1>3, <1>4, Updating, SameKept

-----------------------------------------------------------------------------
(***************************************************************************)
(* The invariant in the form the steps need.                               *)
(***************************************************************************)
Within(cs) ==
  /\ \A i \in 1 .. Len(cs) :
       /\ cs[i].type \in MessageType
       /\ cs[i].outer \in 0 .. Len(input)
       /\ i > 1 => cs[i].field \in Field
       /\ \A j \in 1 .. i : cs[i].outer <= cs[j].outer
  /\ cs[1].outer = Len(input)

LEMMA Known ==
  ASSUME Inv
  PROVE  /\ input \in Inputs /\ input \in Seq(Octet) /\ Len(input) \in Nat
         /\ pos \in Nat /\ limit \in Nat /\ pos <= limit /\ limit <= Len(input)
         /\ Stack(calls) /\ calls # << >> /\ Within(calls)
         /\ Len(calls) \in Nat /\ Len(calls) >= 1 /\ DOMAIN calls = 1 .. Len(calls)
         /\ Top.outer \in Nat /\ Top.outer <= Len(input) /\ limit <= Top.outer
         /\ Top.type \in MessageType
<1>1. /\ input \in Inputs /\ pos \in 0 .. Len(input) /\ limit \in 0 .. Len(input)
      /\ calls # << >> /\ pos <= limit /\ limit <= Top.outer /\ Stack(calls)
      /\ calls[1].outer = Len(input)
  BY Zenon DEF Inv, StaysInside, TypeOK
<1>2. input \in Seq(Octet)
  BY <1>1, ReaderAssumption
<1>3. Len(input) \in Nat
  BY <1>2
<1>4. Len(calls) \in Nat /\ Len(calls) >= 1 /\ DOMAIN calls = 1 .. Len(calls)
  BY <1>1, TopIsCall
<1>5. \A i \in 1 .. Len(calls) :
        /\ calls[i].type \in MessageType
        /\ calls[i].outer \in 0 .. Len(input)
        /\ i > 1 => calls[i].field \in Field
        /\ \A j \in 1 .. i : calls[i].outer <= calls[j].outer
  BY <1>4, Zenon DEF Inv, StaysInside, TypeOK
<1>6. Within(calls)
  BY <1>1, <1>5, Zenon DEF Within
<1>7. Len(calls) \in 1 .. Len(calls)
  BY <1>4
<1>8. Top.outer \in 0 .. Len(input) /\ Top.type \in MessageType
  BY <1>5, <1>7, Zenon DEF Top
<1> QED
  BY <1>1, <1>2, <1>3, <1>4, <1>6, <1>8

LEMMA KeptWithin ==
  ASSUME NEW cs, NEW ds, Within(cs), Keeps(ds, cs), Len(cs) \in Nat, Len(cs) >= 1
  PROVE  Within(ds) /\ ds[Len(ds)].outer = cs[Len(cs)].outer
<1>1. Len(ds) = Len(cs) /\ \A i \in 1 .. Len(cs) : SameFrame(ds[i], cs[i])
  BY DEF Keeps
<1>2. 1 \in 1 .. Len(cs) /\ Len(cs) \in 1 .. Len(cs)
  OBVIOUS
<1>3. \A i \in 1 .. Len(cs) : \A j \in 1 .. i : j \in 1 .. Len(cs)
  OBVIOUS
<1> QED
  BY <1>1, <1>2, <1>3, Zenon DEF Within, SameFrame

(***************************************************************************)
(* The first field with the number of the tag is a field.                  *)
(***************************************************************************)
LEMMA TaggedIsField ==
  ASSUME Inv, NEW f \in FieldsTagged
  PROVE  f \in Field
<1>1. Top.type \in MessageType
  BY Known
<1>2. Schema[Top.type] \in Seq(Field)
  BY <1>1, SchemaAssumption
<1>3. PICK i \in DOMAIN Schema[Top.type] : f = Schema[Top.type][i]
  BY DEF FieldsTagged
<1> QED
  BY <1>2, <1>3

(***************************************************************************)
(* A step that keeps the frames and the limit, and moves the position no   *)
(* further than that.                                                      *)
(***************************************************************************)
LEMMA Moves ==
  ASSUME Inv, input' = input, limit' = limit, Keeps(calls', calls),
         pos' \in Int, pos <= pos', pos' <= limit,
         loop' = loop \/ loop' = << >>, loop' # << >> => tag' = 0,
         phase' \in {"read"} \cup Ended
  PROVE  Inv'
<1>1. /\ input \in Inputs /\ Len(input) \in Nat
      /\ pos \in Nat /\ limit \in Nat /\ limit <= Len(input)
      /\ Within(calls) /\ Len(calls) \in Nat /\ Len(calls) >= 1
      /\ DOMAIN calls = 1 .. Len(calls) /\ limit <= Top.outer
  BY Known
<1>2. Stack(calls') /\ Len(calls') = Len(calls)
  BY DEF Keeps
<1>3. calls' # << >> /\ DOMAIN calls' = 1 .. Len(calls')
  <2>1. calls' # << >>
    BY <1>1, <1>2
  <2> QED BY <1>2, <2>1, TopIsCall
<1>4. /\ \A i \in 1 .. Len(calls') :
           /\ calls'[i].type \in MessageType
           /\ calls'[i].outer \in 0 .. Len(input')
           /\ i > 1 => calls'[i].field \in Field
           /\ \A j \in 1 .. i : calls'[i].outer <= calls'[j].outer
      /\ calls'[1].outer = Len(input')
      /\ Top'.outer = Top.outer
  <2>1. Within(calls') /\ calls'[Len(calls')].outer = calls[Len(calls)].outer
    BY <1>1, KeptWithin
  <2> QED BY <2>1, Zenon DEF Within, Top
<1>5. pos' \in 0 .. Len(input') /\ limit' \in 0 .. Len(input') /\ pos' <= limit'
  BY <1>1
<1>6. loop' # << >> =>
        /\ loop'[1].field \in Field /\ loop'[1].outer \in 0 .. Len(input')
        /\ limit' <= loop'[1].outer /\ loop'[1].outer <= Top'.outer
  BY <1>4, Zenon DEF Inv, StaysInside, TypeOK
<1>7. TypeOK'
  BY <1>1, <1>3, <1>4, <1>5, <1>6, Zenon DEF TypeOK
<1>8. StaysInside'
  BY <1>1, <1>3, <1>4, <1>5, <1>6, <1>7, Zenon DEF StaysInside
<1> QED
  BY <1>2, <1>8, Zenon DEF Inv

(***************************************************************************)
(* The steps that enter and leave a packed field or a nested message.      *)
(***************************************************************************)
LEMMA EntersPacked ==
  ASSUME Inv, NEW f \in Field, NEW v, v.next \in Int, pos <= v.next, v.next <= limit,
         input' = input, calls' = calls, phase' = phase, tag' = 0, pos' = v.next,
         loop' = <<[field |-> f, outer |-> limit]>>,
         limit' = PushLimit(v.value, v.next, limit)
  PROVE  Inv'
<1>1. /\ input \in Inputs /\ Len(input) \in Nat
      /\ pos \in Nat /\ limit \in Nat /\ limit <= Len(input)
      /\ Stack(calls) /\ calls # << >> /\ limit <= Top.outer
  BY Known
<1>2. limit' \in Nat /\ v.next <= limit' /\ limit' <= limit
  <2>1. v.next \in Nat
    BY <1>1
  <2> QED BY <1>1, <2>1, LimitsNest
<1>3. loop'[1].field = f /\ loop'[1].outer = limit
  BY SMT
<1>4. pos' \in 0 .. Len(input') /\ limit' \in 0 .. Len(input') /\ pos' <= limit'
  BY <1>1, <1>2
<1>5. /\ loop'[1].field \in Field /\ loop'[1].outer \in 0 .. Len(input')
      /\ limit' <= loop'[1].outer /\ loop'[1].outer <= Top'.outer
      /\ limit' <= Top'.outer
  <2>1. Top' = Top
    BY DEF Top
  <2>2. Top.outer \in Nat
    BY Known
  <2> QED BY <1>1, <1>2, <1>3, <2>1, <2>2
<1>6. TypeOK'
  BY <1>1, <1>4, <1>5, Zenon DEF Inv, StaysInside, TypeOK
<1>7. StaysInside'
  BY <1>4, <1>5, <1>6, Zenon DEF Inv, StaysInside
<1> QED
  BY <1>1, <1>7, Zenon DEF Inv

LEMMA LeavesPacked ==
  ASSUME Inv, LeavePacked
  PROVE  Inv'
<1>1. /\ loop # << >> /\ limit' = loop[1].outer /\ loop' = << >> /\ input' = input
      /\ pos' = pos /\ calls' = calls /\ tag' = tag /\ phase' = phase
  BY Zenon DEF LeavePacked
<1>2. /\ pos <= limit /\ limit <= loop[1].outer /\ loop[1].outer <= Top.outer
      /\ loop[1].outer \in 0 .. Len(input)
  BY <1>1, Zenon DEF Inv, StaysInside, TypeOK
<1>3. pos \in Nat /\ limit \in Nat /\ Len(input) \in Nat
  BY Known
<1>4. pos' <= limit'
  BY <1>1, <1>2, <1>3
<1>5. Top' = Top
  BY <1>1 DEF Top
<1>6. TypeOK'
  BY <1>1, <1>2, Zenon DEF Inv, StaysInside, TypeOK
<1>7. StaysInside'
  BY <1>1, <1>2, <1>4, <1>5, <1>6, Zenon DEF Inv, StaysInside
<1> QED
  BY <1>1, <1>7, Zenon DEF Inv

LEMMA Pushing ==
  ASSUME NEW cs, Stack(cs), cs # << >>, NEW c, IsCall(c)
  PROVE  /\ Stack(Append(cs, c)) /\ Len(Append(cs, c)) = Len(cs) + 1
         /\ \A i \in 1 .. Len(cs) : Append(cs, c)[i] = cs[i]
         /\ Append(cs, c)[Len(cs) + 1] = c
<1> DEFINE S == {cs[i] : i \in 1 .. Len(cs)}
           ds == Append(cs, c)
<1>1. cs \in Seq(S) /\ \A i \in 1 .. Len(cs) : IsCall(cs[i])
  BY Zenon DEF Stack
<1> HIDE DEF S
<1>2. cs \in Seq(S \cup {c}) /\ c \in S \cup {c} /\ Len(cs) \in Nat
  BY <1>1
<1>3. /\ ds \in Seq(S \cup {c}) /\ Len(ds) = Len(cs) + 1
      /\ \A i \in 1 .. Len(cs) : ds[i] = cs[i]
      /\ ds[Len(cs) + 1] = c
  BY <1>2, AppendProperties
<1> HIDE DEF ds
<1>4. ds \in Seq({ds[i] : i \in 1 .. Len(ds)})
  <2>1. ds \in [1 .. Len(ds) -> {ds[i] : i \in 1 .. Len(ds)}]
    BY <1>3
  <2> QED BY <1>2, <1>3, <2>1
<1>5. \A i \in 1 .. Len(ds) : IsCall(ds[i])
  BY <1>1, <1>2, <1>3
<1> QED
  BY <1>3, <1>4, <1>5 DEF ds, Stack

LEMMA Popping ==
  ASSUME NEW cs, Stack(cs), NEW n \in Nat, n >= 1, n = Len(cs) - 1, Len(cs) \in Nat
  PROVE  /\ Stack(SubSeq(cs, 1, n)) /\ Len(SubSeq(cs, 1, n)) = n
         /\ \A i \in 1 .. n : SubSeq(cs, 1, n)[i] = cs[i]
<1> DEFINE S == {cs[i] : i \in 1 .. Len(cs)}
           ds == SubSeq(cs, 1, n)
<1>1. cs \in Seq(S) /\ \A i \in 1 .. Len(cs) : IsCall(cs[i])
  BY Zenon DEF Stack
<1> HIDE DEF S
<1>2. \A i \in 1 .. n : cs[i] \in S
  BY <1>1
<1>3. /\ ds \in Seq(S) /\ Len(ds) = n
      /\ \A i \in 1 .. n : ds[i] = cs[i]
  BY <1>2, SubSeqProperties
<1> HIDE DEF ds
<1>4. ds \in Seq({ds[i] : i \in 1 .. Len(ds)})
  <2> DEFINE R == {ds[i] : i \in 1 .. Len(ds)}
  <2>1. ds \in [1 .. n -> R]
    <3>1. ds = [i \in 1 .. n |-> ds[i]] /\ Len(ds) = n
      BY <1>3
    <3>2. \A i \in 1 .. n : ds[i] \in R
      BY <3>1
    <3> HIDE DEF R
    <3> QED BY <3>1, <3>2
  <2> HIDE DEF R
  <2>2. ds \in Seq(R)
    BY <2>1
  <2> QED BY <2>2 DEF R
<1>5. \A i \in 1 .. n : IsCall(ds[i])
  BY <1>1, <1>3
<1> QED
  BY <1>3, <1>4, <1>5 DEF ds, Stack

LEMMA EntersMessage ==
  ASSUME Inv, NEW f \in Field, f.type = "MESSAGE", loop = << >>,
         NEW v, v.next \in Int, pos <= v.next, v.next <= limit,
         input' = input, phase' = phase, tag' = 0, pos' = v.next, loop' = loop,
         calls' = Append(calls, Call(f.message, f, limit)),
         limit' = PushLimit(v.value, v.next, limit)
  PROVE  Inv'
<1>1. /\ input \in Inputs /\ Len(input) \in Nat
      /\ pos \in Nat /\ limit \in Nat /\ limit <= Len(input)
      /\ Stack(calls) /\ calls # << >> /\ limit <= Top.outer /\ Within(calls)
      /\ Top.outer \in Nat
      /\ Len(calls) \in Nat /\ Len(calls) >= 1
  BY Known
<1> DEFINE c == Call(f.message, f, limit)
<1>2. /\ IsCall(c) /\ c.type = f.message /\ c.field = f /\ c.outer = limit
  BY DEF Call, IsCall
<1>3. f.message \in MessageType
  BY SchemaAssumption
<1> HIDE DEF c
<1>4. /\ Stack(calls') /\ Len(calls') = Len(calls) + 1
      /\ \A i \in 1 .. Len(calls) : calls'[i] = calls[i]
      /\ calls'[Len(calls) + 1] = c
  BY <1>1, <1>2, Pushing DEF c
<1>5. limit' \in Nat /\ v.next <= limit' /\ limit' <= limit
  <2>1. v.next \in Nat
    BY <1>1
  <2> QED BY <1>1, <2>1, LimitsNest
<1>6. Top' = c
  BY <1>4 DEF Top
<1>7. pos' \in 0 .. Len(input') /\ limit' \in 0 .. Len(input') /\ pos' <= limit'
        /\ limit' <= Top'.outer
  BY <1>1, <1>2, <1>5, <1>6
<1>8. calls' # << >> /\ DOMAIN calls' = 1 .. Len(calls')
  <2>1. calls' # << >>
    BY <1>1, <1>4
  <2> QED BY <1>4, <2>1, TopIsCall
<1>9. \A i \in 1 .. Len(calls) : calls[i].outer \in Nat /\ limit <= calls[i].outer
  <2> TAKE i \in 1 .. Len(calls)
  <2>1. Len(calls) \in 1 .. Len(calls) /\ i \in 1 .. Len(calls)
    BY <1>1
  <2>2. calls[Len(calls)].outer <= calls[i].outer /\ calls[i].outer \in 0 .. Len(input)
    BY <1>1, <2>1, Zenon DEF Within
  <2>3. limit <= calls[Len(calls)].outer /\ calls[Len(calls)].outer \in Nat
    BY <1>1, Zenon DEF Top
  <2> QED BY <1>1, <2>2, <2>3
<1>10. /\ \A i \in 1 .. Len(calls') :
            /\ calls'[i].type \in MessageType
            /\ calls'[i].outer \in 0 .. Len(input')
            /\ i > 1 => calls'[i].field \in Field
            /\ \A j \in 1 .. i : calls'[i].outer <= calls'[j].outer
       /\ calls'[1].outer = Len(input')
  <2>1. ASSUME NEW i \in 1 .. Len(calls')
        PROVE  /\ calls'[i].type \in MessageType
               /\ calls'[i].outer \in 0 .. Len(input')
               /\ i > 1 => calls'[i].field \in Field
               /\ \A j \in 1 .. i : calls'[i].outer <= calls'[j].outer
    <3>1. CASE i \in 1 .. Len(calls)
      <4>1. calls'[i] = calls[i] /\ \A j \in 1 .. i : calls'[j] = calls[j]
        BY <1>1, <1>4, <3>1
      <4> QED BY <1>1, <3>1, <4>1, Zenon DEF Within
    <3>2. CASE i = Len(calls) + 1
      <4>1. calls'[i] = c
        BY <1>4, <3>2
      <4>2. limit \in 0 .. Len(input')
        BY <1>1
      <4>3. ASSUME NEW j \in 1 .. i
            PROVE  limit <= calls'[j].outer
        <5>1. CASE j = i
          BY <1>1, <1>2, <4>1, <5>1
        <5>2. CASE j # i
          <6>1. j \in 1 .. Len(calls)
            BY <1>1, <3>2, <5>2
          <6> QED BY <1>4, <1>9, <6>1
        <5> QED BY <5>1, <5>2
      <4> QED BY <1>2, <1>3, <4>1, <4>2, <4>3, Zenon
    <3> QED BY <1>1, <1>4, <3>1, <3>2
  <2>2. calls'[1].outer = Len(input')
    <3>1. 1 \in 1 .. Len(calls)
      BY <1>1
    <3> QED BY <1>1, <1>4, <3>1, Zenon DEF Within
  <2> QED BY <2>1, <2>2
<1>11. TypeOK'
  BY <1>1, <1>7, <1>8, <1>10, Zenon DEF Inv, StaysInside, TypeOK
<1>12. StaysInside'
  BY <1>7, <1>8, <1>10, <1>11, Zenon DEF StaysInside
<1> QED
  BY <1>4, <1>12, Zenon DEF Inv

LEMMA LeavesMessage ==
  ASSUME Inv, loop = << >>, Len(calls) > 1, NEW next \in Int, pos <= next, next <= limit,
         calls' = Returned, limit' = Top.outer, pos' = next,
         input' = input, tag' = tag, loop' = loop, phase' = phase
  PROVE  Inv'
<1>1. /\ input \in Inputs /\ Len(input) \in Nat
      /\ pos \in Nat /\ limit \in Nat /\ limit <= Len(input)
      /\ Stack(calls) /\ calls # << >> /\ limit <= Top.outer /\ Within(calls)
      /\ Top.outer \in Nat /\ Top.outer <= Len(input)
      /\ Len(calls) \in Nat /\ Len(calls) >= 1
  BY Known
<1>2. PICK n \in Nat : n = Len(calls) - 1 /\ n >= 1
  <2>1. Len(calls) - 1 \in Nat /\ Len(calls) - 1 >= 1
    BY <1>1
  <2> QED BY <2>1, Zenon
<1>3. /\ Stack(Callers) /\ Len(Callers) = n
      /\ \A i \in 1 .. n : Callers[i] = calls[i]
  BY <1>1, <1>2, Popping DEF Callers
<1>4. Callers # << >>
  BY <1>2, <1>3
<1>5. Keeps(calls', Callers)
  BY <1>3, <1>4, AssigningKeeps DEF Returned
<1>6. /\ Stack(calls') /\ Len(calls') = n
      /\ \A i \in 1 .. n : SameFrame(calls'[i], calls[i])
  BY <1>3, <1>5, Zenon DEF Keeps
<1>7. calls' # << >> /\ DOMAIN calls' = 1 .. Len(calls')
  <2>1. calls' # << >>
    BY <1>2, <1>6
  <2> QED BY <1>6, <2>1, TopIsCall
<1>8. \A i \in 1 .. n : i \in 1 .. Len(calls) /\ \A j \in 1 .. i : j \in 1 .. n
  BY <1>1, <1>2
<1>9. /\ \A i \in 1 .. Len(calls') :
           /\ calls'[i].type \in MessageType
           /\ calls'[i].outer \in 0 .. Len(input')
           /\ i > 1 => calls'[i].field \in Field
           /\ \A j \in 1 .. i : calls'[i].outer <= calls'[j].outer
      /\ calls'[1].outer = Len(input')
  <2>1. 1 \in 1 .. n
    BY <1>2
  <2> QED BY <1>1, <1>6, <1>8, <2>1, Zenon DEF Within, SameFrame
<1>10. limit' <= Top'.outer
  <2>1. n \in 1 .. n /\ Len(calls) \in 1 .. Len(calls) /\ n \in 1 .. Len(calls)
    BY <1>1, <1>2
  <2>2. calls[Len(calls)].outer <= calls[n].outer
    BY <1>1, <1>2, <2>1 DEF Within
  <2>3. calls'[n].outer = calls[n].outer
    BY <1>6, <2>1, Zenon DEF SameFrame
  <2> QED BY <1>6, <2>2, <2>3, Zenon DEF Top
<1>11. pos' \in 0 .. Len(input') /\ limit' \in 0 .. Len(input') /\ pos' <= limit'
  BY <1>1
<1>12. TypeOK'
  BY <1>1, <1>7, <1>9, <1>11, Zenon DEF Inv, StaysInside, TypeOK
<1>13. StaysInside'
  BY <1>7, <1>9, <1>10, <1>11, <1>12, Zenon DEF StaysInside
<1> QED
  BY <1>6, <1>13, Zenon DEF Inv

-----------------------------------------------------------------------------
(***************************************************************************)
(* No byte is read a second time.                                          *)
(***************************************************************************)
Onward == pos <= pos' /\ input' = input

(***************************************************************************)
(* How a read ends: what was read is assigned, or an exception is thrown.  *)
(***************************************************************************)
LEMMA StoresInside ==
  ASSUME Inv, phase = "read", NEW cs, Keeps(cs, calls), NEW v, Ahead(v, pos, limit),
         Store(cs, v)
  PROVE  Inv' /\ Onward
<1>1. /\ calls' = cs /\ pos' = v.next /\ tag' = 0
      /\ input' = input /\ limit' = limit /\ loop' = loop /\ phase' = phase
  BY Zenon DEF Store
<1>2. pos' \in Int /\ pos <= pos' /\ pos' <= limit
  BY <1>1, Zenon DEF Ahead
<1>3. phase' \in {"read"} \cup Ended
  BY <1>1
<1>4. Inv'
  BY <1>1, <1>2, <1>3, Moves
<1> QED
  BY <1>1, <1>2, <1>4, Zenon DEF Onward

LEMMA Stores ==
  ASSUME Inv, phase = "read", NEW cs, Keeps(cs, calls), NEW v, Ahead(v, pos, limit),
         Store(cs, v), tag # 0 \/ pos < v.next
  PROVE  Inv' /\ Remaining' < Remaining /\ Onward
<1>1. /\ calls' = cs /\ pos' = v.next /\ tag' = 0
      /\ input' = input /\ limit' = limit /\ loop' = loop /\ phase' = phase
  BY Zenon DEF Store
<1>2. pos' \in Int /\ pos <= pos'
  BY <1>1, Zenon DEF Ahead
<1>3. Len(calls') = Len(calls) /\ Len(calls) \in Nat /\ Len(input) \in Nat /\ pos \in Nat
  BY <1>1, Known DEF Keeps
<1>4. Remaining' < Remaining
  BY <1>1, <1>2, <1>3 DEF Remaining
<1> QED
  BY <1>4, StoresInside

LEMMA Fails ==
  ASSUME Inv, phase = "read", NEW failure \in Failures, Fail(failure)
  PROVE  Inv' /\ Remaining' < Remaining /\ Onward
<1>1. /\ phase' = failure
      /\ input' = input /\ pos' = pos /\ limit' = limit /\ calls' = calls
      /\ tag' = tag /\ loop' = loop
  BY Zenon DEF Fail
<1>2. /\ Stack(calls) /\ pos \in Nat /\ pos <= limit /\ Len(calls) \in Nat
      /\ Len(input) \in Nat /\ limit \in Nat
  BY Known
<1>3. phase' # "read" /\ phase' \in {"read"} \cup Ended
  BY <1>1 DEF Failures, Ended
<1>4. Inv'
  <2>1. Keeps(calls', calls)
    BY <1>1, <1>2, SameKept
  <2>2. loop' # << >> => tag' = 0
    BY <1>1, Zenon DEF Inv
  <2>3. pos' \in Int /\ pos <= pos' /\ pos' <= limit
    BY <1>1, <1>2
  <2> QED BY <1>1, <1>3, <2>1, <2>2, <2>3, Moves
<1>5. Remaining' < Remaining
  BY <1>1, <1>2, <1>3 DEF Remaining
<1>6. pos <= pos'
  BY <1>1, <1>2
<1> QED
  BY <1>1, <1>4, <1>5, <1>6, Zenon DEF Onward

(***************************************************************************)
(* The steps of a call that reads tags and fields which are not packed.    *)
(***************************************************************************)
LEMMA NextTagStep ==
  ASSUME Inv, ReadNextTag
  PROVE  Inv' /\ Remaining' < Remaining /\ Onward
<1>1. /\ phase = "read" /\ loop = << >> /\ tag = 0
      /\ NextTag.value # 0 /\ tag' = NextTag.value /\ pos' = NextTag.next
      /\ input' = input /\ limit' = limit /\ calls' = calls /\ loop' = loop
      /\ phase' = phase
  BY Zenon DEF ReadNextTag, AwaitsTag
<1>2. /\ input \in Seq(Octet) /\ pos \in Nat /\ limit \in Nat /\ pos <= limit
      /\ limit <= Len(input) /\ Stack(calls) /\ Len(calls) \in Nat /\ Len(input) \in Nat
  BY Known
<1>3. Ahead(NextTag, pos, limit) /\ (NextTag.value # 0 => pos < NextTag.next)
  BY <1>2, TagReads DEF NextTag
<1>4. pos' \in Int /\ pos < pos' /\ pos' <= limit
  BY <1>1, <1>3 DEF Ahead
<1>5. Inv'
  <2>1. pos <= pos'
    BY <1>2, <1>4
  <2>2. Keeps(calls', calls)
    BY <1>1, <1>2, SameKept
  <2>3. phase' \in {"read"} \cup Ended
    BY <1>1
  <2> QED BY <1>1, <1>4, <2>1, <2>2, <2>3, Moves
<1>6. Remaining' < Remaining
  BY <1>1, <1>2, <1>4 DEF Remaining
<1>7. pos <= pos'
  BY <1>2, <1>4
<1> QED
  BY <1>1, <1>5, <1>6, <1>7, Zenon DEF Onward

LEMMA FailingSteps ==
  ASSUME Inv, UnknownField \/ GroupField
  PROVE  Inv' /\ Remaining' < Remaining /\ Onward
<1>1. PICK failure \in {"InvalidMessage", "NotImplementedField"} :
        phase = "read" /\ Fail(failure)
  BY Zenon DEF UnknownField, GroupField, ReadsField
<1>2. failure \in Failures
  BY DEF Failures
<1> QED
  BY <1>1, <1>2, Fails

LEMMA ScalarStep ==
  ASSUME Inv, ReadScalar
  PROVE  Inv' /\ Remaining' < Remaining /\ Onward
<1>1. PICK f \in FieldsTagged :
        /\ ReadsField(f)
        /\ Store(Assign(f, Scalar(f, ReadPrimitive(f.type, input, pos, limit).value)),
                 ReadPrimitive(f.type, input, pos, limit))
  BY Zenon DEF ReadScalar
<1> DEFINE v == ReadPrimitive(f.type, input, pos, limit)
<1>2. phase = "read" /\ tag # 0
  BY <1>1, Zenon DEF ReadsField
<1>3. Ahead(v, pos, limit)
  BY Known, PrimitiveReads
<1>4. Keeps(Assign(f, Scalar(f, v.value)), calls)
  BY Known, AssigningKeeps DEF Assign
<1> HIDE DEF v
<1> QED
  BY <1>1, <1>2, <1>3, <1>4, Stores DEF v

LEMMA EnumStep ==
  ASSUME Inv, ReadEnum
  PROVE  Inv' /\ Remaining' < Remaining /\ Onward
<1>1. PICK f \in FieldsTagged :
        /\ ReadsField(f)
        /\ \/ Store(Assign(f, Enumerator(f, ReadPrimitive("ENUM", input, pos, limit).value)),
                    ReadPrimitive("ENUM", input, pos, limit))
           \/ Fail("InvalidMessage")
  BY Zenon DEF ReadEnum
<1> DEFINE v == ReadPrimitive("ENUM", input, pos, limit)
<1>2. phase = "read" /\ tag # 0
  BY <1>1, Zenon DEF ReadsField
<1>3. Ahead(v, pos, limit)
  BY Known, PrimitiveReads
<1>4. Keeps(Assign(f, Enumerator(f, v.value)), calls)
  BY Known, AssigningKeeps DEF Assign
<1>5. "InvalidMessage" \in Failures
  BY DEF Failures
<1> HIDE DEF v
<1>6. CASE Store(Assign(f, Enumerator(f, v.value)), v)
  BY <1>2, <1>3, <1>4, <1>6, Stores
<1>7. CASE Fail("InvalidMessage")
  BY <1>2, <1>5, <1>7, Fails
<1> QED
  BY <1>1, <1>6, <1>7, Zenon DEF v

LEMMA TextStep ==
  ASSUME Inv, ReadText
  PROVE  Inv' /\ Remaining' < Remaining /\ Onward
<1>1. PICK f \in FieldsTagged :
        /\ ReadsField(f)
        /\ \E w, bad : Store(AssignText(f, w, bad), ReadBytes(input, pos, limit))
  BY Zenon DEF ReadText
<1>2. PICK w, bad : Store(AssignText(f, w, bad), ReadBytes(input, pos, limit))
  BY <1>1
<1>3. phase = "read" /\ tag # 0
  BY <1>1, Zenon DEF ReadsField
<1>4. Ahead(ReadBytes(input, pos, limit), pos, limit)
  BY Known, BytesRead
<1>5. Keeps(AssignText(f, w, bad), calls)
  BY Known, AssigningKeeps DEF AssignText
<1> QED
  BY <1>2, <1>3, <1>4, <1>5, Stores

LEMMA PackedFixedStep ==
  ASSUME Inv, ReadPackedFixedField
  PROVE  Inv' /\ Remaining' < Remaining /\ Onward
<1>1. PICK f \in FieldsTagged :
        /\ ReadsField(f)
        /\ Store(AssignEach(f, ReadPackedFixed(f.type, input, pos, limit).value),
                 ReadPackedFixed(f.type, input, pos, limit))
  BY Zenon DEF ReadPackedFixedField
<1> DEFINE v == ReadPackedFixed(f.type, input, pos, limit)
<1>2. phase = "read" /\ tag # 0
  BY <1>1, Zenon DEF ReadsField
<1>3. Ahead(v, pos, limit)
  BY Known, PackedFixedReads
<1>4. Keeps(AssignEach(f, v.value), calls)
  BY Known, EachKeeps
<1> HIDE DEF v
<1> QED
  BY <1>1, <1>2, <1>3, <1>4, Stores DEF v

(***************************************************************************)
(* The steps of the loop over a packed field.                              *)
(***************************************************************************)
LEMMA EnterPackedStep ==
  ASSUME Inv, EnterPacked
  PROVE  Inv' /\ Remaining' < Remaining /\ Onward
<1>1. PICK f \in FieldsTagged :
        /\ ReadsField(f)
        /\ pos' = PackedLength(f).next
        /\ \/ /\ loop' = <<[field |-> f, outer |-> limit]>>
              /\ limit' = PushLimit(PackedLength(f).value, PackedLength(f).next, limit)
           \/ loop' = loop /\ limit' = limit
        /\ tag' = 0 /\ input' = input /\ calls' = calls /\ phase' = phase
  BY Zenon DEF EnterPacked
<1> DEFINE v == PackedLength(f)
<1>2. phase = "read" /\ tag # 0
  BY <1>1, Zenon DEF ReadsField
<1>3. /\ input \in Seq(Octet) /\ pos \in Nat /\ limit \in Nat /\ pos <= limit
      /\ limit <= Len(input) /\ Stack(calls) /\ Len(calls) \in Nat /\ Len(input) \in Nat
  BY Known
<1>4. Ahead(v, pos, limit)
  BY <1>3, IntReads, SizeReads, Zenon DEF PackedLength
<1> HIDE DEF v
<1>5. v.next \in Int /\ pos <= v.next /\ v.next <= limit /\ pos' = v.next
  BY <1>1, <1>4, Zenon DEF Ahead, v
<1>6. loop = << >>
  BY <1>2, Zenon DEF Inv
<1>7. Inv'
  <2>1. CASE /\ loop' = <<[field |-> f, outer |-> limit]>>
             /\ limit' = PushLimit(v.value, v.next, limit)
    <3>1. f \in Field
      BY TaggedIsField
    <3> QED BY <1>1, <1>5, <2>1, <3>1, EntersPacked
  <2>2. CASE loop' = loop /\ limit' = limit
    <3>1. Keeps(calls', calls)
      BY <1>1, <1>3, SameKept
    <3>2. phase' \in {"read"} \cup Ended
      BY <1>1, <1>2
    <3>3. pos' \in Int /\ pos <= pos' /\ pos' <= limit
      BY <1>5
    <3> QED BY <1>1, <2>2, <3>1, <3>2, <3>3, Moves
  <2> QED BY <1>1, <2>1, <2>2, Zenon DEF v
<1>8. Remaining' < Remaining
  BY <1>1, <1>2, <1>3, <1>5, <1>6 DEF Remaining
<1>9. pos <= pos'
  BY <1>5
<1> QED
  BY <1>1, <1>7, <1>8, <1>9, Zenon DEF Onward

LEMMA PackedElementStep ==
  ASSUME Inv, PackedElement
  PROVE  Inv' /\ Remaining' < Remaining /\ Onward
<1>1. /\ phase = "read" /\ Element.ok
      /\ Store(Assign(Looped, Scalar(Looped, Element.value)), Element)
  BY Zenon DEF PackedElement, InLoop
<1>2. Ahead(Element, pos, limit) /\ (Element.ok => pos < Element.next)
  BY Known, PrimitiveReads DEF Element
<1>3. Keeps(Assign(Looped, Scalar(Looped, Element.value)), calls)
  BY Known, AssigningKeeps DEF Assign
<1> QED
  BY <1>1, <1>2, <1>3, Stores

LEMMA PackedFailsStep ==
  ASSUME Inv, PackedFails
  PROVE  Inv' /\ Remaining' < Remaining /\ Onward
<1>1. /\ phase = "read" /\ loop # << >> /\ pos' = Element.next /\ loop' = << >>
      /\ input' = input /\ limit' = limit /\ calls' = calls /\ tag' = tag
      /\ phase' = phase
  BY Zenon DEF PackedFails, InLoop
<1>2. /\ input \in Seq(Octet) /\ pos \in Nat /\ limit \in Nat /\ pos <= limit
      /\ limit <= Len(input) /\ Stack(calls) /\ Len(calls) \in Nat /\ Len(input) \in Nat
  BY Known
<1>3. Ahead(Element, pos, limit)
  BY <1>2, PrimitiveReads DEF Element
<1>4. pos' \in Int /\ pos <= pos' /\ pos' <= limit
  BY <1>1, <1>3, Zenon DEF Ahead
<1>5. Inv'
  <2>1. Keeps(calls', calls)
    BY <1>1, <1>2, SameKept
  <2>2. phase' \in {"read"} \cup Ended
    BY <1>1
  <2> QED BY <1>1, <1>4, <2>1, <2>2, Moves
<1>6. Remaining' < Remaining
  BY <1>1, <1>2, <1>4 DEF Remaining
<1> QED
  BY <1>1, <1>4, <1>5, <1>6, Zenon DEF Onward

(***************************************************************************)
(* The one loop that may not come nearer to its end.                       *)
(***************************************************************************)
LEMMA PackedEnumStep ==
  ASSUME Inv, PackedEnum
  PROVE  Inv' /\ NearsEnd /\ Onward
<1>1. PICK x : /\ phase = "read"
               /\ \/ Store(Capped(Looped, Assign(Looped, Enumerator(Looped, x))), Element)
                  \/ Fail("InvalidMessage")
  BY Zenon DEF PackedEnum, InLoop
<1> DEFINE cs == Assign(Looped, Enumerator(Looped, x))
<1>2. Ahead(Element, pos, limit) /\ pos \in Nat
  BY Known, PrimitiveReads DEF Element
<1>3. Keeps(cs, calls)
  BY Known, AssigningKeeps DEF Assign
<1> HIDE DEF cs
<1>4. Keeps(Capped(Looped, cs), calls)
  <2>1. Stack(cs) /\ Len(cs) = Len(calls) /\ Len(calls) >= 1 /\ Len(calls) \in Nat
    BY <1>3, Known, Zenon DEF Keeps
  <2>2. cs # << >>
    BY <2>1
  <2> QED BY <1>3, <2>1, <2>2, CappedKeeps, KeepsTwice
<1>5. CASE Fail("InvalidMessage")
  <2>1. "InvalidMessage" \in Failures
    BY DEF Failures
  <2> QED BY <1>1, <1>5, <2>1, Fails DEF NearsEnd
<1>6. CASE Store(Capped(Looped, cs), Element)
  <2>1. CASE pos < Element.next
    BY <1>1, <1>2, <1>4, <1>6, <2>1, Stores DEF NearsEnd
  <2>2. CASE ~ (pos < Element.next)
    <3>1. Element.next = pos
      BY <1>2, <2>2 DEF Ahead
    <3>2. pos' = pos
      BY <1>6, <3>1, Zenon DEF Store
    <3> QED BY <1>1, <1>2, <1>4, <1>6, <3>2, StoresInside, Zenon DEF NearsEnd, Idles
  <2> QED BY <2>1, <2>2
<1> QED
  BY <1>1, <1>5, <1>6, Zenon DEF cs

LEMMA LeavePackedStep ==
  ASSUME Inv, LeavePacked
  PROVE  Inv' /\ Remaining' < Remaining /\ Onward
<1>1. /\ loop # << >> /\ loop' = << >> /\ input' = input
      /\ pos' = pos /\ calls' = calls /\ tag' = tag /\ phase' = phase
  BY Zenon DEF LeavePacked
<1>2. pos \in Nat /\ Len(calls) \in Nat /\ Len(input) \in Nat
  BY Known
<1>3. Remaining' < Remaining
  BY <1>1, <1>2 DEF Remaining
<1>4. pos <= pos'
  BY <1>1, <1>2
<1> QED
  BY <1>1, <1>3, <1>4, LeavesPacked, Zenon DEF Onward

(***************************************************************************)
(* The steps that start and end a call.                                    *)
(***************************************************************************)
LEMMA EnterMessageStep ==
  ASSUME Inv, EnterMessage
  PROVE  Inv' /\ Remaining' < Remaining /\ Onward
<1> DEFINE v == ReadVarintSizeAsInt(input, pos, limit)
<1>1. PICK f \in FieldsTagged :
        /\ ReadsField(f) /\ f.type = "MESSAGE"
        /\ pos' = v.next
        /\ \/ /\ calls' = Append(calls, Call(f.message, f, limit))
              /\ limit' = PushLimit(v.value, v.next, limit)
           \/ calls' = calls /\ limit' = limit
        /\ tag' = 0 /\ input' = input /\ loop' = loop /\ phase' = phase
  BY Zenon DEF EnterMessage
<1>2. phase = "read" /\ tag # 0
  BY <1>1, Zenon DEF ReadsField
<1>3. /\ input \in Seq(Octet) /\ pos \in Nat /\ limit \in Nat /\ pos <= limit
      /\ limit <= Len(input) /\ Stack(calls) /\ calls # << >>
      /\ Len(calls) \in Nat /\ Len(input) \in Nat
  BY Known
<1>4. Ahead(v, pos, limit)
  BY <1>3, SizeReads
<1> HIDE DEF v
<1>5. /\ v.next \in Int /\ pos <= v.next /\ v.next <= limit
      /\ pos' \in Int /\ pos <= pos' /\ pos' <= limit
  BY <1>1, <1>4, Zenon DEF Ahead
<1>6. loop = << >>
  BY <1>2, Zenon DEF Inv
<1>7. CASE /\ calls' = Append(calls, Call(f.message, f, limit))
           /\ limit' = PushLimit(v.value, v.next, limit)
  <2>1. f \in Field
    BY TaggedIsField
  <2>2. Inv'
    BY <1>1, <1>5, <1>6, <1>7, <2>1, EntersMessage
  <2>3. Len(calls') = Len(calls) + 1
    <3>1. IsCall(Call(f.message, f, limit))
      BY DEF Call, IsCall
    <3> QED BY <1>3, <1>7, <3>1, Pushing
  <2>4. Remaining' < Remaining
    BY <1>1, <1>2, <1>3, <1>5, <2>3 DEF Remaining
  <2> QED BY <1>1, <1>5, <2>2, <2>4, Zenon DEF Onward
<1>8. CASE calls' = calls /\ limit' = limit
  <2>1. Inv'
    <3>1. Keeps(calls', calls)
      BY <1>3, <1>8, SameKept
    <3>2. phase' \in {"read"} \cup Ended
      BY <1>1, <1>2
    <3> QED BY <1>1, <1>5, <1>8, <3>1, <3>2, Moves
  <2>2. Remaining' < Remaining
    BY <1>1, <1>2, <1>3, <1>5, <1>8 DEF Remaining
  <2> QED BY <1>1, <1>5, <2>1, <2>2, Zenon DEF Onward
<1> QED
  BY <1>1, <1>7, <1>8

LEMMA LeaveMessageStep ==
  ASSUME Inv, LeaveMessage
  PROVE  Inv' /\ Remaining' < Remaining /\ Onward
<1>1. /\ phase = "read" /\ loop = << >> /\ tag = 0 /\ Len(calls) > 1
      /\ calls' = Returned /\ limit' = Top.outer /\ pos' = NextTag.next
      /\ input' = input /\ tag' = tag /\ loop' = loop /\ phase' = phase
  BY Zenon DEF LeaveMessage, EndsMessage, AwaitsTag
<1>2. /\ input \in Seq(Octet) /\ pos \in Nat /\ limit \in Nat /\ pos <= limit
      /\ limit <= Len(input) /\ Stack(calls) /\ Len(calls) \in Nat /\ Len(input) \in Nat
  BY Known
<1>3. Ahead(NextTag, pos, limit)
  BY <1>2, TagReads DEF NextTag
<1>4. pos' \in Int /\ pos <= pos' /\ pos' <= limit /\ NextTag.next \in Int
      /\ pos <= NextTag.next /\ NextTag.next <= limit
  BY <1>1, <1>3, Zenon DEF Ahead
<1>5. Inv'
  BY <1>1, <1>4, LeavesMessage
<1>6. PICK n \in Nat : n = Len(calls) - 1 /\ n >= 1
  <2>1. Len(calls) - 1 \in Nat /\ Len(calls) - 1 >= 1
    BY <1>1, <1>2
  <2> QED BY <2>1, Zenon
<1>7. Len(calls') = n
  <2>1. Stack(Callers) /\ Len(Callers) = n
    BY <1>2, <1>6, Popping DEF Callers
  <2>2. Callers # << >>
    BY <1>6, <2>1
  <2> QED BY <1>1, <2>1, <2>2, AssigningKeeps DEF Returned, Keeps
<1>8. Remaining' < Remaining
  BY <1>1, <1>2, <1>4, <1>6, <1>7 DEF Remaining
<1> QED
  BY <1>1, <1>4, <1>5, <1>8, Zenon DEF Onward

LEMMA ReturnStep ==
  ASSUME Inv, Return
  PROVE  Inv' /\ Remaining' < Remaining /\ Onward
<1>1. /\ phase = "read" /\ loop = << >> /\ tag = 0 /\ pos' = NextTag.next
      /\ phase' = "returned" \/ phase' = "type_error"
      /\ input' = input /\ limit' = limit /\ calls' = calls /\ tag' = tag /\ loop' = loop
  BY Zenon DEF Return, EndsMessage, AwaitsTag
<1>2. /\ input \in Seq(Octet) /\ pos \in Nat /\ limit \in Nat /\ pos <= limit
      /\ limit <= Len(input) /\ Stack(calls) /\ Len(calls) \in Nat /\ Len(input) \in Nat
  BY Known
<1>3. Ahead(NextTag, pos, limit)
  BY <1>2, TagReads DEF NextTag
<1>4. pos' \in Int /\ pos <= pos' /\ pos' <= limit
  BY <1>1, <1>3, Zenon DEF Ahead
<1>5. phase' # "read" /\ phase' \in {"read"} \cup Ended
  BY <1>1 DEF Failures, Ended
<1>6. Inv'
  <2>1. Keeps(calls', calls)
    BY <1>1, <1>2, SameKept
  <2> QED BY <1>1, <1>4, <1>5, <2>1, Moves
<1>7. Remaining' < Remaining
  BY <1>1, <1>2, <1>4, <1>5 DEF Remaining
<1> QED
  BY <1>1, <1>4, <1>6, <1>7, Zenon DEF Onward

-----------------------------------------------------------------------------
(***************************************************************************)
(* The invariant is inductive, and every step is one of those above.       *)
(***************************************************************************)
LEMMA InvInit ==
  ASSUME Init
  PROVE  Inv
<1>1. /\ input \in Inputs /\ pos = 0 /\ limit = Len(input)
      /\ calls = <<Call(Root, << >>, Len(input))>>
      /\ tag = 0 /\ loop = << >> /\ phase = "read"
  BY Zenon DEF Init
<1>2. input \in Seq(Octet) /\ Root \in MessageType
  BY <1>1, ReaderAssumption
<1>3. Len(input) \in Nat
  BY <1>2
<1> DEFINE c == Call(Root, << >>, Len(input))
<1>4. IsCall(c) /\ c.type = Root /\ c.outer = Len(input)
  BY DEF Call, IsCall
<1> HIDE DEF c
<1>5. /\ calls = <<c>> /\ calls # << >> /\ Len(calls) = 1 /\ DOMAIN calls = 1 .. 1
      /\ calls[1] = c
  BY <1>1 DEF c
<1>6. \A i \in 1 .. 1 : i = 1 /\ ~ (i > 1) /\ \A j \in 1 .. i : j = 1
  OBVIOUS
<1>7. Stack(calls)
  <2>1. calls \in Seq({calls[i] : i \in 1 .. Len(calls)})
    BY <1>5
  <2> QED BY <1>4, <1>5, <1>6, <2>1 DEF Stack
<1>8. pos \in 0 .. Len(input) /\ limit \in 0 .. Len(input) /\ pos <= limit
        /\ Len(input) <= Len(input)
  BY <1>1, <1>3
<1>9. Top = c
  BY <1>5 DEF Top
<1>10. TypeOK
  BY <1>1, <1>2, <1>4, <1>5, <1>6, <1>8, Zenon DEF TypeOK
<1>11. StaysInside
  BY <1>1, <1>4, <1>5, <1>6, <1>8, <1>9, <1>10, Zenon DEF StaysInside
<1> QED
  BY <1>1, <1>7, <1>11, Zenon DEF Inv

LEMMA InvStep ==
  ASSUME Inv, Next
  PROVE  Inv' /\ NearsEnd /\ Onward
<1>1. CASE ReadNextTag
  BY <1>1, NextTagStep, Zenon DEF NearsEnd
<1>2. CASE UnknownField \/ GroupField
  BY <1>2, FailingSteps, Zenon DEF NearsEnd
<1>3. CASE ReadScalar
  BY <1>3, ScalarStep, Zenon DEF NearsEnd
<1>4. CASE ReadEnum
  BY <1>4, EnumStep, Zenon DEF NearsEnd
<1>5. CASE ReadText
  BY <1>5, TextStep, Zenon DEF NearsEnd
<1>6. CASE ReadPackedFixedField
  BY <1>6, PackedFixedStep, Zenon DEF NearsEnd
<1>7. CASE EnterPacked
  BY <1>7, EnterPackedStep, Zenon DEF NearsEnd
<1>8. CASE PackedElement
  BY <1>8, PackedElementStep, Zenon DEF NearsEnd
<1>9. CASE PackedFails
  BY <1>9, PackedFailsStep, Zenon DEF NearsEnd
<1>10. CASE PackedEnum
  BY <1>10, PackedEnumStep
<1>11. CASE LeavePacked
  BY <1>11, LeavePackedStep, Zenon DEF NearsEnd
<1>12. CASE EnterMessage
  BY <1>12, EnterMessageStep, Zenon DEF NearsEnd
<1>13. CASE LeaveMessage
  BY <1>13, LeaveMessageStep, Zenon DEF NearsEnd
<1>14. CASE Return
  BY <1>14, ReturnStep, Zenon DEF NearsEnd
<1> QED
  BY <1>1, <1>2, <1>3, <1>4, <1>5, <1>6, <1>7, <1>8, <1>9, <1>10, <1>11, <1>12,
     <1>13, <1>14, Zenon DEF Next

LEMMA InvStutter ==
  ASSUME Inv, UNCHANGED vars
  PROVE  Inv'
<1>1. /\ input' = input /\ pos' = pos /\ limit' = limit /\ calls' = calls
      /\ tag' = tag /\ loop' = loop /\ phase' = phase
  BY Zenon DEF vars
<1> QED
  BY <1>1 DEF Inv, StaysInside, TypeOK, Stack, Top

LEMMA Invariance == Spec => []Inv
<1>1. Init => Inv
  BY InvInit
<1>2. Inv /\ [Next]_vars => Inv'
  BY InvStep, InvStutter
<1> QED
  BY <1>1, <1>2, PTL DEF Spec

(***************************************************************************)
(* readMessage, in however many nested calls, never reads beyond the end   *)
(* of the message it was called for, whatever its input is: each of them   *)
(* leaves the limit of its caller as it found it or below it.              *)
(***************************************************************************)
THEOREM ReadsInside == Spec => []StaysInside
<1>1. Inv => StaysInside
  BY Zenon DEF Inv
<1> QED
  BY <1>1, Invariance, PTL

(***************************************************************************)
(* The stream only moves forward: no byte of it is interpreted twice.      *)
(***************************************************************************)
THEOREM ReadsOnward == Spec => [][Onward]_vars
<1>1. Inv /\ [Next]_vars => [Onward]_vars
  BY InvStep
<1> QED
  BY <1>1, Invariance, PTL DEF Spec

(***************************************************************************)
(* What is left to do is a natural number that every step makes smaller,   *)
(* except an element of a packed ENUM field that consumes nothing: the     *)
(* loop readField has for that field is the only way not to end.           *)
(***************************************************************************)
THEOREM OnlyPackedEnumsIdle == Spec => [](Remaining \in Nat) /\ [][NearsEnd]_vars
<1>1. Inv => Remaining \in Nat
  <2> SUFFICES ASSUME Inv PROVE Remaining \in Nat
    OBVIOUS
  <2>1. pos \in Nat /\ Len(input) \in Nat /\ pos <= Len(input) /\ Len(calls) \in Nat
    BY Known
  <2> QED BY <2>1 DEF Remaining
<1>2. Inv /\ [Next]_vars => [NearsEnd]_vars
  BY InvStep
<1> QED
  BY <1>1, <1>2, Invariance, PTL DEF Spec
=============================================================================
