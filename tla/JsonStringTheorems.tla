------------------------- MODULE JsonStringTheorems -------------------------
(***************************************************************************)
(* Safety of scanning and dumping strings, for all literals, all strings   *)
(* and every buffer of at least 16 bytes.  All of it rests on one fact:    *)
(* in each state of the serializer's decoder the bytes that are not yet    *)
(* dumped are the beginning of a character, and the state says which of    *)
(* the beginnings.                                                         *)
(***************************************************************************)
EXTENDS JsonString, SequenceTheorems, WellFoundedInduction, TLAPS

(***************************************************************************)
(* UTF-8 by ranges of octets, as both automata have it.                    *)
(***************************************************************************)
SecondOctet(first, second) ==
  CASE first = 224 -> second \in 160 .. 191
    [] first = 237 -> second \in 128 .. 159
    [] first = 240 -> second \in 144 .. 191
    [] first = 244 -> second \in 128 .. 143
    [] OTHER       -> second \in Trail

CharacterAt(t, k, n) ==
  /\ k + n - 1 <= Len(t)
  /\ \/ n = 1 /\ t[k] \in 0 .. 127
     \/ n = 2 /\ t[k] \in 194 .. 223 /\ t[k + 1] \in Trail
     \/ n = 3 /\ t[k] \in 224 .. 239 /\ SecondOctet(t[k], t[k + 1]) /\ t[k + 2] \in Trail
     \/ /\ n = 4 /\ t[k] \in 240 .. 244 /\ SecondOctet(t[k], t[k + 1])
        /\ t[k + 2] \in Trail /\ t[k + 3] \in Trail

-----------------------------------------------------------------------------
(***************************************************************************)
(* The u octets from k on are the beginning of a character that state q of *)
(* the decoder stands for.                                                 *)
(***************************************************************************)
Beginning(t, k, u, q) ==
  \/ q = 0 /\ u = 0
  \/ /\ q = 2
     /\ \/ u = 1 /\ t[k] \in 194 .. 223
        \/ u = 2 /\ t[k] \in 224 .. 239 /\ SecondOctet(t[k], t[k + 1])
        \/ u = 3 /\ t[k] \in 240 .. 244 /\ SecondOctet(t[k], t[k + 1]) /\ t[k + 2] \in Trail
  \/ /\ q = 3
     /\ \/ u = 1 /\ t[k] \in 225 .. 239 \ {237}
        \/ u = 2 /\ t[k] \in 240 .. 244 /\ SecondOctet(t[k], t[k + 1])
  \/ q = 4 /\ u = 1 /\ t[k] = 224
  \/ q = 5 /\ u = 1 /\ t[k] = 237
  \/ q = 6 /\ u = 1 /\ t[k] = 240
  \/ q = 7 /\ u = 1 /\ t[k] \in 241 .. 243
  \/ q = 8 /\ u = 1 /\ t[k] = 244

LeadingBits(octet) ==
  IF octet < 128 THEN octet ELSE IF octet < 224 THEN octet - 192
  ELSE IF octet < 240 THEN octet - 224 ELSE octet - 240

(***************************************************************************)
(* What u octets of a character say of its code point.                     *)
(***************************************************************************)
Gathered(t, k, u) ==
  LET Bits(m) == t[k + m] - 128
      Leading == LeadingBits(t[k])
  IN  CASE u = 1 -> Leading
        [] u = 2 -> Leading * 64 + Bits(1)
        [] u = 3 -> Leading * 4096 + Bits(1) * 64 + Bits(2)
        [] u = 4 -> Leading * 262144 + Bits(1) * 4096 + Bits(2) * 64 + Bits(3)

Begun == i - undumped_chars

DecoderInv ==
  dump = "dumping" =>
    /\ undumped_chars < i
    /\ Beginning(s, Begun, undumped_chars, state)
    /\ undumped_chars # 0 => codepoint = Gathered(s, Begun, undumped_chars)

(***************************************************************************)
(* The buffer holds the accepted bytes, of which 13 fewer than it has      *)
(* room for, and behind them what was copied of the character begun.       *)
(***************************************************************************)
BufferInv ==
  /\ dump = "dumping" =>
       /\ bytes_after_last_accept <= BufferSize - 13
       /\ bytes_after_last_accept <= Len(string_buffer)
       /\ Len(string_buffer)
            <= bytes_after_last_accept + (IF ensure_ascii THEN 0 ELSE undumped_chars)
  /\ reach <= BufferSize

(***************************************************************************)
(* The strict handler has seen nothing but characters, up to Begun.        *)
(***************************************************************************)
EndsCharacter(t, k) ==
  k = 0 \/ \E n \in 1 .. 4 : n <= k /\ CharacterAt(t, k - n + 1, n)

StrictInv ==
  /\ dump = "dumping" /\ error_handler = "strict" =>
       /\ \A k \in 1 .. Begun - 1 : InCharacter(s, k)
       /\ EndsCharacter(s, Begun - 1)
  /\ ThrowsIfIllFormed

ScanInv == position >= 1 /\ WellFormed(token_buffer)

-----------------------------------------------------------------------------
(***************************************************************************)
(* The characters of n octets are those in the ranges of CharacterAt.      *)
(***************************************************************************)
LEMMA Octets == \A x \in Octet : x \in Nat /\ x <= 255
  BY SMT DEF Octet

LEMMA OneOctet ==
  ASSUME NEW c, Len(c) = 1, NEW x \in Nat, x <= 255, c[1] = x
  PROVE  IsCharacter(c) <=> x <= 127
<1>1. CodePoint(c) = x
  BY SMT DEF CodePoint
<1>2. LeadingOctets[1] = 0 .. 127 /\ LeastCoded[1] = 0
  BY SMT DEF LeadingOctets, LeastCoded
<1>3. \A k \in 2 .. 1 : c[k] \in 128 .. 191
  BY SMT
<1>4. x <= 127 => IsScalarValue(x)
  BY SMT DEF IsScalarValue
<1>5. Len(c) \in 1 .. 4
  BY SMT
<1> QED
  BY <1>1, <1>2, <1>3, <1>4, <1>5, SMT DEF IsCharacter

LEMMA TwoOctets ==
  ASSUME NEW c, Len(c) = 2, NEW x \in Nat, x <= 255, NEW y \in Nat, y <= 255,
         c[1] = x, c[2] = y
  PROVE  IsCharacter(c) <=> x \in 194 .. 223 /\ y \in Trail
<1>1. CodePoint(c) = (x - 192) * 64 + (y - 128)
  BY SMT DEF CodePoint
<1>2. LeadingOctets[2] = 192 .. 223 /\ LeastCoded[2] = 128
  BY SMT DEF LeadingOctets, LeastCoded
<1>3. (\A k \in 2 .. 2 : c[k] \in 128 .. 191) <=> y \in Trail
  BY SMT DEF Trail
<1>4. Len(c) \in 1 .. 4
  BY SMT
<1>5. IsCharacter(c) <=> /\ x \in 192 .. 223 /\ y \in Trail
                         /\ CodePoint(c) >= 128 /\ IsScalarValue(CodePoint(c))
  BY <1>2, <1>3, <1>4, SMT DEF IsCharacter
<1>6. x \in 192 .. 223 /\ y \in Trail
        => /\ IsScalarValue((x - 192) * 64 + (y - 128))
           /\ (x - 192) * 64 + (y - 128) >= 128 <=> x >= 194
  BY SMT DEF IsScalarValue, Trail
<1> QED
  BY <1>1, <1>5, <1>6, SMT

LEMMA ThreeOctets ==
  ASSUME NEW c, Len(c) = 3, NEW x \in Nat, x <= 255, NEW y \in Nat, y <= 255,
         NEW z \in Nat, z <= 255, c[1] = x, c[2] = y, c[3] = z
  PROVE  IsCharacter(c) <=> x \in 224 .. 239 /\ SecondOctet(x, y) /\ z \in Trail
<1>1. CodePoint(c) = (x - 224) * 4096 + (y - 128) * 64 + (z - 128)
  BY SMT DEF CodePoint
<1>2. LeadingOctets[3] = 224 .. 239 /\ LeastCoded[3] = 2048
  BY SMT DEF LeadingOctets, LeastCoded
<1>3. (\A k \in 2 .. 3 : c[k] \in 128 .. 191) <=> y \in Trail /\ z \in Trail
  BY SMT DEF Trail
<1>4. Len(c) \in 1 .. 4
  BY SMT
<1>5. IsCharacter(c) <=> /\ x \in 224 .. 239 /\ y \in Trail /\ z \in Trail
                         /\ CodePoint(c) >= 2048 /\ IsScalarValue(CodePoint(c))
  BY <1>2, <1>3, <1>4, SMT DEF IsCharacter
<1>6. ASSUME x \in 224 .. 239, y \in Trail, z \in Trail
      PROVE  SecondOctet(x, y)
               <=> /\ (x - 224) * 4096 + (y - 128) * 64 + (z - 128) >= 2048
                   /\ IsScalarValue((x - 224) * 4096 + (y - 128) * 64 + (z - 128))
  <2>1. CASE x = 224
    BY <1>6, <2>1, SMT DEF SecondOctet, IsScalarValue, Trail
  <2>2. CASE x = 237
    BY <1>6, <2>2, SMT DEF SecondOctet, IsScalarValue, Trail
  <2>3. CASE x # 224 /\ x # 237
    BY <1>6, <2>3, SMT DEF SecondOctet, IsScalarValue, Trail
  <2> QED BY <2>1, <2>2, <2>3
<1>7. x \in 224 .. 239 /\ SecondOctet(x, y) => y \in Trail
  BY SMT DEF SecondOctet, Trail
<1> QED
  BY <1>1, <1>5, <1>6, <1>7, SMT

LEMMA FourOctets ==
  ASSUME NEW c, Len(c) = 4, NEW x \in Nat, x <= 255, NEW y \in Nat, y <= 255,
         NEW z \in Nat, z <= 255, NEW w \in Nat, w <= 255,
         c[1] = x, c[2] = y, c[3] = z, c[4] = w
  PROVE  IsCharacter(c) <=> /\ x \in 240 .. 244 /\ SecondOctet(x, y)
                            /\ z \in Trail /\ w \in Trail
<1> DEFINE p == (x - 240) * 262144 + (y - 128) * 4096 + (z - 128) * 64 + (w - 128)
<1>1. CodePoint(c) = p
  BY SMT DEF CodePoint
<1>2. LeadingOctets[4] = 240 .. 247 /\ LeastCoded[4] = 65536
  BY SMT DEF LeadingOctets, LeastCoded
<1>3. (\A k \in 2 .. 4 : c[k] \in 128 .. 191) <=> y \in Trail /\ z \in Trail /\ w \in Trail
  BY SMT DEF Trail
<1>4. Len(c) \in 1 .. 4
  BY SMT
<1>5. IsCharacter(c) <=> /\ x \in 240 .. 247 /\ y \in Trail /\ z \in Trail /\ w \in Trail
                         /\ CodePoint(c) >= 65536 /\ IsScalarValue(CodePoint(c))
  BY <1>2, <1>3, <1>4, SMT DEF IsCharacter
<1>6. ASSUME x \in 240 .. 247, y \in Trail, z \in Trail, w \in Trail
      PROVE  x \in 240 .. 244 /\ SecondOctet(x, y)
               <=> p >= 65536 /\ IsScalarValue(p)
  <2>1. CASE x = 240
    BY <1>6, <2>1, SMT DEF SecondOctet, IsScalarValue, Trail
  <2>2. CASE x = 244
    BY <1>6, <2>2, SMT DEF SecondOctet, IsScalarValue, Trail
  <2>3. CASE x >= 241 /\ x <= 243
    BY <1>6, <2>3, SMT DEF SecondOctet, IsScalarValue, Trail
  <2>4. CASE x >= 245
    BY <1>6, <2>4, SMT DEF IsScalarValue, Trail
  <2> QED BY <1>6, <2>1, <2>2, <2>3, <2>4, SMT
<1>7. x \in 240 .. 244 /\ SecondOctet(x, y) => y \in Trail
  BY SMT DEF SecondOctet, Trail
<1> HIDE DEF p
<1> QED
  BY <1>1, <1>5, <1>6, <1>7, SMT DEF p

(***************************************************************************)
(* Where a character stands in a text.                                     *)
(***************************************************************************)
LEMMA Same1 ==
  ASSUME NEW t, NEW k \in Nat, Len(t) \in Nat, k <= Len(t), NEW x \in Nat, x <= 255,
         t[k] = x, NEW c, Len(c) = 1, c[1] = x
  PROVE  IsCharacter(c) <=> CharacterAt(t, k, 1)
<1>1. IsCharacter(c) <=> x <= 127
  BY OneOctet
<1> QED
  BY <1>1, SMT DEF CharacterAt

LEMMA Same2 ==
  ASSUME NEW t, NEW k \in Nat, Len(t) \in Nat, k + 1 <= Len(t),
         NEW x \in Nat, x <= 255, NEW y \in Nat, y <= 255,
         t[k] = x, t[k + 1] = y, NEW c, Len(c) = 2, c[1] = x, c[2] = y
  PROVE  IsCharacter(c) <=> CharacterAt(t, k, 2)
<1>1. IsCharacter(c) <=> x \in 194 .. 223 /\ y \in Trail
  BY TwoOctets
<1> QED
  BY <1>1, SMT DEF CharacterAt

LEMMA Same3 ==
  ASSUME NEW t, NEW k \in Nat, Len(t) \in Nat, k + 2 <= Len(t),
         NEW x \in Nat, x <= 255, NEW y \in Nat, y <= 255, NEW z \in Nat, z <= 255,
         t[k] = x, t[k + 1] = y, t[k + 2] = z,
         NEW c, Len(c) = 3, c[1] = x, c[2] = y, c[3] = z
  PROVE  IsCharacter(c) <=> CharacterAt(t, k, 3)
<1>1. IsCharacter(c) <=> x \in 224 .. 239 /\ SecondOctet(x, y) /\ z \in Trail
  BY ThreeOctets
<1> QED
  BY <1>1, SMT DEF CharacterAt

LEMMA Same4 ==
  ASSUME NEW t, NEW k \in Nat, Len(t) \in Nat, k + 3 <= Len(t),
         NEW x \in Nat, x <= 255, NEW y \in Nat, y <= 255,
         NEW z \in Nat, z <= 255, NEW w \in Nat, w <= 255,
         t[k] = x, t[k + 1] = y, t[k + 2] = z, t[k + 3] = w,
         NEW c, Len(c) = 4, c[1] = x, c[2] = y, c[3] = z, c[4] = w
  PROVE  IsCharacter(c) <=> CharacterAt(t, k, 4)
<1>1. IsCharacter(c) <=> /\ x \in 240 .. 244 /\ SecondOctet(x, y)
                         /\ z \in Trail /\ w \in Trail
  BY FourOctets
<1> QED
  BY <1>1, SMT DEF CharacterAt

LEMMA SameOctets ==
  ASSUME NEW t, NEW k \in Nat, NEW n \in Nat \ {0}, Len(t) \in Nat, k + n - 1 <= Len(t),
         \A m \in k .. k + n - 1 : t[m] \in Nat /\ t[m] <= 255,
         NEW c, Len(c) = n, \A m \in 1 .. n : c[m] = t[k + m - 1]
  PROVE  IsCharacter(c) <=> CharacterAt(t, k, n)
<1>1. CASE n = 1
  <2>1. PICK x \in Nat : x = t[k] /\ x = c[1] /\ x <= 255
    BY <1>1, SMT
  <2>2. Len(c) = 1 /\ k <= Len(t)
    BY <1>1, SMT
  <2>3. IsCharacter(c) <=> CharacterAt(t, k, 1)
    BY <2>1, <2>2, Same1
  <2> QED BY <1>1, <2>3
<1>2. CASE n = 2
  <2>1. PICK x \in Nat, y \in Nat :
          /\ x = t[k] /\ x = c[1] /\ x <= 255
          /\ y = t[k + 1] /\ y = c[2] /\ y <= 255
    BY <1>2, SMT
  <2>2. Len(c) = 2 /\ k + 1 <= Len(t)
    BY <1>2, SMT
  <2>3. IsCharacter(c) <=> CharacterAt(t, k, 2)
    BY <2>1, <2>2, Same2
  <2> QED BY <1>2, <2>3
<1>3. CASE n = 3
  <2>1. PICK x \in Nat, y \in Nat, z \in Nat :
          /\ x = t[k] /\ x = c[1] /\ x <= 255
          /\ y = t[k + 1] /\ y = c[2] /\ y <= 255
          /\ z = t[k + 2] /\ z = c[3] /\ z <= 255
    BY <1>3, SMT
  <2>2. Len(c) = 3 /\ k + 2 <= Len(t)
    BY <1>3, SMT
  <2>3. IsCharacter(c) <=> CharacterAt(t, k, 3)
    BY <2>1, <2>2, Same3
  <2> QED BY <1>3, <2>3
<1>4. CASE n = 4
  <2>1. PICK x \in Nat, y \in Nat, z \in Nat, w \in Nat :
          /\ x = t[k] /\ x = c[1] /\ x <= 255
          /\ y = t[k + 1] /\ y = c[2] /\ y <= 255
          /\ z = t[k + 2] /\ z = c[3] /\ z <= 255
          /\ w = t[k + 3] /\ w = c[4] /\ w <= 255
    BY <1>4, SMT
  <2>2. Len(c) = 4 /\ k + 3 <= Len(t)
    BY <1>4, SMT
  <2>3. IsCharacter(c) <=> CharacterAt(t, k, 4)
    BY <2>1, <2>2, Same4
  <2> QED BY <1>4, <2>3
<1>5. CASE n > 4
  <2>1. Len(c) \notin 1 .. 4
    BY <1>5, SMT
  <2>2. ~ CharacterAt(t, k, n)
    BY <1>5, SMT DEF CharacterAt
  <2> QED BY <2>1, <2>2, Zenon DEF IsCharacter
<1> QED
  BY <1>1, <1>2, <1>3, <1>4, <1>5, SMT

LEMMA CharacterRanges ==
  ASSUME NEW t \in Seq(Octet), NEW k \in 1 .. Len(t), NEW n \in Nat \ {0},
         k + n - 1 <= Len(t)
  PROVE  IsCharacter(SubSeq(t, k, k + n - 1)) <=> CharacterAt(t, k, n)
<1> DEFINE c == SubSeq(t, k, k + n - 1)
<1>1. \A m \in k .. k + n - 1 : t[m] \in Octet
  BY SMT
<1>2. Len(c) = n /\ \A m \in 1 .. n : c[m] = t[k + m - 1]
  BY <1>1, SubSeqProperties, SMT
<1>3. \A m \in k .. k + n - 1 : t[m] \in Nat /\ t[m] <= 255
  BY <1>1, Octets
<1>4. k \in Nat /\ Len(t) \in Nat
  OBVIOUS
<1> HIDE DEF c
<1>5. IsCharacter(c) <=> CharacterAt(t, k, n)
  BY <1>2, <1>3, <1>4, SameOctets
<1> QED
  BY <1>5 DEF c

LEMMA InCharacterRanges ==
  ASSUME NEW t \in Seq(Octet), NEW k \in 1 .. Len(t)
  PROVE  InCharacter(t, k)
           <=> \E j \in 1 .. k, n \in 1 .. 4 : k < j + n /\ CharacterAt(t, j, n)
<1>1. ASSUME NEW first \in 1 .. k, NEW last \in k .. Len(t),
             IsCharacter(SubSeq(t, first, last))
      PROVE  \E j \in 1 .. k, n \in 1 .. 4 : k < j + n /\ CharacterAt(t, j, n)
  <2> DEFINE n == last - first + 1
  <2>1. n \in Nat \ {0} /\ first \in 1 .. Len(t) /\ last = first + n - 1 /\ k < first + n
    OBVIOUS
  <2>2. CharacterAt(t, first, n)
    BY <1>1, <2>1, CharacterRanges
  <2>3. n \in 1 .. 4
    BY <2>1, <2>2 DEF CharacterAt
  <2> QED BY <2>1, <2>2, <2>3
<1>2. ASSUME NEW j \in 1 .. k, NEW n \in 1 .. 4, k < j + n, CharacterAt(t, j, n)
      PROVE  InCharacter(t, k)
  <2>1. j \in 1 .. Len(t) /\ j + n - 1 \in k .. Len(t)
    BY <1>2 DEF CharacterAt
  <2>2. IsCharacter(SubSeq(t, j, j + n - 1))
    BY <1>2, <2>1, CharacterRanges
  <2> QED BY <2>1, <2>2 DEF InCharacter
<1> QED
  BY <1>1, <1>2 DEF InCharacter

(***************************************************************************)
(* The octets of a character behind the first are told from the first, and *)
(* the first one tells their number, so characters that overlap are one.   *)
(***************************************************************************)
LEMMA Inside ==
  ASSUME NEW t, NEW k \in Nat, NEW n \in 1 .. 4, CharacterAt(t, k, n)
  PROVE  /\ t[k] \notin Trail
         /\ \A m \in k + 1 .. k + n - 1 : t[m] \in Trail
         /\ n = IF t[k] \in 0 .. 127 THEN 1 ELSE IF t[k] \in 194 .. 223 THEN 2
               ELSE IF t[k] \in 224 .. 239 THEN 3 ELSE 4
<1>1. ASSUME t[k] \in 224 .. 244, SecondOctet(t[k], t[k + 1])
      PROVE  t[k + 1] \in Trail
  BY <1>1, SMT DEF SecondOctet, Trail
<1>2. CASE n = 1
  <2>1. t[k] \in 0 .. 127
    BY <1>2, SMT DEF CharacterAt
  <2> QED BY <1>2, <2>1, SMT DEF Trail
<1>3. CASE n = 2
  <2>1. t[k] \in 194 .. 223 /\ t[k + 1] \in Trail
    BY <1>3, SMT DEF CharacterAt
  <2> QED BY <1>3, <2>1, SMT DEF Trail
<1>4. CASE n = 3
  <2>1. t[k] \in 224 .. 239 /\ t[k + 1] \in Trail /\ t[k + 2] \in Trail
    BY <1>1, <1>4, SMT DEF CharacterAt
  <2>2. \A m \in k + 1 .. k + n - 1 : m = k + 1 \/ m = k + 2
    BY <1>4, SMT
  <2> QED BY <1>4, <2>1, <2>2, SMT DEF Trail
<1>5. CASE n = 4
  <2>1. t[k] \in 240 .. 244 /\ t[k + 1] \in Trail /\ t[k + 2] \in Trail /\ t[k + 3] \in Trail
    BY <1>1, <1>5, SMT DEF CharacterAt
  <2>2. \A m \in k + 1 .. k + n - 1 : m = k + 1 \/ m = k + 2 \/ m = k + 3
    BY <1>5, SMT
  <2> QED BY <1>5, <2>1, <2>2, SMT DEF Trail
<1> QED
  BY <1>2, <1>3, <1>4, <1>5, SMT

LEMMA NoOverlap ==
  ASSUME NEW t, NEW j \in Nat, NEW k \in Nat, NEW m \in 1 .. 4, NEW n \in 1 .. 4,
         CharacterAt(t, j, m), CharacterAt(t, k, n), j <= k, k < j + m
  PROVE  j = k /\ m = n
<1>1. t[k] \notin Trail /\ \A l \in j + 1 .. j + m - 1 : t[l] \in Trail
  BY Inside
<1>2. j = k
  BY <1>1
<1> QED
  BY <1>2, Inside, SMT

(***************************************************************************)
(* Where a character has ended, the next one begins.                       *)
(***************************************************************************)
LEMMA NextBegins ==
  ASSUME NEW t \in Seq(Octet), NEW k \in 1 .. Len(t),
         EndsCharacter(t, k - 1), InCharacter(t, k)
  PROVE  \E n \in 1 .. 4 : CharacterAt(t, k, n)
<1>1. PICK j \in 1 .. k, n \in 1 .. 4 : k < j + n /\ CharacterAt(t, j, n)
  BY InCharacterRanges
<1>2. CASE j = k
  BY <1>1, <1>2
<1>3. ASSUME j < k
      PROVE  FALSE
  <2>1. PICK m \in 1 .. 4 : m <= k - 1 /\ CharacterAt(t, (k - 1) - m + 1, m)
    BY <1>3 DEF EndsCharacter
  <2> DEFINE l == (k - 1) - m + 1
  <2>2. l \in Nat /\ j \in Nat /\ l + m = k /\ CharacterAt(t, l, m)
    BY <2>1
  <2> HIDE DEF l
  <2>3. CASE l <= j
    BY <1>1, <1>3, <2>2, <2>3, NoOverlap
  <2>4. CASE j <= l
    BY <1>1, <1>3, <2>2, <2>4, NoOverlap
  <2> QED BY <2>2, <2>3, <2>4
<1> QED
  BY <1>2, <1>3

LEMMA Least ==
  ASSUME NEW T \in SUBSET Nat, T # {}
  PROVE  \E n \in T : \A m \in T : n <= m
<1>1. PICK n \in T : \A m \in T : ~ (<<m, n>> \in OpToRel(<, Nat))
  BY NatLessThanWellFounded, WFMin
<1>2. ASSUME NEW m \in T
      PROVE  ~ (m < n)
  <2>1. m \in Nat /\ n \in Nat
    OBVIOUS
  <2>2. m < n => <<m, n>> \in OpToRel(<, Nat)
    BY <2>1, Zenon DEF OpToRel
  <2> QED BY <1>1, <2>2
<1> QED
  BY <1>2

(***************************************************************************)
(* WellFormed says what it should: a text in which every octet lies in a   *)
(* character is read one character after the other, from its first octet   *)
(* to its last.  B is the set of the places where characters begin.        *)
(***************************************************************************)
THEOREM ReadsThrough ==
  ASSUME NEW t \in Seq(Octet)
  PROVE  WellFormed(t)
           <=> \E B \in SUBSET (1 .. Len(t) + 1) :
                 /\ 1 \in B
                 /\ \A k \in B \ {Len(t) + 1} : \E n \in 1 .. 4 :
                      k + n \in B /\ IsCharacter(SubSeq(t, k, k + n - 1))
<1>1. ASSUME WellFormed(t)
      PROVE  \E B \in SUBSET (1 .. Len(t) + 1) :
               /\ 1 \in B
               /\ \A k \in B \ {Len(t) + 1} : \E n \in 1 .. 4 :
                    k + n \in B /\ IsCharacter(SubSeq(t, k, k + n - 1))
  <2> DEFINE B == {k \in 1 .. Len(t) + 1 : EndsCharacter(t, k - 1)}
  <2>1. 1 \in B
    BY DEF EndsCharacter
  <2>2. ASSUME NEW k \in B \ {Len(t) + 1}
        PROVE  \E n \in 1 .. 4 :
                 k + n \in B /\ IsCharacter(SubSeq(t, k, k + n - 1))
    <3>1. k \in 1 .. Len(t) /\ EndsCharacter(t, k - 1) /\ InCharacter(t, k)
      BY <1>1 DEF WellFormed
    <3>2. PICK n \in 1 .. 4 : CharacterAt(t, k, n)
      BY <3>1, NextBegins
    <3>3. k + n - 1 <= Len(t)
      BY <3>2 DEF CharacterAt
    <3>4. IsCharacter(SubSeq(t, k, k + n - 1))
      BY <3>1, <3>2, <3>3, CharacterRanges
    <3>5. EndsCharacter(t, (k + n) - 1)
      <4>1. n <= (k + n) - 1 /\ ((k + n) - 1) - n + 1 = k
        BY <3>1
      <4> QED BY <3>2, <4>1 DEF EndsCharacter
    <3>6. k + n \in 1 .. Len(t) + 1
      BY <3>1, <3>3
    <3> QED BY <3>4, <3>5, <3>6
  <2> QED BY <2>1, <2>2
<1>2. ASSUME NEW B \in SUBSET (1 .. Len(t) + 1), 1 \in B,
             \A k \in B \ {Len(t) + 1} : \E n \in 1 .. 4 :
               k + n \in B /\ IsCharacter(SubSeq(t, k, k + n - 1)),
             NEW k \in 1 .. Len(t)
      PROVE  InCharacter(t, k)
  <2> DEFINE T == {d \in Nat : k - d \in B}
  <2>1. k - 1 \in T
    BY <1>2
  <2>2. PICK d \in T : \A e \in T : d <= e
    <3> HIDE DEF T
    <3>1. T \in SUBSET Nat
      BY DEF T
    <3> QED BY <2>1, <3>1, Least
  <2>3. k - d \in B \ {Len(t) + 1} /\ k - d \in 1 .. k /\ d \in Nat
    BY <1>2
  <2>4. PICK n \in 1 .. 4 : (k - d) + n \in B
                              /\ IsCharacter(SubSeq(t, k - d, (k - d) + n - 1))
    BY <1>2, <2>3
  <2>5. k < (k - d) + n
    <3> SUFFICES ASSUME n <= d
                 PROVE  FALSE
      BY <2>3
    <3>1. d - n \in Nat /\ k - (d - n) = (k - d) + n
      BY <2>3
    <3>2. d - n \in T
      BY <2>4, <3>1
    <3>3. d <= d - n
      BY <2>2, <3>2
    <3> QED BY <2>3, <3>3, SMT
  <2>6. (k - d) + n - 1 \in k .. Len(t)
    <3>1. (k - d) + n \in 1 .. Len(t) + 1
      BY <1>2, <2>4
    <3> QED BY <2>3, <2>5, <3>1
  <2> QED BY <2>3, <2>4, <2>6 DEF InCharacter
<1> QED
  BY <1>1, <1>2 DEF WellFormed

-----------------------------------------------------------------------------
(***************************************************************************)
(* The automaton of the serializer, by ranges of octets.                   *)
(***************************************************************************)
LEMMA Classes ==
  ASSUME NEW x \in Nat, x <= 255
  PROVE  /\ x <= 127 => ByteClass(x) = 0
         /\ (x >= 128 /\ x <= 143) => ByteClass(x) = 1
         /\ (x >= 144 /\ x <= 159) => ByteClass(x) = 9
         /\ (x >= 160 /\ x <= 191) => ByteClass(x) = 7
         /\ (x >= 194 /\ x <= 223) => ByteClass(x) = 2
         /\ x = 224 => ByteClass(x) = 10
         /\ x = 237 => ByteClass(x) = 4
         /\ (x >= 225 /\ x <= 239 /\ x # 237) => ByteClass(x) = 3
         /\ x = 240 => ByteClass(x) = 11
         /\ (x >= 241 /\ x <= 243) => ByteClass(x) = 6
         /\ x = 244 => ByteClass(x) = 5
         /\ (x = 192 \/ x = 193 \/ x >= 245) => ByteClass(x) = 8
<1>1. x <= 127 => ByteClass(x) = 0
  BY SMT DEF ByteClass
<1>2. (x >= 128 /\ x <= 143) => ByteClass(x) = 1
  BY SMT DEF ByteClass
<1>3. (x >= 144 /\ x <= 159) => ByteClass(x) = 9
  BY SMT DEF ByteClass
<1>4. (x >= 160 /\ x <= 191) => ByteClass(x) = 7
  BY SMT DEF ByteClass
<1>5. (x >= 194 /\ x <= 223) => ByteClass(x) = 2
  BY SMT DEF ByteClass
<1>6. x = 224 => ByteClass(x) = 10
  BY SMT DEF ByteClass
<1>7. x = 237 => ByteClass(x) = 4
  BY SMT DEF ByteClass
<1>8. (x >= 225 /\ x <= 239 /\ x # 237) => ByteClass(x) = 3
  BY SMT DEF ByteClass
<1>9. x = 240 => ByteClass(x) = 11
  BY SMT DEF ByteClass
<1>10. (x >= 241 /\ x <= 243) => ByteClass(x) = 6
  BY SMT DEF ByteClass
<1>11. x = 244 => ByteClass(x) = 5
  BY SMT DEF ByteClass
<1>12. (x = 192 \/ x = 193 \/ x >= 245) => ByteClass(x) = 8
  BY SMT DEF ByteClass
<1> QED
  BY <1>1, <1>2, <1>3, <1>4, <1>5, <1>6, <1>7, <1>8, <1>9, <1>10, <1>11, <1>12, Zenon

LEMMA Transitions ==
  ASSUME NEW x \in Nat, x <= 255
  PROVE  /\ NextState(0, ByteClass(x)) =
              IF x <= 127 THEN 0
              ELSE IF x >= 194 /\ x <= 223 THEN 2
              ELSE IF x = 224 THEN 4
              ELSE IF x = 237 THEN 5
              ELSE IF x >= 225 /\ x <= 239 THEN 3
              ELSE IF x = 240 THEN 6
              ELSE IF x >= 241 /\ x <= 243 THEN 7
              ELSE IF x = 244 THEN 8 ELSE 1
         /\ NextState(2, ByteClass(x)) = IF x \in Trail THEN 0 ELSE 1
         /\ NextState(3, ByteClass(x)) = IF x \in Trail THEN 2 ELSE 1
         /\ NextState(4, ByteClass(x)) = IF x \in 160 .. 191 THEN 2 ELSE 1
         /\ NextState(5, ByteClass(x)) = IF x \in 128 .. 159 THEN 2 ELSE 1
         /\ NextState(6, ByteClass(x)) = IF x \in 144 .. 191 THEN 3 ELSE 1
         /\ NextState(7, ByteClass(x)) = IF x \in Trail THEN 3 ELSE 1
         /\ NextState(8, ByteClass(x)) = IF x \in 128 .. 143 THEN 3 ELSE 1
<1>1. CASE x <= 127
  <2>1. ByteClass(x) = 0
    BY <1>1, Classes
  <2>2. /\ NextState(0, 0) = 0 /\ NextState(2, 0) = 1 /\ NextState(3, 0) = 1
        /\ NextState(4, 0) = 1 /\ NextState(5, 0) = 1 /\ NextState(6, 0) = 1
        /\ NextState(7, 0) = 1 /\ NextState(8, 0) = 1
    BY SMT DEF NextState
  <2> QED BY <1>1, <2>1, <2>2, SMT DEF Trail
<1>2. CASE x >= 128 /\ x <= 143
  <2>1. ByteClass(x) = 1
    BY <1>2, Classes
  <2>2. /\ NextState(0, 1) = 1 /\ NextState(2, 1) = 0 /\ NextState(3, 1) = 2
        /\ NextState(4, 1) = 1 /\ NextState(5, 1) = 2 /\ NextState(6, 1) = 1
        /\ NextState(7, 1) = 3 /\ NextState(8, 1) = 3
    BY SMT DEF NextState
  <2> QED BY <1>2, <2>1, <2>2, SMT DEF Trail
<1>3. CASE x >= 144 /\ x <= 159
  <2>1. ByteClass(x) = 9
    BY <1>3, Classes
  <2>2. /\ NextState(0, 9) = 1 /\ NextState(2, 9) = 0 /\ NextState(3, 9) = 2
        /\ NextState(4, 9) = 1 /\ NextState(5, 9) = 2 /\ NextState(6, 9) = 3
        /\ NextState(7, 9) = 3 /\ NextState(8, 9) = 1
    BY SMT DEF NextState
  <2> QED BY <1>3, <2>1, <2>2, SMT DEF Trail
<1>4. CASE x >= 160 /\ x <= 191
  <2>1. ByteClass(x) = 7
    BY <1>4, Classes
  <2>2. /\ NextState(0, 7) = 1 /\ NextState(2, 7) = 0 /\ NextState(3, 7) = 2
        /\ NextState(4, 7) = 2 /\ NextState(5, 7) = 1 /\ NextState(6, 7) = 3
        /\ NextState(7, 7) = 3 /\ NextState(8, 7) = 1
    BY SMT DEF NextState
  <2> QED BY <1>4, <2>1, <2>2, SMT DEF Trail
<1>5. CASE x >= 194 /\ x <= 223
  <2>1. ByteClass(x) = 2
    BY <1>5, Classes
  <2>2. /\ NextState(0, 2) = 2 /\ NextState(2, 2) = 1 /\ NextState(3, 2) = 1
        /\ NextState(4, 2) = 1 /\ NextState(5, 2) = 1 /\ NextState(6, 2) = 1
        /\ NextState(7, 2) = 1 /\ NextState(8, 2) = 1
    BY SMT DEF NextState
  <2> QED BY <1>5, <2>1, <2>2, SMT DEF Trail
<1>6. CASE x = 224
  <2>1. ByteClass(x) = 10
    BY <1>6, Classes
  <2>2. /\ NextState(0, 10) = 4 /\ NextState(2, 10) = 1 /\ NextState(3, 10) = 1
        /\ NextState(4, 10) = 1 /\ NextState(5, 10) = 1 /\ NextState(6, 10) = 1
        /\ NextState(7, 10) = 1 /\ NextState(8, 10) = 1
    BY SMT DEF NextState
  <2> QED BY <1>6, <2>1, <2>2, SMT DEF Trail
<1>7. CASE x = 237
  <2>1. ByteClass(x) = 4
    BY <1>7, Classes
  <2>2. /\ NextState(0, 4) = 5 /\ NextState(2, 4) = 1 /\ NextState(3, 4) = 1
        /\ NextState(4, 4) = 1 /\ NextState(5, 4) = 1 /\ NextState(6, 4) = 1
        /\ NextState(7, 4) = 1 /\ NextState(8, 4) = 1
    BY SMT DEF NextState
  <2> QED BY <1>7, <2>1, <2>2, SMT DEF Trail
<1>8. CASE x >= 225 /\ x <= 239 /\ x # 237
  <2>1. ByteClass(x) = 3
    BY <1>8, Classes
  <2>2. /\ NextState(0, 3) = 3 /\ NextState(2, 3) = 1 /\ NextState(3, 3) = 1
        /\ NextState(4, 3) = 1 /\ NextState(5, 3) = 1 /\ NextState(6, 3) = 1
        /\ NextState(7, 3) = 1 /\ NextState(8, 3) = 1
    BY SMT DEF NextState
  <2> QED BY <1>8, <2>1, <2>2, SMT DEF Trail
<1>9. CASE x = 240
  <2>1. ByteClass(x) = 11
    BY <1>9, Classes
  <2>2. /\ NextState(0, 11) = 6 /\ NextState(2, 11) = 1 /\ NextState(3, 11) = 1
        /\ NextState(4, 11) = 1 /\ NextState(5, 11) = 1 /\ NextState(6, 11) = 1
        /\ NextState(7, 11) = 1 /\ NextState(8, 11) = 1
    BY SMT DEF NextState
  <2> QED BY <1>9, <2>1, <2>2, SMT DEF Trail
<1>10. CASE x >= 241 /\ x <= 243
  <2>1. ByteClass(x) = 6
    BY <1>10, Classes
  <2>2. /\ NextState(0, 6) = 7 /\ NextState(2, 6) = 1 /\ NextState(3, 6) = 1
        /\ NextState(4, 6) = 1 /\ NextState(5, 6) = 1 /\ NextState(6, 6) = 1
        /\ NextState(7, 6) = 1 /\ NextState(8, 6) = 1
    BY SMT DEF NextState
  <2> QED BY <1>10, <2>1, <2>2, SMT DEF Trail
<1>11. CASE x = 244
  <2>1. ByteClass(x) = 5
    BY <1>11, Classes
  <2>2. /\ NextState(0, 5) = 8 /\ NextState(2, 5) = 1 /\ NextState(3, 5) = 1
        /\ NextState(4, 5) = 1 /\ NextState(5, 5) = 1 /\ NextState(6, 5) = 1
        /\ NextState(7, 5) = 1 /\ NextState(8, 5) = 1
    BY SMT DEF NextState
  <2> QED BY <1>11, <2>1, <2>2, SMT DEF Trail
<1>12. CASE x = 192 \/ x = 193 \/ x >= 245
  <2>1. ByteClass(x) = 8
    BY <1>12, Classes
  <2>2. /\ NextState(0, 8) = 1 /\ NextState(2, 8) = 1 /\ NextState(3, 8) = 1
        /\ NextState(4, 8) = 1 /\ NextState(5, 8) = 1 /\ NextState(6, 8) = 1
        /\ NextState(7, 8) = 1 /\ NextState(8, 8) = 1
    BY SMT DEF NextState
  <2> QED BY <1>12, <2>1, <2>2, SMT DEF Trail
<1> QED
  BY <1>1, <1>2, <1>3, <1>4, <1>5, <1>6, <1>7, <1>8, <1>9, <1>10, <1>11, <1>12, SMT

(***************************************************************************)
(* One octet more: the beginning of a character, a character, or what no   *)
(* character begins with.                                                  *)
(***************************************************************************)
LEMMA Shape ==
  ASSUME NEW t, Len(t) \in Nat, NEW k \in Nat, NEW y \in Nat, t[k] = y,
         NEW n \in 1 .. 4, CharacterAt(t, k, n)
  PROVE  /\ k + n - 1 <= Len(t)
         /\ y \in 0 .. 127 \/ y \in 194 .. 244
         /\ y \in 194 .. 223 => n = 2 /\ t[k + 1] \in Trail
         /\ y \in 224 .. 239 => n = 3 /\ SecondOctet(y, t[k + 1]) /\ t[k + 2] \in Trail
         /\ y \in 240 .. 244 => /\ n = 4 /\ SecondOctet(y, t[k + 1])
                                /\ t[k + 2] \in Trail /\ t[k + 3] \in Trail
<1>1. CASE n = 1
  BY <1>1, SMT DEF CharacterAt
<1>2. CASE n = 2
  BY <1>2, SMT DEF CharacterAt
<1>3. CASE n = 3
  BY <1>3, SMT DEF CharacterAt
<1>4. CASE n = 4
  BY <1>4, SMT DEF CharacterAt
<1> QED
  BY <1>1, <1>2, <1>3, <1>4, SMT

LEMMA AnySecond ==
  ASSUME NEW y \in Nat, y # 224, y # 237, y # 240, y # 244, NEW x \in Nat
  PROVE  SecondOctet(y, x) <=> x \in Trail
  BY SMT DEF SecondOctet

LEMMA Decoding ==
  ASSUME NEW t, Len(t) \in Nat, NEW k \in Nat, NEW u \in Nat, NEW q, k + u <= Len(t),
         Beginning(t, k, u, q), NEW x \in Nat, x <= 255, t[k + u] = x,
         NEW y \in Nat, y <= 255, t[k] = y,
         NEW r, r = NextState(q, ByteClass(x))
  PROVE  /\ r \in 0 .. 8
         /\ r \notin {0, 1} => Beginning(t, k, u + 1, r)
         /\ r = 0 => CharacterAt(t, k, u + 1)
         /\ r = 1 => \A n \in 1 .. 4 : ~ CharacterAt(t, k, n)
<1>1. CASE q = 0 /\ u = 0
  <2>1. t[k] = x
    BY <1>1, SMT
  <2>2. r \in 0 .. 8
    BY <1>1, Transitions, SMT
  <2>3. r \notin {0, 1} => Beginning(t, k, 1, r)
    BY <1>1, <2>1, Transitions, SMT DEF Beginning
  <2>4. r = 0 => CharacterAt(t, k, 1)
    BY <1>1, <2>1, Transitions, SMT DEF CharacterAt
  <2>5. r = 1 => \A n \in 1 .. 4 : ~ CharacterAt(t, k, n)
    BY <1>1, <2>1, Transitions, SMT DEF CharacterAt
  <2> QED BY <1>1, <2>2, <2>3, <2>4, <2>5, SMT
<1>2. CASE q = 2 /\ u = 1
  <2>1. r = IF x \in Trail THEN 0 ELSE 1
    BY <1>2, Transitions
  <2>2. y \in 194 .. 223 /\ t[k + 1] = x
    BY <1>2, SMT DEF Beginning
  <2>3. r = 0 => CharacterAt(t, k, 2)
    BY <1>2, <2>1, <2>2, SMT DEF CharacterAt
  <2>4. r = 1 => \A n \in 1 .. 4 : ~ CharacterAt(t, k, n)
    BY <2>1, <2>2, Shape, SMT
  <2> QED BY <1>2, <2>1, <2>3, <2>4, SMT
<1>3. CASE q = 2 /\ u = 2
  <2>1. r = IF x \in Trail THEN 0 ELSE 1
    BY <1>3, Transitions
  <2>2. y \in 224 .. 239 /\ SecondOctet(y, t[k + 1]) /\ t[k + 2] = x
    BY <1>3, SMT DEF Beginning
  <2>3. r = 0 => CharacterAt(t, k, 3)
    BY <1>3, <2>1, <2>2, SMT DEF CharacterAt
  <2>4. r = 1 => \A n \in 1 .. 4 : ~ CharacterAt(t, k, n)
    BY <2>1, <2>2, Shape, SMT
  <2> QED BY <1>3, <2>1, <2>3, <2>4, SMT
<1>4. CASE q = 2 /\ u = 3
  <2>1. r = IF x \in Trail THEN 0 ELSE 1
    BY <1>4, Transitions
  <2>2. y \in 240 .. 244 /\ SecondOctet(y, t[k + 1]) /\ t[k + 2] \in Trail /\ t[k + 3] = x
    BY <1>4, SMT DEF Beginning
  <2>3. r = 0 => CharacterAt(t, k, 4)
    BY <1>4, <2>1, <2>2, SMT DEF CharacterAt
  <2>4. r = 1 => \A n \in 1 .. 4 : ~ CharacterAt(t, k, n)
    BY <2>1, <2>2, Shape, SMT
  <2> QED BY <1>4, <2>1, <2>3, <2>4, SMT
<1>5. CASE q = 3 /\ u = 1
  <2>1. r = IF x \in Trail THEN 2 ELSE 1
    BY <1>5, Transitions
  <2>2. y \in 225 .. 239 /\ y # 237 /\ t[k + 1] = x
    BY <1>5, SMT DEF Beginning
  <2>3. SecondOctet(y, x) <=> x \in Trail
    BY <2>2, AnySecond, SMT
  <2>4. r = 2 => Beginning(t, k, 2, 2)
    BY <2>1, <2>2, <2>3, SMT DEF Beginning
  <2>5. r = 1 => \A n \in 1 .. 4 : ~ CharacterAt(t, k, n)
    BY <2>1, <2>2, <2>3, Shape, SMT
  <2> QED BY <1>5, <2>1, <2>4, <2>5, SMT
<1>6. CASE q = 3 /\ u = 2
  <2>1. r = IF x \in Trail THEN 2 ELSE 1
    BY <1>6, Transitions
  <2>2. y \in 240 .. 244 /\ SecondOctet(y, t[k + 1]) /\ t[k + 2] = x
    BY <1>6, SMT DEF Beginning
  <2>3. r = 2 => Beginning(t, k, 3, 2)
    BY <2>1, <2>2, SMT DEF Beginning
  <2>4. r = 1 => \A n \in 1 .. 4 : ~ CharacterAt(t, k, n)
    BY <2>1, <2>2, Shape, SMT
  <2> QED BY <1>6, <2>1, <2>3, <2>4, SMT
<1>7. CASE q \in {4, 5} /\ u = 1
  <2>1. y \in 224 .. 239 /\ t[k + 1] = x /\ y = IF q = 4 THEN 224 ELSE 237
    BY <1>7, SMT DEF Beginning
  <2>2. r = IF SecondOctet(y, x) THEN 2 ELSE 1
    <3>1. CASE q = 4
      BY <2>1, <3>1, Transitions, SMT DEF SecondOctet
    <3>2. CASE q = 5
      BY <2>1, <3>2, Transitions, SMT DEF SecondOctet
    <3> QED BY <1>7, <3>1, <3>2
  <2>3. r = 2 => Beginning(t, k, 2, 2)
    BY <2>1, <2>2, SMT DEF Beginning
  <2>4. r = 1 => \A n \in 1 .. 4 : ~ CharacterAt(t, k, n)
    BY <2>1, <2>2, Shape, SMT
  <2> QED BY <1>7, <2>2, <2>3, <2>4, SMT
<1>8. CASE q \in {6, 7, 8} /\ u = 1
  <2>1. /\ y \in 240 .. 244 /\ t[k + 1] = x
        /\ q = 6 => y = 240
        /\ q = 7 => y \in 241 .. 243
        /\ q = 8 => y = 244
    BY <1>8, SMT DEF Beginning
  <2>2. r = IF SecondOctet(y, x) THEN 3 ELSE 1
    <3>1. CASE q = 6
      BY <2>1, <3>1, Transitions, SMT DEF SecondOctet
    <3>2. CASE q = 7
      <4>1. SecondOctet(y, x) <=> x \in Trail
        BY <2>1, <3>2, AnySecond, SMT
      <4> QED BY <3>2, <4>1, Transitions, SMT
    <3>3. CASE q = 8
      BY <2>1, <3>3, Transitions, SMT DEF SecondOctet
    <3> QED BY <1>8, <3>1, <3>2, <3>3
  <2>3. r = 3 => Beginning(t, k, 2, 3)
    BY <2>1, <2>2, SMT DEF Beginning
  <2>4. r = 1 => \A n \in 1 .. 4 : ~ CharacterAt(t, k, n)
    BY <2>1, <2>2, Shape, SMT
  <2> QED BY <1>8, <2>2, <2>3, <2>4, SMT
<1>9. \/ q = 0 /\ u = 0
      \/ q = 2 /\ u \in 1 .. 3
      \/ q = 3 /\ u \in 1 .. 2
      \/ q \in 4 .. 8 /\ u = 1
  BY SMT DEF Beginning
<1> QED
  BY <1>1, <1>2, <1>3, <1>4, <1>5, <1>6, <1>7, <1>8, <1>9, SMT

(***************************************************************************)
(* Nothing that ends with the text is the whole of a character begun.      *)
(***************************************************************************)
LEMMA BegunOnly ==
  ASSUME NEW t, Len(t) \in Nat, NEW k \in Nat, NEW u \in Nat, NEW q,
         NEW y \in Nat, t[k] = y,
         Beginning(t, k, u, q), q # 0, k + u = Len(t) + 1
  PROVE  u > 0 /\ \A n \in 1 .. 4 : ~ CharacterAt(t, k, n)
<1>1. \/ u = 1 /\ y \in 194 .. 244
      \/ u = 2 /\ y \in 224 .. 244
      \/ u = 3 /\ y \in 240 .. 244
  BY SMT DEF Beginning
<1> QED
  BY <1>1, Shape, SMT

(***************************************************************************)
(* The code point of a character, by its octets.                           *)
(***************************************************************************)
LEMMA Leads ==
  ASSUME NEW y \in Nat, y <= 255, NEW h, h = LeadingBits(y)
  PROVE  /\ h \in Int
         /\ y <= 127 => h = y
         /\ y \in 194 .. 223 => h = y - 192
         /\ y \in 224 .. 239 => h = y - 224
         /\ y \in 240 .. 244 => h = y - 240
  BY SMT DEF LeadingBits

LEMMA CodeSpace1 ==
  ASSUME NEW t, Len(t) \in Nat, NEW k \in Nat, NEW y \in Nat, y <= 255, t[k] = y,
         CharacterAt(t, k, 1)
  PROVE  Gathered(t, k, 1) \in Nat /\ Gathered(t, k, 1) <= 1114111
<1>1. y <= 127
  BY SMT DEF CharacterAt
<1>2. PICK h \in Int : h = LeadingBits(t[k]) /\ h = y
  BY <1>1, Leads, SMT
<1>3. Gathered(t, k, 1) = h
  BY <1>2, SMT DEF Gathered
<1> QED
  BY <1>1, <1>2, <1>3, SMT

LEMMA CodeSpace2 ==
  ASSUME NEW t, Len(t) \in Nat, NEW k \in Nat, NEW y \in Nat, y <= 255, t[k] = y,
         NEW a \in Nat, t[k + 1] = a, CharacterAt(t, k, 2)
  PROVE  Gathered(t, k, 2) \in Nat /\ Gathered(t, k, 2) <= 1114111
<1>1. y \in 194 .. 223 /\ a \in Trail
  BY SMT DEF CharacterAt
<1>2. PICK h \in Int : h = LeadingBits(t[k]) /\ h = y - 192
  BY <1>1, Leads, SMT
<1>3. Gathered(t, k, 2) = h * 64 + (a - 128)
  BY <1>2, SMT DEF Gathered
<1> QED
  BY <1>1, <1>2, <1>3, SMT DEF Trail

LEMMA CodeSpace3 ==
  ASSUME NEW t, Len(t) \in Nat, NEW k \in Nat, NEW y \in Nat, y <= 255, t[k] = y,
         NEW a \in Nat, t[k + 1] = a, NEW b \in Nat, t[k + 2] = b, CharacterAt(t, k, 3)
  PROVE  Gathered(t, k, 3) \in Nat /\ Gathered(t, k, 3) <= 1114111
<1>1. y \in 224 .. 239 /\ SecondOctet(y, a) /\ b \in Trail
  BY SMT DEF CharacterAt
<1>2. a \in Trail
  BY <1>1, SMT DEF SecondOctet, Trail
<1>3. PICK h \in Int : h = LeadingBits(t[k]) /\ h = y - 224
  BY <1>1, Leads, SMT
<1>4. Gathered(t, k, 3) = h * 4096 + (a - 128) * 64 + (b - 128)
  BY <1>3, SMT DEF Gathered
<1> QED
  BY <1>1, <1>2, <1>3, <1>4, SMT DEF Trail

LEMMA CodeSpace4 ==
  ASSUME NEW t, Len(t) \in Nat, NEW k \in Nat, NEW y \in Nat, y <= 255, t[k] = y,
         NEW a \in Nat, t[k + 1] = a, NEW b \in Nat, t[k + 2] = b,
         NEW d \in Nat, t[k + 3] = d, CharacterAt(t, k, 4)
  PROVE  Gathered(t, k, 4) \in Nat /\ Gathered(t, k, 4) <= 1114111
<1>1. y \in 240 .. 244 /\ SecondOctet(y, a) /\ b \in Trail /\ d \in Trail
  BY SMT DEF CharacterAt
<1>2. a \in Trail /\ (y = 244 => a <= 143)
  BY <1>1, SMT DEF SecondOctet, Trail
<1>3. PICK h \in Int : h = LeadingBits(t[k]) /\ h = y - 240
  BY <1>1, Leads, SMT
<1>4. Gathered(t, k, 4)
        = h * 262144 + (a - 128) * 4096 + (b - 128) * 64 + (d - 128)
  BY <1>3, SMT DEF Gathered
<1> QED
  BY <1>1, <1>2, <1>3, <1>4, SMT DEF Trail

LEMMA InCodeSpace ==
  ASSUME NEW t \in Seq(Octet), NEW k \in 1 .. Len(t), NEW n \in 1 .. 4,
         CharacterAt(t, k, n)
  PROVE  Gathered(t, k, n) \in Nat /\ Gathered(t, k, n) <= 1114111
<1>1. PICK y \in Nat : y = t[k] /\ y <= 255
  <2>1. t[k] \in Octet
    OBVIOUS
  <2> QED BY <2>1, Octets
<1>2. k + n - 1 <= Len(t) /\ k \in Nat /\ Len(t) \in Nat
  BY <1>1, Shape
<1>3. \A m \in 1 .. n - 1 : t[k + m] \in Nat
  <2>1. \A m \in 1 .. n - 1 : t[k + m] \in Octet
    BY <1>2
  <2> QED BY <2>1, Octets
<1>4. CASE n = 1
  BY <1>1, <1>2, <1>4, CodeSpace1
<1>5. CASE n = 2
  <2>1. PICK a \in Nat : a = t[k + 1]
    BY <1>3, <1>5, SMT
  <2> QED BY <1>1, <1>2, <1>5, <2>1, CodeSpace2
<1>6. CASE n = 3
  <2>1. PICK a \in Nat, b \in Nat : a = t[k + 1] /\ b = t[k + 2]
    BY <1>3, <1>6, SMT
  <2> QED BY <1>1, <1>2, <1>6, <2>1, CodeSpace3
<1>7. CASE n = 4
  <2>1. PICK a \in Nat, b \in Nat, d \in Nat :
          a = t[k + 1] /\ b = t[k + 2] /\ d = t[k + 3]
    BY <1>3, <1>7, SMT
  <2> QED BY <1>1, <1>2, <1>7, <2>1, CodeSpace4
<1> QED
  BY <1>4, <1>5, <1>6, <1>7, SMT

LEMMA FirstBits ==
  ASSUME NEW x \in Nat, x <= 255
  PROVE  LET bits == x % 2 ^ (IF ByteClass(x) > 8 THEN 0 ELSE 8 - ByteClass(x))
         IN  /\ bits \in Nat
             /\ NextState(0, ByteClass(x)) # 1 => bits = LeadingBits(x)
<1> DEFINE e == IF ByteClass(x) > 8 THEN 0 ELSE 8 - ByteClass(x)
<1>1. SUFFICES x % 2 ^ e \in Nat /\ (NextState(0, ByteClass(x)) # 1 => x % 2 ^ e = LeadingBits(x))
  OBVIOUS
<1>2. CASE x <= 127
  <2>1. ByteClass(x) = 0
    BY <1>2, Classes
  <2>2. e = 8
    BY <2>1, SMT
  <2> HIDE DEF e
  <2>3. 2 ^ e = 256
    BY <2>2, SMT
  <2> QED BY <1>2, <2>3, SMT DEF LeadingBits
<1>3. CASE x >= 128 /\ x <= 143
  <2>1. ByteClass(x) = 1
    BY <1>3, Classes
  <2>2. e = 7
    BY <2>1, SMT
  <2> HIDE DEF e
  <2>3. 2 ^ e = 128
    BY <2>2, SMT
  <2>4. NextState(0, ByteClass(x)) = 1
    BY <1>3, Transitions
  <2> QED BY <2>3, <2>4, SMT
<1>4. CASE x >= 144 /\ x <= 159
  <2>1. ByteClass(x) = 9
    BY <1>4, Classes
  <2>2. e = 0
    BY <2>1, SMT
  <2> HIDE DEF e
  <2>3. 2 ^ e = 1
    BY <2>2, SMT
  <2>4. NextState(0, ByteClass(x)) = 1
    BY <1>4, Transitions
  <2> QED BY <2>3, <2>4, SMT
<1>5. CASE x >= 160 /\ x <= 191
  <2>1. ByteClass(x) = 7
    BY <1>5, Classes
  <2>2. e = 1
    BY <2>1, SMT
  <2> HIDE DEF e
  <2>3. 2 ^ e = 2
    BY <2>2, SMT
  <2>4. NextState(0, ByteClass(x)) = 1
    BY <1>5, Transitions
  <2> QED BY <2>3, <2>4, SMT
<1>6. CASE x >= 194 /\ x <= 223
  <2>1. ByteClass(x) = 2
    BY <1>6, Classes
  <2>2. e = 6
    BY <2>1, SMT
  <2> HIDE DEF e
  <2>3. 2 ^ e = 64
    BY <2>2, SMT
  <2> QED BY <1>6, <2>3, SMT DEF LeadingBits
<1>7. CASE x = 224
  <2>1. ByteClass(x) = 10
    BY <1>7, Classes
  <2>2. e = 0
    BY <2>1, SMT
  <2> HIDE DEF e
  <2>3. 2 ^ e = 1
    BY <2>2, SMT
  <2> QED BY <1>7, <2>3, SMT DEF LeadingBits
<1>8. CASE x = 237
  <2>1. ByteClass(x) = 4
    BY <1>8, Classes
  <2>2. e = 4
    BY <2>1, SMT
  <2> HIDE DEF e
  <2>3. 2 ^ e = 16
    BY <2>2, SMT
  <2> QED BY <1>8, <2>3, SMT DEF LeadingBits
<1>9. CASE x >= 225 /\ x <= 239 /\ x # 237
  <2>1. ByteClass(x) = 3
    BY <1>9, Classes
  <2>2. e = 5
    BY <2>1, SMT
  <2> HIDE DEF e
  <2>3. 2 ^ e = 32
    BY <2>2, SMT
  <2> QED BY <1>9, <2>3, SMT DEF LeadingBits
<1>10. CASE x = 240
  <2>1. ByteClass(x) = 11
    BY <1>10, Classes
  <2>2. e = 0
    BY <2>1, SMT
  <2> HIDE DEF e
  <2>3. 2 ^ e = 1
    BY <2>2, SMT
  <2> QED BY <1>10, <2>3, SMT DEF LeadingBits
<1>11. CASE x >= 241 /\ x <= 243
  <2>1. ByteClass(x) = 6
    BY <1>11, Classes
  <2>2. e = 2
    BY <2>1, SMT
  <2> HIDE DEF e
  <2>3. 2 ^ e = 4
    BY <2>2, SMT
  <2> QED BY <1>11, <2>3, SMT DEF LeadingBits
<1>12. CASE x = 244
  <2>1. ByteClass(x) = 5
    BY <1>12, Classes
  <2>2. e = 3
    BY <2>1, SMT
  <2> HIDE DEF e
  <2>3. 2 ^ e = 8
    BY <2>2, SMT
  <2> QED BY <1>12, <2>3, SMT DEF LeadingBits
<1>13. CASE x = 192 \/ x = 193 \/ x >= 245
  <2>1. ByteClass(x) = 8
    BY <1>13, Classes
  <2>2. e = 0
    BY <2>1, SMT
  <2> HIDE DEF e
  <2>3. 2 ^ e = 1
    BY <2>2, SMT
  <2>4. NextState(0, ByteClass(x)) = 1
    BY <1>13, Transitions
  <2> QED BY <2>3, <2>4, SMT
<1> QED
  BY <1>2, <1>3, <1>4, <1>5, <1>6, <1>7, <1>8, <1>9, <1>10, <1>11, <1>12, <1>13, SMT

(***************************************************************************)
(* What a byte does to the decoder, whose bytes begin a character.         *)
(***************************************************************************)
LEMMA GathersOn ==
  ASSUME NEW t, NEW k \in Nat, NEW u \in 1 .. 3, LeadingBits(t[k]) \in Int,
         \A m \in 1 .. u : t[k + m] \in Nat
  PROVE  /\ Gathered(t, k, u) \in Int
         /\ Gathered(t, k, u + 1) = Gathered(t, k, u) * 64 + (t[k + u] - 128)
<1>1. PICK h \in Int : h = LeadingBits(t[k])
  OBVIOUS
<1>2. CASE u = 1
  <2>1. PICK a \in Nat : a = t[k + 1]
    BY <1>2, SMT
  <2>2. Gathered(t, k, 1) = h /\ Gathered(t, k, 2) = h * 64 + (a - 128)
    BY <1>1, <2>1, SMT DEF Gathered
  <2> QED BY <1>2, <2>1, <2>2, SMT
<1>3. CASE u = 2
  <2>1. PICK a \in Nat, b \in Nat : a = t[k + 1] /\ b = t[k + 2]
    BY <1>3, SMT
  <2>2. /\ Gathered(t, k, 2) = h * 64 + (a - 128)
        /\ Gathered(t, k, 3) = h * 4096 + (a - 128) * 64 + (b - 128)
    BY <1>1, <2>1, SMT DEF Gathered
  <2> QED BY <1>3, <2>1, <2>2, SMT
<1>4. CASE u = 3
  <2>1. PICK a \in Nat, b \in Nat, d \in Nat :
          a = t[k + 1] /\ b = t[k + 2] /\ d = t[k + 3]
    BY <1>4, SMT
  <2>2. /\ Gathered(t, k, 3) = h * 4096 + (a - 128) * 64 + (b - 128)
        /\ Gathered(t, k, 4)
             = h * 262144 + (a - 128) * 4096 + (b - 128) * 64 + (d - 128)
    BY <1>1, <2>1, SMT DEF Gathered
  <2> QED BY <1>4, <2>1, <2>2, SMT
<1> QED
  BY <1>2, <1>3, <1>4, SMT

LEMMA Continues ==
  ASSUME NEW x \in Nat, x <= 255, NEW q \in {2, 3, 4, 5, 6, 7, 8},
         NextState(q, ByteClass(x)) # 1
  PROVE  x \in Trail
<1>1. CASE q \in {2, 3, 7}
  BY <1>1, Transitions, SMT
<1>2. CASE q \in {4, 5}
  BY <1>2, Transitions, SMT DEF Trail
<1>3. CASE q \in {6, 8}
  BY <1>3, Transitions, SMT DEF Trail
<1> QED
  BY <1>1, <1>2, <1>3

LEMMA Decodes ==
  ASSUME TypeOK, DecoderInv, HasByte
  PROVE  /\ Begun \in 1 .. Len(s) /\ Begun + undumped_chars = i
         /\ undumped_chars \in 0 .. 3
         /\ Decoded \in 0 .. 8 /\ DecodedCodepoint \in Nat
         /\ Decoded \notin {0, 1} =>
              /\ Beginning(s, Begun, undumped_chars + 1, Decoded)
              /\ undumped_chars + 1 <= 3
         /\ Decoded = 0 => CharacterAt(s, Begun, undumped_chars + 1)
         /\ Decoded # 1 => DecodedCodepoint = Gathered(s, Begun, undumped_chars + 1)
         /\ Decoded = 1 => \A n \in 1 .. 4 : ~ CharacterAt(s, Begun, n)
<1> DEFINE u == undumped_chars
           k == Begun
<1>1. /\ k \in 1 .. Len(s) /\ k + u = i /\ u \in Nat /\ k \in Nat /\ Len(s) \in Nat
      /\ s \in Seq(Octet) /\ i \in 1 .. Len(s) /\ codepoint \in Nat
      /\ Beginning(s, k, u, state)
      /\ u # 0 => codepoint = Gathered(s, k, u)
  BY DEF TypeOK, DecoderInv, HasByte, Begun
<1>2. PICK x \in Nat : x = s[i] /\ x <= 255
  <2>1. s[i] \in Octet
    BY <1>1
  <2> QED BY <2>1, Octets
<1>3. PICK y \in Nat : y = s[k] /\ y <= 255
  <2>1. s[k] \in Octet
    BY <1>1
  <2> QED BY <2>1, Octets
<1>4. \A m \in 0 .. u : s[k + m] \in Nat
  <2>1. \A m \in 0 .. u : s[k + m] \in Octet
    BY <1>1
  <2> QED BY <2>1, Octets
<1> HIDE DEF k, u
<1>5. u \in 0 .. 3 /\ (u = 0 <=> state = 0)
  BY <1>1, SMT DEF Beginning
<1>6. Decoded = NextState(state, ByteClass(x))
  BY <1>2 DEF Decoded
<1>7. /\ Decoded \in 0 .. 8
      /\ Decoded \notin {0, 1} => Beginning(s, k, u + 1, Decoded)
      /\ Decoded = 0 => CharacterAt(s, k, u + 1)
      /\ Decoded = 1 => \A n \in 1 .. 4 : ~ CharacterAt(s, k, n)
  <2>1. s[k + u] = x /\ k + u <= Len(s)
    BY <1>1, <1>2
  <2> QED BY <1>1, <1>2, <1>3, <1>6, <2>1, Decoding
<1>8. Decoded \notin {0, 1} => u + 1 <= 3
  BY <1>5, <1>7, SMT DEF Beginning
<1>9. DecodedCodepoint \in Nat
        /\ (Decoded # 1 => DecodedCodepoint = Gathered(s, k, u + 1))
  <2>1. CASE state = 0
    <3>1. DecodedCodepoint
            = x % 2 ^ (IF ByteClass(x) > 8 THEN 0 ELSE 8 - ByteClass(x))
      BY <1>2, <2>1 DEF DecodedCodepoint, UTF8_ACCEPT
    <3>2. DecodedCodepoint \in Nat /\ (Decoded # 1 => DecodedCodepoint = LeadingBits(x))
      BY <1>2, <1>6, <2>1, <3>1, FirstBits
    <3>3. u = 0 /\ i = k
      BY <1>1, <1>5, <2>1
    <3>4. Gathered(s, k, 1) = LeadingBits(x)
      BY <1>2, <3>3, SMT DEF Gathered
    <3> QED BY <3>2, <3>3, <3>4, SMT
  <2>2. CASE state # 0
    <3>1. u \in 1 .. 3 /\ codepoint = Gathered(s, k, u) /\ x = s[k + u]
      BY <1>1, <1>2, <1>5, <2>2, SMT
    <3>2. DecodedCodepoint = codepoint * 64 + (x % 64)
      BY <1>2, <2>2 DEF DecodedCodepoint, UTF8_ACCEPT
    <3>3. Decoded # 1 => x \in Trail
      <4>1. state \in {2, 3, 4, 5, 6, 7, 8}
        BY <1>1, <2>2, SMT DEF Beginning
      <4> QED BY <1>2, <1>6, <4>1, Continues
    <3>4. x \in Trail => x % 64 = x - 128
      BY SMT DEF Trail
    <3>5. codepoint \in Nat /\ x % 64 \in Nat
      BY <1>1, SMT
    <3>6. LeadingBits(s[k]) \in Int
      BY <1>3, Leads
    <3>7. Gathered(s, k, u + 1) = codepoint * 64 + (x - 128)
      <4>1. k \in Nat /\ u \in 1 .. 3 /\ \A m \in 1 .. u : s[k + m] \in Nat
        BY <1>1, <1>4, <3>1, SMT
      <4>2. Gathered(s, k, u + 1) = Gathered(s, k, u) * 64 + (s[k + u] - 128)
        BY <3>6, <4>1, GathersOn
      <4> QED BY <3>1, <4>2
    <3> QED BY <3>2, <3>3, <3>4, <3>5, <3>7, SMT
  <2> QED BY <2>1, <2>2
<1> QED
  BY <1>1, <1>5, <1>7, <1>8, <1>9 DEF k, u

-----------------------------------------------------------------------------
(***************************************************************************)
(* A text remains UTF-8 when a character is added.                         *)
(***************************************************************************)
LEMMA WithCharacter ==
  ASSUME NEW t \in Seq(Octet), WellFormed(t), NEW c \in Seq(Octet), IsCharacter(c)
  PROVE  t \o c \in Seq(Octet) /\ WellFormed(t \o c)
<1> DEFINE w == t \o c
<1>1. /\ w \in Seq(Octet) /\ Len(w) = Len(t) + Len(c)
      /\ \A m \in 1 .. Len(t) : w[m] = t[m]
      /\ \A m \in Len(t) + 1 .. Len(t) + Len(c) : w[m] = c[m - Len(t)]
  BY ConcatProperties
<1>2. Len(t) \in Nat /\ Len(c) \in 1 .. 4
  BY DEF IsCharacter
<1> HIDE DEF w
<1>3. ASSUME NEW k \in 1 .. Len(t)
      PROVE  InCharacter(w, k)
  <2>1. PICK j \in 1 .. k, n \in 1 .. 4 : k < j + n /\ CharacterAt(t, j, n)
    BY InCharacterRanges DEF WellFormed
  <2>2. j + n - 1 <= Len(t)
    BY <2>1 DEF CharacterAt
  <2>3. ASSUME NEW m \in j .. j + n - 1
        PROVE  w[m] = t[m]
    <3>1. m \in Int /\ j <= m /\ m <= j + n - 1 /\ 1 <= j /\ j \in Int
      BY SMT
    <3>2. j + n - 1 \in Int
      BY <3>1, SMT
    <3>3. m \in 1 .. Len(t)
      BY <1>2, <2>2, <3>1, <3>2, SMT
    <3> QED BY <1>1, <3>3, Zenon
  <2>4. CharacterAt(w, j, n)
    <3>1. /\ w[j] = t[j]
          /\ n > 1 => w[j + 1] = t[j + 1]
          /\ n > 2 => w[j + 2] = t[j + 2]
          /\ n > 3 => w[j + 3] = t[j + 3]
      BY <2>3
    <3>2. j + n - 1 <= Len(w)
      BY <1>1, <1>2, <2>2
    <3>3. CASE n = 1
      BY <2>1, <3>1, <3>2, <3>3 DEF CharacterAt
    <3>4. CASE n = 2
      BY <2>1, <3>1, <3>2, <3>4 DEF CharacterAt
    <3>5. CASE n = 3
      BY <2>1, <3>1, <3>2, <3>5 DEF CharacterAt
    <3>6. CASE n = 4
      BY <2>1, <3>1, <3>2, <3>6 DEF CharacterAt
    <3> QED BY <3>3, <3>4, <3>5, <3>6
  <2>5. k \in 1 .. Len(w)
    BY <1>1, <1>2
  <2> QED BY <1>1, <2>1, <2>4, <2>5, InCharacterRanges
<1>4. ASSUME NEW k \in Len(t) + 1 .. Len(w)
      PROVE  InCharacter(w, k)
  <2>1. SubSeq(w, Len(t) + 1, Len(w)) = c
    <3>1. /\ SubSeq(w, Len(t) + 1, Len(w)) \in Seq(Octet)
          /\ Len(SubSeq(w, Len(t) + 1, Len(w))) = Len(c)
          /\ \A m \in 1 .. Len(c) : SubSeq(w, Len(t) + 1, Len(w))[m] = c[m]
      <4>1. \A m \in Len(t) + 1 .. Len(w) : w[m] \in Octet
        BY <1>1, <1>2
      <4>2. Len(t) + 1 \in Int /\ Len(w) \in Int /\ Len(t) + 1 <= Len(w)
              /\ Len(w) - (Len(t) + 1) + 1 = Len(c)
        BY <1>1, <1>2
      <4>3. \A m \in 1 .. Len(c) : w[Len(t) + 1 + m - 1] = c[m]
        <5> TAKE m \in 1 .. Len(c)
        <5>1. Len(t) + m \in Len(t) + 1 .. Len(t) + Len(c)
                /\ Len(t) + 1 + m - 1 = Len(t) + m /\ (Len(t) + m) - Len(t) = m
          BY <1>2
        <5> QED BY <1>1, <5>1
      <4>4. /\ SubSeq(w, Len(t) + 1, Len(w)) \in Seq(Octet)
            /\ Len(SubSeq(w, Len(t) + 1, Len(w))) = Len(w) - (Len(t) + 1) + 1
            /\ \A m \in 1 .. Len(w) - (Len(t) + 1) + 1 :
                 SubSeq(w, Len(t) + 1, Len(w))[m] = w[Len(t) + 1 + m - 1]
        BY <4>1, <4>2, SubSeqProperties
      <4> QED BY <4>2, <4>3, <4>4
    <3> QED BY <3>1, SeqEqual
  <2>2. Len(t) + 1 \in 1 .. k /\ Len(w) \in k .. Len(w)
    BY <1>1, <1>2
  <2>3. IsCharacter(SubSeq(w, Len(t) + 1, Len(w)))
    BY <2>1
  <2> QED BY <2>2, <2>3 DEF InCharacter
<1> QED
  BY <1>1, <1>2, <1>3, <1>4 DEF WellFormed, w

(***************************************************************************)
(* A code point that is no surrogate is encoded as UTF-8.                  *)
(***************************************************************************)
LEMMA Encoded2 ==
  ASSUME NEW a \in Nat, a <= 31, NEW b \in Nat, b <= 63,
         NEW w, Len(w) = 2, w[1] = 192 + a, w[2] = 128 + b,
         NEW c \in Nat, c = a * 64 + b, c >= 128, IsScalarValue(c)
  PROVE  IsCharacter(w) /\ CodePoint(w) = c
<1>1. CodePoint(w) = c
  BY SMT DEF CodePoint
<1>2. LeadingOctets[2] = 192 .. 223 /\ LeastCoded[2] = 128
  BY SMT DEF LeadingOctets, LeastCoded
<1>3. \A k \in 2 .. 2 : w[k] \in 128 .. 191
  BY SMT
<1>4. Len(w) \in 1 .. 4 /\ w[1] \in 192 .. 223
  BY SMT
<1> QED
  BY <1>1, <1>2, <1>3, <1>4, SMT DEF IsCharacter

LEMMA Encoded3 ==
  ASSUME NEW a \in Nat, a <= 15, NEW b \in Nat, b <= 63, NEW d \in Nat, d <= 63,
         NEW w, Len(w) = 3, w[1] = 224 + a, w[2] = 128 + b, w[3] = 128 + d,
         NEW c \in Nat, c = a * 4096 + b * 64 + d, c >= 2048, IsScalarValue(c)
  PROVE  IsCharacter(w) /\ CodePoint(w) = c
<1>1. CodePoint(w) = c
  BY SMT DEF CodePoint
<1>2. LeadingOctets[3] = 224 .. 239 /\ LeastCoded[3] = 2048
  BY SMT DEF LeadingOctets, LeastCoded
<1>3. \A k \in 2 .. 3 : w[k] \in 128 .. 191
  BY SMT
<1>4. Len(w) \in 1 .. 4 /\ w[1] \in 224 .. 239
  BY SMT
<1> QED
  BY <1>1, <1>2, <1>3, <1>4, SMT DEF IsCharacter

LEMMA Encodes ==
  ASSUME NEW c \in Nat, c <= 1114111, ~ IsHighSurrogate(c), ~ IsLowSurrogate(c)
  PROVE  Bytes(c) \in Seq(Octet) /\ IsCharacter(Bytes(c)) /\ CodePoint(Bytes(c)) = c
<1>1. IsScalarValue(c)
  BY SMT DEF IsScalarValue, IsHighSurrogate, IsLowSurrogate
<1>2. c \div 1 = c
  BY SMT
<1>3. CASE c < 128
  <2>1. Bytes(c) = <<c>>
    BY <1>3, SMT DEF Bytes
  <2> DEFINE w == <<c>>
  <2>2. w \in Seq(Octet) /\ Len(w) = 1 /\ w[1] = c
    <3>1. c \in Octet
      BY <1>3, SMT DEF Octet
    <3> QED BY <3>1, SMT
  <2> HIDE DEF w
  <2>3. CodePoint(w) = c
    BY <2>2, SMT DEF CodePoint
  <2>4. IsCharacter(w)
    BY <1>3, <2>2, OneOctet, SMT
  <2> QED BY <2>1, <2>2, <2>3, <2>4 DEF w
<1>4. CASE c >= 128 /\ c <= 2047
  <2>1. PICK a \in Nat, b \in Nat :
          /\ a = c \div 64 /\ b = c % 64 /\ c = a * 64 + b /\ a <= 31 /\ b <= 63
    BY <1>4, SMT
  <2>2. Bytes(c) = <<192 + a, 128 + b>>
    BY <1>2, <1>4, <2>1, SMT DEF Bytes
  <2> DEFINE w == <<192 + a, 128 + b>>
  <2>3. /\ w \in Seq(Octet) /\ Len(w) = 2
        /\ w[1] = 192 + a /\ w[2] = 128 + b
    <3>1. 192 + a \in Octet /\ 128 + b \in Octet
      BY <2>1, SMT DEF Octet
    <3> QED BY <3>1, SMT
  <2> HIDE DEF w
  <2>4. IsCharacter(w) /\ CodePoint(w) = c
    BY <1>1, <1>4, <2>1, <2>3, Encoded2, SMT
  <2> QED BY <2>2, <2>3, <2>4 DEF w
<1>5. CASE c >= 2048 /\ c <= 65535
  <2>1. PICK a \in Nat, b \in Nat, d \in Nat :
          /\ a = c \div 4096 /\ b = (c \div 64) % 64 /\ d = c % 64
          /\ c = a * 4096 + b * 64 + d /\ a <= 15 /\ b <= 63 /\ d <= 63
    BY <1>5, SMT
  <2>2. Bytes(c) = <<224 + a, 128 + b, 128 + d>>
    BY <1>2, <1>5, <2>1, SMT DEF Bytes
  <2> DEFINE w == <<224 + a, 128 + b, 128 + d>>
  <2>3. /\ w \in Seq(Octet) /\ Len(w) = 3
        /\ w[1] = 224 + a /\ w[2] = 128 + b /\ w[3] = 128 + d
    <3>1. 224 + a \in Octet /\ 128 + b \in Octet /\ 128 + d \in Octet
      BY <2>1, SMT DEF Octet
    <3> QED BY <3>1, SMT
  <2> HIDE DEF w
  <2>4. IsCharacter(w) /\ CodePoint(w) = c
    BY <1>1, <1>5, <2>1, <2>3, Encoded3, SMT
  <2> QED BY <2>2, <2>3, <2>4 DEF w
<1>6. CASE c >= 65536
  <2>1. PICK a \in Nat, b \in Nat, d \in Nat, e \in Nat :
          /\ a = c \div 262144 /\ b = (c \div 4096) % 64 /\ d = (c \div 64) % 64
          /\ e = c % 64 /\ c = a * 262144 + b * 4096 + d * 64 + e
          /\ a <= 4 /\ b <= 63 /\ d <= 63 /\ e <= 63
    BY <1>6, SMT
  <2>2. Bytes(c) = <<240 + a, 128 + b, 128 + d, 128 + e>>
    BY <1>2, <1>6, <2>1, SMT DEF Bytes
  <2> DEFINE w == <<240 + a, 128 + b, 128 + d, 128 + e>>
  <2>3. /\ w \in Seq(Octet) /\ Len(w) = 4
        /\ w[1] = 240 + a /\ w[2] = 128 + b /\ w[3] = 128 + d /\ w[4] = 128 + e
    <3>1. /\ 240 + a \in Octet /\ 128 + b \in Octet
          /\ 128 + d \in Octet /\ 128 + e \in Octet
      BY <2>1, SMT DEF Octet
    <3> QED BY <3>1, SMT
  <2> HIDE DEF w
  <2>4. IsCharacter(w) /\ CodePoint(w) = c
    <3>1. /\ a <= 7 /\ b <= 63 /\ d <= 63 /\ e <= 63
          /\ c = a * 262144 + b * 4096 + d * 64 + e
      BY <2>1, SMT
    <3>2. Len(w) = 4 /\ w[1] = 240 + a /\ w[2] = 128 + b /\ w[3] = 128 + d /\ w[4] = 128 + e
      BY <2>3
    <3>3. CodePoint(w) = c
      BY <3>1, <3>2, SMT DEF CodePoint
    <3>4. LeadingOctets[4] = 240 .. 247 /\ LeastCoded[4] = 65536
      BY SMT DEF LeadingOctets, LeastCoded
    <3>5. \A k \in 2 .. 4 : w[k] \in 128 .. 191
      BY <3>1, <3>2, SMT
    <3>6. Len(w) \in 1 .. 4 /\ w[1] \in 240 .. 247
      BY <3>1, <3>2, SMT
    <3> QED BY <1>1, <1>6, <3>2, <3>3, <3>4, <3>5, <3>6, SMT DEF IsCharacter
  <2> QED BY <2>2, <2>3, <2>4 DEF w
<1> QED
  BY <1>3, <1>4, <1>5, <1>6, SMT

-----------------------------------------------------------------------------
(***************************************************************************)
(* Scanning: every turn of the loop adds a character or stops.             *)
(***************************************************************************)
LEMMA Reads ==
  ASSUME TypeOK, NEW k \in Nat \ {0}, At(k) # -1
  PROVE  k \in 1 .. Len(input) /\ At(k) = input[k] /\ At(k) \in Octet
<1>1. input \in Seq(Octet)
  BY DEF TypeOK
<1> QED
  BY <1>1 DEF At, Eof

LEMMA Digits ==
  ASSUME NEW c \in HexDigits
  PROVE  HexValue(c) \in Nat /\ HexValue(c) <= 15
<1>1. CASE c \in 48 .. 57
  BY <1>1, SMT DEF HexValue
<1>2. CASE c \in 65 .. 70
  BY <1>2, SMT DEF HexValue
<1>3. CASE c \in 97 .. 102
  BY <1>3, SMT DEF HexValue
<1> QED
  BY <1>1, <1>2, <1>3 DEF HexDigits

LEMMA Codepoints ==
  ASSUME NEW k \in Nat
  PROVE  \/ get_codepoint(k) = -1
         \/ get_codepoint(k) \in Nat /\ get_codepoint(k) <= 65535
<1> SUFFICES ASSUME ~ \E d \in 1 .. 4 : At(k + d) \notin HexDigits
             PROVE  get_codepoint(k) \in Nat /\ get_codepoint(k) <= 65535
  BY DEF get_codepoint
<1>1. /\ At(k + 1) \in HexDigits /\ At(k + 2) \in HexDigits
      /\ At(k + 3) \in HexDigits /\ At(k + 4) \in HexDigits
  <2>1. 1 \in 1 .. 4 /\ 2 \in 1 .. 4 /\ 3 \in 1 .. 4 /\ 4 \in 1 .. 4
    BY SMT
  <2> QED BY <2>1, Zenon
<1>2. PICK a \in Nat, b \in Nat, c \in Nat, d \in Nat :
        /\ a = HexValue(At(k + 1)) /\ a <= 15 /\ b = HexValue(At(k + 2)) /\ b <= 15
        /\ c = HexValue(At(k + 3)) /\ c <= 15 /\ d = HexValue(At(k + 4)) /\ d <= 15
  BY <1>1, Digits
<1>3. get_codepoint(k) = a * 4096 + b * 256 + c * 16 + d
  BY <1>2, SMT DEF get_codepoint
<1> QED
  BY <1>2, <1>3, SMT

LEMMA Accepts ==
  ASSUME TypeOK, ScanInv, NEW bytes \in Seq(Octet), IsCharacter(bytes),
         NEW read \in Nat, Accept(bytes, read)
  PROVE  /\ input' = input /\ token' = token
         /\ position' \in Nat \ {0}
         /\ token_buffer' \in Seq(Octet) /\ WellFormed(token_buffer')
<1>1. token_buffer' = token_buffer \o bytes /\ position' = position + read
  BY DEF Accept
<1>2. token_buffer \in Seq(Octet) /\ WellFormed(token_buffer)
        /\ position \in Nat /\ position >= 1
  BY DEF TypeOK, ScanInv
<1> QED
  BY <1>1, <1>2, WithCharacter DEF Accept

LEMMA Singles ==
  ASSUME NEW octet \in 0 .. 127
  PROVE  <<octet>> \in Seq(Octet) /\ IsCharacter(<<octet>>)
<1>1. <<octet>> \in Seq(Octet) /\ Len(<<octet>>) = 1 /\ <<octet>>[1] = octet
  BY DEF Octet
<1> QED
  BY <1>1, OneOctet

LEMMA OneFollows ==
  ASSUME NEW S, next_byte_in_range(<<S>>)
  PROVE  At(position + 1) \in S
  BY DEF next_byte_in_range

LEMMA TwoFollow ==
  ASSUME NEW S, NEW T, next_byte_in_range(<<S, T>>)
  PROVE  At(position + 1) \in S /\ At(position + 2) \in T
  BY DEF next_byte_in_range

LEMMA ThreeFollow ==
  ASSUME NEW S, NEW T, NEW U, next_byte_in_range(<<S, T, U>>)
  PROVE  At(position + 1) \in S /\ At(position + 2) \in T /\ At(position + 3) \in U
  BY DEF next_byte_in_range

LEMMA RangesOf ==
  ASSUME NEW x \in Nat
  PROVE  /\ x \in 194 .. 223 => Ranges(x) = <<Trail>>
         /\ x = 224 => Ranges(x) = <<160 .. 191, Trail>>
         /\ x = 237 => Ranges(x) = <<128 .. 159, Trail>>
         /\ x \in 225 .. 239 \ {237} => Ranges(x) = <<Trail, Trail>>
         /\ x = 240 => Ranges(x) = <<144 .. 191, Trail, Trail>>
         /\ x \in 241 .. 243 => Ranges(x) = <<Trail, Trail, Trail>>
         /\ x = 244 => Ranges(x) = <<128 .. 143, Trail, Trail>>
<1>1. x \in 194 .. 223 => Ranges(x) = <<Trail>>
  BY SMT DEF Ranges, Trail
<1>2. x = 224 => Ranges(x) = <<160 .. 191, Trail>>
  BY SMT DEF Ranges, Trail
<1>3. x = 237 => Ranges(x) = <<128 .. 159, Trail>>
  BY SMT DEF Ranges, Trail
<1>4. x \in 225 .. 239 \ {237} => Ranges(x) = <<Trail, Trail>>
  BY SMT DEF Ranges, Trail
<1>5. x = 240 => Ranges(x) = <<144 .. 191, Trail, Trail>>
  BY SMT DEF Ranges, Trail
<1>6. x \in 241 .. 243 => Ranges(x) = <<Trail, Trail, Trail>>
  BY SMT DEF Ranges, Trail
<1>7. x = 244 => Ranges(x) = <<128 .. 143, Trail, Trail>>
  BY SMT DEF Ranges, Trail
<1> QED
  BY <1>1, <1>2, <1>3, <1>4, <1>5, <1>6, <1>7, Zenon

LEMMA Follows ==
  ASSUME TypeOK, position \in Nat \ {0}, NEW k \in Nat \ {0}, NEW S,
         At(position + k) \in S, Eof \notin S
  PROVE  /\ position + k \in Nat /\ position + k <= Len(input)
         /\ input[position + k] \in S
         /\ \E x \in Nat : x <= 255 /\ x = input[position + k]
<1>1. position + k \in Nat \ {0} /\ At(position + k) # -1
  BY SMT DEF Eof
<1>2. /\ position + k \in 1 .. Len(input) /\ At(position + k) = input[position + k]
      /\ At(position + k) \in Octet
  BY <1>1, Reads
<1> QED
  BY <1>1, <1>2, Octets

LEMMA TwoScanned ==
  ASSUME TypeOK, position \in Nat \ {0}, NEW x \in Nat, At(position) = x,
         input[position] = x,
         x \in 194 .. 223, next_byte_in_range(Ranges(x))
  PROVE  Len(Ranges(x)) = 1 /\ CharacterAt(input, position, 2)
<1>1. Ranges(x) = <<Trail>>
  BY RangesOf
<1>2. At(position + 1) \in Trail
  BY <1>1, OneFollows
<1>3. Eof \notin Trail
  BY SMT DEF Eof, Trail
<1>4. position + 1 <= Len(input) /\ input[position + 1] \in Trail
  BY <1>2, <1>3, Follows
<1>5. Len(Ranges(x)) = 1
  BY <1>1, SMT
<1>6. Len(input) \in Nat
  BY DEF TypeOK
<1> QED
  BY <1>4, <1>5, <1>6, SMT DEF CharacterAt

LEMMA ThreeScanned ==
  ASSUME TypeOK, position \in Nat \ {0}, NEW x \in Nat, At(position) = x,
         input[position] = x,
         x \in 224 .. 239, next_byte_in_range(Ranges(x))
  PROVE  Len(Ranges(x)) = 2 /\ CharacterAt(input, position, 3)
<1>1. \E S : /\ Ranges(x) = <<S, Trail>> /\ Eof \notin S
             /\ \A y \in S : SecondOctet(x, y)
  <2>1. CASE x = 224
    <3>1. Ranges(x) = <<160 .. 191, Trail>>
      BY <2>1, RangesOf
    <3>2. Eof \notin 160 .. 191 /\ \A y \in 160 .. 191 : SecondOctet(x, y)
      BY <2>1, SMT DEF Eof, SecondOctet
    <3> QED BY <3>1, <3>2, Zenon
  <2>2. CASE x = 237
    <3>1. Ranges(x) = <<128 .. 159, Trail>>
      BY <2>2, RangesOf
    <3>2. Eof \notin 128 .. 159 /\ \A y \in 128 .. 159 : SecondOctet(x, y)
      BY <2>2, SMT DEF Eof, SecondOctet
    <3> QED BY <3>1, <3>2, Zenon
  <2>3. CASE x # 224 /\ x # 237
    <3>0. x \in 225 .. 239 \ {237}
      BY <2>3, SMT
    <3>1. Ranges(x) = <<Trail, Trail>>
      BY <3>0, RangesOf
    <3>2. Eof \notin Trail /\ \A y \in Trail : SecondOctet(x, y)
      BY <3>0, SMT DEF Eof, SecondOctet, Trail
    <3> QED BY <3>1, <3>2, Zenon
  <2> QED BY <2>1, <2>2, <2>3, Zenon
<1>2. PICK S : /\ Ranges(x) = <<S, Trail>> /\ Eof \notin S
               /\ \A y \in S : SecondOctet(x, y)
  BY <1>1, Zenon
<1>3. At(position + 1) \in S /\ At(position + 2) \in Trail
  BY <1>2, TwoFollow
<1>4. Eof \notin Trail /\ 1 \in Nat \ {0} /\ 2 \in Nat \ {0}
  BY SMT DEF Eof, Trail
<1>5. input[position + 1] \in S
  BY <1>2, <1>3, <1>4, Follows
<1>6. position + 2 <= Len(input) /\ input[position + 2] \in Trail
  BY <1>3, <1>4, Follows
<1>7. Len(Ranges(x)) = 2
  BY <1>2, SMT
<1>8. Len(input) \in Nat
  BY DEF TypeOK
<1>9. SecondOctet(input[position], input[position + 1])
  BY <1>2, <1>5, Zenon
<1>10. position + 3 - 1 <= Len(input)
  BY <1>6, <1>8, SMT
<1> QED
  BY <1>6, <1>7, <1>9, <1>10, Zenon DEF CharacterAt

LEMMA FourScanned ==
  ASSUME TypeOK, position \in Nat \ {0}, NEW x \in Nat, At(position) = x,
         input[position] = x,
         x \in 240 .. 244, next_byte_in_range(Ranges(x))
  PROVE  Len(Ranges(x)) = 3 /\ CharacterAt(input, position, 4)
<1>1. \E S : /\ Ranges(x) = <<S, Trail, Trail>> /\ Eof \notin S
             /\ \A y \in S : SecondOctet(x, y)
  <2>1. CASE x = 240
    <3>1. Ranges(x) = <<144 .. 191, Trail, Trail>>
      BY <2>1, RangesOf
    <3>2. Eof \notin 144 .. 191 /\ \A y \in 144 .. 191 : SecondOctet(x, y)
      BY <2>1, SMT DEF Eof, SecondOctet
    <3> QED BY <3>1, <3>2, Zenon
  <2>2. CASE x = 244
    <3>1. Ranges(x) = <<128 .. 143, Trail, Trail>>
      BY <2>2, RangesOf
    <3>2. Eof \notin 128 .. 143 /\ \A y \in 128 .. 143 : SecondOctet(x, y)
      BY <2>2, SMT DEF Eof, SecondOctet
    <3> QED BY <3>1, <3>2, Zenon
  <2>3. CASE x # 240 /\ x # 244
    <3>0. x \in 241 .. 243
      BY <2>3, SMT
    <3>1. Ranges(x) = <<Trail, Trail, Trail>>
      BY <3>0, RangesOf
    <3>2. Eof \notin Trail /\ \A y \in Trail : SecondOctet(x, y)
      BY <3>0, SMT DEF Eof, SecondOctet, Trail
    <3> QED BY <3>1, <3>2, Zenon
  <2> QED BY <2>1, <2>2, <2>3, Zenon
<1>2. PICK S : /\ Ranges(x) = <<S, Trail, Trail>> /\ Eof \notin S
               /\ \A y \in S : SecondOctet(x, y)
  BY <1>1, Zenon
<1>3. At(position + 1) \in S /\ At(position + 2) \in Trail /\ At(position + 3) \in Trail
  BY <1>2, ThreeFollow
<1>4. Eof \notin Trail /\ 1 \in Nat \ {0} /\ 2 \in Nat \ {0} /\ 3 \in Nat \ {0}
  BY SMT DEF Eof, Trail
<1>5. input[position + 1] \in S
  BY <1>2, <1>3, <1>4, Follows
<1>6. input[position + 2] \in Trail
  BY <1>3, <1>4, Follows
<1>6a. position + 3 <= Len(input) /\ input[position + 3] \in Trail
  BY <1>3, <1>4, Follows
<1>7. Len(Ranges(x)) = 3
  BY <1>2, SMT
<1>8. Len(input) \in Nat
  BY DEF TypeOK
<1>9. SecondOctet(input[position], input[position + 1])
  BY <1>2, <1>5, Zenon
<1>10. position + 4 - 1 <= Len(input)
  BY <1>6a, <1>8, SMT
<1> QED
  BY <1>6, <1>6a, <1>7, <1>9, <1>10, Zenon DEF CharacterAt

LEMMA MultiBytes ==
  ASSUME TypeOK, ScanInv, MultiByte
  PROVE  /\ input' = input /\ position' \in Nat \ {0}
         /\ token_buffer' \in Seq(Octet) /\ WellFormed(token_buffer')
         /\ token' \in {"scanning", "parse_error"}
<1>1. /\ input \in Seq(Octet) /\ position \in Nat \ {0}
      /\ token_buffer \in Seq(Octet) /\ WellFormed(token_buffer)
  BY SMT DEF TypeOK, ScanInv
<1>2. Current \in 194 .. 244 /\ token = "scanning"
  BY DEF MultiByte, Scanning
<1>3. At(position) # -1
  BY <1>2, SMT DEF Current
<1>4. /\ position \in 1 .. Len(input) /\ At(position) = input[position]
      /\ At(position) \in Octet
  BY <1>1, <1>3, Reads
<1>5. PICK x \in Nat : x = At(position)
  BY <1>4, Octets
<1>6. CASE ~ next_byte_in_range(Ranges(x))
  BY <1>1, <1>2, <1>5, <1>6 DEF MultiByte, ParseError, Current
<1>7. CASE next_byte_in_range(Ranges(x))
  <2>1. PICK n \in 1 .. 3 : n = Len(Ranges(x)) /\ CharacterAt(input, position, n + 1)
    <3>1. CASE x \in 194 .. 223
      <4>1. Len(Ranges(x)) = 1 /\ CharacterAt(input, position, 1 + 1)
        <5>1. Len(Ranges(x)) = 1 /\ CharacterAt(input, position, 2)
          BY <1>1, <1>4, <1>5, <1>7, <3>1, TwoScanned
        <5>2. 1 + 1 = 2
          BY SMT
        <5> QED BY <5>1, <5>2
      <4> QED BY <4>1
    <3>2. CASE x \in 224 .. 239
      <4>1. Len(Ranges(x)) = 2 /\ CharacterAt(input, position, 2 + 1)
        <5>1. Len(Ranges(x)) = 2 /\ CharacterAt(input, position, 3)
          BY <1>1, <1>4, <1>5, <1>7, <3>2, ThreeScanned
        <5>2. 2 + 1 = 3
          BY SMT
        <5> QED BY <5>1, <5>2
      <4> QED BY <4>1
    <3>3. CASE x \in 240 .. 244
      <4>1. Len(Ranges(x)) = 3 /\ CharacterAt(input, position, 3 + 1)
        <5>1. Len(Ranges(x)) = 3 /\ CharacterAt(input, position, 4)
          BY <1>1, <1>4, <1>5, <1>7, <3>3, FourScanned
        <5>2. 3 + 1 = 4
          BY SMT
        <5> QED BY <5>1, <5>2
      <4> QED BY <4>1
    <3>4. x \in 194 .. 244
      BY <1>2, <1>5 DEF Current
    <3>5. x \in 194 .. 223 \/ x \in 224 .. 239 \/ x \in 240 .. 244
      BY <3>4, SMT
    <3> QED BY <3>1, <3>2, <3>3, <3>5, Zenon
  <2>2. position + (n + 1) - 1 <= Len(input) /\ n + 1 \in Nat \ {0}
    <3>1. n + 1 \in Nat \ {0}
      BY SMT
    <3> QED BY <2>1, <3>1, Zenon DEF CharacterAt
  <2> DEFINE bytes == SubSeq(input, position, position + (n + 1) - 1)
  <2>3. IsCharacter(bytes)
    BY <1>1, <1>4, <2>1, <2>2, CharacterRanges
  <2>4. bytes \in Seq(Octet)
    <3>1. position + (n + 1) - 1 \in Nat
      BY <1>1, SMT
    <3>2. \A m \in position .. position + (n + 1) - 1 : input[m] \in Octet
      BY <1>1, <1>4, <2>2, <3>1, SMT
    <3>3. position + (n + 1) - 1 \in Int /\ position \in Int
      BY <1>1, <3>1, SMT
    <3> QED BY <3>2, <3>3, SubSeqProperties
  <2>5. bytes = SubSeq(input, position, position + n)
    <3>1. position + (n + 1) - 1 = position + n
      BY <1>1, SMT
    <3> QED BY <3>1
  <2>6. Accept(SubSeq(input, position, position + n), n + 1)
    BY <1>5, <1>7, <2>1, Zenon DEF MultiByte, Current
  <2>7. Accept(bytes, n + 1) /\ n + 1 \in Nat
    BY <2>5, <2>6, <2>2
  <2> HIDE DEF bytes
  <2>8. /\ input' = input /\ token' = token
        /\ position' \in Nat \ {0}
        /\ token_buffer' \in Seq(Octet) /\ WellFormed(token_buffer')
    BY <2>3, <2>4, <2>7, Accepts
  <2> QED BY <1>2, <2>8
<1> QED
  BY <1>6, <1>7

LEMMA Pairs ==
  ASSUME NEW high \in Nat, NEW low \in Nat, IsHighSurrogate(high), IsLowSurrogate(low)
  PROVE  /\ Paired(high, low) \in Nat /\ Paired(high, low) >= 65536
         /\ Paired(high, low) <= 1114111
         /\ ~ IsHighSurrogate(Paired(high, low)) /\ ~ IsLowSurrogate(Paired(high, low))
<1>1. /\ Paired(high, low) \in Nat /\ Paired(high, low) >= 65536
      /\ Paired(high, low) <= 1114111
  BY SMT DEF Paired, IsHighSurrogate, IsLowSurrogate
<1> QED
  BY <1>1, SMT DEF IsHighSurrogate, IsLowSurrogate

LEMMA Scans ==
  ASSUME TypeOK, ScanInv, ScanStep
  PROVE  /\ input' = input /\ position' \in Nat \ {0}
         /\ token_buffer' \in Seq(Octet) /\ WellFormed(token_buffer')
         /\ token' \in {"scanning", "value_string", "parse_error"}
<1>1. /\ input \in Seq(Octet) /\ position \in Nat \ {0}
      /\ token_buffer \in Seq(Octet) /\ WellFormed(token_buffer)
  BY SMT DEF TypeOK, ScanInv
<1>2. CASE ClosingQuote
  <2>1. position + 1 \in Nat \ {0}
    BY <1>1, SMT
  <2> QED BY <1>1, <1>2, <2>1, Zenon DEF ClosingQuote
<1>3. CASE Unexpected \/ ForbiddenEscape \/ BrokenUnicode
  <2>1. ParseError
    BY <1>3, Zenon DEF Unexpected, ForbiddenEscape, BrokenUnicode
  <2> QED BY <1>1, <2>1, Zenon DEF ParseError
<1>4. CASE Plain
  <2>1. Current \in (32 .. 127) \ {34, 92} /\ Accept(<<Current>>, 1) /\ token = "scanning"
    BY <1>4, Zenon DEF Plain, Scanning
  <2>2. Current \in 0 .. 127 /\ 1 \in Nat
    BY <2>1, SMT
  <2>3. <<Current>> \in Seq(Octet) /\ IsCharacter(<<Current>>)
    BY <2>2, Singles
  <2>4. /\ input' = input /\ token' = token /\ position' \in Nat \ {0}
        /\ token_buffer' \in Seq(Octet) /\ WellFormed(token_buffer')
    BY <2>1, <2>2, <2>3, Accepts
  <2> QED BY <2>1, <2>4
<1>5. CASE MultiByte
  BY <1>5, MultiBytes, Zenon
<1>6. CASE ShortEscaped
  <2>1. Unescaped(At(position + 1)) \in 0 .. 127 /\ 2 \in Nat
    <3>1. At(position + 1) \in EscapeLetters
      BY <1>6, Zenon DEF ShortEscaped
    <3>2. \A c \in EscapeLetters : Unescaped(c) \in 0 .. 127
      BY SMT DEF EscapeLetters, Unescaped
    <3>3. 2 \in Nat
      BY SMT
    <3> QED BY <3>1, <3>2, <3>3, Zenon
  <2>2. Accept(<<Unescaped(At(position + 1))>>, 2) /\ token = "scanning"
    BY <1>6, Zenon DEF ShortEscaped, Scanning
  <2>3. /\ <<Unescaped(At(position + 1))>> \in Seq(Octet)
        /\ IsCharacter(<<Unescaped(At(position + 1))>>)
    BY <2>1, Singles
  <2>4. /\ input' = input /\ token' = token /\ position' \in Nat \ {0}
        /\ token_buffer' \in Seq(Octet) /\ WellFormed(token_buffer')
    BY <2>1, <2>2, <2>3, Accepts
  <2> QED BY <2>2, <2>4
<1>7. CASE UnicodeEscaped
  <2>1. /\ Accept(Bytes(First), 6) /\ token = "scanning" /\ First >= 0
        /\ ~ IsHighSurrogate(First) /\ ~ IsLowSurrogate(First)
    BY <1>7, Zenon DEF UnicodeEscaped, OpensUnicode, Scanning
  <2>2. position + 1 \in Nat /\ 6 \in Nat
    BY <1>1, SMT
  <2>3. First = -1 \/ (First \in Nat /\ First <= 65535)
    BY <2>2, Codepoints DEF First
  <2>4. First \in Nat /\ First <= 1114111
    BY <2>1, <2>3, SMT
  <2>5. Bytes(First) \in Seq(Octet) /\ IsCharacter(Bytes(First))
    BY <2>1, <2>4, Encodes
  <2>6. /\ input' = input /\ token' = token /\ position' \in Nat \ {0}
        /\ token_buffer' \in Seq(Octet) /\ WellFormed(token_buffer')
    BY <2>1, <2>2, <2>5, Accepts
  <2> QED BY <2>1, <2>6
<1>8. CASE SurrogatePair
  <2>1. /\ Accept(Bytes(Paired(First, Second)), 12) /\ token = "scanning"
        /\ IsHighSurrogate(First) /\ IsLowSurrogate(Second)
    BY <1>8, Zenon DEF SurrogatePair, OpensUnicode, Scanning
  <2>2. position + 1 \in Nat /\ position + 7 \in Nat /\ 12 \in Nat
    BY <1>1, SMT
  <2>3. First = -1 \/ (First \in Nat /\ First <= 65535)
    BY <2>2, Codepoints DEF First
  <2>4. Second = -1 \/ (Second \in Nat /\ Second <= 65535)
    <3>1. \/ get_codepoint(position + 7) = -1
          \/ get_codepoint(position + 7) \in Nat /\ get_codepoint(position + 7) <= 65535
      BY <2>2, Codepoints
    <3>2. Second = get_codepoint(position + 7) \/ Second = -1
      BY DEF Second
    <3> QED BY <3>1, <3>2
  <2>5. First \in Nat /\ Second \in Nat
    BY <2>1, <2>3, <2>4, SMT DEF IsHighSurrogate, IsLowSurrogate
  <2> DEFINE c == Paired(First, Second)
  <2>6. /\ c \in Nat /\ c >= 65536 /\ c <= 1114111
        /\ ~ IsHighSurrogate(c) /\ ~ IsLowSurrogate(c)
    BY <2>1, <2>5, Pairs
  <2> HIDE DEF c
  <2>7. Bytes(c) \in Seq(Octet) /\ IsCharacter(Bytes(c))
    BY <2>6, Encodes
  <2>8. Accept(Bytes(c), 12)
    BY <2>1 DEF c
  <2>9. /\ input' = input /\ token' = token /\ position' \in Nat \ {0}
        /\ token_buffer' \in Seq(Octet) /\ WellFormed(token_buffer')
    BY <2>2, <2>7, <2>8, Accepts
  <2> QED BY <2>1, <2>9
<1> QED
  BY <1>2, <1>3, <1>4, <1>5, <1>6, <1>7, <1>8, Zenon DEF ScanStep

-----------------------------------------------------------------------------
(***************************************************************************)
(* Dumping: what a code point is escaped as, and how long that is.         *)
(***************************************************************************)
LEMMA OneDigit ==
  ASSUME NEW d \in Int, 0 <= d, d <= 15
  PROVE  HexDigit(d) \in Octet
  BY SMT DEF HexDigit, Octet

LEMMA UnicodeEscapes ==
  ASSUME NEW u \in Nat, u <= 65535
  PROVE  UnicodeEscape(u) \in Seq(Octet) /\ Len(UnicodeEscape(u)) = 6
<1>1. PICK a \in Int : a = u \div 4096 /\ 0 <= a /\ a <= 15
  BY SMT
<1>2. PICK b \in Int : b = (u \div 256) % 16 /\ 0 <= b /\ b <= 15
  BY SMT
<1>3. PICK c \in Int : c = (u \div 16) % 16 /\ 0 <= c /\ c <= 15
  BY SMT
<1>4. PICK d \in Int : d = u % 16 /\ 0 <= d /\ d <= 15
  BY SMT
<1>5. /\ HexDigit(a) \in Octet /\ HexDigit(b) \in Octet
      /\ HexDigit(c) \in Octet /\ HexDigit(d) \in Octet
  BY <1>1, <1>2, <1>3, <1>4, OneDigit, SMT
<1>6. Backslash \in Octet /\ 117 \in Octet
  BY SMT DEF Backslash, Octet
<1>7. UnicodeEscape(u)
        = <<Backslash, 117, HexDigit(a), HexDigit(b), HexDigit(c), HexDigit(d)>>
  BY <1>1, <1>2, <1>3, <1>4, SMT DEF UnicodeEscape
<1> QED
  BY <1>5, <1>6, <1>7, SMT

LEMMA TwoEscapes ==
  ASSUME NEW a \in Seq(Octet), NEW b \in Seq(Octet), Len(a) = 6, Len(b) = 6
  PROVE  a \o b \in Seq(Octet) /\ Len(a \o b) = 12
<1>1. a \o b \in Seq(Octet) /\ Len(a \o b) = Len(a) + Len(b)
  BY ConcatProperties
<1> QED
  BY <1>1, SMT

LEMMA Escapes ==
  ASSUME TypeOK, HasByte, NEW c \in Nat, c <= 1114111
  PROVE  /\ Escaped(c) \in Seq(Octet) /\ Terminator(c) \in {0, 1}
         /\ Len(Escaped(c)) + Terminator(c) <= 13
         /\ ~ ensure_ascii => Len(Escaped(c)) + Terminator(c) <= 7
<1>1. ensure_ascii \in BOOLEAN /\ s[i] \in Octet
  BY SMT DEF TypeOK, HasByte
<1>2. CASE c \in DOMAIN ShortEscape
  <2>1. ShortEscape[c] \in Octet /\ Backslash \in Octet
    BY <1>2, SMT DEF ShortEscape, Octet, Quote, Backslash
  <2>2. Escaped(c) = <<Backslash, ShortEscape[c]>> /\ Terminator(c) = 0
    BY <1>2, SMT DEF Escaped, Terminator
  <2>3. /\ <<Backslash, ShortEscape[c]>> \in Seq(Octet)
        /\ Len(<<Backslash, ShortEscape[c]>>) = 2
    <3> HIDE DEF ShortEscape
    <3> QED BY <2>1, SMT
  <2>4. Escaped(c) \in Seq(Octet) /\ Len(Escaped(c)) = 2
    BY <2>2, <2>3, SMT
  <2> QED BY <2>2, <2>4, SMT
<1>3. CASE c \notin DOMAIN ShortEscape /\ ~ InHexadecimal(c)
  <2>1. Escaped(c) = <<s[i]>> /\ Terminator(c) = 0
    BY <1>3, SMT DEF Escaped, Terminator
  <2>2. <<s[i]>> \in Seq(Octet) /\ Len(<<s[i]>>) = 1
    BY <1>1, SMT
  <2>3. Escaped(c) \in Seq(Octet) /\ Len(Escaped(c)) = 1
    BY <2>1, <2>2, SMT
  <2> QED BY <2>1, <2>3, SMT
<1>4. CASE c \notin DOMAIN ShortEscape /\ InHexadecimal(c) /\ c <= 65535
  <2>1. Escaped(c) = UnicodeEscape(c) /\ Terminator(c) = 1
    BY <1>4, SMT DEF Escaped, Terminator
  <2>2. UnicodeEscape(c) \in Seq(Octet) /\ Len(UnicodeEscape(c)) = 6
    BY <1>4, UnicodeEscapes, SMT
  <2>3. Escaped(c) \in Seq(Octet) /\ Len(Escaped(c)) = 6
    BY <2>1, <2>2, SMT
  <2> QED BY <2>1, <2>3, SMT
<1>5. CASE c \notin DOMAIN ShortEscape /\ InHexadecimal(c) /\ ~ (c <= 65535)
  <2>1. /\ Escaped(c) = UnicodeEscape(55232 + (c \div 1024))
                          \o UnicodeEscape(56320 + (c % 1024))
        /\ Terminator(c) = 1
    BY <1>5, SMT DEF Escaped, Terminator
  <2>2. PICK high \in Nat : high = 55232 + (c \div 1024) /\ high <= 65535
    BY SMT
  <2>3. PICK low \in Nat : low = 56320 + (c % 1024) /\ low <= 65535
    BY SMT
  <2>4. /\ UnicodeEscape(high) \in Seq(Octet) /\ Len(UnicodeEscape(high)) = 6
        /\ UnicodeEscape(low) \in Seq(Octet) /\ Len(UnicodeEscape(low)) = 6
    BY <2>2, <2>3, UnicodeEscapes, SMT
  <2>5. Escaped(c) = UnicodeEscape(high) \o UnicodeEscape(low)
    BY <2>1, <2>2, <2>3, SMT
  <2>6. Escaped(c) \in Seq(Octet) /\ Len(Escaped(c)) = 12
    BY <2>4, <2>5, TwoEscapes, SMT
  <2>7. ensure_ascii
    BY <1>5, SMT DEF InHexadecimal
  <2> QED BY <2>1, <2>6, <2>7, SMT
<1> QED
  BY <1>2, <1>3, <1>4, <1>5, SMT

(***************************************************************************)
(* What a flush leaves: 13 bytes are free, and nothing is lost.            *)
(***************************************************************************)
LEMMA Flushes ==
  ASSUME NEW buffer \in Seq(Octet), string_buffer \in Seq(Octet), output \in Seq(Octet),
         Flush(buffer)
  PROVE  /\ string_buffer' \in Seq(Octet) /\ output' \in Seq(Octet)
         /\ Len(string_buffer') <= BufferSize - 13
         /\ output' \o string_buffer' = output \o buffer
<1>1. BufferSize \in Nat /\ BufferSize >= 16 /\ Len(buffer) \in Nat
  BY BufferAssumption
<1>2. CASE BufferSize - Len(buffer) < 13
  <2>1. string_buffer' = << >> /\ output' = output \o buffer
    BY <1>2 DEF Flush
  <2>2. output \o buffer \in Seq(Octet)
    BY ConcatProperties
  <2> QED BY <1>1, <2>1, <2>2, ConcatEmptySeq
<1>3. CASE ~ (BufferSize - Len(buffer) < 13)
  <2>1. string_buffer' = buffer /\ output' = output
    BY <1>3 DEF Flush
  <2> QED BY <1>1, <1>3, <2>1
<1> QED
  BY <1>2, <1>3

(***************************************************************************)
(* The serializer's part of the type invariant.                            *)
(***************************************************************************)
DumpTypes ==
  /\ s \in Seq(Octet) /\ ensure_ascii \in BOOLEAN /\ error_handler \in Handlers
  /\ i \in 1 .. Len(s) + 1
  /\ state \in 0 .. 8
  /\ codepoint \in Nat
  /\ string_buffer \in Seq(Octet) /\ output \in Seq(Octet)
  /\ bytes_after_last_accept \in 0 .. Len(string_buffer)
  /\ undumped_chars \in Nat /\ reach \in Nat
  /\ dump \in {"idle", "dumping", "dumped", "threw"}

DumpInv == DumpTypes /\ DecoderInv /\ BufferInv

LEMMA AcceptedCodepoint ==
  ASSUME TypeOK, DecoderInv, HasByte, Decoded = 0
  PROVE  /\ DecodedCodepoint \in Nat /\ DecodedCodepoint <= 1114111
         /\ undumped_chars \in 0 .. 3
<1>1. /\ Begun \in 1 .. Len(s) /\ CharacterAt(s, Begun, undumped_chars + 1)
      /\ undumped_chars \in 0 .. 3
      /\ DecodedCodepoint = Gathered(s, Begun, undumped_chars + 1)
  <2>1. Decoded # 1
    BY SMT
  <2> QED BY <2>1, Decodes, Zenon
<1>2. undumped_chars + 1 \in 1 .. 4
  BY <1>1, SMT
<1>3. s \in Seq(Octet)
  BY DEF TypeOK
<1>4. /\ Gathered(s, Begun, undumped_chars + 1) \in Nat
      /\ Gathered(s, Begun, undumped_chars + 1) <= 1114111
  BY <1>1, <1>2, <1>3, InCodeSpace
<1> QED
  BY <1>1, <1>4, SMT

LEMMA DumpsAccepted ==
  ASSUME TypeOK, DecoderInv, BufferInv, AcceptCodepoint
  PROVE  DumpInv'
<1>1. /\ HasByte /\ dump = "dumping" /\ Decoded = 0 /\ i \in 1 .. Len(s)
      /\ s \in Seq(Octet) /\ string_buffer \in Seq(Octet) /\ output \in Seq(Octet)
      /\ bytes_after_last_accept \in Nat /\ undumped_chars \in Nat /\ reach \in Nat
      /\ ensure_ascii \in BOOLEAN /\ error_handler \in Handlers
  BY SMT DEF AcceptCodepoint, HasByte, TypeOK, UTF8_ACCEPT
<1>2. /\ DecodedCodepoint \in Nat /\ DecodedCodepoint <= 1114111
      /\ undumped_chars \in 0 .. 3
  BY <1>1, AcceptedCodepoint
<1>3. PICK c \in Nat : c = DecodedCodepoint
  BY <1>2, SMT
<1>4. /\ Escaped(c) \in Seq(Octet) /\ Terminator(c) \in {0, 1}
      /\ Len(Escaped(c)) + Terminator(c) <= 13
      /\ ~ ensure_ascii => Len(Escaped(c)) + Terminator(c) <= 7
  BY <1>1, <1>2, <1>3, Escapes, SMT
<1>5. /\ string_buffer \o Escaped(c) \in Seq(Octet)
      /\ Len(string_buffer \o Escaped(c)) = Len(string_buffer) + Len(Escaped(c))
  BY <1>1, <1>4, ConcatProperties
<1>6. PICK buffer \in Seq(Octet) :
        /\ buffer = string_buffer \o Escaped(c)
        /\ Len(buffer) = Len(string_buffer) + Len(Escaped(c))
  BY <1>5, Zenon
<1>7. /\ i' = i + 1 /\ codepoint' = c /\ state' = 0 /\ undumped_chars' = 0
      /\ s' = s /\ ensure_ascii' = ensure_ascii /\ error_handler' = error_handler
      /\ dump' = dump
      /\ Flush(buffer) /\ reach' = Highest(reach, Len(buffer) + Terminator(c))
      /\ bytes_after_last_accept' = Len(string_buffer')
  BY <1>3, <1>6, Zenon DEF AcceptCodepoint, Read, UTF8_ACCEPT
<1>8. /\ string_buffer' \in Seq(Octet) /\ output' \in Seq(Octet)
      /\ Len(string_buffer') <= BufferSize - 13
  BY <1>1, <1>7, Flushes
<1>9. Len(string_buffer') \in Nat
  BY <1>8
<1>10. Len(buffer) + Terminator(c) <= BufferSize /\ Len(buffer) + Terminator(c) \in Nat
  <2>1. /\ Len(string_buffer) \in Nat /\ Len(Escaped(c)) \in Nat /\ BufferSize \in Nat
        /\ Terminator(c) \in Nat /\ Len(buffer) \in Nat
    BY <1>1, <1>4, BufferAssumption
  <2>2. /\ bytes_after_last_accept <= BufferSize - 13
        /\ Len(string_buffer)
             <= bytes_after_last_accept + (IF ensure_ascii THEN 0 ELSE undumped_chars)
    BY <1>1, Zenon DEF BufferInv
  <2>3. CASE ensure_ascii
    BY <1>1, <1>4, <1>6, <2>1, <2>2, <2>3, SMT
  <2>4. CASE ~ ensure_ascii
    BY <1>1, <1>2, <1>4, <1>6, <2>1, <2>2, <2>4, SMT
  <2> QED BY <2>3, <2>4
<1>11. reach' \in Nat /\ reach' <= BufferSize
  <2>1. reach <= BufferSize /\ BufferSize \in Nat
    BY BufferAssumption DEF BufferInv
  <2> QED BY <1>1, <1>7, <1>10, <2>1, SMT DEF Highest
<1>12. DumpTypes'
  <2>1. /\ s' \in Seq(Octet) /\ ensure_ascii' \in BOOLEAN /\ error_handler' \in Handlers
        /\ codepoint' \in Nat /\ string_buffer' \in Seq(Octet) /\ output' \in Seq(Octet)
        /\ reach' \in Nat
    BY <1>1, <1>7, <1>8, <1>11
  <2>2. i' \in 1 .. Len(s') + 1
    BY <1>1, <1>7, SMT
  <2>3. /\ state' \in 0 .. 8 /\ undumped_chars' \in Nat
        /\ dump' \in {"idle", "dumping", "dumped", "threw"}
    BY <1>1, <1>7, SMT
  <2>4. bytes_after_last_accept' \in 0 .. Len(string_buffer')
    BY <1>7, <1>9, SMT
  <2> QED BY <2>1, <2>2, <2>3, <2>4 DEF DumpTypes
<1>13. DecoderInv'
  <2>1. undumped_chars' < i'
    BY <1>1, <1>7, SMT
  <2> QED BY <1>7, <2>1, Zenon DEF DecoderInv, Beginning
<1>14. BufferInv'
  <2>1. /\ bytes_after_last_accept' <= BufferSize - 13
        /\ bytes_after_last_accept' <= Len(string_buffer')
        /\ Len(string_buffer')
             <= bytes_after_last_accept' + (IF ensure_ascii' THEN 0 ELSE undumped_chars')
    BY <1>1, <1>7, <1>8, <1>9, SMT
  <2> QED BY <1>11, <2>1 DEF BufferInv
<1> QED
  BY <1>12, <1>13, <1>14 DEF DumpInv

LEMMA DumpsIncomplete ==
  ASSUME TypeOK, DecoderInv, BufferInv, Incomplete
  PROVE  DumpInv'
<1> DEFINE u == undumped_chars
<1>1. /\ HasByte /\ dump = "dumping" /\ Decoded \notin {0, 1} /\ i \in 1 .. Len(s)
      /\ s \in Seq(Octet) /\ string_buffer \in Seq(Octet) /\ output \in Seq(Octet)
      /\ bytes_after_last_accept \in 0 .. Len(string_buffer) /\ u \in Nat /\ reach \in Nat
      /\ ensure_ascii \in BOOLEAN /\ error_handler \in Handlers /\ s[i] \in Octet
  BY DEF Incomplete, HasByte, TypeOK, UTF8_ACCEPT, UTF8_REJECT
<1>2. /\ Begun \in 1 .. Len(s) /\ Begun + u = i /\ u \in 0 .. 3 /\ u + 1 <= 3
      /\ Decoded \in 0 .. 8 /\ DecodedCodepoint \in Nat
      /\ Beginning(s, Begun, u + 1, Decoded)
      /\ DecodedCodepoint = Gathered(s, Begun, u + 1)
  BY <1>1, Decodes
<1>3. /\ i' = i + 1 /\ codepoint' = DecodedCodepoint /\ state' = Decoded
      /\ undumped_chars' = u + 1
      /\ UNCHANGED <<s, ensure_ascii, error_handler, dump, output,
                     bytes_after_last_accept>>
      /\ string_buffer' = IF ensure_ascii THEN string_buffer
                                          ELSE Append(string_buffer, s[i])
      /\ reach' = Highest(reach, Len(string_buffer'))
  BY DEF Incomplete, Read
<1>4. Begun' = Begun
  BY <1>1, <1>3 DEF Begun
<1>5. /\ string_buffer' \in Seq(Octet) /\ Len(string_buffer') \in Nat
      /\ Len(string_buffer') = Len(string_buffer) + (IF ensure_ascii THEN 0 ELSE 1)
  BY <1>1, <1>3
<1>6. /\ Len(string_buffer) \in Nat /\ BufferSize \in Nat
      /\ bytes_after_last_accept <= BufferSize - 13
      /\ Len(string_buffer)
           <= bytes_after_last_accept + (IF ensure_ascii THEN 0 ELSE u)
      /\ reach <= BufferSize
  BY <1>1, BufferAssumption DEF BufferInv
<1>7. Len(string_buffer')
        <= bytes_after_last_accept + (IF ensure_ascii THEN 0 ELSE u + 1)
  BY <1>1, <1>5, <1>6
<1>8. reach' \in Nat /\ reach' <= BufferSize
  <2>1. Len(string_buffer') <= BufferSize
    BY <1>1, <1>2, <1>6, <1>7
  <2> QED BY <1>1, <1>3, <1>5, <1>6, <2>1 DEF Highest
<1>9. DumpTypes'
  BY <1>1, <1>2, <1>3, <1>5, <1>8 DEF DumpTypes
<1>10. DecoderInv'
  BY <1>1, <1>2, <1>3, <1>4 DEF DecoderInv
<1>11. BufferInv'
  BY <1>1, <1>3, <1>5, <1>6, <1>7, <1>8 DEF BufferInv
<1> QED
  BY <1>9, <1>10, <1>11 DEF DumpInv

LEMMA DumpsRejected ==
  ASSUME TypeOK, DecoderInv, BufferInv, RejectByte
  PROVE  DumpInv'
<1>1. HasByte /\ i \in 1 .. Len(s) /\ DecodedCodepoint \in Nat
  BY Decodes DEF RejectByte, HasByte, TypeOK
<1> QED
  BY <1>1 DEF RejectByte, Read, TypeOK, DumpInv, DumpTypes, DecoderInv, BufferInv,
              UTF8_REJECT

LEMMA AcceptedOnly ==
  ASSUME TypeOK
  PROVE  AcceptedBytes \in Seq(Octet) /\ Len(AcceptedBytes) = bytes_after_last_accept
<1>1. string_buffer \in Seq(Octet) /\ bytes_after_last_accept \in 0 .. Len(string_buffer)
  BY DEF TypeOK
<1> QED
  BY <1>1, SubSeqProperties DEF AcceptedBytes

LEMMA Replacements == Replacement \in Seq(Octet) /\ Len(Replacement) \in 3 .. 6
<1>1. UnicodeEscape(65533) \in Seq(Octet) /\ Len(UnicodeEscape(65533)) = 6
  BY UnicodeEscapes
<1>2. <<239, 191, 189>> \in Seq(Octet) /\ Len(<<239, 191, 189>>) = 3
  BY DEF Octet
<1> QED
  BY <1>1, <1>2 DEF Replacement

LEMMA DumpsSkipped ==
  ASSUME TypeOK, DecoderInv, BufferInv, SkipInvalid
  PROVE  DumpInv'
<1>1. /\ HasByte /\ dump = "dumping" /\ i \in 1 .. Len(s)
      /\ s \in Seq(Octet) /\ string_buffer \in Seq(Octet) /\ output \in Seq(Octet)
      /\ bytes_after_last_accept \in 0 .. Len(string_buffer)
      /\ undumped_chars \in Nat /\ reach \in Nat
      /\ ensure_ascii \in BOOLEAN /\ error_handler \in Handlers
  BY DEF SkipInvalid, HasByte, TypeOK
<1>2. DecodedCodepoint \in Nat
  BY <1>1, Decodes
<1>3. /\ i' \in 1 .. Len(s) + 1 /\ codepoint' = DecodedCodepoint /\ state' = 0
      /\ undumped_chars' = 0 /\ UNCHANGED <<s, ensure_ascii, error_handler, dump>>
  BY <1>1 DEF SkipInvalid, Reread, UTF8_ACCEPT
<1>4. /\ BufferSize \in Nat /\ reach <= BufferSize
      /\ bytes_after_last_accept <= BufferSize - 13
  BY <1>1, BufferAssumption DEF BufferInv
<1>5. /\ string_buffer' \in Seq(Octet) /\ output' \in Seq(Octet)
      /\ bytes_after_last_accept' = Len(string_buffer')
      /\ Len(string_buffer') <= BufferSize - 13 /\ Len(string_buffer') \in Nat
      /\ reach' \in Nat /\ reach' <= BufferSize
  <2>1. AcceptedBytes \in Seq(Octet) /\ Len(AcceptedBytes) = bytes_after_last_accept
    BY AcceptedOnly
  <2>2. CASE error_handler = "replace"
    <3> DEFINE buffer == AcceptedBytes \o Replacement
    <3>1. /\ Flush(buffer) /\ reach' = Highest(reach, Len(buffer))
          /\ bytes_after_last_accept' = Len(string_buffer')
      BY <2>2 DEF SkipInvalid
    <3>2. buffer \in Seq(Octet) /\ Len(buffer) = bytes_after_last_accept + Len(Replacement)
      BY <2>1, Replacements, ConcatProperties
    <3> HIDE DEF buffer
    <3>3. /\ string_buffer' \in Seq(Octet) /\ output' \in Seq(Octet)
          /\ Len(string_buffer') <= BufferSize - 13 /\ Len(string_buffer') \in Nat
      BY <1>1, <3>1, <3>2, Flushes
    <3>4. Len(buffer) \in Nat /\ Len(buffer) <= BufferSize
      <4>1. Len(string_buffer) \in Nat
        BY <1>1
      <4>2. PICK m \in Nat : m = bytes_after_last_accept
        BY <1>1, <4>1, SMT
      <4>3. PICK n \in 3 .. 6 : n = Len(Replacement)
        BY Replacements, Zenon
      <4>4. Len(buffer) = m + n
        BY <3>2, <4>2, <4>3, Zenon
      <4>5. BufferSize \in Nat /\ m <= BufferSize - 13
        BY <1>4, <4>2, Zenon
      <4>6. m + n \in Nat /\ m + n <= BufferSize
        BY <4>5, SMT
      <4> QED BY <4>4, <4>6, Zenon
    <3> QED BY <1>1, <1>4, <3>1, <3>3, <3>4 DEF Highest
  <2>3. CASE error_handler # "replace"
    <3>1. string_buffer' = AcceptedBytes
            /\ UNCHANGED <<reach, bytes_after_last_accept, output>>
      BY <2>3 DEF SkipInvalid
    <3> QED BY <1>1, <1>4, <2>1, <3>1
  <2> QED BY <2>2, <2>3
<1>6. DumpTypes'
  BY <1>1, <1>2, <1>3, <1>5 DEF DumpTypes
<1>7. DecoderInv'
  BY <1>1, <1>3 DEF DecoderInv, Beginning, Begun
<1>8. BufferInv'
  BY <1>3, <1>4, <1>5 DEF BufferInv
<1> QED
  BY <1>6, <1>7, <1>8 DEF DumpInv

LEMMA DumpsEnding ==
  ASSUME TypeOK, DecoderInv, BufferInv, DumpEnds
  PROVE  DumpInv'
<1>1. /\ dump' \in {"dumped", "threw"}
      /\ UNCHANGED <<s, ensure_ascii, error_handler, i, state, codepoint,
                     string_buffer, bytes_after_last_accept, undumped_chars, reach>>
  BY DEF DumpEnds
<1>2. output' \in Seq(Octet)
  <2>1. output \in Seq(Octet) /\ string_buffer \in Seq(Octet)
    BY DEF TypeOK
  <2>2. AcceptedBytes \in Seq(Octet) /\ Replacement \in Seq(Octet) /\ << >> \in Seq(Octet)
    BY AcceptedOnly, Replacements
  <2>3. output \o string_buffer \in Seq(Octet)
    BY <2>1, ConcatProperties
  <2>4. /\ (output \o AcceptedBytes) \o Replacement \in Seq(Octet)
        /\ (output \o AcceptedBytes) \o << >> \in Seq(Octet)
    BY <2>1, <2>2, ConcatProperties
  <2> QED BY <2>1, <2>3, <2>4 DEF DumpEnds
<1> QED
  BY <1>1, <1>2 DEF TypeOK, DumpInv, DumpTypes, DecoderInv, BufferInv

LEMMA Dumps ==
  ASSUME TypeOK, DecoderInv, BufferInv, DumpStep
  PROVE  DumpInv'
  BY DumpsAccepted, DumpsIncomplete, DumpsRejected, DumpsSkipped, DumpsEnding
     DEF DumpStep

(***************************************************************************)
(* The strict handler.                                                     *)
(***************************************************************************)
LEMMA NoneBegins ==
  ASSUME NEW t \in Seq(Octet), NEW k \in 1 .. Len(t), EndsCharacter(t, k - 1),
         \A n \in 1 .. 4 : ~ CharacterAt(t, k, n)
  PROVE  ~ WellFormed(t)
  BY NextBegins DEF WellFormed

(***************************************************************************)
(* A character is complete: all up to it is, and it is the last.           *)
(***************************************************************************)
LEMMA Completed ==
  ASSUME NEW t \in Seq(Octet), NEW k \in 1 .. Len(t), NEW n \in 1 .. 4,
         CharacterAt(t, k, n), \A m \in 1 .. k - 1 : InCharacter(t, m)
  PROVE  /\ \A m \in 1 .. k + n - 1 : InCharacter(t, m)
         /\ EndsCharacter(t, k + n - 1)
<1>1. k + n - 1 <= Len(t)
  BY DEF CharacterAt
<1>2. ASSUME NEW m \in 1 .. k + n - 1
      PROVE  InCharacter(t, m)
  <2>1. CASE m < k
    <3>1. m \in 1 .. k - 1
      BY <2>1, SMT
    <3> QED BY <3>1
  <2>2. CASE m >= k
    <3>1. m \in 1 .. Len(t) /\ k \in 1 .. m /\ m < k + n
      BY <1>1, <2>2, SMT
    <3> QED BY <3>1, InCharacterRanges
  <2> QED BY <2>1, <2>2, SMT
<1>3. n <= k + n - 1 /\ (k + n - 1) - n + 1 = k
  BY SMT
<1> QED
  BY <1>2, <1>3, Zenon DEF EndsCharacter

LEMMA StrictDumps ==
  ASSUME TypeOK, DecoderInv, StrictInv, DumpStep
  PROVE  StrictInv'
<1>1. dump = "dumping" /\ s' = s /\ error_handler' = error_handler
  BY Zenon DEF DumpStep, AcceptCodepoint, Incomplete, RejectByte, SkipInvalid, DumpEnds,
         Read, HasByte
<1>1a. /\ s \in Seq(Octet) /\ i \in 1 .. Len(s) + 1 /\ undumped_chars \in Nat
       /\ undumped_chars < i /\ Beginning(s, Begun, undumped_chars, state)
  BY <1>1, Zenon DEF TypeOK, DecoderInv
<1>2. CASE error_handler # "strict"
  <2>1. dump' # "threw"
    <3>1. CASE DumpEnds
      <4>1. dump' = "threw" \/ dump' = "dumped"
        BY <3>1 DEF DumpEnds
      <4>2. dump' = "threw" => state # 0 /\ error_handler = "strict"
        BY <3>1 DEF DumpEnds, UTF8_ACCEPT
      <4> QED BY <1>2, <4>1, <4>2
    <3>2. CASE ~ DumpEnds
      <4>1. dump' = dump
        BY <1>2, <3>2, Zenon DEF DumpStep, AcceptCodepoint, Incomplete, RejectByte,
                                 SkipInvalid
      <4> QED BY <1>1, <4>1
    <3> QED BY <3>1, <3>2
  <2> QED BY <1>1, <1>2, <2>1, Zenon DEF StrictInv, ThrowsIfIllFormed
<1>3. ASSUME error_handler = "strict"
      PROVE  StrictInv'
  <2>1. /\ Begun \in Nat /\ Begun >= 1 /\ Begun + undumped_chars = i
        /\ Begun - 1 \in Nat
    BY <1>1a, SMT DEF Begun
  <2>2. (\A k \in 1 .. Begun - 1 : InCharacter(s, k)) /\ EndsCharacter(s, Begun - 1)
    BY <1>1, <1>3, Zenon DEF StrictInv
  <2>3. CASE AcceptCodepoint
    <3>1. /\ HasByte /\ Decoded = 0 /\ dump' = dump /\ i' = i + 1
          /\ undumped_chars' = 0
      BY <2>3, Zenon DEF AcceptCodepoint, Read, UTF8_ACCEPT
    <3>2. /\ Begun \in 1 .. Len(s) /\ CharacterAt(s, Begun, undumped_chars + 1)
          /\ undumped_chars \in 0 .. 3
      BY <3>1, Decodes, Zenon
    <3>3. undumped_chars + 1 \in 1 .. 4
      BY <3>2, SMT
    <3>4. /\ \A m \in 1 .. Begun + (undumped_chars + 1) - 1 : InCharacter(s, m)
          /\ EndsCharacter(s, Begun + (undumped_chars + 1) - 1)
      BY <1>1a, <2>2, <3>2, <3>3, Completed
    <3>5. Begun + (undumped_chars + 1) - 1 = i
      BY <1>1a, <2>1, SMT
    <3>6. Begun' - 1 = i
      BY <1>1a, <3>1, SMT DEF Begun
    <3>7. (\A m \in 1 .. i : InCharacter(s, m)) /\ EndsCharacter(s, i)
      BY <3>4, <3>5
    <3>8. dump' # "threw" /\ dump' # "dumped"
      BY <1>1, <3>1
    <3> HIDE <1>3
    <3> QED BY <1>1, <3>6, <3>7, <3>8, Zenon DEF StrictInv, ThrowsIfIllFormed
  <2>4. CASE Incomplete
    <3>1. i' = i + 1 /\ undumped_chars' = undumped_chars + 1 /\ dump' = dump
      BY <2>4, Zenon DEF Incomplete, Read
    <3>2. Begun' = Begun
      BY <1>1a, <3>1, SMT DEF Begun
    <3> QED BY <1>1, <2>2, <3>1, <3>2, Zenon DEF StrictInv, ThrowsIfIllFormed
  <2>5. CASE RejectByte
    <3>1. HasByte /\ Decoded = 1 /\ dump' = "threw"
      BY <2>5, Zenon DEF RejectByte, UTF8_REJECT
    <3>2. Begun \in 1 .. Len(s) /\ \A n \in 1 .. 4 : ~ CharacterAt(s, Begun, n)
      BY <3>1, Decodes, Zenon
    <3>3. ~ WellFormed(s)
      BY <1>1a, <2>2, <3>2, NoneBegins
    <3> QED BY <1>1, <1>3, <3>1, <3>3 DEF StrictInv, ThrowsIfIllFormed
  <2>6. CASE SkipInvalid
    BY <1>3, <2>6, Zenon DEF SkipInvalid
  <2>7. CASE DumpEnds /\ state = 0
    <3>1. dump' = "dumped" /\ i = Len(s) + 1
      BY <2>7, Zenon DEF DumpEnds, UTF8_ACCEPT
    <3>2. undumped_chars = 0
      BY <1>1a, <2>7, SMT DEF Beginning
    <3>3. Begun - 1 = Len(s)
      BY <1>1a, <2>1, <3>1, <3>2, SMT
    <3>4. WellFormed(s)
      BY <2>2, <3>3, Zenon DEF WellFormed
    <3> QED BY <1>1, <3>1, <3>4 DEF StrictInv, ThrowsIfIllFormed
  <2>8. CASE DumpEnds /\ state # 0
    <3>1. dump' = "threw" /\ i = Len(s) + 1
      BY <1>3, <2>8, Zenon DEF DumpEnds, UTF8_ACCEPT
    <3>2. undumped_chars > 0
      BY <1>1a, <2>8, SMT DEF Beginning
    <3>3. Begun \in 1 .. Len(s)
      BY <1>1a, <2>1, <3>1, <3>2, SMT
    <3>4. \A n \in 1 .. 4 : ~ CharacterAt(s, Begun, n)
      <4>1. PICK y \in Nat : s[Begun] = y
        <5>1. s[Begun] \in Octet
          BY <1>1a, <3>3
        <5> QED BY <5>1, Octets
      <4>2. Len(s) \in Nat
        BY <1>1a
      <4> QED BY <1>1a, <2>1, <2>8, <3>1, <4>1, <4>2, BegunOnly
    <3>5. ~ WellFormed(s)
      BY <1>1a, <2>2, <3>3, <3>4, NoneBegins
    <3> QED BY <1>1, <1>3, <3>1, <3>5 DEF StrictInv, ThrowsIfIllFormed
  <2> QED BY <2>3, <2>4, <2>5, <2>6, <2>7, <2>8, Zenon DEF DumpStep
<1> QED
  BY <1>2, <1>3, Zenon

-----------------------------------------------------------------------------
(***************************************************************************)
(* The invariant of the specification.                                     *)
(***************************************************************************)
Inv == TypeOK /\ DecoderInv /\ BufferInv /\ StrictInv /\ ScanInv

(***************************************************************************)
(* What constructing a serializer for a string establishes.                *)
(***************************************************************************)
Fresh ==
  /\ s \in Seq(Octet) /\ ensure_ascii \in BOOLEAN /\ error_handler \in Handlers
  /\ i = 1 /\ state = 0 /\ codepoint = 0 /\ string_buffer = << >>
  /\ bytes_after_last_accept = 0 /\ undumped_chars = 0 /\ reach = 0
  /\ output = << >> /\ dump \in {"idle", "dumping"}

LEMMA DumpBegins == Fresh => DumpInv /\ StrictInv
<1> SUFFICES ASSUME Fresh
             PROVE  DumpInv /\ StrictInv
  OBVIOUS
<1>1. /\ Len(s) \in Nat /\ << >> \in Seq(Octet) /\ Len(<< >>) = 0
      /\ BufferSize \in Nat /\ BufferSize >= 16
  BY BufferAssumption DEF Fresh
<1>2. DumpTypes
  BY <1>1, SMT DEF DumpTypes, Fresh
<1>3. DecoderInv
  BY SMT DEF DecoderInv, Beginning, Fresh
<1>4. BufferInv
  BY <1>1, SMT DEF BufferInv, Fresh
<1>5. StrictInv
  <2>1. Begun - 1 = 0
    BY SMT DEF Begun, Fresh
  <2>2. dump # "threw" /\ dump # "dumped"
    BY DEF Fresh
  <2>3. \A k \in 1 .. 0 : InCharacter(s, k)
    BY SMT
  <2> QED BY <2>1, <2>2, <2>3, Zenon DEF StrictInv, ThrowsIfIllFormed, EndsCharacter
<1> QED
  BY <1>2, <1>3, <1>4, <1>5 DEF DumpInv

LEMMA InvInit == Init => Inv
<1> SUFFICES ASSUME Init
             PROVE  Inv
  OBVIOUS
<1>1. << >> \in Seq(Octet) /\ WellFormed(<< >>)
  BY DEF WellFormed
<1>2. s \in Seq(Octet) /\ ensure_ascii \in BOOLEAN /\ error_handler \in Handlers
        /\ dump \in {"idle", "dumping"}
  BY <1>1, StringAssumption DEF Init, DumpInit, Handlers
<1>3. Fresh
  BY <1>2 DEF Init, DumpInit, Fresh, UTF8_ACCEPT
<1>4. DumpInv /\ StrictInv
  BY <1>3, DumpBegins
<1>5. /\ turn \in {"parse", "dump", "reparse"} /\ input \in Seq(Octet) /\ position = 1
      /\ token_buffer = << >> /\ token \in {"none", "scanning"}
  BY <1>1, StringAssumption DEF Init, ScanIdle
<1> QED
  BY <1>1, <1>4, <1>5, SMT DEF Inv, DumpInv, DumpTypes, TypeOK, ScanInv

LEMMA InvNext == Inv /\ [Next]_vars => Inv'
<1> SUFFICES ASSUME Inv, [Next]_vars
             PROVE  Inv'
  OBVIOUS
<1>1. TypeOK /\ DecoderInv /\ BufferInv /\ StrictInv /\ ScanInv /\ DumpTypes
  BY Zenon DEF Inv, TypeOK, DumpTypes
<1>2. ASSUME UNCHANGED dumpVars
      PROVE  DumpTypes' /\ DecoderInv' /\ BufferInv' /\ StrictInv'
  <2>1. /\ s' = s /\ ensure_ascii' = ensure_ascii /\ error_handler' = error_handler
        /\ i' = i /\ state' = state /\ codepoint' = codepoint
        /\ string_buffer' = string_buffer
        /\ bytes_after_last_accept' = bytes_after_last_accept
        /\ undumped_chars' = undumped_chars /\ reach' = reach /\ output' = output
        /\ dump' = dump
    BY <1>2, Zenon DEF dumpVars
  <2>2. DumpTypes' = DumpTypes
    BY <2>1, Zenon DEF DumpTypes
  <2>3. Begun' = Begun
    BY <2>1, Zenon DEF Begun
  <2>4. DecoderInv'
    BY <1>1, <2>1, <2>3, Zenon DEF DecoderInv
  <2>5. BufferInv'
    BY <1>1, <2>1, Zenon DEF BufferInv
  <2>6. StrictInv'
    BY <1>1, <2>1, <2>3, Zenon DEF StrictInv, ThrowsIfIllFormed
  <2> QED BY <1>1, <2>2, <2>4, <2>5, <2>6
<1>3. ASSUME UNCHANGED scanVars
      PROVE  /\ input' \in Seq(Octet) /\ position' \in Nat /\ position' >= 1
             /\ token_buffer' \in Seq(Octet) /\ WellFormed(token_buffer')
             /\ token' \in {"none", "scanning", "value_string", "parse_error"}
  BY <1>1, <1>3, Zenon DEF scanVars, TypeOK, ScanInv
<1>4. CASE Parse
  <2>1. ScanStep /\ UNCHANGED dumpVars /\ turn' = turn
    BY <1>4, Zenon DEF Parse
  <2>2. /\ input' = input /\ position' \in Nat \ {0}
        /\ token_buffer' \in Seq(Octet) /\ WellFormed(token_buffer')
        /\ token' \in {"scanning", "value_string", "parse_error"}
    BY <1>1, <2>1, Scans
  <2>3. DumpTypes' /\ DecoderInv' /\ BufferInv' /\ StrictInv'
    BY <1>2, <2>1
  <2>4. turn' \in {"parse", "dump", "reparse"} /\ input' \in Seq(Octet)
    BY <1>1, <2>1, <2>2, Zenon DEF TypeOK
  <2>5. /\ position' \in Nat /\ position' >= 1
        /\ token' \in {"none", "scanning", "value_string", "parse_error"}
    BY <2>2, SMT
  <2> QED BY <2>2, <2>3, <2>4, <2>5, Zenon DEF Inv, TypeOK, DumpTypes, ScanInv
<1>5. CASE DumpParsed
  <2>1. /\ UNCHANGED scanVars /\ turn' = "dump"
        /\ \E ascii \in BOOLEAN, handler \in Handlers :
             DumpString(token_buffer, ascii, handler)
    BY <1>5, Zenon DEF DumpParsed
  <2>2. token_buffer \in Seq(Octet)
    BY <1>1, Zenon DEF TypeOK
  <2>3. Fresh'
    BY <2>1, <2>2, Zenon DEF DumpString, Fresh, UTF8_ACCEPT
  <2>4. DumpInv' /\ StrictInv'
    BY <2>3, DumpBegins, PTL
  <2>5. turn' \in {"parse", "dump", "reparse"}
    BY <2>1
  <2> QED BY <1>3, <2>1, <2>4, <2>5, Zenon DEF Inv, TypeOK, DumpInv, DumpTypes, ScanInv
<1>6. CASE Dump
  <2>1. DumpStep /\ UNCHANGED scanVars /\ turn' = turn
    BY <1>6, Zenon DEF Dump
  <2>2. DumpInv' /\ StrictInv'
    BY <1>1, <2>1, Dumps, StrictDumps
  <2>3. turn' \in {"parse", "dump", "reparse"}
    BY <1>1, <2>1, Zenon DEF TypeOK
  <2> QED BY <1>3, <2>1, <2>2, <2>3, Zenon DEF Inv, TypeOK, DumpInv, DumpTypes, ScanInv
<1>7. CASE Reparse
  <2>1. /\ UNCHANGED dumpVars /\ turn' = "reparse" /\ input' = output \o <<Quote>>
        /\ position' = 1 /\ token_buffer' = << >> /\ token' = "scanning"
    BY <1>7, Zenon DEF Reparse, ScanString
  <2>2. input' \in Seq(Octet)
    <3>1. output \in Seq(Octet)
      BY <1>1, Zenon DEF TypeOK
    <3>2. <<Quote>> \in Seq(Octet)
      BY SMT DEF Quote, Octet
    <3> QED BY <2>1, <3>1, <3>2, ConcatProperties
  <2>3. << >> \in Seq(Octet) /\ WellFormed(<< >>)
    BY DEF WellFormed
  <2>4. DumpTypes' /\ DecoderInv' /\ BufferInv' /\ StrictInv'
    BY <1>2, <2>1
  <2>5. /\ turn' \in {"parse", "dump", "reparse"}
        /\ position' \in Nat /\ position' >= 1
        /\ token' \in {"none", "scanning", "value_string", "parse_error"}
    BY <2>1, SMT
  <2>6. token_buffer' \in Seq(Octet) /\ WellFormed(token_buffer')
    BY <2>1, <2>3
  <2> QED BY <2>2, <2>4, <2>5, <2>6, Zenon DEF Inv, TypeOK, DumpTypes, ScanInv
<1>8. CASE UNCHANGED vars
  <2>1. UNCHANGED dumpVars /\ UNCHANGED scanVars /\ turn' = turn
    BY <1>8, Zenon DEF vars
  <2>2. turn' \in {"parse", "dump", "reparse"}
    BY <1>1, <2>1, Zenon DEF TypeOK
  <2> QED BY <1>2, <1>3, <2>1, <2>2, Zenon DEF Inv, TypeOK, DumpTypes, ScanInv
<1> QED
  BY <1>4, <1>5, <1>6, <1>7, <1>8, Zenon DEF Next

(***************************************************************************)
(* The variables have their types: no escape is cut off at an octet, and   *)
(* no state but 1 leaves the decoder's table, where dumping stops.         *)
(***************************************************************************)
THEOREM TypeCorrect == Spec => []TypeOK
<1>1. Inv => TypeOK
  BY DEF Inv
<1> QED
  BY <1>1, InvInit, InvNext, PTL DEF Spec

(***************************************************************************)
(* dump_escaped writes nothing behind string_buffer, whatever the string,  *)
(* the options and the size of the buffer, if that is 16 at least.         *)
(***************************************************************************)
THEOREM BufferSuffices == Spec => []StaysInBuffer
<1>1. Inv => StaysInBuffer
  BY DEF Inv, BufferInv, StaysInBuffer
<1> QED
  BY <1>1, InvInit, InvNext, PTL DEF Spec

(***************************************************************************)
(* The strict handler throws for the strings that are not UTF-8 and only   *)
(* for them: the automaton of the serializer is the one of Unicode.        *)
(***************************************************************************)
THEOREM ThrowsExactly == Spec => []ThrowsIfIllFormed
<1>1. Inv => ThrowsIfIllFormed
  BY DEF Inv, StrictInv
<1> QED
  BY <1>1, InvInit, InvNext, PTL DEF Spec

(***************************************************************************)
(* What scan_string returns is UTF-8, whatever stands behind the quote.    *)
(***************************************************************************)
THEOREM ScanReturnsUtf8 == Spec => []ScansUtf8
<1>1. Inv => ScansUtf8
  BY DEF Inv, ScanInv, ScansUtf8
<1> QED
  BY <1>1, InvInit, InvNext, PTL DEF Spec

-----------------------------------------------------------------------------
(***************************************************************************)
(* What a dumped string looks like to the scanner: a sequence of pieces,   *)
(* each of which is read in one turn of the scanner's loop.  The piece p   *)
(* spells the octets c.                                                    *)
(***************************************************************************)
PlainPiece(p, c) ==
  \E x \in Nat : 32 <= x /\ x <= 127 /\ x # 34 /\ x # 92 /\ p = <<x>> /\ c = <<x>>

CharacterPiece(p, c) ==
  \E n \in 2 .. 4 : Len(p) = n /\ CharacterAt(p, 1, n) /\ c = p

ShortPiece(p, c) ==
  \E x \in DOMAIN ShortEscape : p = <<Backslash, ShortEscape[x]>> /\ c = <<x>>

UnicodePiece(p, c) ==
  \E u \in Nat : /\ u <= 65535 /\ ~ IsHighSurrogate(u) /\ ~ IsLowSurrogate(u)
                 /\ p = UnicodeEscape(u) /\ c = Bytes(u)

PairEscape(u) ==
  UnicodeEscape(55232 + (u \div 1024)) \o UnicodeEscape(56320 + (u % 1024))

PairPiece(p, c) ==
  \E u \in Nat : 65536 <= u /\ u <= 1114111 /\ p = PairEscape(u) /\ c = Bytes(u)

Piece(p, c) ==
  \/ PlainPiece(p, c) \/ CharacterPiece(p, c) \/ ShortPiece(p, c)
  \/ UnicodePiece(p, c) \/ PairPiece(p, c)

(***************************************************************************)
(* The text t spells w, and B are the places, in t and in w, between the   *)
(* pieces.                                                                 *)
(***************************************************************************)
Breaks(t, w, B) ==
  /\ <<0, 0>> \in B /\ <<Len(t), Len(w)>> \in B
  /\ \A a, b \in Nat : <<a, b>> \in B =>
       /\ a <= Len(t) /\ b <= Len(w)
       /\ \/ a = Len(t) /\ b = Len(w)
          \/ \E m, n \in Nat \ {0} :
               /\ <<a + m, b + n>> \in B /\ a + m <= Len(t) /\ b + n <= Len(w)
               /\ Piece(SubSeq(t, a + 1, a + m), SubSeq(w, b + 1, b + n))

Spells(t, w) == w \in Seq(Octet) /\ \E B : Breaks(t, w, B)

(***************************************************************************)
(* The digits of an escape are read back as what was printed.              *)
(***************************************************************************)
LEMMA DigitReadBack ==
  ASSUME NEW d \in Nat, d <= 15
  PROVE  HexDigit(d) \in HexDigits /\ HexValue(HexDigit(d)) = d
<1>1. CASE d < 10
  BY <1>1, SMT DEF HexDigit, HexDigits, HexValue
<1>2. CASE d >= 10
  BY <1>2, SMT DEF HexDigit, HexDigits, HexValue
<1> QED
  BY <1>1, <1>2, SMT

LEMMA EscapeOctets ==
  ASSUME NEW u \in Nat, u <= 65535, NEW p, p = UnicodeEscape(u)
  PROVE  /\ p \in Seq(Octet) /\ Len(p) = 6 /\ p[1] = 92 /\ p[2] = 117
         /\ p[3] \in HexDigits /\ p[4] \in HexDigits
         /\ p[5] \in HexDigits /\ p[6] \in HexDigits
         /\ HexValue(p[3]) * 4096 + HexValue(p[4]) * 256 + HexValue(p[5]) * 16
              + HexValue(p[6]) = u
<1>1. PICK a \in Nat, b \in Nat, c \in Nat, d \in Nat :
        /\ a = u \div 4096 /\ b = (u \div 256) % 16 /\ c = (u \div 16) % 16 /\ d = u % 16
        /\ a <= 15 /\ b <= 15 /\ c <= 15 /\ d <= 15
        /\ u = a * 4096 + b * 256 + c * 16 + d
  BY SMT
<1>2. p = <<92, 117, HexDigit(a), HexDigit(b), HexDigit(c), HexDigit(d)>>
  BY <1>1, SMT DEF UnicodeEscape, Backslash
<1>3. p \in Seq(Octet) /\ Len(p) = 6
  BY UnicodeEscapes
<1>4. /\ p[1] = 92 /\ p[2] = 117 /\ p[3] = HexDigit(a) /\ p[4] = HexDigit(b)
      /\ p[5] = HexDigit(c) /\ p[6] = HexDigit(d)
  BY <1>2, SMT
<1>5. /\ p[3] \in HexDigits /\ HexValue(p[3]) = a
      /\ p[4] \in HexDigits /\ HexValue(p[4]) = b
      /\ p[5] \in HexDigits /\ HexValue(p[5]) = c
      /\ p[6] \in HexDigits /\ HexValue(p[6]) = d
  BY <1>1, <1>4, DigitReadBack
<1>6. HexValue(p[3]) * 4096 + HexValue(p[4]) * 256 + HexValue(p[5]) * 16
        + HexValue(p[6]) = u
  <2>1. u = a * 4096 + b * 256 + c * 16 + d
    BY <1>1
  <2> QED BY <1>5, <2>1
<1>7. p[1] = 92 /\ p[2] = 117
  BY <1>4
<1>8. /\ p[3] \in HexDigits /\ p[4] \in HexDigits
      /\ p[5] \in HexDigits /\ p[6] \in HexDigits
  BY <1>5
<1> QED
  BY <1>3, <1>6, <1>7, <1>8

LEMMA EscapeReadBack ==
  ASSUME NEW u \in Nat, u <= 65535, NEW p, p = UnicodeEscape(u), NEW k \in Nat,
         At(k + 1) = p[3], At(k + 2) = p[4], At(k + 3) = p[5], At(k + 4) = p[6]
  PROVE  get_codepoint(k) = u
<1>1. /\ p[3] \in HexDigits /\ p[4] \in HexDigits
      /\ p[5] \in HexDigits /\ p[6] \in HexDigits
      /\ HexValue(p[3]) * 4096 + HexValue(p[4]) * 256 + HexValue(p[5]) * 16
           + HexValue(p[6]) = u
  BY EscapeOctets
<1>2. ASSUME NEW e \in 1 .. 4
      PROVE  At(k + e) \in HexDigits
  <2>1. e = 1 \/ e = 2 \/ e = 3 \/ e = 4
    BY SMT
  <2> QED BY <1>1, <2>1, SMT
<1>3. get_codepoint(k)
        = HexValue(At(k + 1)) * 4096 + HexValue(At(k + 2)) * 256
            + HexValue(At(k + 3)) * 16 + HexValue(At(k + 4))
  BY <1>2, SMT DEF get_codepoint
<1> QED
  BY <1>1, <1>3

LEMMA PairReadBack ==
  ASSUME NEW u \in Nat, 65536 <= u, u <= 1114111
  PROVE  \E high, low \in Nat :
           /\ high = 55232 + (u \div 1024) /\ low = 56320 + (u % 1024)
           /\ high <= 65535 /\ low <= 65535
           /\ IsHighSurrogate(high) /\ IsLowSurrogate(low) /\ Paired(high, low) = u
<1>1. PICK a \in Nat, b \in Nat : /\ a = u \div 1024 /\ b = u % 1024
                                  /\ u = a * 1024 + b /\ b <= 1023
  BY SMT
<1>2. a >= 64 /\ a <= 1087
  BY <1>1, SMT
<1> QED
  BY <1>1, <1>2, SMT DEF IsHighSurrogate, IsLowSurrogate, Paired

(***************************************************************************)
(* Which turn of the loop the next byte leads to.                          *)
(***************************************************************************)
LEMMA Turns ==
  ASSUME ScanStep, NEW x \in Nat, Current = x
  PROVE  /\ token = "scanning"
         /\ x = 34 => ClosingQuote
         /\ 32 <= x /\ x <= 127 /\ x # 34 /\ x # 92 => Plain
         /\ 194 <= x /\ x <= 244 => MultiByte
         /\ x = 92 /\ At(position + 1) \in EscapeLetters => ShortEscaped
         /\ x = 92 /\ At(position + 1) = 117
              => UnicodeEscaped \/ SurrogatePair \/ BrokenUnicode
<1>1. ClosingQuote => x = 34
  BY Zenon DEF ClosingQuote
<1>2. Unexpected => x <= 31 \/ (128 <= x /\ x <= 193) \/ 245 <= x
  BY SMT DEF Unexpected, Eof
<1>3. Plain => 32 <= x /\ x <= 127 /\ x # 34 /\ x # 92
  BY SMT DEF Plain
<1>4. MultiByte => 194 <= x /\ x <= 244
  BY SMT DEF MultiByte
<1>5. ShortEscaped => x = 92 /\ At(position + 1) \in EscapeLetters
  BY Zenon DEF ShortEscaped
<1>6. ForbiddenEscape => x = 92 /\ At(position + 1) \notin EscapeLetters \cup {117}
  BY Zenon DEF ForbiddenEscape
<1>7. UnicodeEscaped \/ SurrogatePair \/ BrokenUnicode
        => x = 92 /\ At(position + 1) = 117
  BY Zenon DEF UnicodeEscaped, SurrogatePair, BrokenUnicode, OpensUnicode
<1>8. 117 \notin EscapeLetters
  BY SMT DEF EscapeLetters
<1>9. token = "scanning"
  BY Zenon DEF ScanStep, ClosingQuote, Unexpected, Plain, MultiByte, ShortEscaped,
               ForbiddenEscape, UnicodeEscaped, SurrogatePair, BrokenUnicode,
               OpensUnicode, Scanning
<1>10. \/ ClosingQuote \/ Unexpected \/ Plain \/ MultiByte \/ ShortEscaped
       \/ ForbiddenEscape \/ UnicodeEscaped \/ SurrogatePair \/ BrokenUnicode
  BY Zenon DEF ScanStep
<1>11. x = 34 => ClosingQuote
  BY <1>2, <1>3, <1>4, <1>5, <1>6, <1>7, <1>10, SMT
<1>12. 32 <= x /\ x <= 127 /\ x # 34 /\ x # 92 => Plain
  BY <1>1, <1>2, <1>4, <1>5, <1>6, <1>7, <1>10, SMT
<1>13. 194 <= x /\ x <= 244 => MultiByte
  BY <1>1, <1>2, <1>3, <1>5, <1>6, <1>7, <1>10, SMT
<1>14. x = 92 => ShortEscaped \/ ForbiddenEscape
                   \/ UnicodeEscaped \/ SurrogatePair \/ BrokenUnicode
  BY <1>1, <1>2, <1>3, <1>4, <1>10, SMT
<1>15. x = 92 /\ At(position + 1) \in EscapeLetters => ShortEscaped
  BY <1>6, <1>7, <1>8, <1>14, Zenon
<1>16. x = 92 /\ At(position + 1) = 117 => UnicodeEscaped \/ SurrogatePair \/ BrokenUnicode
  BY <1>5, <1>6, <1>8, <1>14, Zenon
<1> QED
  BY <1>9, <1>11, <1>12, <1>13, <1>15, <1>16, Zenon

(***************************************************************************)
(* The piece p stands at the scanner's position.                           *)
(***************************************************************************)
Ahead(p) ==
  /\ p \in Seq(Octet) /\ Len(p) >= 1
  /\ position + Len(p) - 1 <= Len(input)
  /\ \A k \in 1 .. Len(p) : input[position + k - 1] = p[k]

LEMMA AheadAt ==
  ASSUME TypeOK, position >= 1, NEW p, Ahead(p), NEW k \in Nat, k < Len(p)
  PROVE  At(position + k) = p[k + 1] /\ At(position + k) \in Octet
<1>1. input \in Seq(Octet) /\ position \in Nat /\ p \in Seq(Octet)
  BY Zenon DEF TypeOK, Ahead
<1>2. position + Len(p) - 1 <= Len(input)
        /\ \A m \in 1 .. Len(p) : input[position + m - 1] = p[m]
  BY Zenon DEF Ahead
<1>3. k + 1 \in 1 .. Len(p) /\ position + (k + 1) - 1 = position + k
  BY <1>1, SMT
<1>4. p[k + 1] \in Octet /\ input[position + k] = p[k + 1]
  BY <1>1, <1>2, <1>3
<1>5. position + k <= Len(input)
  BY <1>1, <1>2, <1>3, SMT
<1> QED
  BY <1>4, <1>5 DEF At

LEMMA PlainRead ==
  ASSUME TypeOK, position >= 1, ScanStep, NEW p, Ahead(p), NEW c, PlainPiece(p, c)
  PROVE  Accept(c, Len(p))
<1>1. PICK x \in Nat : /\ 32 <= x /\ x <= 127 /\ x # 34 /\ x # 92
                       /\ p = <<x>> /\ c = <<x>>
  BY Zenon DEF PlainPiece
<1>2. Len(p) = 1 /\ p[1] = x
  BY <1>1, SMT
<1>3. Current = x
  <2>1. At(position + 0) = p[0 + 1]
    BY <1>2, AheadAt, SMT
  <2>2. position + 0 = position /\ 0 + 1 = 1
    BY SMT DEF TypeOK
  <2> QED BY <1>2, <2>1, <2>2 DEF Current
<1>4. Plain
  BY <1>1, <1>3, Turns
<1> QED
  BY <1>1, <1>2, <1>3, <1>4 DEF Plain

LEMMA ShortRead ==
  ASSUME TypeOK, position >= 1, ScanStep, NEW p, Ahead(p), NEW c, ShortPiece(p, c)
  PROVE  Accept(c, Len(p))
<1>1. PICK x \in DOMAIN ShortEscape : p = <<Backslash, ShortEscape[x]>> /\ c = <<x>>
  BY Zenon DEF ShortPiece
<1>2. ShortEscape[x] \in EscapeLetters /\ Unescaped(ShortEscape[x]) = x
  <2>1. x \in {8, 9, 10, 12, 13, 34, 92}
    BY SMT DEF ShortEscape, Quote, Backslash
  <2> QED BY <2>1, SMT DEF ShortEscape, Quote, Backslash, EscapeLetters, Unescaped
<1>3. Len(p) = 2 /\ p[1] = 92 /\ p[2] = ShortEscape[x]
  <2> HIDE DEF ShortEscape
  <2> QED BY <1>1, SMT DEF Backslash
<1>4. Current = 92 /\ At(position + 1) = ShortEscape[x]
  <2>1. At(position + 0) = p[0 + 1] /\ At(position + 1) = p[1 + 1]
    BY <1>3, AheadAt, SMT
  <2>2. position + 0 = position /\ 0 + 1 = 1 /\ 1 + 1 = 2
    BY SMT DEF TypeOK
  <2> QED BY <1>3, <2>1, <2>2 DEF Current
<1>5. ShortEscaped
  BY <1>2, <1>4, Turns
<1> QED
  BY <1>1, <1>2, <1>3, <1>4, <1>5, Zenon DEF ShortEscaped

LEMMA EscapeOpens ==
  ASSUME TypeOK, position >= 1, NEW p, Ahead(p), Len(p) >= 6,
         NEW u \in Nat, u <= 65535, NEW q, q = UnicodeEscape(u),
         \A k \in 1 .. 6 : p[k] = q[k]
  PROVE  Current = 92 /\ At(position + 1) = 117 /\ First = u
<1>1. q[1] = 92 /\ q[2] = 117
  BY EscapeOctets
<1>2. /\ p[1] = q[1] /\ p[2] = q[2] /\ p[3] = q[3]
      /\ p[4] = q[4] /\ p[5] = q[5] /\ p[6] = q[6]
  BY SMT
<1>3. position \in Nat /\ Len(p) \in Nat
  BY DEF TypeOK, Ahead
<1>4. /\ At(position + 0) = p[0 + 1] /\ At(position + 1) = p[1 + 1]
      /\ At(position + 2) = p[2 + 1] /\ At(position + 3) = p[3 + 1]
      /\ At(position + 4) = p[4 + 1] /\ At(position + 5) = p[5 + 1]
  BY <1>3, AheadAt, SMT
<1>5. /\ At(position) = q[1] /\ At(position + 1) = q[2]
      /\ At((position + 1) + 1) = q[3] /\ At((position + 1) + 2) = q[4]
      /\ At((position + 1) + 3) = q[5] /\ At((position + 1) + 4) = q[6]
  <2>1. /\ position + 0 = position /\ (position + 1) + 1 = position + 2
        /\ (position + 1) + 2 = position + 3 /\ (position + 1) + 3 = position + 4
        /\ (position + 1) + 4 = position + 5
        /\ 0 + 1 = 1 /\ 1 + 1 = 2 /\ 2 + 1 = 3 /\ 3 + 1 = 4 /\ 4 + 1 = 5 /\ 5 + 1 = 6
    BY <1>3, SMT
  <2> QED BY <1>2, <1>4, <2>1
<1>6. position + 1 \in Nat
  BY <1>3
<1>7. get_codepoint(position + 1) = u
  <2>1. PICK b \in Nat : b = position + 1
    BY <1>6, SMT
  <2>2. /\ At(b + 1) = q[3] /\ At(b + 2) = q[4]
        /\ At(b + 3) = q[5] /\ At(b + 4) = q[6]
    BY <1>5, <2>1, SMT
  <2>3. get_codepoint(b) = u
    BY <2>2, EscapeReadBack, SMT
  <2> QED BY <2>1, <2>3, SMT
<1> QED
  BY <1>1, <1>5, <1>7 DEF Current, First

LEMMA UnicodeRead ==
  ASSUME TypeOK, position >= 1, ScanStep, NEW p, Ahead(p), NEW c, UnicodePiece(p, c)
  PROVE  Accept(c, Len(p))
<1>1. PICK u \in Nat : /\ u <= 65535 /\ ~ IsHighSurrogate(u) /\ ~ IsLowSurrogate(u)
                       /\ p = UnicodeEscape(u) /\ c = Bytes(u)
  BY SMT DEF UnicodePiece
<1>2. Len(p) = 6
  BY <1>1, EscapeOctets
<1>3. Current = 92 /\ At(position + 1) = 117 /\ First = u
  BY <1>1, <1>2, EscapeOpens, SMT
<1>4. UnicodeEscaped \/ SurrogatePair \/ BrokenUnicode
  BY <1>3, Turns
<1>5. First # -1
  BY <1>3, SMT
<1>6. ~ IsHighSurrogate(First) /\ ~ IsLowSurrogate(First)
  BY <1>1, <1>3
<1>7. UnicodeEscaped
  BY <1>4, <1>5, <1>6, Zenon DEF SurrogatePair, BrokenUnicode
<1>8. Accept(Bytes(First), 6)
  BY <1>7, Zenon DEF UnicodeEscaped
<1> QED
  BY <1>1, <1>2, <1>3, <1>8

LEMMA PairRead ==
  ASSUME TypeOK, position >= 1, ScanStep, NEW p, Ahead(p), NEW c, PairPiece(p, c)
  PROVE  Accept(c, Len(p))
<1>1. PICK u \in Nat : 65536 <= u /\ u <= 1114111 /\ p = PairEscape(u) /\ c = Bytes(u)
  BY SMT DEF PairPiece
<1>2. PICK high, low \in Nat :
        /\ high = 55232 + (u \div 1024) /\ low = 56320 + (u % 1024)
        /\ high <= 65535 /\ low <= 65535
        /\ IsHighSurrogate(high) /\ IsLowSurrogate(low) /\ Paired(high, low) = u
  BY <1>1, PairReadBack
<1> DEFINE h == UnicodeEscape(high)
           l == UnicodeEscape(low)
<1>3. h \in Seq(Octet) /\ Len(h) = 6 /\ l \in Seq(Octet) /\ Len(l) = 6
  BY <1>2, UnicodeEscapes
<1>4. p = h \o l
  BY <1>1, <1>2 DEF PairEscape
<1> HIDE DEF h, l
<1>5. /\ Len(p) = 12
      /\ \A k \in 1 .. 6 : p[k] = h[k]
      /\ \A k \in 1 .. 6 : p[k + 6] = l[k]
  <2>1. /\ Len(p) = Len(h) + Len(l)
        /\ \A k \in 1 .. Len(h) + Len(l) :
             p[k] = IF k <= Len(h) THEN h[k] ELSE l[k - Len(h)]
    BY <1>3, <1>4, ConcatProperties
  <2>2. \A k \in 1 .. 12 : p[k] = IF k <= 6 THEN h[k] ELSE l[k - 6]
    BY <1>3, <2>1, SMT
  <2>3. ASSUME NEW k \in 1 .. 6
        PROVE  p[k + 6] = l[k]
    <3>1. k + 6 \in 1 .. 12 /\ ~ (k + 6 <= 6) /\ (k + 6) - 6 = k
      BY SMT
    <3> QED BY <2>2, <3>1
  <2> QED BY <1>3, <2>1, <2>2, <2>3, SMT
<1>6. Current = 92 /\ At(position + 1) = 117 /\ First = high
  <2>1. Len(p) >= 6
    BY <1>5, SMT
  <2>2. high \in Nat /\ high <= 65535 /\ \A k \in 1 .. 6 : p[k] = h[k]
    BY <1>2, <1>5
  <2> QED BY <2>1, <2>2, EscapeOpens DEF h
<1>7. Second = low
  <2>1. position \in Nat
    BY DEF TypeOK
  <2>2. /\ At(position + 6) = p[6 + 1] /\ At(position + 7) = p[7 + 1]
        /\ At(position + 8) = p[8 + 1] /\ At(position + 9) = p[9 + 1]
        /\ At(position + 10) = p[10 + 1] /\ At(position + 11) = p[11 + 1]
    <3>1. /\ 6 < Len(p) /\ 7 < Len(p) /\ 8 < Len(p) /\ 9 < Len(p)
          /\ 10 < Len(p) /\ 11 < Len(p)
      BY <1>5, SMT
    <3> QED BY <3>1, AheadAt
  <2>3. /\ p[7] = l[1] /\ p[8] = l[2] /\ p[9] = l[3] /\ p[10] = l[4]
        /\ p[11] = l[5] /\ p[12] = l[6]
    BY <1>5, SMT
  <2>4. /\ At(position + 6) = l[1] /\ At(position + 7) = l[2]
        /\ At((position + 7) + 1) = l[3] /\ At((position + 7) + 2) = l[4]
        /\ At((position + 7) + 3) = l[5] /\ At((position + 7) + 4) = l[6]
    <3>1. /\ (position + 7) + 1 = position + 8 /\ (position + 7) + 2 = position + 9
          /\ (position + 7) + 3 = position + 10 /\ (position + 7) + 4 = position + 11
          /\ 6 + 1 = 7 /\ 7 + 1 = 8 /\ 8 + 1 = 9 /\ 9 + 1 = 10 /\ 10 + 1 = 11
          /\ 11 + 1 = 12
      BY <2>1, SMT
    <3> QED BY <2>2, <2>3, <3>1
  <2>5. l[1] = 92 /\ l[2] = 117
    BY <1>2, EscapeOctets DEF l
  <2>6. position + 7 \in Nat
    BY <2>1
  <2>7. get_codepoint(position + 7) = low
    BY <1>2, <2>4, <2>6, EscapeReadBack DEF l
  <2> QED BY <2>4, <2>5, <2>7 DEF Second
<1>8. UnicodeEscaped \/ SurrogatePair \/ BrokenUnicode
  BY <1>6, Turns
<1>9. First # -1 /\ ~ IsLowSurrogate(First)
  <2>1. high # -1 /\ ~ IsLowSurrogate(high)
    BY <1>2, SMT DEF IsHighSurrogate, IsLowSurrogate
  <2> QED BY <1>6, <2>1
<1>10. IsHighSurrogate(First) /\ IsLowSurrogate(Second)
  BY <1>2, <1>6, <1>7
<1>11. SurrogatePair
  BY <1>8, <1>9, <1>10, Zenon DEF UnicodeEscaped, BrokenUnicode
<1>12. Accept(Bytes(Paired(First, Second)), 12)
  BY <1>11, Zenon DEF SurrogatePair
<1>13. Paired(First, Second) = u
  BY <1>2, <1>6, <1>7
<1> QED
  BY <1>1, <1>5, <1>12, <1>13

LEMMA NextInRange1 ==
  ASSUME NEW S, At(position + 1) \in S
  PROVE  next_byte_in_range(<<S>>)
<1>1. ASSUME NEW k \in 1 .. Len(<<S>>)
      PROVE  At(position + k) \in <<S>>[k]
  <2>1. k = 1
    BY SMT
  <2> QED BY <2>1, SMT
<1> QED
  BY <1>1, Zenon DEF next_byte_in_range

LEMMA NextInRange2 ==
  ASSUME NEW S, NEW T, At(position + 1) \in S, At(position + 2) \in T
  PROVE  next_byte_in_range(<<S, T>>)
<1>1. ASSUME NEW k \in 1 .. Len(<<S, T>>)
      PROVE  At(position + k) \in <<S, T>>[k]
  <2>1. k = 1 \/ k = 2
    BY SMT
  <2> QED BY <2>1, SMT
<1> QED
  BY <1>1, Zenon DEF next_byte_in_range

LEMMA NextInRange3 ==
  ASSUME NEW S, NEW T, NEW U,
         At(position + 1) \in S, At(position + 2) \in T, At(position + 3) \in U
  PROVE  next_byte_in_range(<<S, T, U>>)
<1>1. ASSUME NEW k \in 1 .. Len(<<S, T, U>>)
      PROVE  At(position + k) \in <<S, T, U>>[k]
  <2>1. k = 1 \/ k = 2 \/ k = 3
    BY SMT
  <2> QED BY <2>1, SMT
<1> QED
  BY <1>1, Zenon DEF next_byte_in_range

(***************************************************************************)
(* The ranges are those of CharacterAt.                                    *)
(***************************************************************************)
LEMMA RangesThree ==
  ASSUME NEW x \in Nat, 224 <= x, x <= 239, NEW y, SecondOctet(x, y)
  PROVE  \E S : y \in S /\ Ranges(x) = <<S, Trail>>
<1>1. CASE x = 224
  <2>1. y \in 160 .. 191 /\ Ranges(x) = <<160 .. 191, Trail>>
    BY <1>1, RangesOf DEF SecondOctet
  <2> QED BY <2>1, Zenon
<1>2. CASE x = 237
  <2>1. y \in 128 .. 159
    BY <1>2, SMT DEF SecondOctet
  <2>2. Ranges(x) = <<128 .. 159, Trail>>
    BY <1>2, RangesOf
  <2> QED BY <2>1, <2>2, Zenon
<1>3. CASE x # 224 /\ x # 237
  <2>1. y \in Trail
    BY <1>3, SMT DEF SecondOctet
  <2>2. x \in 225 .. 239 \ {237}
    BY <1>3, SMT
  <2>3. Ranges(x) = <<Trail, Trail>>
    BY <2>2, RangesOf
  <2> QED BY <2>1, <2>3, Zenon
<1> QED
  BY <1>1, <1>2, <1>3, Zenon

LEMMA RangesFour ==
  ASSUME NEW x \in Nat, 240 <= x, x <= 244, NEW y, SecondOctet(x, y)
  PROVE  \E S : y \in S /\ Ranges(x) = <<S, Trail, Trail>>
<1>1. CASE x = 240
  <2>1. y \in 144 .. 191
    BY <1>1, SMT DEF SecondOctet
  <2>2. Ranges(x) = <<144 .. 191, Trail, Trail>>
    BY <1>1, RangesOf
  <2> QED BY <2>1, <2>2, Zenon
<1>2. CASE x = 244
  <2>1. y \in 128 .. 143
    BY <1>2, SMT DEF SecondOctet
  <2>2. Ranges(x) = <<128 .. 143, Trail, Trail>>
    BY <1>2, RangesOf
  <2> QED BY <2>1, <2>2, Zenon
<1>3. CASE x # 240 /\ x # 244
  <2>1. y \in Trail
    BY <1>3, SMT DEF SecondOctet
  <2>2. x \in 241 .. 243
    BY <1>3, SMT
  <2>3. Ranges(x) = <<Trail, Trail, Trail>>
    BY <2>2, RangesOf
  <2> QED BY <2>1, <2>3, Zenon
<1> QED
  BY <1>1, <1>2, <1>3, Zenon

LEMMA CharacterRead ==
  ASSUME TypeOK, position >= 1, ScanStep, NEW p, Ahead(p), NEW c, CharacterPiece(p, c)
  PROVE  Accept(c, Len(p))
<1>1. PICK n \in 2 .. 4 : Len(p) = n /\ CharacterAt(p, 1, n) /\ c = p
  BY SMT DEF CharacterPiece
<1>2. p \in Seq(Octet) /\ position \in Nat /\ input \in Seq(Octet)
  BY Zenon DEF TypeOK, Ahead
<1>3. PICK x \in Nat : x = p[1] /\ x <= 255
  <2>1. p[1] \in Octet
    BY <1>1, <1>2
  <2> QED BY <2>1, Octets
<1>4. Current = x /\ \A k \in 1 .. n - 1 : At(position + k) = p[k + 1]
  <2>1. ASSUME NEW k \in 0 .. n - 1
        PROVE  At(position + k) = p[k + 1]
    <3>1. k \in Nat /\ k < Len(p)
      BY <1>1, SMT
    <3> QED BY <3>1, AheadAt
  <2>2. At(position + 0) = p[0 + 1]
    BY <2>1, SMT
  <2>3. position + 0 = position /\ 0 + 1 = 1
    BY <1>2, SMT
  <2>4. \A k \in 1 .. n - 1 : k \in 0 .. n - 1
    BY SMT
  <2> QED BY <1>3, <2>1, <2>2, <2>3, <2>4 DEF Current
<1>5. n >= 2 => At(position + 1) = p[2]
  BY <1>4, SMT
<1>6. n >= 3 => At(position + 2) = p[3]
  BY <1>4, SMT
<1>7. n >= 4 => At(position + 3) = p[4]
  BY <1>4, SMT
<1>8. next_byte_in_range(Ranges(x)) /\ Len(Ranges(x)) = n - 1 /\ 194 <= x /\ x <= 244
  <2>1. CASE n = 2
    <3>1. 194 <= x /\ x <= 223 /\ p[2] \in Trail
      BY <1>1, <1>3, <2>1, SMT DEF CharacterAt
    <3>2. Ranges(x) = <<Trail>>
      BY <3>1, RangesOf, SMT
    <3>3. At(position + 1) \in Trail
      BY <1>5, <2>1, <3>1, SMT
    <3>4. next_byte_in_range(<<Trail>>)
      BY <3>3, NextInRange1
    <3>5. Len(<<Trail>>) = 1
      BY SMT
    <3> QED BY <2>1, <3>1, <3>2, <3>4, <3>5, SMT
  <2>2. CASE n = 3
    <3>1. 224 <= x /\ x <= 239 /\ SecondOctet(x, p[2]) /\ p[3] \in Trail
      BY <1>1, <1>3, <2>2, SMT DEF CharacterAt
    <3>2. PICK S : p[2] \in S /\ Ranges(x) = <<S, Trail>>
      BY <3>1, RangesThree
    <3>3. At(position + 1) \in S /\ At(position + 2) \in Trail
      BY <1>5, <1>6, <2>2, <3>1, <3>2, SMT
    <3>4. next_byte_in_range(<<S, Trail>>)
      BY <3>3, NextInRange2
    <3>5. Len(<<S, Trail>>) = 2
      BY SMT
    <3> QED BY <2>2, <3>1, <3>2, <3>4, <3>5, SMT
  <2>3. CASE n = 4
    <3>1. /\ 240 <= x /\ x <= 244 /\ SecondOctet(x, p[2])
          /\ p[3] \in Trail /\ p[4] \in Trail
      BY <1>1, <1>3, <2>3, SMT DEF CharacterAt
    <3>2. PICK S : p[2] \in S /\ Ranges(x) = <<S, Trail, Trail>>
      BY <3>1, RangesFour
    <3>3. At(position + 1) \in S /\ At(position + 2) \in Trail /\ At(position + 3) \in Trail
      BY <1>5, <1>6, <1>7, <2>3, <3>1, <3>2, SMT
    <3>4. next_byte_in_range(<<S, Trail, Trail>>)
      BY <3>3, NextInRange3
    <3>5. Len(<<S, Trail, Trail>>) = 3
      BY SMT
    <3> QED BY <2>3, <3>1, <3>2, <3>4, <3>5, SMT
  <2> QED BY <2>1, <2>2, <2>3, SMT
<1>9. MultiByte
  BY <1>4, <1>8, Turns
<1>10. Accept(SubSeq(input, position, position + (n - 1)), (n - 1) + 1)
  <2>1. Ranges(Current) = Ranges(x)
    BY <1>4
  <2>2. Accept(SubSeq(input, position, position + Len(Ranges(x))), Len(Ranges(x)) + 1)
    BY <1>8, <1>9, <2>1, Zenon DEF MultiByte
  <2> QED BY <1>8, <2>2, Zenon
<1>11. SubSeq(input, position, position + (n - 1)) = p
  <2> DEFINE q == SubSeq(input, position, position + (n - 1))
  <2>1. /\ position + Len(p) - 1 <= Len(input)
        /\ \A k \in 1 .. Len(p) : input[position + k - 1] = p[k]
    BY Zenon DEF Ahead
  <2>2. \A m \in position .. position + (n - 1) : input[m] \in Octet
    BY <1>1, <1>2, <2>1
  <2>3. position \in Int /\ position + (n - 1) \in Int /\ position <= position + (n - 1)
          /\ (position + (n - 1)) - position + 1 = n
    BY <1>2
  <2>4. /\ q \in Seq(Octet) /\ Len(q) = n
        /\ \A k \in 1 .. n : q[k] = input[position + k - 1]
    BY <2>2, <2>3, SubSeqProperties
  <2> HIDE DEF q
  <2>5. q = p
    BY <1>1, <1>2, <2>1, <2>4, SeqEqual
  <2> QED BY <2>5 DEF q
<1>12. (n - 1) + 1 = n
  BY SMT
<1> QED
  BY <1>1, <1>10, <1>11, <1>12

(***************************************************************************)
(* One turn of the loop reads one piece.                                   *)
(***************************************************************************)
LEMMA PieceRead ==
  ASSUME TypeOK, position >= 1, ScanStep, NEW p, Ahead(p), NEW c, Piece(p, c)
  PROVE  Accept(c, Len(p)) /\ token = "scanning"
<1>1. Accept(c, Len(p))
  BY PlainRead, CharacterRead, ShortRead, UnicodeRead, PairRead DEF Piece
<1>2. token = "scanning"
  BY Zenon DEF ScanStep, ClosingQuote, Unexpected, Plain, MultiByte, ShortEscaped,
               ForbiddenEscape, UnicodeEscaped, SurrogatePair, BrokenUnicode,
               OpensUnicode, Scanning
<1> QED
  BY <1>1, <1>2

-----------------------------------------------------------------------------
(***************************************************************************)
(* The six bits that the trailing octets of a character hold.              *)
(***************************************************************************)
Quotient(c, k) == c \div k

Sextet(c, k) == Quotient(c, k) % 64

LEMMA SextetOf ==
  ASSUME NEW c, NEW k, NEW q \in Nat, Quotient(c, k) = q, NEW m, q % 64 = m
  PROVE  Sextet(c, k) = m
BY Zenon DEF Sextet

LEMMA ThreeBytes ==
  ASSUME NEW c \in Nat, 2048 <= c, c <= 65535
  PROVE  Bytes(c) = <<224 + Quotient(c, 4096), 128 + Sextet(c, 64), 128 + Sextet(c, 1)>>
<1>1. ~ (c < 128) /\ ~ (c <= 2047) /\ c <= 65535
  BY SMT
<1> QED
  BY <1>1 DEF Bytes, Sextet, Quotient

LEMMA FourBytes ==
  ASSUME NEW c \in Nat, 65536 <= c
  PROVE  Bytes(c) = <<240 + Quotient(c, 262144), 128 + Sextet(c, 4096),
                      128 + Sextet(c, 64), 128 + Sextet(c, 1)>>
<1>1. ~ (c < 128) /\ ~ (c <= 2047) /\ ~ (c <= 65535)
  BY SMT
<1> QED
  BY <1>1 DEF Bytes, Sextet, Quotient

(***************************************************************************)
(* The code point decoded from a character is encoded as that character.   *)
(***************************************************************************)
LEMMA CodeBack1 ==
  ASSUME NEW t, Len(t) \in Nat, NEW k \in Nat, NEW y \in Nat, y <= 255, t[k] = y,
         CharacterAt(t, k, 1), NEW c, c = Gathered(t, k, 1)
  PROVE  c \in Nat /\ c <= 127 /\ c = y /\ Bytes(c) = <<y>>
<1>1. y <= 127
  BY SMT DEF CharacterAt
<1>2. PICK h \in Int : h = LeadingBits(t[k]) /\ h = y
  BY <1>1, Leads, SMT
<1>3. c = h
  BY <1>2, SMT DEF Gathered
<1>4. Bytes(y) = <<y>>
  BY <1>1, SMT DEF Bytes
<1> QED
  BY <1>1, <1>2, <1>3, <1>4, SMT

LEMMA CodeBack2 ==
  ASSUME NEW t, Len(t) \in Nat, NEW k \in Nat, NEW y \in Nat, y <= 255, t[k] = y,
         NEW a \in Nat, t[k + 1] = a, CharacterAt(t, k, 2), NEW c, c = Gathered(t, k, 2)
  PROVE  c \in Nat /\ 128 <= c /\ c <= 2047 /\ Bytes(c) = <<y, a>>
<1>1. y \in 194 .. 223 /\ a \in Trail
  BY SMT DEF CharacterAt
<1>2. PICK h \in Int : h = LeadingBits(t[k]) /\ h = y - 192
  BY <1>1, Leads, SMT
<1>3. c = h * 64 + (a - 128)
  BY <1>2, SMT DEF Gathered
<1>4. PICK m \in Nat : m = a - 128 /\ m <= 63
  BY <1>1, SMT DEF Trail
<1>5. c \in Nat /\ 128 <= c /\ c <= 2047 /\ c \div 64 = h /\ c % 64 = m /\ c \div 1 = c
  BY <1>1, <1>2, <1>3, <1>4, SMT
<1>6. Bytes(c) = <<192 + h, 128 + m>>
  BY <1>5, SMT DEF Bytes
<1>7. 192 + h = y /\ 128 + m = a
  BY <1>2, <1>4, SMT
<1> QED
  BY <1>5, <1>6, <1>7

LEMMA CodeBack3 ==
  ASSUME NEW t, Len(t) \in Nat, NEW k \in Nat, NEW y \in Nat, y <= 255, t[k] = y,
         NEW a \in Nat, t[k + 1] = a, NEW b \in Nat, t[k + 2] = b,
         CharacterAt(t, k, 3), NEW c, c = Gathered(t, k, 3)
  PROVE  /\ c \in Nat /\ 128 <= c /\ c <= 65535
         /\ ~ IsHighSurrogate(c) /\ ~ IsLowSurrogate(c)
         /\ Bytes(c) = <<y, a, b>>
<1>1. y \in 224 .. 239 /\ SecondOctet(y, a) /\ b \in Trail
  BY SMT DEF CharacterAt
<1>2. a \in Trail /\ (y = 224 => a >= 160) /\ (y = 237 => a <= 159)
  <2>1. SecondOctet(y, a) /\ y \in Nat /\ y <= 239
    BY <1>1, SMT
  <2>2. y = 224 => a \in 160 .. 191
    BY <2>1, SMT DEF SecondOctet
  <2>3. y = 237 => a \in 128 .. 159
    BY <2>1, SMT DEF SecondOctet
  <2>4. y # 224 /\ y # 237 => a \in Trail
    BY <2>1, SMT DEF SecondOctet
  <2> QED BY <2>2, <2>3, <2>4, SMT DEF Trail
<1>3. PICK h \in Int : h = LeadingBits(t[k]) /\ h = y - 224
  BY <1>1, Leads, SMT
<1>4. c = h * 4096 + (a - 128) * 64 + (b - 128)
  BY <1>3, SMT DEF Gathered
<1>5. PICK m \in Nat, n \in Nat : m = a - 128 /\ n = b - 128 /\ m <= 63 /\ n <= 63
  BY <1>1, <1>2, SMT DEF Trail
<1>6. h \in Nat /\ h <= 15 /\ c = h * 4096 + m * 64 + n
  BY <1>1, <1>3, <1>4, <1>5, SMT
<1>7. c \in Nat /\ 2048 <= c /\ c <= 65535
  BY <1>1, <1>2, <1>3, <1>5, <1>6, SMT
<1>8. Bytes(c) = <<224 + h, 128 + m, 128 + n>>
  <2>1. PICK e \in Nat : e = c /\ 2048 <= e /\ e <= 65535
    BY <1>7, SMT
  <2>2. PICK g \in Nat : g = h
    BY <1>6, SMT
  <2>3. e = g * 4096 + m * 64 + n /\ m <= 63 /\ n <= 63
    BY <1>5, <1>6, <2>1, <2>2, SMT
  <2>4. Quotient(e, 4096) = g
    BY <2>3, SMT DEF Quotient
  <2>5. Quotient(e, 64) = g * 64 + m /\ Quotient(e, 1) = e /\ e % 64 = n
    BY <2>3, SMT DEF Quotient
  <2>6. Sextet(e, 64) = m
    <3>1. PICK q \in Nat : q = g * 64 + m /\ q % 64 = m
      BY <2>3, SMT
    <3> QED BY <2>5, <3>1, SextetOf
  <2>7. Sextet(e, 1) = n
    BY <2>5, SextetOf
  <2>8. Bytes(e) = <<224 + g, 128 + m, 128 + n>>
    BY <2>1, <2>4, <2>6, <2>7, ThreeBytes
  <2> QED BY <2>1, <2>2, <2>8
<1>9. 224 + h = y /\ 128 + m = a /\ 128 + n = b
  BY <1>3, <1>5, SMT
<1>10. ~ IsHighSurrogate(c) /\ ~ IsLowSurrogate(c)
  BY <1>1, <1>2, <1>3, <1>5, <1>6, SMT DEF IsHighSurrogate, IsLowSurrogate
<1> QED
  BY <1>7, <1>8, <1>9, <1>10, SMT

LEMMA CodeBack4 ==
  ASSUME NEW t, Len(t) \in Nat, NEW k \in Nat, NEW y \in Nat, y <= 255, t[k] = y,
         NEW a \in Nat, t[k + 1] = a, NEW b \in Nat, t[k + 2] = b,
         NEW d \in Nat, t[k + 3] = d, CharacterAt(t, k, 4), NEW c, c = Gathered(t, k, 4)
  PROVE  c \in Nat /\ 65536 <= c /\ c <= 1114111 /\ Bytes(c) = <<y, a, b, d>>
<1>1. y \in 240 .. 244 /\ SecondOctet(y, a) /\ b \in Trail /\ d \in Trail
  BY SMT DEF CharacterAt
<1>2. 128 <= a /\ a <= 191 /\ (y = 240 => a >= 144) /\ (y = 244 => a <= 143)
  <2>1. SecondOctet(y, a) /\ y \in Nat /\ y >= 240
    BY <1>1, SMT
  <2>2. y = 240 => a \in 144 .. 191
    BY <2>1, SMT DEF SecondOctet
  <2>3. y = 244 => a \in 128 .. 143
    BY <2>1, SMT DEF SecondOctet
  <2>4. y # 240 /\ y # 244 => a \in Trail
    BY <2>1, SMT DEF SecondOctet
  <2>5. y # 240 /\ y # 244 => a \in 128 .. 191
    BY <2>4, Zenon DEF Trail
  <2> QED BY <2>2, <2>3, <2>5, SMT
<1>3. PICK h \in Int : h = LeadingBits(t[k]) /\ h = y - 240
  BY <1>1, Leads, SMT
<1>4. c = h * 262144 + (a - 128) * 4096 + (b - 128) * 64 + (d - 128)
  BY <1>3, SMT DEF Gathered
<1>5. PICK m \in Nat, n \in Nat, o \in Nat :
        m = a - 128 /\ n = b - 128 /\ o = d - 128 /\ m <= 63 /\ n <= 63 /\ o <= 63
  <2>1. 128 <= b /\ b <= 191 /\ 128 <= d /\ d <= 191
    BY <1>1, SMT DEF Trail
  <2> QED BY <1>2, <2>1, SMT
<1>6. /\ h \in Nat /\ c = h * 262144 + m * 4096 + n * 64 + o
      /\ h <= 4 /\ (h = 0 => m >= 16) /\ (h = 4 => m <= 15)
  <2>1. 240 <= y /\ y <= 244
    BY <1>1, SMT
  <2>2. h \in Nat /\ h <= 4 /\ (h = 0 => y = 240) /\ (h = 4 => y = 244)
    BY <1>3, <2>1, SMT
  <2>3. (h = 0 => m >= 16) /\ (h = 4 => m <= 15)
    BY <1>2, <1>5, <2>2, SMT
  <2> QED BY <1>4, <1>5, <2>2, <2>3, SMT
<1>7. c \in Nat /\ 65536 <= c /\ c <= 1114111
  BY <1>5, <1>6, SMT
<1>8. Bytes(c) = <<240 + h, 128 + m, 128 + n, 128 + o>>
  <2>1. PICK e \in Nat : e = c /\ 65536 <= e
    BY <1>7, SMT
  <2>2. PICK g \in Nat : g = h
    BY <1>6, SMT
  <2>3. e = g * 262144 + m * 4096 + n * 64 + o /\ m <= 63 /\ n <= 63 /\ o <= 63
    BY <1>5, <1>6, <2>1, <2>2, SMT
  <2>4. Quotient(e, 262144) = g
    BY <2>3, SMT DEF Quotient
  <2>5. Quotient(e, 4096) = g * 64 + m
    BY <2>3, SMT DEF Quotient
  <2>6. Sextet(e, 4096) = m
    <3>1. PICK q \in Nat : q = g * 64 + m /\ q % 64 = m
      BY <2>3, SMT
    <3> QED BY <2>5, <3>1, SextetOf
  <2>7. /\ Quotient(e, 64) = (g * 64 + m) * 64 + n
        /\ Quotient(e, 1) = e /\ e % 64 = o
    BY <2>3, SMT DEF Quotient
  <2>8. Sextet(e, 64) = n
    <3>1. PICK q \in Nat : q = (g * 64 + m) * 64 + n /\ q % 64 = n
      BY <2>3, SMT
    <3> QED BY <2>7, <3>1, SextetOf
  <2>9. Sextet(e, 1) = o
    BY <2>7, SextetOf
  <2>10. Bytes(e) = <<240 + g, 128 + m, 128 + n, 128 + o>>
    BY <2>1, <2>4, <2>6, <2>8, <2>9, FourBytes
  <2> QED BY <2>1, <2>2, <2>10
<1>9. 240 + h = y /\ 128 + m = a /\ 128 + n = b /\ 128 + o = d
  BY <1>3, <1>5, SMT
<1> QED
  BY <1>7, <1>8, <1>9

CodeOf(c, t, k, n) ==
  /\ c \in Nat /\ c <= 1114111
  /\ ~ IsHighSurrogate(c) /\ ~ IsLowSurrogate(c)
  /\ n = 1 => c = t[k] /\ c <= 127
  /\ n > 1 => c >= 128
  /\ Bytes(c) = SubSeq(t, k, k + n - 1)

LEMMA CodeBack ==
  ASSUME NEW t \in Seq(Octet), NEW k \in 1 .. Len(t), NEW n \in 1 .. 4,
         CharacterAt(t, k, n), NEW c, c = Gathered(t, k, n)
  PROVE  CodeOf(c, t, k, n)
<1> DEFINE q == SubSeq(t, k, k + n - 1)
<1>1. PICK y \in Nat : y = t[k] /\ y <= 255
  <2>1. t[k] \in Octet
    OBVIOUS
  <2> QED BY <2>1, Octets
<1>2. k + n - 1 <= Len(t) /\ k \in Nat /\ Len(t) \in Nat
  BY <1>1, Shape
<1>3. \A m \in 1 .. n - 1 : t[k + m] \in Nat
  <2>1. \A m \in 1 .. n - 1 : t[k + m] \in Octet
    BY <1>2
  <2> QED BY <2>1, Octets
<1>4. q \in Seq(Octet) /\ Len(q) = n /\ \A m \in 1 .. n : q[m] = t[k + m - 1]
  <2>1. \A m \in k .. k + n - 1 : t[m] \in Octet
    BY <1>2
  <2>2. k \in Int /\ k + n - 1 \in Int /\ k <= k + n - 1 /\ (k + n - 1) - k + 1 = n
    OBVIOUS
  <2> QED BY <2>1, <2>2, SubSeqProperties
<1> HIDE DEF q
<1> DEFINE Goal == /\ c \in Nat /\ c <= 1114111
                   /\ ~ IsHighSurrogate(c) /\ ~ IsLowSurrogate(c)
                   /\ n = 1 => c = t[k] /\ c <= 127
                   /\ n > 1 => c >= 128
                   /\ Bytes(c) = q
<1> SUFFICES Goal
  BY DEF q, CodeOf
<1>5. CASE n = 1
  <2>1. c \in Nat /\ c <= 127 /\ c = y /\ Bytes(c) = <<y>>
    BY <1>1, <1>2, <1>5, CodeBack1
  <2>2. q = <<y>>
    BY <1>1, <1>4, <1>5
  <2>3. ~ IsHighSurrogate(c) /\ ~ IsLowSurrogate(c)
    BY <2>1, SMT DEF IsHighSurrogate, IsLowSurrogate
  <2> QED BY <1>1, <1>5, <2>1, <2>2, <2>3, SMT
<1>6. CASE n = 2
  <2>1. PICK a \in Nat : a = t[k + 1]
    BY <1>3, <1>6, SMT
  <2>2. c \in Nat /\ 128 <= c /\ c <= 2047 /\ Bytes(c) = <<y, a>>
    BY <1>1, <1>2, <1>6, <2>1, CodeBack2
  <2>3. q = <<y, a>>
    BY <1>1, <1>4, <1>6, <2>1
  <2>4. ~ IsHighSurrogate(c) /\ ~ IsLowSurrogate(c)
    BY <2>2, SMT DEF IsHighSurrogate, IsLowSurrogate
  <2> QED BY <1>6, <2>2, <2>3, <2>4, SMT
<1>7. CASE n = 3
  <2>1. PICK a \in Nat, b \in Nat : a = t[k + 1] /\ b = t[k + 2]
    BY <1>3, <1>7, SMT
  <2>2. /\ c \in Nat /\ 128 <= c /\ c <= 65535
        /\ ~ IsHighSurrogate(c) /\ ~ IsLowSurrogate(c)
        /\ Bytes(c) = <<y, a, b>>
    BY <1>1, <1>2, <1>7, <2>1, CodeBack3
  <2>3. q = <<y, a, b>>
    BY <1>1, <1>4, <1>7, <2>1
  <2> QED BY <1>7, <2>2, <2>3, SMT
<1>8. CASE n = 4
  <2>1. PICK a \in Nat, b \in Nat, d \in Nat :
          a = t[k + 1] /\ b = t[k + 2] /\ d = t[k + 3]
    BY <1>3, <1>8, SMT
  <2>2. c \in Nat /\ 65536 <= c /\ c <= 1114111 /\ Bytes(c) = <<y, a, b, d>>
    BY <1>1, <1>2, <1>8, <2>1, CodeBack4
  <2>3. q = <<y, a, b, d>>
    BY <1>1, <1>4, <1>8, <2>1
  <2>4. ~ IsHighSurrogate(c) /\ ~ IsLowSurrogate(c)
    BY <2>2, SMT DEF IsHighSurrogate, IsLowSurrogate
  <2> QED BY <1>8, <2>2, <2>3, <2>4, SMT
<1> QED
  BY <1>5, <1>6, <1>7, <1>8, SMT

-----------------------------------------------------------------------------
(***************************************************************************)
(* No piece is empty, and none spells nothing.                             *)
(***************************************************************************)
LEMMA PieceShape ==
  ASSUME NEW p \in Seq(Octet), NEW c, Piece(p, c)
  PROVE  c \in Seq(Octet) /\ Len(c) \in Nat \ {0} /\ Len(p) \in Nat \ {0}
<1> DEFINE Goal == c \in Seq(Octet) /\ Len(c) \in Nat \ {0} /\ Len(p) \in Nat \ {0}
<1>1. ASSUME NEW u \in Nat, u <= 1114111, ~ IsHighSurrogate(u), ~ IsLowSurrogate(u)
      PROVE  Bytes(u) \in Seq(Octet) /\ Len(Bytes(u)) \in Nat \ {0}
  <2>1. Bytes(u) \in Seq(Octet) /\ IsCharacter(Bytes(u))
    BY <1>1, Encodes
  <2>2. Len(Bytes(u)) \in 1 .. 4
    BY <2>1, Zenon DEF IsCharacter
  <2>3. Len(Bytes(u)) \in Nat \ {0}
    BY <2>2, SMT
  <2> QED BY <2>1, <2>3, Zenon
<1>2. CASE PlainPiece(p, c)
  <2>1. PICK x \in Nat : 32 <= x /\ x <= 127 /\ p = <<x>> /\ c = <<x>>
    BY <1>2, Zenon DEF PlainPiece
  <2>2. x \in Octet
    BY <2>1, SMT DEF Octet
  <2> QED BY <2>1, <2>2, SMT
<1>3. CASE CharacterPiece(p, c)
  <2>1. PICK n \in 2 .. 4 : Len(p) = n /\ c = p
    BY <1>3, Zenon DEF CharacterPiece
  <2> QED BY <2>1, SMT
<1>4. CASE ShortPiece(p, c)
  <2>1. PICK x \in DOMAIN ShortEscape : p = <<Backslash, ShortEscape[x]>> /\ c = <<x>>
    BY <1>4, Zenon DEF ShortPiece
  <2>2. x \in Octet
    BY SMT DEF ShortEscape, Quote, Backslash, Octet
  <2>3. Len(p) = 2
    <3> HIDE DEF ShortEscape
    <3> QED BY <2>1, SMT
  <2>4. <<x>> \in Seq(Octet) /\ Len(<<x>>) = 1
    BY <2>2, SMT
  <2> QED BY <2>1, <2>3, <2>4, SMT
<1>5. CASE UnicodePiece(p, c)
  <2>1. PICK u \in Nat : /\ u <= 65535 /\ ~ IsHighSurrogate(u) /\ ~ IsLowSurrogate(u)
                         /\ p = UnicodeEscape(u) /\ c = Bytes(u)
    BY <1>5, SMT DEF UnicodePiece
  <2>2. u <= 1114111
    BY <2>1, SMT
  <2>3. Bytes(u) \in Seq(Octet) /\ Len(Bytes(u)) \in Nat \ {0}
    BY <1>1, <2>1, <2>2
  <2>4. Len(p) = 6
    BY <2>1, UnicodeEscapes
  <2> QED BY <2>1, <2>3, <2>4, SMT
<1>6. CASE PairPiece(p, c)
  <2>1. PICK u \in Nat : 65536 <= u /\ u <= 1114111 /\ p = PairEscape(u) /\ c = Bytes(u)
    BY <1>6, SMT DEF PairPiece
  <2>2. ~ IsHighSurrogate(u) /\ ~ IsLowSurrogate(u)
    BY <2>1, SMT DEF IsHighSurrogate, IsLowSurrogate
  <2>3. Bytes(u) \in Seq(Octet) /\ Len(Bytes(u)) \in Nat \ {0}
    BY <1>1, <2>1, <2>2
  <2>4. PICK high \in Nat, low \in Nat :
          /\ high = 55232 + (u \div 1024) /\ low = 56320 + (u % 1024)
          /\ high <= 65535 /\ low <= 65535
    BY <2>1, SMT
  <2>5. /\ UnicodeEscape(high) \in Seq(Octet) /\ Len(UnicodeEscape(high)) = 6
        /\ UnicodeEscape(low) \in Seq(Octet) /\ Len(UnicodeEscape(low)) = 6
    BY <2>4, UnicodeEscapes
  <2>6. p = UnicodeEscape(high) \o UnicodeEscape(low)
    BY <2>1, <2>4 DEF PairEscape
  <2>7. Len(p) = 12
    BY <2>5, <2>6, TwoEscapes
  <2> QED BY <2>1, <2>3, <2>7, SMT
<1> QED
  BY <1>2, <1>3, <1>4, <1>5, <1>6, Zenon DEF Piece

(***************************************************************************)
(* A piece more.                                                           *)
(***************************************************************************)
LEMMA LastPart ==
  ASSUME NEW t \in Seq(Octet), NEW p \in Seq(Octet), Len(p) \in Nat \ {0}
  PROVE  SubSeq(t \o p, Len(t) + 1, Len(t) + Len(p)) = p
<1>1. Len(t) \in Nat /\ Len(p) \in Nat /\ Len(p) >= 1
  OBVIOUS
<1>2. Len(t) + 1 \in Len(t) + 1 .. Len(t) + Len(p)
        /\ Len(t) + Len(p) \in Len(t) + 1 .. Len(t) + Len(p)
  BY <1>1, SMT
<1>3. SubSeq(t \o p, Len(t) + 1, Len(t) + Len(p))
        = SubSeq(p, Len(t) + 1 - Len(t), Len(t) + Len(p) - Len(t))
  BY <1>2, SubSeqOfConcat2
<1>4. Len(t) + 1 - Len(t) = 1 /\ Len(t) + Len(p) - Len(t) = Len(p)
  BY <1>1, SMT
<1> QED
  BY <1>3, <1>4, SubSeqFull

LEMMA InnerPart ==
  ASSUME NEW t \in Seq(Octet), NEW p \in Seq(Octet), NEW a \in Nat, NEW m \in Nat \ {0},
         a + m <= Len(t)
  PROVE  SubSeq(t \o p, a + 1, a + m) = SubSeq(t, a + 1, a + m)
<1>1. a + 1 \in 1 .. Len(t) /\ a + m \in 1 .. Len(t)
  OBVIOUS
<1> QED
  BY <1>1, SubSeqOfConcat1

LEMMA Lengthened ==
  ASSUME NEW t \in Seq(Octet), NEW w \in Seq(Octet), NEW B, Breaks(t, w, B),
         NEW p \in Seq(Octet), NEW c, Piece(p, c)
  PROVE  Spells(t \o p, w \o c)
<1>1. c \in Seq(Octet) /\ Len(c) \in Nat \ {0} /\ Len(p) \in Nat \ {0}
  BY PieceShape
<1> DEFINE T == t \o p
           W == w \o c
           C == B \cup {<<Len(T), Len(W)>>}
<1>2. /\ T \in Seq(Octet) /\ Len(T) = Len(t) + Len(p)
      /\ W \in Seq(Octet) /\ Len(W) = Len(w) + Len(c)
  BY <1>1, ConcatProperties
<1>3. SubSeq(T, Len(t) + 1, Len(t) + Len(p)) = p
        /\ SubSeq(W, Len(w) + 1, Len(w) + Len(c)) = c
  BY <1>1, LastPart
<1>4. \A a, m \in Nat : m # 0 /\ a + m <= Len(t)
                          => SubSeq(T, a + 1, a + m) = SubSeq(t, a + 1, a + m)
  BY InnerPart
<1>5. \A a, m \in Nat : m # 0 /\ a + m <= Len(w)
                          => SubSeq(W, a + 1, a + m) = SubSeq(w, a + 1, a + m)
  BY <1>1, InnerPart
<1>6. /\ Len(t) \in Nat /\ Len(w) \in Nat /\ <<0, 0>> \in B
      /\ \A a, b \in Nat : <<a, b>> \in B =>
           /\ a <= Len(t) /\ b <= Len(w)
           /\ \/ a = Len(t) /\ b = Len(w)
              \/ \E m, n \in Nat \ {0} :
                   /\ <<a + m, b + n>> \in B /\ a + m <= Len(t) /\ b + n <= Len(w)
                   /\ Piece(SubSeq(t, a + 1, a + m), SubSeq(w, b + 1, b + n))
  BY Zenon, LenProperties DEF Breaks
<1> HIDE DEF T, W
<1>7. ASSUME NEW a \in Nat, NEW b \in Nat, <<a, b>> \in C
      PROVE  /\ a <= Len(T) /\ b <= Len(W)
             /\ \/ a = Len(T) /\ b = Len(W)
                \/ \E m, n \in Nat \ {0} :
                     /\ <<a + m, b + n>> \in C /\ a + m <= Len(T) /\ b + n <= Len(W)
                     /\ Piece(SubSeq(T, a + 1, a + m), SubSeq(W, b + 1, b + n))
  <2>1. CASE <<a, b>> = <<Len(T), Len(W)>>
    BY <1>1, <1>2, <1>6, <2>1, SMT
  <2>2. CASE <<a, b>> \in B
    <3>1. a <= Len(t) /\ b <= Len(w)
      BY <1>6, <2>2, Zenon
    <3>2. a <= Len(T) /\ b <= Len(W)
      BY <1>1, <1>2, <1>6, <3>1, SMT
    <3>3. CASE a = Len(t) /\ b = Len(w)
      <4>1. Piece(SubSeq(T, a + 1, a + Len(p)), SubSeq(W, b + 1, b + Len(c)))
        BY <1>3, <3>3
      <4>2. a + Len(p) = Len(T) /\ b + Len(c) = Len(W)
        BY <1>2, <3>3
      <4>3. <<a + Len(p), b + Len(c)>> \in C
        BY <4>2
      <4>4. a + Len(p) <= Len(T) /\ b + Len(c) <= Len(W)
        BY <1>2, <4>2, SMT
      <4> QED BY <1>1, <3>2, <4>1, <4>3, <4>4, Zenon
    <3>4. CASE ~ (a = Len(t) /\ b = Len(w))
      <4>1. PICK m \in Nat \ {0}, n \in Nat \ {0} :
              /\ <<a + m, b + n>> \in B /\ a + m <= Len(t) /\ b + n <= Len(w)
              /\ Piece(SubSeq(t, a + 1, a + m), SubSeq(w, b + 1, b + n))
        BY <1>6, <2>2, <3>4, Zenon
      <4>2. /\ SubSeq(T, a + 1, a + m) = SubSeq(t, a + 1, a + m)
            /\ SubSeq(W, b + 1, b + n) = SubSeq(w, b + 1, b + n)
        BY <1>4, <1>5, <4>1
      <4>3. Piece(SubSeq(T, a + 1, a + m), SubSeq(W, b + 1, b + n))
        BY <4>1, <4>2
      <4>4. a + m <= Len(T) /\ b + n <= Len(W)
        BY <1>1, <1>2, <1>6, <4>1, SMT
      <4>5. <<a + m, b + n>> \in C
        BY <4>1
      <4> QED BY <3>2, <4>3, <4>4, <4>5, Zenon
    <3> QED BY <3>3, <3>4, Zenon
  <2> QED BY <1>7, <2>1, <2>2, Zenon
<1>8. <<0, 0>> \in C /\ <<Len(T), Len(W)>> \in C
  BY <1>6
<1>9. Breaks(T, W, C)
  BY <1>7, <1>8, Zenon DEF Breaks
<1> HIDE DEF C
<1>10. Spells(T, W)
  BY <1>2, <1>9, Zenon DEF Spells
<1> QED
  BY <1>10 DEF T, W

-----------------------------------------------------------------------------
(***************************************************************************)
(* What is written for a character is one piece: what was copied of it as  *)
(* it was decoded, and then its escape.                                    *)
(***************************************************************************)
BegunBytes == IF ensure_ascii THEN << >> ELSE SubSeq(s, Begun, i - 1)

LEMMA SameCharacter ==
  ASSUME NEW t \in Seq(Octet), NEW k \in 1 .. Len(t), NEW n \in 1 .. 4,
         CharacterAt(t, k, n), NEW q, q = SubSeq(t, k, k + n - 1)
  PROVE  q \in Seq(Octet) /\ Len(q) = n /\ CharacterAt(q, 1, n)
<1>1. k + n - 1 <= Len(t) /\ k \in Nat /\ n \in Nat \ {0} /\ Len(t) \in Nat
  <2>1. k + n - 1 <= Len(t)
    BY Zenon DEF CharacterAt
  <2> QED BY <2>1
<1>2. q \in Seq(Octet) /\ Len(q) = n
  <2>1. \A m \in k .. k + n - 1 : t[m] \in Octet
    BY <1>1
  <2>2. k \in Int /\ k + n - 1 \in Int /\ k <= k + n - 1 /\ (k + n - 1) - k + 1 = n
    OBVIOUS
  <2> QED BY <2>1, <2>2, SubSeqProperties
<1>3. IsCharacter(q)
  BY <1>1, CharacterRanges
<1>4. 1 \in 1 .. Len(q) /\ 1 + n - 1 <= Len(q) /\ 1 + n - 1 = Len(q)
  BY <1>1, <1>2, SMT
<1>5. IsCharacter(SubSeq(q, 1, 1 + n - 1)) <=> CharacterAt(q, 1, n)
  BY <1>1, <1>2, <1>4, CharacterRanges
<1>6. SubSeq(q, 1, 1 + n - 1) = q
  BY <1>2, <1>4, SubSeqFull
<1> QED
  BY <1>2, <1>3, <1>5, <1>6

LEMMA EscapedPiece ==
  ASSUME TypeOK, DecoderInv, HasByte, Decoded = 0, NEW c, c = DecodedCodepoint
  PROVE  Piece(BegunBytes \o Escaped(c), SubSeq(s, Begun, i))
<1>1. PICK u \in 0 .. 3 : u = undumped_chars
  BY Decodes, Zenon
<1>2. /\ Begun \in 1 .. Len(s) /\ Begun + u = i
      /\ CharacterAt(s, Begun, u + 1) /\ c = Gathered(s, Begun, u + 1)
  <2>1. Decoded # 1
    BY SMT
  <2> QED BY <1>1, <2>1, Decodes, Zenon
<1>3. PICK k \in Nat : k = Begun /\ k + u = i /\ k \in 1 .. Len(s)
  BY <1>2, SMT
<1>4. s \in Seq(Octet) /\ i \in 1 .. Len(s) /\ ensure_ascii \in BOOLEAN /\ u + 1 \in 1 .. 4
  BY DEF TypeOK, HasByte
<1>5. PICK n \in 1 .. 4 : n = u + 1 /\ k + n - 1 = i
  BY <1>3, <1>4, SMT
<1>6. CharacterAt(s, k, n) /\ c = Gathered(s, k, n) /\ k \in 1 .. Len(s)
  BY <1>2, <1>3, <1>5
<1>7. /\ c \in Nat /\ c <= 1114111
      /\ ~ IsHighSurrogate(c) /\ ~ IsLowSurrogate(c)
      /\ n = 1 => c = s[k] /\ c <= 127
      /\ n > 1 => c >= 128
      /\ Bytes(c) = SubSeq(s, k, k + n - 1)
  <2>1. CodeOf(c, s, k, n)
    BY <1>4, <1>6, CodeBack, Zenon
  <2> QED BY <2>1 DEF CodeOf
<1>7a. /\ u = 0 => c = s[k] /\ c <= 127
       /\ u # 0 => c >= 128
  BY <1>5, <1>7, SMT
<1>7b. PICK q \in Seq(Octet) :
         q = SubSeq(s, k, i) /\ Len(q) = n /\ CharacterAt(q, 1, n) /\ Bytes(c) = q
  <2> DEFINE r == SubSeq(s, k, k + n - 1)
  <2>1. r \in Seq(Octet) /\ Len(r) = n /\ CharacterAt(r, 1, n)
    BY <1>4, <1>6, SameCharacter, Zenon
  <2>2. r = SubSeq(s, k, i)
    BY <1>5, Zenon
  <2>3. Bytes(c) = r
    BY <1>7, SMT
  <2> HIDE DEF r
  <2> QED BY <2>1, <2>2, <2>3, Zenon
<1>8. u = 0 \/ ensure_ascii => BegunBytes = << >>
  <2>1. CASE ensure_ascii
    BY <2>1 DEF BegunBytes
  <2>2. CASE u = 0
    <3>1. Begun \in Int /\ i - 1 \in Int /\ i - 1 < Begun
      BY <1>3, <1>4, <2>2
    <3>2. SubSeq(s, Begun, i - 1) = << >>
      BY <3>1, SubSeqEmpty
    <3> QED BY <3>2 DEF BegunBytes
  <2> QED BY <2>1, <2>2
<1>9. Escaped(c) \in Seq(Octet)
  BY <1>7, Escapes
<1>10. u = 0 \/ ensure_ascii => BegunBytes \o Escaped(c) = Escaped(c)
  BY <1>8, <1>9, ConcatEmptySeq
<1>11. CASE c \in DOMAIN ShortEscape
  <2>1. c <= 92
    BY <1>11, SMT DEF ShortEscape, Quote, Backslash
  <2>2. u = 0
    BY <1>7, <1>7a, <2>1, SMT
  <2>3. Escaped(c) = <<Backslash, ShortEscape[c]>>
    BY <1>11, SMT DEF Escaped
  <2>4. q = <<c>>
    <3>1. Bytes(c) = <<c>>
      BY <1>7, <2>1, SMT DEF Bytes
    <3> QED BY <1>7b, <3>1
  <2>5. ShortPiece(Escaped(c), q)
    BY <1>11, <2>3, <2>4, Zenon DEF ShortPiece
  <2> QED BY <1>3, <1>7b, <1>10, <2>2, <2>5 DEF Piece
<1>12. CASE c \notin DOMAIN ShortEscape /\ ~ InHexadecimal(c) /\ u = 0
  <2>1. Escaped(c) = <<s[i]>> /\ c = s[i]
    <3>1. k = i
      BY <1>3, <1>4, <1>12
    <3>2. c = s[i]
      BY <1>7a, <1>12, <3>1, SMT
    <3> QED BY <1>12, <3>2, SMT DEF Escaped
  <2>2. 32 <= c /\ c <= 127
    BY <1>7, <1>7a, <1>12, SMT DEF InHexadecimal
  <2>3. c # 34 /\ c # 92
    BY <1>12, SMT DEF ShortEscape, Quote, Backslash
  <2>4. q = <<c>>
    <3>1. Bytes(c) = <<c>>
      BY <1>7, <2>2, SMT DEF Bytes
    <3> QED BY <1>7b, <3>1
  <2>5. PlainPiece(Escaped(c), q)
    BY <1>7, <2>1, <2>2, <2>3, <2>4, SMT DEF PlainPiece
  <2> QED BY <1>3, <1>7b, <1>10, <1>12, <2>5, Zenon DEF Piece
<1>13. CASE c \notin DOMAIN ShortEscape /\ ~ InHexadecimal(c) /\ u # 0
  <2>1. Escaped(c) = <<s[i]>>
    BY <1>13, SMT DEF Escaped
  <2>2. ~ ensure_ascii
    BY <1>7, <1>7a, <1>13, SMT DEF InHexadecimal
  <2>3. BegunBytes = SubSeq(s, k, i - 1)
    BY <1>3, <2>2 DEF BegunBytes
  <2>4. SubSeq(s, k, i) = SubSeq(s, k, i - 1) \o <<s[i]>>
    <3>1. i \in k .. Len(s)
      BY <1>3, <1>4
    <3> QED BY <1>3, <1>4, <3>1, SubSeqRecursiveSecond
  <2>5. BegunBytes \o Escaped(c) = q
    BY <1>7b, <2>1, <2>3, <2>4
  <2>6. n \in 2 .. 4
    BY <1>5, <1>13, SMT
  <2>7. CharacterPiece(q, q)
    BY <1>7b, <2>6, SMT DEF CharacterPiece
  <2> QED BY <1>3, <1>7b, <2>5, <2>7, Zenon DEF Piece
<1>14. c \notin DOMAIN ShortEscape /\ InHexadecimal(c) => u = 0 \/ ensure_ascii
  BY <1>7, <1>7a, SMT DEF InHexadecimal
<1>15. CASE c \notin DOMAIN ShortEscape /\ InHexadecimal(c) /\ c <= 65535
  <2>1. Escaped(c) = UnicodeEscape(c)
    BY <1>15, SMT DEF Escaped
  <2>2. UnicodePiece(Escaped(c), q)
    BY <1>7, <1>7b, <1>15, <2>1, SMT DEF UnicodePiece
  <2>3. BegunBytes \o Escaped(c) = Escaped(c)
    BY <1>10, <1>14, <1>15
  <2> QED BY <1>3, <1>7b, <2>2, <2>3, Zenon DEF Piece
<1>16. CASE c \notin DOMAIN ShortEscape /\ InHexadecimal(c) /\ ~ (c <= 65535)
  <2>1. Escaped(c) = PairEscape(c)
    BY <1>16, SMT DEF Escaped, PairEscape
  <2>2. PairPiece(Escaped(c), q)
    <3>1. 65536 <= c
      BY <1>7, <1>16, SMT
    <3> QED BY <1>7, <1>7b, <2>1, <3>1, SMT DEF PairPiece
  <2>3. BegunBytes \o Escaped(c) = Escaped(c)
    BY <1>10, <1>14, <1>16
  <2> QED BY <1>3, <1>7b, <2>2, <2>3, Zenon DEF Piece
<1> QED
  BY <1>11, <1>12, <1>13, <1>15, <1>16, SMT

LEMMA ReplacementPiece == \E c : Piece(Replacement, c)
<1>1. CASE ensure_ascii
  <2>1. 65533 \in Nat /\ 65533 <= 65535 /\ ~ IsHighSurrogate(65533) /\ ~ IsLowSurrogate(65533)
    BY SMT DEF IsHighSurrogate, IsLowSurrogate
  <2>2. UnicodePiece(UnicodeEscape(65533), Bytes(65533))
    BY <2>1, SMT DEF UnicodePiece
  <2>3. Replacement = UnicodeEscape(65533)
    BY <1>1 DEF Replacement
  <2> QED BY <2>2, <2>3 DEF Piece
<1>2. CASE ~ ensure_ascii
  <2> DEFINE q == <<239, 191, 189>>
  <2>1. /\ Len(q) = 3 /\ q[1] = 239 /\ q[2] = 191 /\ q[3] = 189
    BY SMT
  <2> HIDE DEF q
  <2>2. SecondOctet(239, 191)
    BY SMT DEF SecondOctet, Trail
  <2>3. CharacterAt(q, 1, 3)
    BY <2>1, <2>2, SMT DEF CharacterAt, Trail
  <2>4. 3 \in 2 .. 4
    BY SMT
  <2>5. CharacterPiece(q, q)
    BY <2>1, <2>3, <2>4, SMT DEF CharacterPiece
  <2>6. Replacement = q
    BY <1>2 DEF Replacement, q
  <2> QED BY <2>5, <2>6, Zenon DEF Piece
<1> QED
  BY <1>1, <1>2

-----------------------------------------------------------------------------
(***************************************************************************)
(* What is accepted spells the string up to the character begun, if the    *)
(* string is UTF-8, and some string in any case; behind it the buffer      *)
(* holds the octets of the character begun.                                *)
(***************************************************************************)
Tells(t, x, text) == \E w : Spells(t, w) /\ (WellFormed(text) => w = x)

Written == output \o AcceptedBytes

WrittenInv ==
  /\ dump = "dumping" =>
       /\ string_buffer = AcceptedBytes \o BegunBytes
       /\ WellFormed(s) => EndsCharacter(s, Begun - 1)
       /\ Tells(Written, SubSeq(s, 1, Begun - 1), s)
  /\ dump = "dumped" => Tells(output, s, s)

LEMMA TellsNothing ==
  ASSUME NEW text
  PROVE  Tells(<< >>, << >>, text)
<1> DEFINE e == << >>
           B == {<<0, 0>>}
<1>1. e \in Seq(Octet) /\ Len(e) = 0
  OBVIOUS
<1> HIDE DEF e
<1>2. \A a, b \in Nat : <<a, b>> \in B => a = 0 /\ b = 0
  BY SMT
<1>3. <<0, 0>> \in B
  OBVIOUS
<1> HIDE DEF B
<1>4. 0 <= 0
  BY SMT
<1>5. Breaks(e, e, B)
  BY <1>1, <1>2, <1>3, <1>4, Zenon DEF Breaks
<1>6. Tells(e, e, text)
  BY <1>1, <1>5, Zenon DEF Spells, Tells
<1> QED
  BY <1>6 DEF e

LEMMA TellsMore ==
  ASSUME NEW t \in Seq(Octet), NEW x, NEW text, Tells(t, x, text),
         NEW p \in Seq(Octet), NEW c, Piece(p, c)
  PROVE  Tells(t \o p, x \o c, text)
<1>1. PICK w : Spells(t, w) /\ (WellFormed(text) => w = x)
  BY Zenon DEF Tells
<1>2. PICK B : w \in Seq(Octet) /\ Breaks(t, w, B)
  BY <1>1, Zenon DEF Spells
<1>3. Spells(t \o p, w \o c)
  BY <1>2, Lengthened
<1>4. WellFormed(text) => w \o c = x \o c
  BY <1>1
<1> QED
  BY <1>3, <1>4, Zenon DEF Tells

LEMMA TellsAnything ==
  ASSUME NEW t, NEW x, NEW y, NEW text, ~ WellFormed(text), Tells(t, x, text)
  PROVE  Tells(t, y, text)
BY Zenon DEF Tells

(***************************************************************************)
(* The cases of dump_escaped.                                              *)
(***************************************************************************)
LEMMA NothingBegun ==
  ASSUME NEW t, NEW k \in Nat
  PROVE  SubSeq(t, k, k - 1) = << >>
<1>1. k \in Int /\ k - 1 \in Int /\ k - 1 < k
  OBVIOUS
<1> QED
  BY <1>1, SubSeqEmpty

LEMMA ThreeParts ==
  ASSUME NEW t \in Seq(Octet), NEW u \in Seq(Octet), NEW v \in Seq(Octet)
  PROVE  (t \o u) \o v = t \o (u \o v)
BY ConcatAssociative

LEMMA WritesCharacter ==
  ASSUME TypeOK, DecoderInv, WrittenInv, AcceptCodepoint
  PROVE  WrittenInv'
<1> DEFINE c == DecodedCodepoint
           p == BegunBytes \o Escaped(c)
           buffer == string_buffer \o Escaped(c)
<1>1. /\ HasByte /\ dump = "dumping" /\ Decoded = 0
      /\ i' = i + 1 /\ undumped_chars' = 0 /\ dump' = dump /\ s' = s
      /\ ensure_ascii' = ensure_ascii
      /\ Flush(buffer) /\ bytes_after_last_accept' = Len(string_buffer')
  BY Zenon DEF AcceptCodepoint, Read, HasByte, UTF8_ACCEPT
<1>2. /\ s \in Seq(Octet) /\ i \in 1 .. Len(s) /\ i \in Nat
      /\ string_buffer \in Seq(Octet) /\ output \in Seq(Octet)
  BY <1>1 DEF TypeOK, HasByte
<1>3. PICK u \in 0 .. 3 : /\ u = undumped_chars
                          /\ Begun \in 1 .. Len(s) /\ Begun + u = i
                          /\ CharacterAt(s, Begun, u + 1)
  BY <1>1, Decodes, Zenon
<1>4. c \in Nat /\ c <= 1114111
  BY <1>1, AcceptedCodepoint
<1>5. Escaped(c) \in Seq(Octet)
  BY <1>1, <1>4, Escapes
<1>6. Piece(p, SubSeq(s, Begun, i))
  BY <1>1, EscapedPiece
<1>7. BegunBytes \in Seq(Octet)
  <2>1. \A m \in Begun .. i - 1 : s[m] \in Octet
    BY <1>2, <1>3
  <2>2. Begun \in Int /\ i - 1 \in Int
    BY <1>2, <1>3
  <2>3. SubSeq(s, Begun, i - 1) \in Seq(Octet)
    BY <2>1, <2>2, SubSeqProperties
  <2> QED BY <2>3 DEF BegunBytes
<1>8. AcceptedBytes \in Seq(Octet)
  BY AcceptedOnly
<1>9. /\ string_buffer = AcceptedBytes \o BegunBytes
      /\ WellFormed(s) => EndsCharacter(s, Begun - 1)
      /\ Tells(Written, SubSeq(s, 1, Begun - 1), s)
  BY <1>1, Zenon DEF WrittenInv
<1>10. p \in Seq(Octet) /\ Written \in Seq(Octet) /\ buffer \in Seq(Octet)
  BY <1>2, <1>5, <1>7, <1>8, ConcatProperties DEF Written
<1>11. buffer = AcceptedBytes \o p
  BY <1>5, <1>7, <1>8, <1>9, ConcatAssociative
<1> HIDE DEF p, buffer, c
<1>12. output \o buffer = Written \o p
  <2>1. (output \o AcceptedBytes) \o p = output \o (AcceptedBytes \o p)
    BY <1>2, <1>8, <1>10, ThreeParts, Zenon
  <2> QED BY <1>11, <2>1 DEF Written
<1>13. /\ string_buffer' \in Seq(Octet) /\ output' \in Seq(Octet)
       /\ output' \o string_buffer' = output \o buffer
  BY <1>1, <1>2, <1>10, Flushes
<1>14. AcceptedBytes' = string_buffer'
  <2>1. AcceptedBytes' = SubSeq(string_buffer', 1, Len(string_buffer'))
    BY <1>1 DEF AcceptedBytes
  <2> QED BY <1>13, <2>1, SubSeqFull
<1>15. Written' = Written \o p
  <2>1. Written' = output' \o string_buffer'
    BY <1>14 DEF Written
  <2> QED BY <1>12, <1>13, <2>1
<1>16. Begun' - 1 = i /\ Begun' = i + 1
  BY <1>1, <1>2 DEF Begun
<1>17. SubSeq(s, 1, Begun - 1) \o SubSeq(s, Begun, i) = SubSeq(s, 1, i)
  <2>1. PICK k \in Nat : k = Begun - 1 /\ k + 1 = Begun
    BY <1>3, SMT
  <2>2. 1 \in 1 .. Len(s) + 1 /\ k \in 1 - 1 .. Len(s) /\ i \in k .. Len(s)
    BY <1>2, <1>3, <2>1, SMT
  <2>3. SubSeq(s, 1, k) \o SubSeq(s, k + 1, i) = SubSeq(s, 1, i)
    BY <1>2, <2>2, ConcatAdjacentSubSeq
  <2> QED BY <2>1, <2>3
<1>18. Tells(Written', SubSeq(s, 1, i), s)
  BY <1>6, <1>9, <1>10, <1>15, <1>17, TellsMore
<1>19. EndsCharacter(s, i)
  <2>1. u + 1 \in 1 .. 4 /\ u + 1 <= i /\ i - (u + 1) + 1 = Begun
    BY <1>2, <1>3, SMT
  <2> QED BY <1>3, <2>1, Zenon DEF EndsCharacter
<1>20. string_buffer' = AcceptedBytes' \o BegunBytes'
  <2>1. SubSeq(s', Begun', i' - 1) = << >>
    <3>1. i' - 1 = Begun' - 1 /\ Begun' \in Nat
      BY <1>1, <1>2, <1>16, SMT
    <3> QED BY <1>1, <3>1, NothingBegun
  <2>2. BegunBytes' = << >>
    BY <2>1 DEF BegunBytes
  <2> QED BY <1>13, <1>14, <2>2, ConcatEmptySeq
<1>21. dump' # "dumped"
  BY <1>1
<1> QED
  BY <1>1, <1>16, <1>18, <1>19, <1>20, <1>21, Zenon DEF WrittenInv

LEMMA WritesBeginning ==
  ASSUME TypeOK, DecoderInv, WrittenInv, Incomplete
  PROVE  WrittenInv'
<1>1. /\ HasByte /\ dump = "dumping"
      /\ i' = i + 1 /\ undumped_chars' = undumped_chars + 1 /\ dump' = dump /\ s' = s
      /\ ensure_ascii' = ensure_ascii /\ output' = output
      /\ bytes_after_last_accept' = bytes_after_last_accept
      /\ string_buffer' = IF ensure_ascii THEN string_buffer
                                          ELSE Append(string_buffer, s[i])
  BY Zenon DEF Incomplete, Read, HasByte
<1>2. /\ s \in Seq(Octet) /\ i \in 1 .. Len(s) /\ i \in Nat /\ s[i] \in Octet
      /\ string_buffer \in Seq(Octet) /\ bytes_after_last_accept \in 0 .. Len(string_buffer)
  BY <1>1 DEF TypeOK, HasByte
<1>3. PICK u \in 0 .. 3 : u = undumped_chars /\ Begun \in 1 .. Len(s) /\ Begun + u = i
  BY <1>1, Decodes, Zenon
<1>4. Begun' = Begun
  BY <1>1, <1>2, <1>3 DEF Begun
<1>5. /\ string_buffer = AcceptedBytes \o BegunBytes
      /\ WellFormed(s) => EndsCharacter(s, Begun - 1)
      /\ Tells(Written, SubSeq(s, 1, Begun - 1), s)
  BY <1>1, Zenon DEF WrittenInv
<1>6. CASE ensure_ascii
  <2>1. AcceptedBytes' = AcceptedBytes /\ BegunBytes' = BegunBytes
    BY <1>1, <1>6 DEF AcceptedBytes, BegunBytes
  <2>2. Written' = Written
    BY <1>1, <2>1 DEF Written
  <2> QED BY <1>1, <1>4, <1>5, <1>6, <2>1, <2>2, Zenon DEF WrittenInv
<1>7. CASE ~ ensure_ascii
  <2>1. string_buffer' = string_buffer \o <<s[i]>>
    BY <1>1, <1>2, <1>7, AppendIsConcat
  <2>2. AcceptedBytes' = AcceptedBytes
    <3>1. PICK n \in 0 .. Len(string_buffer) : n = bytes_after_last_accept
      BY <1>2
    <3>2. AcceptedBytes' = SubSeq(string_buffer \o <<s[i]>>, 1, n)
      BY <1>1, <2>1, <3>1 DEF AcceptedBytes
    <3>3. CASE n = 0
      <4>1. SubSeq(string_buffer \o <<s[i]>>, 1, 0) = << >> /\ SubSeq(string_buffer, 1, 0) = << >>
        BY SubSeqEmpty
      <4> QED BY <3>1, <3>2, <3>3, <4>1 DEF AcceptedBytes
    <3>4. CASE n # 0
      <4>1. 1 \in 1 .. Len(string_buffer) /\ n \in 1 .. Len(string_buffer)
        BY <1>2, <3>1, <3>4
      <4>2. <<s[i]>> \in Seq(Octet)
        BY <1>2
      <4>3. SubSeq(string_buffer \o <<s[i]>>, 1, n) = SubSeq(string_buffer, 1, n)
        BY <1>2, <4>1, <4>2, SubSeqOfConcat1
      <4> QED BY <3>1, <3>2, <4>3 DEF AcceptedBytes
    <3> QED BY <3>3, <3>4
  <2>3. BegunBytes' = BegunBytes \o <<s[i]>>
    <3>1. i' - 1 = i
      BY <1>1, <1>2
    <3>2. BegunBytes' = SubSeq(s, Begun, i) /\ BegunBytes = SubSeq(s, Begun, i - 1)
      BY <1>1, <1>4, <1>7, <3>1 DEF BegunBytes
    <3>3. i \in Begun .. Len(s)
      BY <1>2, <1>3
    <3> QED BY <1>2, <1>3, <3>2, <3>3, SubSeqRecursiveSecond
  <2>4. string_buffer' = AcceptedBytes' \o BegunBytes'
    <3>1. AcceptedBytes \in Seq(Octet) /\ <<s[i]>> \in Seq(Octet)
      BY <1>2, AcceptedOnly
    <3>2. BegunBytes \in Seq(Octet)
      <4>1. \A m \in Begun .. i - 1 : s[m] \in Octet
        BY <1>2, <1>3
      <4>2. Begun \in Int /\ i - 1 \in Int
        BY <1>2, <1>3
      <4>3. SubSeq(s, Begun, i - 1) \in Seq(Octet)
        BY <4>1, <4>2, SubSeqProperties
      <4> QED BY <4>3 DEF BegunBytes
    <3>3. (AcceptedBytes \o BegunBytes) \o <<s[i]>> = AcceptedBytes \o (BegunBytes \o <<s[i]>>)
      BY <3>1, <3>2, ConcatAssociative
    <3> QED BY <1>5, <2>1, <2>2, <2>3, <3>3, Zenon
  <2>5. Written' = Written
    BY <1>1, <2>2 DEF Written
  <2> QED BY <1>1, <1>4, <1>5, <2>4, <2>5, Zenon DEF WrittenInv
<1> QED
  BY <1>6, <1>7

LEMMA WritesNothing ==
  ASSUME TypeOK, DecoderInv, WrittenInv, RejectByte
  PROVE  WrittenInv'
<1>1. dump' = "threw"
  BY Zenon DEF RejectByte
<1> QED
  BY <1>1, Zenon DEF WrittenInv

LEMMA IllFormed ==
  ASSUME TypeOK, DecoderInv, HasByte, Decoded = 1,
         WellFormed(s) => EndsCharacter(s, Begun - 1)
  PROVE  ~ WellFormed(s)
<1>1. Begun \in 1 .. Len(s) /\ \A n \in 1 .. 4 : ~ CharacterAt(s, Begun, n)
  BY Decodes, Zenon
<1>2. s \in Seq(Octet)
  BY DEF TypeOK
<1> QED
  BY <1>1, <1>2, NoneBegins

LEMMA WritesReplacement ==
  ASSUME TypeOK, DecoderInv, WrittenInv, SkipInvalid
  PROVE  WrittenInv'
<1>1. /\ HasByte /\ dump = "dumping" /\ Decoded = 1
      /\ i' = Reread /\ undumped_chars' = 0 /\ dump' = dump /\ s' = s
      /\ ensure_ascii' = ensure_ascii
  BY Zenon DEF SkipInvalid, HasByte, UTF8_REJECT
<1>2. /\ s \in Seq(Octet) /\ i \in Nat /\ i >= 1
      /\ string_buffer \in Seq(Octet) /\ output \in Seq(Octet)
      /\ bytes_after_last_accept \in 0 .. Len(string_buffer)
  BY <1>1 DEF TypeOK, HasByte
<1>3. i' \in Nat /\ Begun' = i'
  BY <1>1, <1>2 DEF Begun, Reread
<1>4. /\ WellFormed(s) => EndsCharacter(s, Begun - 1)
      /\ Tells(Written, SubSeq(s, 1, Begun - 1), s)
  BY <1>1, Zenon DEF WrittenInv
<1>5. ~ WellFormed(s)
  BY <1>1, <1>4, IllFormed
<1>6. BegunBytes' = << >>
  <2>1. SubSeq(s', Begun', i' - 1) = << >>
    BY <1>3, NothingBegun
  <2> QED BY <2>1 DEF BegunBytes
<1>7. AcceptedBytes \in Seq(Octet) /\ Written \in Seq(Octet)
        /\ Len(AcceptedBytes) = bytes_after_last_accept
  BY <1>2, AcceptedOnly, ConcatProperties DEF Written
<1>8. string_buffer' = AcceptedBytes' /\ AcceptedBytes' \in Seq(Octet)
        /\ \E x : Tells(Written', x, s)
  <2>1. CASE error_handler = "replace"
    <3> DEFINE buffer == AcceptedBytes \o Replacement
    <3>1. Flush(buffer) /\ bytes_after_last_accept' = Len(string_buffer')
      BY <2>1, Zenon DEF SkipInvalid
    <3>2. Replacement \in Seq(Octet)
      BY Replacements
    <3>3. buffer \in Seq(Octet)
      BY <1>7, <3>2, ConcatProperties
    <3>4. output \o buffer = Written \o Replacement
      <4>1. (output \o AcceptedBytes) \o Replacement = output \o (AcceptedBytes \o Replacement)
        BY <1>2, <1>7, <3>2, ThreeParts, Zenon
      <4> QED BY <4>1, Zenon DEF Written
    <3> HIDE DEF buffer
    <3>5. /\ string_buffer' \in Seq(Octet) /\ output' \in Seq(Octet)
          /\ output' \o string_buffer' = output \o buffer
      BY <1>2, <3>1, <3>3, Flushes
    <3>6. AcceptedBytes' = string_buffer'
      <4>1. AcceptedBytes' = SubSeq(string_buffer', 1, Len(string_buffer'))
        BY <3>1 DEF AcceptedBytes
      <4> QED BY <3>5, <4>1, SubSeqFull
    <3>7. Written' = Written \o Replacement
      <4>1. Written' = output' \o string_buffer'
        BY <3>6 DEF Written
      <4> QED BY <3>4, <3>5, <4>1
    <3>8. PICK r : Piece(Replacement, r)
      BY ReplacementPiece
    <3>9. Tells(Written \o Replacement, SubSeq(s, 1, Begun - 1) \o r, s)
      BY <1>4, <1>7, <3>2, <3>8, TellsMore
    <3> QED BY <3>5, <3>6, <3>7, <3>9
  <2>2. CASE error_handler # "replace"
    <3>1. /\ string_buffer' = AcceptedBytes /\ output' = output
          /\ bytes_after_last_accept' = bytes_after_last_accept
      BY <2>2, Zenon DEF SkipInvalid
    <3>2. AcceptedBytes' = AcceptedBytes
      <4>1. AcceptedBytes' = SubSeq(AcceptedBytes, 1, Len(AcceptedBytes))
        BY <1>7, <3>1 DEF AcceptedBytes
      <4> QED BY <1>7, <4>1, SubSeqFull
    <3>3. Written' = Written
      BY <3>1, <3>2 DEF Written
    <3> QED BY <1>4, <1>7, <3>1, <3>2, <3>3
  <2> QED BY <2>1, <2>2
<1>9. string_buffer' = AcceptedBytes' \o BegunBytes'
  BY <1>6, <1>8, ConcatEmptySeq
<1>10. Tells(Written', SubSeq(s, 1, Begun' - 1), s)
  BY <1>5, <1>8, TellsAnything
<1>11. dump' # "dumped"
  BY <1>1
<1> QED
  BY <1>1, <1>5, <1>9, <1>10, <1>11, Zenon DEF WrittenInv

LEMMA WritesEnd ==
  ASSUME TypeOK, DecoderInv, WrittenInv, DumpEnds
  PROVE  WrittenInv'
<1>1. /\ dump = "dumping" /\ i = Len(s) + 1 /\ s' = s /\ dump' \in {"dumped", "threw"}
  BY DEF DumpEnds
<1>2. /\ s \in Seq(Octet) /\ Len(s) \in Nat /\ i \in Nat /\ i >= 1
      /\ string_buffer \in Seq(Octet) /\ output \in Seq(Octet)
      /\ undumped_chars \in Nat
  BY <1>1 DEF TypeOK
<1>3. /\ string_buffer = AcceptedBytes \o BegunBytes
      /\ WellFormed(s) => EndsCharacter(s, Begun - 1)
      /\ Tells(Written, SubSeq(s, 1, Begun - 1), s)
  BY <1>1, Zenon DEF WrittenInv
<1>4. undumped_chars < i /\ Beginning(s, Begun, undumped_chars, state)
  BY <1>1, Zenon DEF DecoderInv
<1>5. /\ Begun \in Nat /\ Begun >= 1 /\ Begun + undumped_chars = i
  BY <1>2, <1>4, SMT DEF Begun
<1>6. AcceptedBytes \in Seq(Octet) /\ Written \in Seq(Octet)
  BY <1>2, AcceptedOnly, ConcatProperties DEF Written
<1>7. dump' = "dumped" => Tells(output', s, s)
  <2>1. CASE state = 0
    <3>1. output' = output \o string_buffer
      BY <2>1 DEF DumpEnds, UTF8_ACCEPT
    <3>2. undumped_chars = 0
      BY <1>2, <1>4, <2>1, SMT DEF Beginning
    <3>3. Begun = i /\ Begun - 1 = Len(s)
      BY <1>1, <1>2, <1>5, <3>2, SMT
    <3>4. BegunBytes = << >>
      <4>1. SubSeq(s, Begun, i - 1) = << >>
        BY <1>5, <3>3, NothingBegun
      <4> QED BY <4>1 DEF BegunBytes
    <3>5. output' = Written
      <4>1. string_buffer = AcceptedBytes
        BY <1>3, <1>6, <3>4, ConcatEmptySeq
      <4> QED BY <3>1, <4>1 DEF Written
    <3>6. SubSeq(s, 1, Begun - 1) = s
      BY <1>2, <3>3, SubSeqFull
    <3> QED BY <1>3, <3>5, <3>6
  <2>2. CASE state # 0 /\ error_handler = "strict"
    BY <2>2 DEF DumpEnds, UTF8_ACCEPT
  <2>3. CASE state # 0 /\ error_handler # "strict"
    <3>1. output' = Written \o (IF error_handler = "replace" THEN Replacement ELSE << >>)
      BY <2>3 DEF DumpEnds, UTF8_ACCEPT, Written
    <3>2. undumped_chars > 0
      BY <1>2, <1>4, <2>3, SMT DEF Beginning
    <3>3. Begun \in 1 .. Len(s)
      BY <1>1, <1>2, <1>5, <3>2, SMT
    <3>4. ~ WellFormed(s)
      <4>1. PICK y \in Nat : s[Begun] = y
        <5>1. s[Begun] \in Octet
          BY <1>2, <3>3
        <5> QED BY <5>1, Octets
      <4>2. \A n \in 1 .. 4 : ~ CharacterAt(s, Begun, n)
        BY <1>1, <1>2, <1>4, <1>5, <2>3, <4>1, BegunOnly
      <4> QED BY <1>2, <1>3, <3>3, <4>2, NoneBegins
    <3>5. \E x : Tells(output', x, s)
      <4>1. CASE error_handler = "replace"
        <5>1. PICK r : Piece(Replacement, r)
          BY ReplacementPiece
        <5>2. Replacement \in Seq(Octet)
          BY Replacements
        <5>3. Tells(Written \o Replacement, SubSeq(s, 1, Begun - 1) \o r, s)
          BY <1>3, <1>6, <5>1, <5>2, TellsMore
        <5>4. output' = Written \o Replacement
          BY <3>1, <4>1
        <5> QED BY <5>3, <5>4
      <4>2. CASE error_handler # "replace"
        <5>1. output' = Written
          BY <1>6, <3>1, <4>2, ConcatEmptySeq
        <5> QED BY <1>3, <5>1
      <4> QED BY <4>1, <4>2
    <3> QED BY <3>4, <3>5, TellsAnything
  <2> QED BY <2>1, <2>2, <2>3
<1> QED
  BY <1>1, <1>7 DEF WrittenInv

LEMMA Writes ==
  ASSUME TypeOK, DecoderInv, WrittenInv, DumpStep
  PROVE  WrittenInv'
  BY WritesCharacter, WritesBeginning, WritesNothing, WritesReplacement, WritesEnd
     DEF DumpStep

LEMMA WritingBegins == Fresh => WrittenInv
<1> SUFFICES ASSUME Fresh
             PROVE  WrittenInv
  OBVIOUS
<1>1. /\ output = << >> /\ string_buffer = << >> /\ bytes_after_last_accept = 0
      /\ i = 1 /\ undumped_chars = 0 /\ s \in Seq(Octet) /\ dump # "dumped"
  BY DEF Fresh
<1>2. Begun = 1 /\ Begun - 1 = 0 /\ i - 1 = 0
  BY <1>1, SMT DEF Begun
<1>3. SubSeq(s, 1, 0) = << >> /\ SubSeq(string_buffer, 1, 0) = << >>
  BY SubSeqEmpty
<1>4. AcceptedBytes = << >> /\ BegunBytes = << >>
  BY <1>1, <1>2, <1>3 DEF AcceptedBytes, BegunBytes
<1>5. << >> \o << >> = << >>
  BY ConcatEmptySeq
<1>6. Written = << >> /\ string_buffer = AcceptedBytes \o BegunBytes
  BY <1>1, <1>4, <1>5 DEF Written
<1>7. Tells(Written, SubSeq(s, 1, Begun - 1), s)
  BY <1>2, <1>3, <1>6, TellsNothing
<1>8. EndsCharacter(s, Begun - 1)
  BY <1>2 DEF EndsCharacter
<1> QED
  BY <1>1, <1>6, <1>7, <1>8, Zenon DEF WrittenInv

-----------------------------------------------------------------------------
(***************************************************************************)
(* The scanner, given what was dumped, stands between two pieces of it and *)
(* has what the pieces before it spell; it ends behind the last one.       *)
(***************************************************************************)
Rescans(w, B) ==
  /\ w \in Seq(Octet) /\ Breaks(output, w, B) /\ (WellFormed(s) => w = s)
  /\ \/ /\ token = "scanning"
        /\ <<position - 1, Len(token_buffer)>> \in B
        /\ token_buffer = SubSeq(w, 1, Len(token_buffer))
     \/ /\ token = "value_string"
        /\ position = Len(input) + 1 /\ token_buffer = w

RescanInv ==
  turn = "reparse" =>
    /\ dump = "dumped" /\ input = output \o <<Quote>>
    /\ \E w, B : Rescans(w, B)

LEMMA Rescanned ==
  ASSUME TypeOK, ScanInv, ScanStep, dump = "dumped", input = output \o <<Quote>>,
         UNCHANGED dumpVars, NEW w, NEW B, Rescans(w, B)
  PROVE  Rescans(w, B)'
<1>1. /\ output \in Seq(Octet) /\ input \in Seq(Octet) /\ token_buffer \in Seq(Octet)
      /\ position \in Nat /\ position >= 1
  BY DEF TypeOK, ScanInv
<1>2. s' = s /\ output' = output
  BY Zenon DEF dumpVars
<1>3. token = "scanning"
  BY Zenon DEF ScanStep, ClosingQuote, Unexpected, Plain, MultiByte, ShortEscaped,
               ForbiddenEscape, UnicodeEscaped, SurrogatePair, BrokenUnicode,
               OpensUnicode, Scanning
<1>4. /\ w \in Seq(Octet) /\ Breaks(output, w, B) /\ (WellFormed(s) => w = s)
      /\ <<position - 1, Len(token_buffer)>> \in B
      /\ token_buffer = SubSeq(w, 1, Len(token_buffer))
  BY <1>3, Zenon DEF Rescans
<1>5. PICK a \in Nat, b \in Nat : a = position - 1 /\ b = Len(token_buffer) /\ a + 1 = position
  BY <1>1, SMT
<1>6. /\ Len(input) = Len(output) + 1 /\ Len(output) \in Nat /\ Len(w) \in Nat
      /\ input[Len(output) + 1] = 34
      /\ \A k \in 1 .. Len(output) : input[k] = output[k]
  <2>1. <<Quote>> \in Seq(Octet) /\ Len(<<Quote>>) = 1 /\ <<Quote>>[1] = 34
    BY SMT DEF Quote, Octet
  <2>2. /\ Len(input) = Len(output) + Len(<<Quote>>)
        /\ \A k \in 1 .. Len(output) + Len(<<Quote>>) :
             input[k] = IF k <= Len(output) THEN output[k] ELSE <<Quote>>[k - Len(output)]
    BY <1>1, <2>1, ConcatProperties
  <2>3. Len(output) \in Nat /\ Len(w) \in Nat
    BY <1>1, <1>4
  <2>4. \A k \in 1 .. Len(output) + 1 :
          input[k] = IF k <= Len(output) THEN output[k] ELSE <<Quote>>[k - Len(output)]
    BY <2>1, <2>2
  <2>5. \A k \in 1 .. Len(output) : input[k] = output[k]
    BY <2>3, <2>4
  <2>6. input[Len(output) + 1] = <<Quote>>[Len(output) + 1 - Len(output)]
    BY <2>3, <2>4
  <2>7. Len(output) + 1 - Len(output) = 1
    BY <2>3
  <2> QED BY <2>1, <2>2, <2>3, <2>5, <2>6, <2>7
<1>7. <<a, b>> \in B /\ token_buffer = SubSeq(w, 1, b)
  BY <1>4, <1>5
<1>8. /\ a <= Len(output) /\ b <= Len(w)
      /\ \/ a = Len(output) /\ b = Len(w)
         \/ \E m, n \in Nat \ {0} :
              /\ <<a + m, b + n>> \in B /\ a + m <= Len(output) /\ b + n <= Len(w)
              /\ Piece(SubSeq(output, a + 1, a + m), SubSeq(w, b + 1, b + n))
  BY <1>4, <1>7, Zenon DEF Breaks
<1>9. CASE a = Len(output) /\ b = Len(w)
  <2>1. Current = 34 /\ 34 \in Nat
    <3>1. position = Len(output) + 1 /\ position <= Len(input)
      BY <1>5, <1>6, <1>9, SMT
    <3>2. Current = input[position]
      BY <3>1, Zenon DEF Current, At
    <3> QED BY <1>6, <3>1, <3>2
  <2>2. ClosingQuote
    BY <2>1, Turns
  <2>3. /\ token' = "value_string" /\ position' = position + 1
        /\ input' = input /\ token_buffer' = token_buffer
    BY <2>2, Zenon DEF ClosingQuote
  <2>4. position' = Len(input') + 1
    BY <1>1, <1>5, <1>6, <1>9, <2>3, SMT
  <2>5. token_buffer' = w
    BY <1>4, <1>7, <1>9, <2>3, SubSeqFull
  <2> QED BY <1>2, <1>4, <2>3, <2>4, <2>5, Zenon DEF Rescans
<1>10. ASSUME NEW m \in Nat \ {0}, NEW n \in Nat \ {0},
              <<a + m, b + n>> \in B, a + m <= Len(output), b + n <= Len(w),
              Piece(SubSeq(output, a + 1, a + m), SubSeq(w, b + 1, b + n))
       PROVE  Rescans(w, B)'
  <2> DEFINE p == SubSeq(output, a + 1, a + m)
             c == SubSeq(w, b + 1, b + n)
  <2>1. p \in Seq(Octet) /\ Len(p) = m /\ \A k \in 1 .. m : p[k] = output[a + k]
    <3>1. \A k \in a + 1 .. a + m : output[k] \in Octet
      BY <1>1, <1>6, <1>10
    <3>2. a + 1 \in Int /\ a + m \in Int /\ a + 1 <= a + m /\ (a + m) - (a + 1) + 1 = m
      BY SMT
    <3>3. /\ p \in Seq(Octet) /\ Len(p) = m
          /\ \A k \in 1 .. m : p[k] = output[(a + 1) + k - 1]
      BY <3>1, <3>2, SubSeqProperties
    <3>4. \A k \in 1 .. m : (a + 1) + k - 1 = a + k
      BY SMT
    <3> QED BY <3>3, <3>4
  <2>2. c \in Seq(Octet) /\ Len(c) = n
    <3>1. \A k \in b + 1 .. b + n : w[k] \in Octet
      BY <1>4, <1>6, <1>10
    <3>2. b + 1 \in Int /\ b + n \in Int /\ b + 1 <= b + n /\ (b + n) - (b + 1) + 1 = n
      BY SMT
    <3> QED BY <3>1, <3>2, SubSeqProperties
  <2>3. SubSeq(w, 1, b) \o c = SubSeq(w, 1, b + n)
    <3>1. 1 \in 1 .. Len(w) + 1 /\ b \in 1 - 1 .. Len(w) /\ b + n \in b .. Len(w)
      BY <1>6, <1>8, <1>10, SMT
    <3> QED BY <1>4, <3>1, ConcatAdjacentSubSeq
  <2>4. Piece(p, c)
    BY <1>10
  <2> HIDE DEF p, c
  <2>5. Ahead(p)
    <3>1. position + Len(p) - 1 <= Len(input) /\ Len(p) >= 1
      BY <1>5, <1>6, <1>10, <2>1, SMT
    <3>2. ASSUME NEW k \in 1 .. m
          PROVE  input[position + k - 1] = p[k]
      <4>1. position + k - 1 = a + k /\ a + k \in 1 .. Len(output)
        BY <1>5, <1>6, <1>10, SMT
      <4> QED BY <1>6, <2>1, <4>1
    <3> QED BY <2>1, <3>1, <3>2 DEF Ahead
  <2>6. Accept(c, Len(p))
    BY <1>1, <2>4, <2>5, PieceRead
  <2>7. /\ token_buffer' = token_buffer \o c /\ position' = position + m
        /\ input' = input /\ token' = token
    BY <2>1, <2>6, Zenon DEF Accept
  <2>8. token_buffer' = SubSeq(w, 1, b + n)
    BY <1>7, <2>3, <2>7
  <2>9. Len(token_buffer') = b + n
    <3>1. Len(token_buffer \o c) = Len(token_buffer) + Len(c)
      BY <1>1, <2>2, ConcatProperties
    <3> QED BY <1>5, <2>2, <2>7, <3>1
  <2>10. position' - 1 = a + m
    BY <1>5, <2>7, SMT
  <2>11. <<position' - 1, Len(token_buffer')>> \in B
    BY <1>10, <2>9, <2>10
  <2>12. token_buffer' = SubSeq(w, 1, Len(token_buffer'))
    BY <2>8, <2>9
  <2>13. token' = "scanning"
    BY <1>3, <2>7
  <2> QED BY <1>2, <1>4, <2>11, <2>12, <2>13, Zenon DEF Rescans
<1> QED
  BY <1>8, <1>9, <1>10, Zenon

LEMMA RescanBegins ==
  ASSUME TypeOK, WrittenInv, Reparse
  PROVE  RescanInv'
<1>1. /\ UNCHANGED dumpVars /\ dump = "dumped" /\ input' = output \o <<Quote>>
      /\ position' = 1 /\ token_buffer' = << >> /\ token' = "scanning"
  BY Zenon DEF Reparse, ScanString
<1>2. s' = s /\ output' = output /\ dump' = dump
  BY <1>1, Zenon DEF dumpVars
<1>3. PICK w, B : w \in Seq(Octet) /\ Breaks(output, w, B) /\ (WellFormed(s) => w = s)
  BY <1>1, Zenon DEF WrittenInv, Tells, Spells
<1>4. <<0, 0>> \in B
  BY <1>3, Zenon DEF Breaks
<1>5. position' - 1 = 0 /\ Len(token_buffer') = 0
  BY <1>1
<1>6. token_buffer' = SubSeq(w, 1, 0)
  BY <1>1, SubSeqEmpty
<1>7. Rescans(w, B)'
  BY <1>1, <1>2, <1>3, <1>4, <1>5, <1>6 DEF Rescans
<1> QED
  BY <1>1, <1>2, <1>7, Zenon DEF RescanInv

BackInv == WrittenInv /\ RescanInv

LEMMA BackInit == Init => BackInv
<1> SUFFICES ASSUME Init
             PROVE  BackInv
  OBVIOUS
<1>1. << >> \in Seq(Octet)
  OBVIOUS
<1>2. s \in Seq(Octet) /\ ensure_ascii \in BOOLEAN /\ error_handler \in Handlers
        /\ dump \in {"idle", "dumping"}
  BY <1>1, StringAssumption DEF Init, DumpInit, Handlers
<1>3. Fresh
  BY <1>2 DEF Init, DumpInit, Fresh, UTF8_ACCEPT
<1>4. turn # "reparse"
  BY DEF Init
<1> QED
  BY <1>3, <1>4, WritingBegins DEF BackInv, RescanInv

LEMMA BackNext == Inv /\ BackInv /\ [Next]_vars => BackInv'
<1> SUFFICES ASSUME Inv, WrittenInv, RescanInv, [Next]_vars
             PROVE  WrittenInv' /\ RescanInv'
  BY DEF BackInv
<1>1. TypeOK /\ DecoderInv /\ ScanInv
  BY Zenon DEF Inv
<1>2. ASSUME UNCHANGED dumpVars
      PROVE  WrittenInv'
  <2>1. /\ s' = s /\ ensure_ascii' = ensure_ascii /\ i' = i
        /\ string_buffer' = string_buffer
        /\ bytes_after_last_accept' = bytes_after_last_accept
        /\ undumped_chars' = undumped_chars /\ output' = output /\ dump' = dump
    BY <1>2, Zenon DEF dumpVars
  <2>2. AcceptedBytes' = AcceptedBytes /\ Begun' = Begun
    BY <2>1, Zenon DEF AcceptedBytes, Begun
  <2>3. BegunBytes' = BegunBytes /\ Written' = Written
    BY <2>1, <2>2, Zenon DEF BegunBytes, Written
  <2> QED BY <2>1, <2>2, <2>3, Zenon DEF WrittenInv
<1>3. CASE Parse
  <2>1. ScanStep /\ UNCHANGED dumpVars /\ turn' = turn
    BY <1>3, Zenon DEF Parse
  <2>2. CASE turn = "reparse"
    <3>1. PICK w, B : Rescans(w, B)
      BY <2>2, Zenon DEF RescanInv
    <3>2. dump = "dumped" /\ input = output \o <<Quote>>
      BY <2>2, Zenon DEF RescanInv
    <3>3. Rescans(w, B)'
      BY <1>1, <2>1, <3>1, <3>2, Rescanned
    <3>4. input' = input
      BY <1>1, <2>1, Scans
    <3>5. dump' = dump /\ output' = output
      BY <2>1, Zenon DEF dumpVars
    <3> QED BY <1>2, <2>1, <3>2, <3>3, <3>4, <3>5, Zenon DEF RescanInv
  <2>3. CASE turn # "reparse"
    BY <1>2, <2>1, <2>3, Zenon DEF RescanInv
  <2> QED BY <2>2, <2>3, Zenon
<1>4. CASE DumpParsed
  <2>1. /\ turn' = "dump"
        /\ \E ascii \in BOOLEAN, handler \in Handlers :
             DumpString(token_buffer, ascii, handler)
    BY <1>4, Zenon DEF DumpParsed
  <2>2. token_buffer \in Seq(Octet)
    BY <1>1, Zenon DEF TypeOK
  <2>3. Fresh'
    BY <2>1, <2>2, Zenon DEF DumpString, Fresh, UTF8_ACCEPT
  <2>4. WrittenInv'
    BY <2>3, WritingBegins, PTL
  <2>5. turn' # "reparse"
    BY <2>1
  <2> QED BY <2>4, <2>5, Zenon DEF RescanInv
<1>5. CASE Dump
  <2>1. DumpStep /\ turn = "dump" /\ turn' = turn
    BY <1>5, Zenon DEF Dump
  <2>2. WrittenInv'
    BY <1>1, <2>1, Writes
  <2>3. turn' # "reparse"
    BY <2>1
  <2> QED BY <2>2, <2>3, Zenon DEF RescanInv
<1>6. CASE Reparse
  <2>1. UNCHANGED dumpVars
    BY <1>6, Zenon DEF Reparse
  <2> QED BY <1>1, <1>2, <1>6, <2>1, RescanBegins
<1>7. CASE UNCHANGED vars
  <2>1. UNCHANGED dumpVars /\ UNCHANGED scanVars /\ turn' = turn
    BY <1>7, Zenon DEF vars
  <2>2. /\ s' = s /\ output' = output /\ dump' = dump /\ input' = input
        /\ position' = position /\ token_buffer' = token_buffer /\ token' = token
    BY <2>1, Zenon DEF dumpVars, scanVars
  <2>3. RescanInv'
    BY <2>1, <2>2, Zenon DEF RescanInv, Rescans
  <2> QED BY <1>2, <2>1, <2>3
<1> QED
  BY <1>3, <1>4, <1>5, <1>6, <1>7, Zenon DEF Next

(***************************************************************************)
(* Whatever was dumped, with any error handler, escaped to ASCII or not,   *)
(* and wherever string_buffer was flushed, is scanned without an error to  *)
(* the quote behind it, and is the string that was dumped if that was      *)
(* UTF-8: what readMessage writes serializeMessage reads back.             *)
(***************************************************************************)
THEOREM DumpedComesBack == Spec => []ComesBack
<1>1. BackInv => ComesBack
  BY Zenon DEF BackInv, RescanInv, Rescans, ComesBack
<1> QED
  BY <1>1, InvInit, InvNext, BackInit, BackNext, PTL DEF Spec
=============================================================================
