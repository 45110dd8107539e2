------------------------- MODULE JsonNumberTheorems -------------------------
(***************************************************************************)
(* scan_number accepts the numbers of the grammar and no others, for texts *)
(* of every length, and dump_integer's digits come back.                   *)
(*                                                                         *)
(* A label of scan_number stands for a form that what was read has.  The   *)
(* grammar defines the forms of a whole text; what a character behind it   *)
(* makes of them is what the gotos do.                                     *)
(***************************************************************************)
EXTENDS JsonNumber, SequenceTheorems, WellFoundedInduction, TLAPS

\* Of any text.
Character == STRING \cup Digit \cup {"-", Undefined}

Zero(u)     == u = <<"0">>
Whole(u)    == AreDigits(u) /\ u[1] # "0"
Pointed(u)  == u # << >> /\ u[Len(u)] = "." /\ IsInteger(Part(u, 1, Len(u) - 1))
Fraction(u) == \E k \in DOMAIN u : /\ u[k] = "."
                                   /\ IsInteger(Part(u, 1, k - 1))
                                   /\ AreDigits(Part(u, k + 1, Len(u)))
Powered(u)  == u # << >> /\ u[Len(u)] \in {"e", "E"} /\ IsDecimal(Part(u, 1, Len(u) - 1))
Signed(u)   == /\ Len(u) > 1 /\ u[Len(u)] \in {"+", "-"} /\ u[Len(u) - 1] \in {"e", "E"}
               /\ IsDecimal(Part(u, 1, Len(u) - 2))
Raised(u)   == \E k \in DOMAIN u : /\ u[k] \in {"e", "E"}
                                   /\ IsDecimal(Part(u, 1, k - 1))
                                   /\ AreDigits(WithoutSign(Part(u, k + 1, Len(u))))

LEMMA DigitsAre == Digit = {"0", "1", "2", "3", "4", "5", "6", "7", "8", "9"}
<1>1. \A d \in 1 .. 10 : Digits[d] \in {"0", "1", "2", "3", "4", "5", "6", "7", "8", "9"}
  BY DEF Digits
<1>2. ASSUME NEW c \in {"0", "1", "2", "3", "4", "5", "6", "7", "8", "9"}
      PROVE  \E d \in 1 .. 10 : Digits[d] = c
  <2>1. /\ Digits[1] = "0" /\ Digits[2] = "1" /\ Digits[3] = "2" /\ Digits[4] = "3"
        /\ Digits[5] = "4" /\ Digits[6] = "5" /\ Digits[7] = "6" /\ Digits[8] = "7"
        /\ Digits[9] = "8" /\ Digits[10] = "9"
    BY DEF Digits
  <2> QED BY <2>1
<1> QED
  BY <1>1, <1>2 DEF Digit

(***************************************************************************)
(* Texts with one more character.                                          *)
(***************************************************************************)
LEMMA OneMore ==
  ASSUME NEW u \in Seq(Character), NEW c \in Character
  PROVE  LET w == Append(u, c)  n == Len(u)
         IN  /\ w \in Seq(Character) /\ w # << >> /\ n \in Nat /\ Len(w) = n + 1
             /\ DOMAIN w = 1 .. n + 1 /\ DOMAIN u = 1 .. n
             /\ w[n + 1] = c /\ \A k \in 1 .. n : w[k] = u[k]
             /\ Part(w, 1, n) = u
             /\ \A k \in 1 .. n + 1 : Part(w, 1, k - 1) = Part(u, 1, k - 1)
             /\ \A k \in 1 .. n : Part(w, k + 1, n + 1) = Append(Part(u, k + 1, n), c)
             /\ Part(w, n + 2, n + 1) = << >>
<1> DEFINE w == Append(u, c)
<1>1. PICK n \in Nat : n = Len(u)
  OBVIOUS
<1>2. /\ w \in Seq(Character) /\ w # << >> /\ Len(w) = n + 1 /\ w[n + 1] = c
      /\ \A k \in 1 .. n : w[k] = u[k]
      /\ DOMAIN w = 1 .. n + 1 /\ DOMAIN u = 1 .. n
  BY <1>1, AppendProperties
<1> HIDE DEF w
<1>3. ASSUME NEW k \in 0 .. n
      PROVE  Part(w, 1, k) = Part(u, 1, k)
  <2>1. /\ SubSeq(w, 1, k) \in Seq(Character) /\ Len(SubSeq(w, 1, k)) = k
        /\ \A i \in 1 .. k : SubSeq(w, 1, k)[i] = w[i]
    BY <1>2
  <2>2. /\ SubSeq(u, 1, k) \in Seq(Character) /\ Len(SubSeq(u, 1, k)) = k
        /\ \A i \in 1 .. k : SubSeq(u, 1, k)[i] = u[i]
    BY <1>1, <1>2
  <2>3. \A i \in 1 .. k : SubSeq(w, 1, k)[i] = SubSeq(u, 1, k)[i]
    BY <1>2, <2>1, <2>2
  <2> QED BY <2>1, <2>2, <2>3, SeqEqual DEF Part
<1>4. Part(w, 1, n) = u
  <2>1. SubSeq(u, 1, n) = u
    BY <1>1, SubSeqFull
  <2> QED BY <1>3, <2>1 DEF Part
<1>5. \A k \in 1 .. n + 1 : Part(w, 1, k - 1) = Part(u, 1, k - 1)
  BY <1>3
<1>6. ASSUME NEW k \in 1 .. n
      PROVE  Part(w, k + 1, n + 1) = Append(Part(u, k + 1, n), c)
  <2> DEFINE p == SubSeq(w, k + 1, n + 1)
             q == SubSeq(u, k + 1, n)
  <2>1. /\ p \in Seq(Character) /\ Len(p) = n + 1 - k
        /\ \A i \in 1 .. n + 1 - k : p[i] = w[k + i]
    <3>1. \A i \in k + 1 .. n + 1 : w[i] \in Character
      BY <1>2
    <3> QED BY <1>2, <3>1, SubSeqProperties
  <2>2. /\ q \in Seq(Character) /\ Len(q) = n - k
        /\ \A i \in 1 .. n - k : q[i] = u[k + i]
    <3>1. \A i \in k + 1 .. n : u[i] \in Character
      BY <1>1, <1>2
    <3> QED BY <1>1, <1>2, <3>1, SubSeqProperties
  <2> HIDE DEF p, q
  <2>3. /\ Append(q, c) \in Seq(Character) /\ Len(Append(q, c)) = n - k + 1
        /\ Append(q, c)[n - k + 1] = c
        /\ \A i \in 1 .. n - k : Append(q, c)[i] = q[i]
    BY <2>2, AppendProperties
  <2>4. ASSUME NEW i \in 1 .. n + 1 - k
        PROVE  p[i] = Append(q, c)[i]
    <3>1. CASE i \in 1 .. n - k
      <4>1. k + i \in 1 .. n
        BY <3>1
      <4> QED BY <1>2, <2>1, <2>2, <2>3, <3>1, <4>1
    <3>2. CASE i = n - k + 1
      <4>1. k + i = n + 1
        BY <3>2
      <4> QED BY <1>2, <2>1, <2>3, <3>2, <4>1
    <3>3. i \in 1 .. n - k \/ i = n - k + 1
      OBVIOUS
    <3> QED BY <3>1, <3>2, <3>3
  <2>5. p = Append(q, c)
    BY <2>1, <2>3, <2>4, SeqEqual
  <2> QED BY <2>5 DEF p, q, Part
<1>7. Part(w, n + 2, n + 1) = << >>
  BY <1>2, SubSeqEmpty DEF Part
<1> QED
  BY <1>1, <1>2, <1>4, <1>5, <1>6, <1>7 DEF w

LEMMA OnlyOne ==
  ASSUME NEW v \in Seq(Character), NEW a
  PROVE  v = <<a>> <=> Len(v) = 1 /\ v[1] = a
<1>1. ASSUME Len(v) = 1, v[1] = a
      PROVE  v = <<a>>
  <2>1. a \in Character
    BY <1>1
  <2>2. <<a>> \in Seq(Character) /\ Len(<<a>>) = 1 /\ <<a>>[1] = a
    BY <2>1
  <2> QED BY <1>1, <2>2, SeqEqual
<1>2. Len(<<a>>) = 1 /\ <<a>>[1] = a
  OBVIOUS
<1> QED BY <1>1, <1>2

LEMMA PartType ==
  ASSUME NEW u \in Seq(Character), NEW k \in 1 .. Len(u)
  PROVE  /\ Part(u, k + 1, Len(u)) \in Seq(Character)
         /\ Len(Part(u, k + 1, Len(u))) = Len(u) - k
         /\ k < Len(u) => Part(u, k + 1, Len(u))[1] = u[k + 1]
         /\ Part(u, k + 1, Len(u)) = << >> <=> k = Len(u)
         /\ Part(u, 1, k - 1) \in Seq(Character)
<1>1. PICK n \in Nat : n = Len(u)
  OBVIOUS
<1>2. \A i \in 1 .. n : u[i] \in Character
  BY <1>1
<1>3. /\ SubSeq(u, k + 1, n) \in Seq(Character) /\ Len(SubSeq(u, k + 1, n)) = n - k
      /\ \A i \in 1 .. n - k : SubSeq(u, k + 1, n)[i] = u[k + i]
  BY <1>1, <1>2, SubSeqProperties
<1>4. SubSeq(u, 1, k - 1) \in Seq(Character)
  BY <1>1, <1>2, SubSeqProperties
<1>5. SubSeq(u, k + 1, n) = << >> <=> n - k = 0
  BY <1>3, EmptySeq
<1>6. k < n => SubSeq(u, k + 1, n)[1] = u[k + 1]
  BY <1>1, <1>3
<1> QED
  BY <1>1, <1>3, <1>4, <1>5, <1>6 DEF Part

-----------------------------------------------------------------------------
(***************************************************************************)
(* What one more character makes of each form.                             *)
(***************************************************************************)
LEMMA MoreDigits ==
  ASSUME NEW u \in Seq(Character), NEW c \in Character
  PROVE  /\ AreDigits(Append(u, c)) <=> c \in Digit /\ (u = << >> \/ AreDigits(u))
         /\ Zero(Append(u, c)) <=> u = << >> /\ c = "0"
         /\ Whole(Append(u, c)) <=> c \in Digit /\ ((u = << >> /\ c # "0") \/ Whole(u))
         /\ IsInteger(u) <=> Zero(u) \/ Whole(u)
<1> DEFINE w == Append(u, c)
<1>1. PICK n \in Nat : n = Len(u)
  OBVIOUS
<1>2. /\ w \in Seq(Character) /\ w # << >> /\ Len(w) = n + 1
      /\ DOMAIN w = 1 .. n + 1 /\ DOMAIN u = 1 .. n
      /\ w[n + 1] = c /\ \A k \in 1 .. n : w[k] = u[k]
  BY <1>1, OneMore
<1> HIDE DEF w
<1>3. u = << >> <=> n = 0
  BY <1>1, EmptySeq
<1>4. AreDigits(w) <=> c \in Digit /\ (u = << >> \/ AreDigits(u))
  <2>1. AreDigits(w) <=> \A k \in 1 .. n + 1 : w[k] \in Digit
    BY <1>2 DEF AreDigits
  <2>2. u = << >> \/ AreDigits(u) <=> \A k \in 1 .. n : u[k] \in Digit
    BY <1>2, <1>3 DEF AreDigits
  <2>3. (\A k \in 1 .. n + 1 : w[k] \in Digit)
          <=> w[n + 1] \in Digit /\ \A k \in 1 .. n : w[k] \in Digit
    BY <1>1
  <2>4. (\A k \in 1 .. n : w[k] \in Digit) <=> \A k \in 1 .. n : u[k] \in Digit
    BY <1>2
  <2> QED BY <1>2, <2>1, <2>2, <2>3, <2>4, Zenon
<1>5. ASSUME NEW v \in Seq(Character)
      PROVE  Zero(v) <=> Len(v) = 1 /\ v[1] = "0"
  BY OnlyOne DEF Zero
<1>6. Zero(w) <=> u = << >> /\ c = "0"
  <2>1. Zero(w) <=> n + 1 = 1 /\ w[1] = "0"
    BY <1>2, <1>5
  <2>2. n = 0 => w[1] = c
    BY <1>2
  <2> QED BY <1>3, <2>1, <2>2
<1>7. Whole(w) <=> c \in Digit /\ ((u = << >> /\ c # "0") \/ Whole(u))
  <2>1. CASE u = << >>
    <3>1. w[1] = c
      BY <1>2, <1>3, <2>1
    <3>2. ~ Whole(u)
      BY <2>1 DEF Whole, AreDigits
    <3> QED BY <1>4, <2>1, <3>1, <3>2, Zenon DEF Whole
  <2>2. CASE u # << >>
    <3>1. w[1] = u[1]
      BY <1>2, <1>3, <2>2
    <3> QED BY <1>4, <2>2, <3>1, Zenon DEF Whole
  <2> QED BY <2>1, <2>2
<1>8. IsInteger(u) <=> Zero(u) \/ Whole(u)
  <2>1. IsInteger(u) <=> AreDigits(u) /\ (u[1] = "0" => n = 1)
    BY <1>1 DEF IsInteger
  <2>2. Zero(u) <=> n = 1 /\ u[1] = "0"
    BY <1>1, <1>5
  <2>3. Zero(u) => AreDigits(u)
    BY DigitsAre DEF Zero, AreDigits
  <2> QED BY <2>1, <2>2, <2>3 DEF Whole
<1> QED
  BY <1>4, <1>6, <1>7, <1>8 DEF w

LEMMA MoreDecimal ==
  ASSUME NEW u \in Seq(Character), NEW c \in Character
  PROVE  /\ Pointed(Append(u, c)) <=> c = "." /\ IsInteger(u)
         /\ Fraction(Append(u, c)) <=> c \in Digit /\ (Pointed(u) \/ Fraction(u))
         /\ IsDecimal(u) <=> Zero(u) \/ Whole(u) \/ Fraction(u)
<1> DEFINE w == Append(u, c)
<1>1. PICK n \in Nat : n = Len(u)
  OBVIOUS
<1>2. /\ w \in Seq(Character) /\ w # << >> /\ Len(w) = n + 1
      /\ DOMAIN w = 1 .. n + 1 /\ DOMAIN u = 1 .. n
      /\ w[n + 1] = c /\ \A k \in 1 .. n : w[k] = u[k]
      /\ Part(w, 1, n) = u
      /\ \A k \in 1 .. n + 1 : Part(w, 1, k - 1) = Part(u, 1, k - 1)
      /\ \A k \in 1 .. n : Part(w, k + 1, n + 1) = Append(Part(u, k + 1, n), c)
      /\ Part(w, n + 2, n + 1) = << >>
  BY <1>1, OneMore
<1> HIDE DEF w
<1>3. Pointed(w) <=> c = "." /\ IsInteger(u)
  <2>1. (n + 1) - 1 = n
    OBVIOUS
  <2> QED BY <1>2, <2>1 DEF Pointed
<1>4. ASSUME NEW k \in 1 .. n
      PROVE  AreDigits(Part(w, k + 1, n + 1))
               <=> c \in Digit /\ (k = n \/ AreDigits(Part(u, k + 1, n)))
  <2>1. /\ Part(u, k + 1, n) \in Seq(Character)
        /\ Part(u, k + 1, n) = << >> <=> k = n
    BY <1>1, PartType
  <2>2. AreDigits(Append(Part(u, k + 1, n), c))
          <=> c \in Digit /\ (Part(u, k + 1, n) = << >> \/ AreDigits(Part(u, k + 1, n)))
    BY <2>1, MoreDigits
  <2> QED BY <1>2, <2>1, <2>2
<1> DEFINE F(k) == u[k] = "." /\ IsInteger(Part(u, 1, k - 1))
<1>5. Pointed(u) <=> n # 0 /\ F(n)
  <2>1. u # << >> <=> n # 0
    BY <1>1, EmptySeq
  <2> QED BY <1>1, <2>1 DEF Pointed
<1>6. Fraction(u) <=> \E k \in 1 .. n : F(k) /\ AreDigits(Part(u, k + 1, n))
  BY <1>1, <1>2 DEF Fraction
<1>7. Fraction(w) <=> \E k \in 1 .. n : F(k) /\ AreDigits(Part(w, k + 1, n + 1))
  <2>1. Fraction(w) <=> \E k \in 1 .. n + 1 : /\ w[k] = "." /\ IsInteger(Part(w, 1, k - 1))
                                              /\ AreDigits(Part(w, k + 1, n + 1))
    BY <1>2 DEF Fraction
  <2>2. ~ AreDigits(Part(w, (n + 1) + 1, n + 1))
    <3>1. (n + 1) + 1 = n + 2
      OBVIOUS
    <3> QED BY <1>2, <3>1 DEF AreDigits
  <2>3. \A k \in 1 .. n + 1 : k \in 1 .. n \/ k = n + 1
    OBVIOUS
  <2>4. \A k \in 1 .. n : /\ k \in 1 .. n + 1 /\ w[k] = u[k]
                          /\ Part(w, 1, k - 1) = Part(u, 1, k - 1)
    BY <1>2
  <2> QED BY <2>1, <2>2, <2>3, <2>4, Zenon
<1> HIDE DEF F
<1>8. Fraction(w) <=> c \in Digit /\ (Pointed(u) \/ Fraction(u))
  <2>1. n # 0 => n \in 1 .. n
    OBVIOUS
  <2>2. \A k \in 1 .. n : n # 0
    OBVIOUS
  <2> QED BY <1>4, <1>5, <1>6, <1>7, <2>1, <2>2, Zenon
<1>9. IsDecimal(u) <=> IsInteger(u) \/ Fraction(u)
  BY DEF IsDecimal, Fraction
<1>10. IsInteger(u) <=> Zero(u) \/ Whole(u)
  BY MoreDigits
<1> QED
  BY <1>3, <1>8, <1>9, <1>10 DEF w

LEMMA MoreBehindSign ==
  ASSUME NEW r \in Seq(Character), NEW c \in Character
  PROVE  AreDigits(WithoutSign(Append(r, c)))
           <=> c \in Digit /\ \/ r = << >> \/ r = <<"+">> \/ r = <<"-">>
                              \/ AreDigits(WithoutSign(r))
<1>1. CASE r = << >>
  <2>1. Append(r, c) = <<c>> /\ Tail(<<c>>) = << >>
    BY <1>1
  <2>2. WithoutSign(<<c>>) = IF c \in {"-", "+"} THEN << >> ELSE <<c>>
    BY <2>1 DEF WithoutSign
  <2>3. AreDigits(<<c>>) <=> c \in Digit
    BY DEF AreDigits
  <2>4. ~ AreDigits(<< >>)
    BY DEF AreDigits
  <2>5. c \in Digit => c \notin {"-", "+"}
    BY DigitsAre
  <2> QED BY <1>1, <2>1, <2>2, <2>3, <2>4, <2>5
<1>2. CASE r # << >> /\ r[1] \notin {"-", "+"}
  <2>1. Append(r, c) # << >> /\ Append(r, c)[1] = r[1]
    BY <1>2
  <2>2. WithoutSign(Append(r, c)) = Append(r, c) /\ WithoutSign(r) = r
    BY <1>2, <2>1 DEF WithoutSign
  <2>3. r # <<"+">> /\ r # <<"-">>
    BY <1>2
  <2> QED BY <1>2, <2>2, <2>3, MoreDigits
<1>3. CASE r # << >> /\ r[1] \in {"-", "+"}
  <2>1. Append(r, c) # << >> /\ Append(r, c)[1] = r[1] /\ Tail(r) \in Seq(Character)
        /\ Tail(Append(r, c)) = Append(Tail(r), c)
    BY <1>3
  <2>2. WithoutSign(Append(r, c)) = Append(Tail(r), c) /\ WithoutSign(r) = Tail(r)
    BY <1>3, <2>1 DEF WithoutSign
  <2>3. Tail(r) = << >> <=> r = <<"+">> \/ r = <<"-">>
    <3>1. ASSUME Tail(r) = << >>
          PROVE  r = <<r[1]>>
      <4>1. Len(Tail(r)) = Len(r) - 1
        BY <1>3, HeadTailProperties
      <4>2. Len(<< >>) = 0 /\ Len(r) \in Nat
        OBVIOUS
      <4>3. Len(r) - 1 = 0
        BY <3>1, <4>1, <4>2, Zenon
      <4>4. Len(r) = 1
        BY <4>2, <4>3
      <4> QED BY <1>3, <4>4
    <3>2. Tail(<<"+">>) = << >> /\ Tail(<<"-">>) = << >>
      OBVIOUS
    <3> QED BY <1>3, <3>1, <3>2
  <2>4. AreDigits(Append(Tail(r), c)) <=> c \in Digit /\ (Tail(r) = << >> \/ AreDigits(Tail(r)))
    BY <2>1, MoreDigits
  <2> QED BY <1>3, <2>2, <2>3, <2>4, Zenon
<1> QED
  BY <1>1, <1>2, <1>3

LEMMA MoreRaised ==
  ASSUME NEW u \in Seq(Character), NEW c \in Character
  PROVE  /\ Powered(Append(u, c)) <=> c \in {"e", "E"} /\ IsDecimal(u)
         /\ Signed(Append(u, c)) <=> c \in {"+", "-"} /\ Powered(u)
         /\ Raised(Append(u, c)) <=> c \in Digit /\ (Powered(u) \/ Signed(u) \/ Raised(u))
<1> DEFINE w == Append(u, c)
<1>1. PICK n \in Nat : n = Len(u)
  OBVIOUS
<1>2. /\ w \in Seq(Character) /\ w # << >> /\ Len(w) = n + 1
      /\ DOMAIN w = 1 .. n + 1 /\ DOMAIN u = 1 .. n
      /\ w[n + 1] = c /\ \A k \in 1 .. n : w[k] = u[k]
      /\ Part(w, 1, n) = u
      /\ \A k \in 1 .. n + 1 : Part(w, 1, k - 1) = Part(u, 1, k - 1)
      /\ \A k \in 1 .. n : Part(w, k + 1, n + 1) = Append(Part(u, k + 1, n), c)
      /\ Part(w, n + 2, n + 1) = << >>
  BY <1>1, OneMore
<1> HIDE DEF w
<1>3. u # << >> <=> n # 0
  BY <1>1, EmptySeq
<1>4. Powered(w) <=> c \in {"e", "E"} /\ IsDecimal(u)
  <2>1. (n + 1) - 1 = n
    OBVIOUS
  <2> QED BY <1>2, <2>1 DEF Powered
<1> DEFINE G(k) == u[k] \in {"e", "E"} /\ IsDecimal(Part(u, 1, k - 1))
<1>5. Powered(u) <=> n # 0 /\ G(n)
  BY <1>1, <1>3 DEF Powered
<1>6. Signed(w) <=> c \in {"+", "-"} /\ Powered(u)
  <2>1. n # 0 => w[n] = u[n] /\ Part(w, 1, n - 1) = Part(u, 1, n - 1)
    BY <1>2
  <2>2. (n + 1) - 1 = n /\ (n + 1) - 2 = n - 1 /\ (n + 1 > 1 <=> n # 0)
    OBVIOUS
  <2>3. Signed(w) <=> n # 0 /\ c \in {"+", "-"} /\ w[n] \in {"e", "E"} /\ IsDecimal(Part(w, 1, n - 1))
    BY <1>2, <2>2 DEF Signed
  <2> QED BY <1>5, <2>1, <2>3, Zenon
<1> DEFINE r(k) == Part(u, k + 1, n)
           s(k) == r(k) = <<"+">> \/ r(k) = <<"-">>
<1>7. ASSUME NEW k \in 1 .. n
      PROVE  /\ r(k) \in Seq(Character) /\ Len(r(k)) = n - k
             /\ r(k) = << >> <=> k = n
             /\ s(k) <=> k = n - 1 /\ u[n] \in {"+", "-"}
  <2>1. /\ r(k) \in Seq(Character) /\ Len(r(k)) = n - k
        /\ r(k) = << >> <=> k = n
        /\ k < n => r(k)[1] = u[k + 1]
    BY <1>1, PartType
  <2>2. \A v \in Seq(Character) : v = <<"+">> \/ v = <<"-">> <=> Len(v) = 1 /\ v[1] \in {"+", "-"}
    <3>1. \A v \in Seq(Character) : v = <<"+">> <=> Len(v) = 1 /\ v[1] = "+"
      BY OnlyOne
    <3>2. \A v \in Seq(Character) : v = <<"-">> <=> Len(v) = 1 /\ v[1] = "-"
      BY OnlyOne
    <3> QED BY <3>1, <3>2
  <2> HIDE DEF r
  <2>3. s(k) <=> Len(r(k)) = 1 /\ r(k)[1] \in {"+", "-"}
    BY <2>1, <2>2, Zenon
  <2> HIDE DEF s
  <2>4. Len(r(k)) = 1 => k < n /\ k + 1 = n /\ k = n - 1
    <3>1. n - k = 1 => k < n /\ k + 1 = n /\ k = n - 1
      OBVIOUS
    <3> QED BY <2>1, <3>1, Zenon
  <2>5. k = n - 1 => Len(r(k)) = 1
    BY <2>1
  <2>6. s(k) <=> k = n - 1 /\ u[n] \in {"+", "-"}
    BY <2>1, <2>3, <2>4, <2>5, Zenon
  <2> QED BY <2>1, <2>6, Zenon
<1>8. Signed(u) <=> n - 1 \in 1 .. n /\ G(n - 1) /\ u[n] \in {"+", "-"}
  <2>1. (n - 1) - 1 = n - 2 /\ (n > 1 <=> n - 1 \in 1 .. n)
    OBVIOUS
  <2> QED BY <1>1, <2>1 DEF Signed
<1>9. Raised(u) <=> \E k \in 1 .. n : G(k) /\ AreDigits(WithoutSign(r(k)))
  BY <1>1, <1>2 DEF Raised
<1>10. Raised(w) <=> \E k \in 1 .. n : G(k) /\ AreDigits(WithoutSign(Append(r(k), c)))
  <2>1. Raised(w) <=> \E k \in 1 .. n + 1 : /\ w[k] \in {"e", "E"} /\ IsDecimal(Part(w, 1, k - 1))
                                            /\ AreDigits(WithoutSign(Part(w, k + 1, n + 1)))
    BY <1>2 DEF Raised
  <2>2. ~ AreDigits(WithoutSign(Part(w, (n + 1) + 1, n + 1)))
    <3>1. (n + 1) + 1 = n + 2
      OBVIOUS
    <3> QED BY <1>2, <3>1 DEF AreDigits, WithoutSign
  <2>3. \A k \in 1 .. n + 1 : k \in 1 .. n \/ k = n + 1
    OBVIOUS
  <2>4. \A k \in 1 .. n : /\ k \in 1 .. n + 1 /\ w[k] = u[k]
                          /\ Part(w, 1, k - 1) = Part(u, 1, k - 1)
                          /\ Part(w, k + 1, n + 1) = Append(r(k), c)
    BY <1>2
  <2> QED BY <2>1, <2>2, <2>3, <2>4, Zenon
<1>11. ASSUME NEW k \in 1 .. n
       PROVE  AreDigits(WithoutSign(Append(r(k), c)))
                <=> c \in Digit /\ (r(k) = << >> \/ s(k) \/ AreDigits(WithoutSign(r(k))))
  BY <1>7, MoreBehindSign
<1> HIDE DEF G, r, s
<1>12. Raised(w) <=> c \in Digit /\ (Powered(u) \/ Signed(u) \/ Raised(u))
  <2>1. \A k \in 1 .. n : n # 0 /\ (k = n - 1 => n - 1 \in 1 .. n)
    OBVIOUS
  <2>2. n # 0 => n \in 1 .. n
    OBVIOUS
  <2>3. Raised(w) <=> \E k \in 1 .. n : G(k) /\ c \in Digit /\ (k = n \/ (k = n - 1 /\ u[n] \in {"+", "-"})
                                                             \/ AreDigits(WithoutSign(r(k))))
    BY <1>7, <1>10, <1>11, Zenon
  <2> QED BY <1>5, <1>8, <1>9, <2>1, <2>2, <2>3, Zenon
<1> QED
  BY <1>4, <1>6, <1>12 DEF w

-----------------------------------------------------------------------------
(***************************************************************************)
(* A label is the form of what was read behind the minus sign; the gotos   *)
(* say what one more character makes of it.                                *)
(***************************************************************************)
Live == {"init", "minus", "zero", "any1", "decimal1", "decimal2", "exponent", "sign", "any2"}

Accepting == {"zero", "any1", "decimal2", "any2"}

Shape(l, u) ==
  /\ u = << >>   <=> l \in {"init", "minus"}
  /\ Zero(u)     <=> l = "zero"
  /\ Whole(u)    <=> l = "any1"
  /\ Pointed(u)  <=> l = "decimal1"
  /\ Fraction(u) <=> l = "decimal2"
  /\ Powered(u)  <=> l = "exponent"
  /\ Signed(u)   <=> l = "sign"
  /\ Raised(u)   <=> l = "any2"

LEMMA Gotos ==
  ASSUME NEW l \in Live, NEW c
  PROVE  LET to == Goto(l, c)
         IN  /\ to \in (Live \ {"init"}) \cup {"done", "error"}
             /\ to = "minus"    <=> c = "-" /\ l = "init"
             /\ to = "zero"     <=> c = "0" /\ l \in {"init", "minus"}
             /\ to = "any1"     <=> c \in Digit /\ ((l \in {"init", "minus"} /\ c # "0") \/ l = "any1")
             /\ to = "decimal1" <=> c = "." /\ l \in {"zero", "any1"}
             /\ to = "decimal2" <=> c \in Digit /\ l \in {"decimal1", "decimal2"}
             /\ to = "exponent" <=> c \in {"e", "E"} /\ l \in {"zero", "any1", "decimal2"}
             /\ to = "sign"     <=> c \in {"+", "-"} /\ l = "exponent"
             /\ to = "any2"     <=> c \in Digit /\ l \in {"exponent", "sign", "any2"}
             /\ to = "error" => l \in Unfinished
             /\ to = "done" => l \in Accepting
<1>1. CASE l = "init"
  BY <1>1, DigitsAre DEF Goto, Live, Accepting, Unfinished
<1>2. CASE l = "minus"
  BY <1>2, DigitsAre DEF Goto, Live, Accepting, Unfinished
<1>3. CASE l = "zero"
  BY <1>3, DigitsAre DEF Goto, Live, Accepting, Unfinished
<1>4. CASE l = "any1"
  BY <1>4, DigitsAre DEF Goto, Live, Accepting, Unfinished
<1>5. CASE l = "decimal1"
  BY <1>5, DigitsAre DEF Goto, Live, Accepting, Unfinished
<1>6. CASE l = "decimal2"
  BY <1>6, DigitsAre DEF Goto, Live, Accepting, Unfinished
<1>7. CASE l = "exponent"
  BY <1>7, DigitsAre DEF Goto, Live, Accepting, Unfinished
<1>8. CASE l = "sign"
  BY <1>8, DigitsAre DEF Goto, Live, Accepting, Unfinished
<1>9. CASE l = "any2"
  BY <1>9, DigitsAre DEF Goto, Live, Accepting, Unfinished
<1> QED
  BY <1>1, <1>2, <1>3, <1>4, <1>5, <1>6, <1>7, <1>8, <1>9 DEF Live

LEMMA Forms ==
  ASSUME NEW u \in Seq(Character), NEW c \in Character
  PROVE  LET w == Append(u, c)
         IN  /\ w # << >>
             /\ Zero(w)     <=> c = "0" /\ u = << >>
             /\ Whole(w)    <=> c \in Digit /\ ((u = << >> /\ c # "0") \/ Whole(u))
             /\ Pointed(w)  <=> c = "." /\ (Zero(u) \/ Whole(u))
             /\ Fraction(w) <=> c \in Digit /\ (Pointed(u) \/ Fraction(u))
             /\ Powered(w)  <=> c \in {"e", "E"} /\ (Zero(u) \/ Whole(u) \/ Fraction(u))
             /\ Signed(w)   <=> c \in {"+", "-"} /\ Powered(u)
             /\ Raised(w)   <=> c \in Digit /\ (Powered(u) \/ Signed(u) \/ Raised(u))
<1>1. Append(u, c) # << >>
  BY OneMore
<1> QED
  BY <1>1, MoreDigits, MoreDecimal, MoreRaised, Zenon

LEMMA Derive ==
  ASSUME NEW l \in Live, NEW u \in Seq(Character), NEW c \in Character, Shape(l, u),
         ~ (l = "init" /\ c = "-")
  PROVE  Shape(IF Goto(l, c) \in {"done", "error"} THEN "done" ELSE Goto(l, c), Append(u, c))
<1> DEFINE to == Goto(l, c)
           w  == Append(u, c)
<1>1. /\ w # << >>
      /\ Zero(w)     <=> to = "zero"
      /\ Whole(w)    <=> to = "any1"
      /\ Pointed(w)  <=> to = "decimal1"
      /\ Fraction(w) <=> to = "decimal2"
      /\ Powered(w)  <=> to = "exponent"
      /\ Signed(w)   <=> to = "sign"
      /\ Raised(w)   <=> to = "any2"
  <2>1. /\ u = << >> <=> l \in {"init", "minus"}
        /\ (Zero(u) <=> l = "zero") /\ (Whole(u) <=> l = "any1")
        /\ (Pointed(u) <=> l = "decimal1") /\ (Fraction(u) <=> l = "decimal2")
        /\ (Powered(u) <=> l = "exponent") /\ (Signed(u) <=> l = "sign")
        /\ (Raised(u) <=> l = "any2")
    BY DEF Shape
  <2> QED BY <2>1, Forms, Gotos
<1>2. to # "init" /\ to # "minus"
  BY Gotos DEF Live
<1> HIDE DEF to, w
<1>3. CASE to \in {"done", "error"}
  BY <1>1, <1>3 DEF Shape, to, w
<1>4. CASE to \notin {"done", "error"}
  BY <1>1, <1>2, <1>4 DEF Shape, to, w
<1> QED
  BY <1>3, <1>4

LEMMA NoneOfThem ==
  ASSUME NEW w \in Seq(Character), NEW c \in Character, Shape("done", w)
  PROVE  Shape("done", Append(w, c))
<1>1. /\ w # << >> /\ ~ Zero(w) /\ ~ Whole(w) /\ ~ Pointed(w) /\ ~ Fraction(w)
      /\ ~ Powered(w) /\ ~ Signed(w) /\ ~ Raised(w)
  BY DEF Shape
<1>2. LET v == Append(w, c)
      IN  /\ v # << >> /\ ~ Zero(v) /\ ~ Whole(v) /\ ~ Pointed(v) /\ ~ Fraction(v)
          /\ ~ Powered(v) /\ ~ Signed(v) /\ ~ Raised(v)
  BY <1>1, Forms, Zenon
<1> QED
  BY <1>2 DEF Shape

-----------------------------------------------------------------------------
(***************************************************************************)
(* Whole texts, with their minus sign.                                     *)
(***************************************************************************)
LEMMA MoreUnsigned ==
  ASSUME NEW t \in Seq(Character), NEW c \in Character
  PROVE  /\ UnsignedPart(t) \in Seq(Character)
         /\ UnsignedPart(Append(t, c)) = IF t = << >> /\ c = "-" THEN << >>
                                         ELSE Append(UnsignedPart(t), c)
<1>1. CASE t = << >>
  <2>1. Append(t, c) = <<c>> /\ <<c>> # << >> /\ <<c>>[1] = c /\ Tail(<<c>>) = << >>
    BY <1>1
  <2>2. UnsignedPart(t) = t
    BY <1>1 DEF UnsignedPart
  <2>3. UnsignedPart(<<c>>) = IF c = "-" THEN << >> ELSE <<c>>
    BY <2>1 DEF UnsignedPart
  <2> QED BY <1>1, <2>1, <2>2, <2>3
<1>2. CASE t # << >> /\ t[1] # "-"
  <2>1. Append(t, c) # << >> /\ Append(t, c)[1] = t[1]
    BY <1>2
  <2>2. UnsignedPart(t) = t /\ UnsignedPart(Append(t, c)) = Append(t, c)
    BY <1>2, <2>1 DEF UnsignedPart
  <2> QED BY <1>2, <2>2
<1>3. CASE t # << >> /\ t[1] = "-"
  <2>1. Append(t, c) # << >> /\ Append(t, c)[1] = t[1] /\ Tail(t) \in Seq(Character)
        /\ Tail(Append(t, c)) = Append(Tail(t), c)
    BY <1>3
  <2>2. UnsignedPart(t) = Tail(t) /\ UnsignedPart(Append(t, c)) = Append(Tail(t), c)
    BY <1>3, <2>1 DEF UnsignedPart
  <2> QED BY <1>3, <2>1, <2>2
<1> QED
  BY <1>1, <1>2, <1>3

LEMMA Recognised ==
  ASSUME NEW l \in Live \cup {"done"}, NEW t \in Seq(Character), Shape(l, UnsignedPart(t))
  PROVE  /\ IsNumber(t) <=> l \in Accepting
         /\ IsWhole(t) <=> l \in {"zero", "any1"}
<1> DEFINE u == UnsignedPart(t)
<1>1. u \in Seq(Character) /\ "0" \in Character
  BY MoreUnsigned, DigitsAre DEF Character
<1>2. (IsDecimal(u) <=> Zero(u) \/ Whole(u) \/ Fraction(u)) /\ (IsInteger(u) <=> Zero(u) \/ Whole(u))
  BY <1>1, MoreDecimal, MoreDigits
<1>3. IsNumber(t) <=> IsDecimal(u) \/ Raised(u)
  BY DEF IsNumber, Raised
<1>4. /\ (Zero(u) <=> l = "zero") /\ (Whole(u) <=> l = "any1")
      /\ (Fraction(u) <=> l = "decimal2") /\ (Raised(u) <=> l = "any2")
  BY DEF Shape
<1>5. IsWhole(t) <=> IsInteger(u)
  BY DEF IsWhole
<1> QED
  BY <1>2, <1>3, <1>4, <1>5 DEF Accepting

LEMMA Continues ==
  ASSUME NEW l \in Live, NEW t \in Seq(Character), Shape(l, UnsignedPart(t)), t # << >>, l # "init"
  PROVE  CanContinue(t)
<1>1. "0" \in Character /\ UnsignedPart(t) \in Seq(Character)
  BY MoreUnsigned, DigitsAre DEF Character
<1>2. CASE l \in Accepting
  BY <1>2, Recognised DEF CanContinue
<1>3. CASE l \notin Accepting
  <2>1. Goto(l, "0") \in Accepting /\ Goto(l, "0") \notin {"done", "error"}
    BY <1>3, Gotos, DigitsAre DEF Live, Accepting
  <2>2. Shape(Goto(l, "0"), Append(UnsignedPart(t), "0"))
    BY <1>1, <2>1, Derive
  <2>3. UnsignedPart(Append(t, "0")) = Append(UnsignedPart(t), "0")
    BY <1>1, MoreUnsigned
  <2>4. Append(t, "0") \in Seq(Character)
    BY <1>1
  <2>5. Goto(l, "0") \in Live
    BY <2>1 DEF Live, Accepting
  <2> QED BY <2>1, <2>2, <2>3, <2>4, <2>5, Recognised DEF CanContinue
<1> QED
  BY <1>2, <1>3

LEMMA EndsThere ==
  ASSUME NEW t \in Seq(Character), Shape("done", UnsignedPart(t)), t # << >>
  PROVE  ~ CanContinue(t)
<1>1. "0" \in Character /\ UnsignedPart(t) \in Seq(Character)
  BY MoreUnsigned, DigitsAre DEF Character
<1>2. "done" \notin Accepting
  BY DEF Accepting
<1>3. ~ IsNumber(t)
  BY <1>2, Recognised
<1>4. UnsignedPart(Append(t, "0")) = Append(UnsignedPart(t), "0")
  BY <1>1, MoreUnsigned
<1>5. Shape("done", UnsignedPart(Append(t, "0"))) /\ Append(t, "0") \in Seq(Character)
  <2>1. Shape("done", Append(UnsignedPart(t), "0"))
    BY <1>1, NoneOfThem, Zenon
  <2>2. Append(t, "0") \in Seq(Character)
    BY <1>1, AppendProperties
  <2> QED BY <1>4, <2>1, <2>2, Zenon
<1>6. ~ IsNumber(Append(t, "0"))
  BY <1>2, <1>5, Recognised
<1> QED
  BY <1>3, <1>6 DEF CanContinue

-----------------------------------------------------------------------------
(***************************************************************************)
(* The invariant: the label is the form of what was read, and the type the *)
(* one that goes with the label.                                           *)
(***************************************************************************)
TypeOf(l, t) ==
  IF l \in {"decimal1", "decimal2", "exponent", "sign", "any2"} THEN "value_float"
  ELSE IF t # << >> /\ t[1] = "-" THEN "value_integer" ELSE "value_unsigned"

Reading ==
  /\ input \in Seq(Character) /\ position \in 1 .. Len(input) + 1
  /\ token_buffer = SubSeq(input, 1, position - 1)

Labelled ==
  /\ label \in Live
  /\ token_buffer = << >> <=> label = "init"
  /\ Shape(label, UnsignedPart(token_buffer))
  /\ number_type = TypeOf(label, token_buffer)

ScanInv ==
  /\ Reading
  /\ token = "scanning" => Labelled
  /\ ScansNumbers

LEMMA NothingRead ==
  /\ Shape("init", << >>)
  /\ \A u : Shape("init", u) => Shape("minus", u)
<1>1. /\ ~ Zero(<< >>) /\ ~ Whole(<< >>) /\ ~ Pointed(<< >>) /\ ~ Fraction(<< >>)
      /\ ~ Powered(<< >>) /\ ~ Raised(<< >>)
  BY DEF Zero, Whole, AreDigits, Pointed, Fraction, Powered, Raised
<1>2. ~ Signed(<< >>)
  BY DEF Signed
<1> QED
  BY <1>1, <1>2 DEF Shape

LEMMA ReadOneMore ==
  ASSUME NEW t \in Seq(Character), NEW p \in 1 .. Len(t)
  PROVE  /\ SubSeq(t, 1, p - 1) \in Seq(Character)
         /\ SubSeq(t, 1, p) = Append(SubSeq(t, 1, p - 1), t[p])
         /\ t[p] \in Character
         /\ SubSeq(t, p, p) = <<t[p]>>
<1>1. PICK n \in Nat : n = Len(t)
  OBVIOUS
<1>2. \A i \in 1 .. n : t[i] \in Character
  BY <1>1
<1>3. /\ SubSeq(t, 1, p - 1) \in Seq(Character) /\ Len(SubSeq(t, 1, p - 1)) = p - 1
      /\ \A i \in 1 .. p - 1 : SubSeq(t, 1, p - 1)[i] = t[i]
  BY <1>1, <1>2, SubSeqProperties
<1>4. /\ SubSeq(t, 1, p) \in Seq(Character) /\ Len(SubSeq(t, 1, p)) = p
      /\ \A i \in 1 .. p : SubSeq(t, 1, p)[i] = t[i]
  BY <1>1, <1>2, SubSeqProperties
<1>5. /\ SubSeq(t, p, p) \in Seq(Character) /\ Len(SubSeq(t, p, p)) = 1
      /\ SubSeq(t, p, p)[1] = t[p]
  <2>1. /\ SubSeq(t, p, p) \in Seq(Character) /\ Len(SubSeq(t, p, p)) = p - p + 1
        /\ \A i \in 1 .. p - p + 1 : SubSeq(t, p, p)[i] = t[p + i - 1]
    BY <1>1, <1>2, SubSeqProperties
  <2> QED BY <1>1, <2>1
<1> DEFINE a == Append(SubSeq(t, 1, p - 1), t[p])
<1>6. /\ a \in Seq(Character) /\ Len(a) = p /\ a[p] = t[p]
      /\ \A i \in 1 .. p - 1 : a[i] = t[i]
  BY <1>1, <1>2, <1>3, AppendProperties
<1> HIDE DEF a
<1>7. \A i \in 1 .. p : SubSeq(t, 1, p)[i] = a[i]
  BY <1>4, <1>6
<1>8. SubSeq(t, 1, p) = a
  BY <1>1, <1>4, <1>6, <1>7, SeqEqual
<1>9. SubSeq(t, p, p) = <<t[p]>>
  BY <1>5, OnlyOne
<1> QED
  BY <1>1, <1>2, <1>3, <1>8, <1>9 DEF a

LEMMA TypeRead ==
  ASSUME NEW l \in Live, NEW t \in Seq(Character), NEW c \in Character,
         t = << >> <=> l = "init", number_type = TypeOf(l, t),
         Goto(l, c) \notin {"done", "error"}
  PROVE  TypeAt(Goto(l, c)) = TypeOf(Goto(l, c), Append(t, c))
<1> DEFINE to == Goto(l, c)
           w  == Append(t, c)
<1>1. w # << >> /\ w[1] = IF t = << >> THEN c ELSE t[1]
  OBVIOUS
<1>2. /\ to \in Live \ {"init"}
      /\ to = "minus"    => c = "-" /\ l = "init"
      /\ to = "zero"     => c = "0" /\ l \in {"init", "minus"}
      /\ to = "any1"     => c \in Digit /\ l \in {"init", "minus", "any1"}
      /\ to = "decimal2" => l \in {"decimal1", "decimal2"}
      /\ to = "sign"     => l = "exponent"
      /\ to = "any2"     => l \in {"exponent", "sign", "any2"}
  BY Gotos
<1>3. c \in Digit => c # "-"
  BY DigitsAre
<1>4. "0" \in Digit
  BY DigitsAre
<1> SUFFICES TypeAt(to) = TypeOf(to, w)
  OBVIOUS
<1> HIDE DEF to, w
<1>5. CASE to = "minus"
  BY <1>1, <1>2, <1>5 DEF TypeAt, TypeOf
<1>6. CASE to \in {"decimal1", "exponent"}
  BY <1>6 DEF TypeAt, TypeOf
<1>7. CASE to \in {"zero", "any1"}
  <2>1. TypeAt(to) = number_type
    BY <1>7 DEF TypeAt
  <2>2. TypeOf(to, w) = IF w[1] = "-" THEN "value_integer" ELSE "value_unsigned"
    BY <1>1, <1>7 DEF TypeOf
  <2>3. l \in {"init", "minus", "any1"} /\ c # "-"
    BY <1>2, <1>3, <1>4, <1>7
  <2>4. number_type = IF t # << >> /\ t[1] = "-" THEN "value_integer" ELSE "value_unsigned"
    BY <2>3 DEF TypeOf
  <2> QED BY <1>1, <2>1, <2>2, <2>3, <2>4
<1>8. CASE to \in {"decimal2", "sign", "any2"}
  <2>1. TypeAt(to) = number_type
    BY <1>8 DEF TypeAt
  <2> QED BY <1>2, <1>8, <2>1 DEF TypeOf
<1>9. to \in {"minus", "decimal1", "exponent", "zero", "any1", "decimal2", "sign", "any2"}
  BY <1>2 DEF Live
<1> QED
  BY <1>5, <1>6, <1>7, <1>8, <1>9

LEMMA ReadKeeps ==
  ASSUME Reading, Labelled, token = "scanning", Read
  PROVE  Reading' /\ Labelled'
<1> DEFINE to == Goto(label, Current)
           t  == token_buffer
<1>1. /\ input' = input /\ position' = position + 1 /\ token_buffer' = Append(t, Current)
      /\ label' = to /\ number_type' = TypeAt(to) /\ to \notin {"done", "error"}
  BY DEF Read
<1>2. label \in Live /\ input \in Seq(Character) /\ position \in 1 .. Len(input) + 1
      /\ t = SubSeq(input, 1, position - 1) /\ Len(input) \in Nat
  BY DEF Reading, Labelled
<1>3. position \in 1 .. Len(input)
  <2>1. SUFFICES ASSUME position > Len(input)
                 PROVE  FALSE
    BY <1>2
  <2>2. Current = "eof"
    BY <1>2, <2>1 DEF Current, Eof
  <2>3. to \in {"done", "error"}
    <3>1. to \in (Live \ {"init"}) \cup {"done", "error"}
      BY <1>2, Gotos
    <3>2. /\ to # "minus" /\ to # "zero" /\ to # "any1" /\ to # "decimal1" /\ to # "decimal2"
          /\ to # "exponent" /\ to # "sign" /\ to # "any2"
      BY <1>2, <2>2, Gotos, DigitsAre
    <3> HIDE DEF to
    <3> QED BY <3>1, <3>2 DEF Live
  <2> QED BY <1>1, <2>3
<1>4. Current = input[position]
  BY <1>2, <1>3 DEF Current
<1>5. /\ t \in Seq(Character) /\ Current \in Character
      /\ SubSeq(input, 1, position) = Append(t, Current)
  BY <1>2, <1>3, <1>4, ReadOneMore
<1>6. Reading'
  <2>1. position + 1 \in 1 .. Len(input) + 1 /\ (position + 1) - 1 = position
    BY <1>3
  <2>2. token_buffer' = SubSeq(input', 1, position' - 1)
    BY <1>1, <1>5, <2>1
  <2> QED BY <1>1, <1>2, <2>1, <2>2 DEF Reading
<1>7. to \in Live \ {"init"}
  BY <1>1, <1>2, Gotos
<1>8. Append(t, Current) # << >>
  BY <1>5, OneMore
<1>9. Shape(to, UnsignedPart(Append(t, Current)))
  <2>1. Shape(label, UnsignedPart(t)) /\ (t = << >> <=> label = "init")
    BY DEF Labelled
  <2>2. CASE label = "init" /\ Current = "-"
    <3>1. to = "minus"
      BY <2>2, <1>2, Gotos
    <3>2. UnsignedPart(Append(t, Current)) = << >>
      BY <1>5, <2>1, <2>2, MoreUnsigned
    <3> QED BY <3>1, <3>2, NothingRead
  <2>3. CASE ~ (label = "init" /\ Current = "-")
    <3>1. UnsignedPart(Append(t, Current)) = Append(UnsignedPart(t), Current)
          /\ UnsignedPart(t) \in Seq(Character)
      BY <1>5, <2>1, <2>3, MoreUnsigned
    <3>2. Shape(to, Append(UnsignedPart(t), Current))
      BY <1>1, <1>2, <1>5, <2>1, <2>3, <3>1, Derive
    <3> QED BY <3>1, <3>2, Zenon
  <2> QED BY <2>2, <2>3
<1>10. TypeAt(to) = TypeOf(to, Append(t, Current))
  <2>1. (t = << >> <=> label = "init") /\ number_type = TypeOf(label, t)
    BY DEF Labelled
  <2> QED BY <1>1, <1>2, <1>5, <2>1, TypeRead
<1> HIDE DEF to
<1>11. Labelled'
  BY <1>1, <1>7, <1>8, <1>9, <1>10 DEF Labelled
<1> QED
  BY <1>6, <1>11

LEMMA StopsInTime ==
  ASSUME Reading, Labelled, Goto(label, Current) \in {"done", "error"}
  PROVE  /\ token_buffer # << >> => CanContinue(token_buffer)
         /\ NextCharacter # << >> => ~ CanContinue(token_buffer \o NextCharacter)
         /\ IsNumber(token_buffer) <=> label \in Accepting
         /\ IsWhole(token_buffer) <=> label \in {"zero", "any1"}
<1> DEFINE t == token_buffer
<1>1. /\ label \in Live /\ input \in Seq(Character) /\ position \in 1 .. Len(input) + 1
      /\ t = SubSeq(input, 1, position - 1) /\ Len(input) \in Nat
      /\ Shape(label, UnsignedPart(t)) /\ (t = << >> <=> label = "init")
  <2>1. Shape(label, UnsignedPart(t)) /\ (t = << >> <=> label = "init") /\ label \in Live
    BY Zenon DEF Labelled
  <2>2. /\ input \in Seq(Character) /\ position \in 1 .. Len(input) + 1
        /\ t = SubSeq(input, 1, position - 1)
    BY DEF Reading
  <2>3. Len(input) \in Nat
    BY <2>2
  <2> QED BY <2>1, <2>2, <2>3, Zenon
<1>2. t \in Seq(Character)
  <2>1. \A i \in 1 .. Len(input) : input[i] \in Character
    BY <1>1
  <2> QED BY <1>1, <2>1, SubSeqProperties
<1> HIDE DEF t
<1>3. t # << >> => CanContinue(t)
  BY <1>1, <1>2, Continues
<1>4. /\ IsNumber(t) <=> label \in Accepting
      /\ IsWhole(t) <=> label \in {"zero", "any1"}
  BY <1>1, <1>2, Recognised
<1>5. ASSUME NextCharacter # << >>
      PROVE  ~ CanContinue(t \o NextCharacter)
  <2>1. position \in 1 .. Len(input)
    <3>1. SUFFICES ASSUME position > Len(input)
                   PROVE  FALSE
      BY <1>1
    <3>2. NextCharacter = SubSeq(input, position, position - 1)
      BY <1>1, <3>1 DEF NextCharacter
    <3>3. SubSeq(input, position, position - 1) = << >>
      BY <1>1, SubSeqEmpty
    <3> QED BY <1>5, <3>2, <3>3
  <2>2. Current = input[position] /\ NextCharacter = SubSeq(input, position, position)
    BY <1>1, <2>1 DEF Current, NextCharacter
  <2>3. Current \in Character /\ NextCharacter = <<Current>>
    BY <1>1, <2>1, <2>2, ReadOneMore
  <2>4. t \o <<Current>> = Append(t, Current)
    BY <1>2, <2>3, AppendIsConcat
  <2>5. ~ (label = "init" /\ Current = "-")
    <3>1. label = "init" /\ Current = "-" => Goto(label, Current) = "minus"
      BY <1>1, Gotos
    <3> QED BY <3>1
  <2>6. UnsignedPart(Append(t, Current)) = Append(UnsignedPart(t), Current)
        /\ UnsignedPart(t) \in Seq(Character)
    BY <1>1, <1>2, <2>3, <2>5, MoreUnsigned
  <2>7. Shape("done", Append(UnsignedPart(t), Current))
    BY <1>1, <2>3, <2>5, <2>6, Derive
  <2>8. Append(t, Current) \in Seq(Character) /\ Append(t, Current) # << >>
    BY <1>2, <2>3, OneMore
  <2>9. ~ CanContinue(Append(t, Current))
    BY <2>6, <2>7, <2>8, EndsThere
  <2> QED BY <2>3, <2>4, <2>9, Zenon
<1> QED
  BY <1>3, <1>4, <1>5 DEF t

LEMMA FailKeeps ==
  ASSUME Reading, Labelled, ScanFails
  PROVE  Reading' /\ ScansNumbers'
<1>1. /\ input' = input /\ position' = position /\ token_buffer' = token_buffer
      /\ token' = "parse_error" /\ Goto(label, Current) = "error"
  BY DEF ScanFails
<1>2. label \notin Accepting
  BY <1>1, Gotos DEF Labelled, Unfinished, Accepting
<1>3. /\ token_buffer # << >> => CanContinue(token_buffer)
      /\ NextCharacter # << >> => ~ CanContinue(token_buffer \o NextCharacter)
      /\ ~ IsNumber(token_buffer)
  BY <1>1, <1>2, StopsInTime
<1>4. NextCharacter' = NextCharacter
  BY <1>1 DEF NextCharacter
<1>5. Reading'
  BY <1>1 DEF Reading
<1>6. ScansNumbers'
  BY <1>1, <1>3, <1>4, <1>5 DEF ScansNumbers, Reading
<1> QED
  BY <1>5, <1>6

LEMMA DoneKeeps ==
  ASSUME Reading, Labelled, ScanDone
  PROVE  Reading' /\ ScansNumbers'
<1>1. /\ input' = input /\ position' = position /\ token_buffer' = token_buffer
      /\ Goto(label, Current) = "done"
      /\ IF InRange THEN token' = number_type /\ value' = Converted
         ELSE token' = "value_float"
  BY DEF ScanDone
<1>2. label \in Accepting /\ number_type = TypeOf(label, token_buffer)
      /\ (token_buffer = << >> <=> label = "init")
  BY <1>1, Gotos DEF Labelled
<1>3. /\ token_buffer # << >> => CanContinue(token_buffer)
      /\ NextCharacter # << >> => ~ CanContinue(token_buffer \o NextCharacter)
      /\ IsNumber(token_buffer)
      /\ IsWhole(token_buffer) <=> label \in {"zero", "any1"}
  BY <1>1, <1>2, StopsInTime
<1>4. NextCharacter' = NextCharacter
  BY <1>1 DEF NextCharacter
<1>5. Reading'
  BY <1>1 DEF Reading
<1>6. Converted = SignedValue(token_buffer)
  BY DEF Converted, SignedValue
<1>7. KeepsValue' /\ token' \in {"value_float", "value_integer", "value_unsigned"}
  <2>1. CASE label \in {"decimal2", "any2"}
    <3>1. number_type = "value_float"
      BY <1>2, <2>1 DEF TypeOf
    <3>2. token' = "value_float"
      BY <1>1, <3>1 DEF InRange
    <3> QED BY <1>1, <1>3, <2>1, <3>2 DEF KeepsValue
  <2>2. CASE label \in {"zero", "any1"}
    <3>1. number_type = IF token_buffer[1] = "-" THEN "value_integer" ELSE "value_unsigned"
      BY <1>2, <2>2 DEF TypeOf
    <3>2. InRange <=> IF token_buffer[1] = "-" THEN Converted \in IntegerRange
                      ELSE Converted \in 0 .. MaxUnsigned
      BY <3>1 DEF InRange
    <3>3. IsWhole(token_buffer)
      BY <1>3, <2>2
    <3>4. CASE token_buffer[1] = "-"
      BY <1>1, <1>6, <3>1, <3>2, <3>3, <3>4 DEF KeepsValue
    <3>5. CASE token_buffer[1] # "-"
      BY <1>1, <1>6, <3>1, <3>2, <3>3, <3>5 DEF KeepsValue
    <3> QED BY <3>4, <3>5
  <2> QED BY <1>2, <2>1, <2>2 DEF Accepting
<1>8. ScansNumbers'
  BY <1>1, <1>3, <1>4, <1>5, <1>7 DEF ScansNumbers, Reading
<1> QED
  BY <1>5, <1>8

-----------------------------------------------------------------------------
(***************************************************************************)
(* Recursion over 0 .. N: at the points of B a function has the value base *)
(* gives it, elsewhere it goes down to a smaller one.                      *)
(***************************************************************************)
LEMMA SmallerFirst ==
  ASSUME NEW T \in SUBSET Nat, \A n \in Nat : (\A m \in Nat : m < n => m \in T) => n \in T
  PROVE  T = Nat
<1> DEFINE Out == Nat \ T
<1>1. SUFFICES ASSUME Out # {}
               PROVE  FALSE
  OBVIOUS
<1>2. PICK n \in Out : \A m \in Out : ~ (<<m, n>> \in OpToRel(<, Nat))
  <2>1. Out \subseteq Nat
    OBVIOUS
  <2> HIDE DEF Out
  <2> QED BY <1>1, <2>1, NatLessThanWellFounded, WFMin
<1>3. ASSUME NEW m \in Nat, m < n
      PROVE  m \in T
  <2>1. <<m, n>> \in OpToRel(<, Nat)
    BY <1>3, Zenon DEF OpToRel
  <2> QED BY <1>2, <2>1
<1> QED
  BY <1>2, <1>3

Solves(f, n, B, base, down, step) ==
  \A x \in 0 .. n : f[x] = IF x \in B THEN base[x] ELSE step[x, f[down[x]]]

Descends(N, S, B, base, down, step) ==
  \A x \in 0 .. N : /\ x \in B => base[x] \in S
                    /\ x \notin B => /\ down[x] \in Nat /\ down[x] < x
                                     /\ \A s \in S : step[x, s] \in S

LEMMA OneStepFurther ==
  ASSUME NEW n \in Nat, NEW S, NEW B, NEW base, NEW down, NEW step,
         Descends(n, S, B, base, down, step),
         NEW f \in [0 .. n - 1 -> S], Solves(f, n - 1, B, base, down, step)
  PROVE  \E h \in [0 .. n -> S] : Solves(h, n, B, base, down, step)
<1> DEFINE last == IF n \in B THEN base[n] ELSE step[n, f[down[n]]]
           h == [x \in 0 .. n |-> IF x = n THEN last ELSE f[x]]
<1>1. last \in S
  <2>1. n \in 0 .. n
    OBVIOUS
  <2>2. CASE n \in B
    BY <2>1, <2>2 DEF Descends
  <2>3. CASE n \notin B
    <3>1. down[n] \in Nat /\ down[n] < n /\ \A s \in S : step[n, s] \in S
      BY <2>1, <2>3 DEF Descends
    <3>2. down[n] \in 0 .. n - 1
      <4>1. \A m \in Nat : m < n => m \in 0 .. n - 1
        OBVIOUS
      <4> QED BY <3>1, <4>1, Zenon
    <3>3. f[down[n]] \in S
      BY <3>2
    <3> QED BY <2>3, <3>1, <3>3
  <2> QED BY <2>2, <2>3
<1> HIDE DEF last
<1>2. \A x \in 0 .. n : x # n => x \in 0 .. n - 1
  OBVIOUS
<1>3. h \in [0 .. n -> S]
  BY <1>1, <1>2
<1>4. h[n] = last /\ \A x \in 0 .. n - 1 : h[x] = f[x]
  OBVIOUS
<1> HIDE DEF h
<1>5. ASSUME NEW x \in 0 .. n, x \notin B
      PROVE  h[down[x]] = f[down[x]]
  <2>1. down[x] \in Nat /\ down[x] < x
    BY <1>5 DEF Descends
  <2>2. down[x] \in 0 .. n - 1
    BY <2>1
  <2> QED BY <1>4, <2>2
<1>6. h[n] = IF n \in B THEN base[n] ELSE step[n, h[down[n]]]
  <2>1. n \in 0 .. n
    OBVIOUS
  <2>2. CASE n \in B
    BY <1>4, <2>2 DEF last
  <2>3. CASE n \notin B
    <3>1. h[down[n]] = f[down[n]]
      BY <1>5, <2>1, <2>3, Zenon
    <3> QED BY <1>4, <2>3, <3>1 DEF last
  <2> QED BY <2>2, <2>3
<1>7. ASSUME NEW x \in 0 .. n - 1
      PROVE  h[x] = IF x \in B THEN base[x] ELSE step[x, h[down[x]]]
  <2>1. f[x] = IF x \in B THEN base[x] ELSE step[x, f[down[x]]]
    BY DEF Solves
  <2>2. x \in 0 .. n
    OBVIOUS
  <2> QED BY <1>4, <1>5, <2>1, <2>2
<1> QED
  BY <1>2, <1>3, <1>6, <1>7 DEF Solves

LEMMA Recursion ==
  ASSUME NEW N \in Nat, NEW S, NEW B, NEW base, NEW down, NEW step,
         Descends(N, S, B, base, down, step)
  PROVE  \E f \in [0 .. N -> S] : Solves(f, N, B, base, down, step)
<1> DEFINE Can(n) == \E f \in [0 .. n -> S] : Solves(f, n, B, base, down, step)
           T == {n \in Nat : n <= N => Can(n)}
<1>1. ASSUME NEW n \in Nat, n <= N, \A m \in Nat : m < n => m \in T
      PROVE  Can(n)
  <2>1. \E f \in [0 .. n - 1 -> S] : Solves(f, n - 1, B, base, down, step)
    <3>1. CASE n = 0
      <4>1. 0 .. n - 1 = {}
        BY <3>1
      <4>2. [x \in {} |-> 0] \in [{} -> S]
        OBVIOUS
      <4> QED BY <4>1, <4>2 DEF Solves
    <3>2. CASE n # 0
      <4>1. n - 1 \in Nat /\ n - 1 < n /\ n - 1 <= N
        BY <1>1, <3>2
      <4> HIDE DEF Can
      <4>2. n - 1 \in T
        BY <1>1, <4>1, Zenon
      <4>3. Can(n - 1)
        BY <4>1, <4>2, Zenon
      <4> QED BY <4>3 DEF Can
    <3> QED BY <3>1, <3>2
  <2>2. Descends(n, S, B, base, down, step)
    <3>1. \A x \in 0 .. n : x \in 0 .. N
      BY <1>1
    <3> QED BY <3>1, Zenon DEF Descends
  <2> QED BY <2>1, <2>2, OneStepFurther
<1>2. T = Nat
  <2> HIDE DEF Can
  <2>1. \A n \in Nat : (\A m \in Nat : m < n => m \in T) => n \in T
    BY <1>1, Zenon
  <2>2. T \in SUBSET Nat
    OBVIOUS
  <2> HIDE DEF T
  <2> QED BY <2>1, <2>2, SmallerFirst
<1>3. N \in T
  BY <1>2, Zenon
<1>4. N <= N
  OBVIOUS
<1> QED
  BY <1>3, <1>4, Zenon

-----------------------------------------------------------------------------
(***************************************************************************)
(* What the digits of a number say.                                        *)
(***************************************************************************)
LEMMA ValueOfDigit ==
  /\ \A d \in 0 .. 9 : Digits[d + 1] \in Digit /\ ValueOf(Digits[d + 1]) = d
  /\ \A c \in Digit : ValueOf(c) \in 0 .. 9
  /\ \A d \in 1 .. 9 : Digits[d + 1] # "0"
<1>1. /\ Digits[1] = "0" /\ Digits[2] = "1" /\ Digits[3] = "2" /\ Digits[4] = "3"
      /\ Digits[5] = "4" /\ Digits[6] = "5" /\ Digits[7] = "6" /\ Digits[8] = "7"
      /\ Digits[9] = "8" /\ Digits[10] = "9"
  BY DEF Digits
<1>2. \A d, e \in 1 .. 10 : Digits[d] = Digits[e] => d = e
  <2>1. ASSUME NEW d \in 1 .. 10, NEW e \in 1 .. 10, d < e
        PROVE  Digits[d] # Digits[e]
    <3>1. /\ d \in {1, 2, 3, 4, 5, 6, 7, 8, 9, 10}
          /\ e \in {1, 2, 3, 4, 5, 6, 7, 8, 9, 10}
      OBVIOUS
    <3> QED BY <1>1, <2>1, <3>1
  <2>2. \A d, e \in 1 .. 10 : d < e \/ e < d \/ d = e
    OBVIOUS
  <2> QED BY <2>1, <2>2
<1>3. ASSUME NEW d \in 1 .. 10
      PROVE  (CHOOSE e \in 1 .. 10 : Digits[e] = Digits[d]) = d
  BY <1>2
<1>4. ASSUME NEW d \in 0 .. 9
      PROVE  Digits[d + 1] \in Digit /\ ValueOf(Digits[d + 1]) = d
  <2>1. d + 1 \in 1 .. 10 /\ (d + 1) - 1 = d
    OBVIOUS
  <2>2. (CHOOSE e \in 1 .. 10 : Digits[e] = Digits[d + 1]) = d + 1
    BY <1>3, <2>1, Zenon
  <2>3. ValueOf(Digits[d + 1]) = (CHOOSE e \in 1 .. 10 : Digits[e] = Digits[d + 1]) - 1
    BY Zenon DEF ValueOf
  <2>4. ValueOf(Digits[d + 1]) = d
    BY <2>1, <2>2, <2>3, Zenon
  <2>5. Digits[d + 1] \in Digit
    BY <2>1, Zenon DEF Digit
  <2> QED BY <2>4, <2>5
<1>5. ASSUME NEW c \in Digit
      PROVE  ValueOf(c) \in 0 .. 9
  <2>1. PICK d \in 1 .. 10 : c = Digits[d]
    BY DEF Digit
  <2>2. d - 1 \in 0 .. 9 /\ (d - 1) + 1 = d
    OBVIOUS
  <2> QED BY <1>4, <2>1, <2>2
<1>6. ASSUME NEW d \in 1 .. 9
      PROVE  Digits[d + 1] # "0"
  <2>1. d + 1 \in 1 .. 10 /\ d + 1 # 1 /\ 1 \in 1 .. 10
    OBVIOUS
  <2> QED BY <1>1, <1>2, <2>1
<1> QED
  BY <1>4, <1>5, <1>6

IsSumOf(f, t) ==
  \A k \in 0 .. Len(t) : f[k] = IF k = 0 THEN 0 ELSE 10 * f[k - 1] + ValueOf(t[k])

LEMMA SumExists ==
  ASSUME NEW t \in Seq(Digit)
  PROVE  \E f : f = [k \in 0 .. Len(t) |-> IF k = 0 THEN 0 ELSE 10 * f[k - 1] + ValueOf(t[k])]
<1> DEFINE n == Len(t)
           base == [k \in {0} |-> 0]
           down == [k \in 1 .. n |-> k - 1]
           step == [p \in (1 .. n) \X Nat |-> 10 * p[2] + ValueOf(t[p[1]])]
<1>1. n \in Nat /\ \A k \in 1 .. n : t[k] \in Digit
  OBVIOUS
<1>2. base[0] = 0 /\ \A k \in 1 .. n : down[k] = k - 1
  OBVIOUS
<1>3. \A k \in 1 .. n, s \in Nat : step[k, s] = 10 * s + ValueOf(t[k])
  OBVIOUS
<1> HIDE DEF n, base, down, step
<1>4. ASSUME NEW k \in 0 .. n
      PROVE  /\ k \in {0} => base[k] \in Nat
             /\ k \notin {0} => /\ down[k] \in Nat /\ down[k] < k
                                /\ \A s \in Nat : step[k, s] \in Nat
  <2>1. CASE k = 0
    BY <1>2, <2>1
  <2>2. CASE k # 0
    <3>1. k \in 1 .. n
      BY <1>1, <2>2
    <3>2. ValueOf(t[k]) \in Nat
      BY <1>1, <3>1, ValueOfDigit
    <3>3. \A s \in Nat : 10 * s + ValueOf(t[k]) \in Nat
      BY <3>2
    <3>4. \A s \in Nat : step[k, s] \in Nat
      BY <1>3, <3>1, <3>3
    <3>5. down[k] = k - 1 /\ k - 1 \in Nat /\ k - 1 < k
      BY <1>2, <3>1
    <3>6. down[k] \in Nat /\ down[k] < k /\ k \notin {0}
      BY <2>2, <3>5
    <3> QED BY <3>4, <3>6, Zenon
  <2> QED BY <2>1, <2>2
<1>5. Descends(n, Nat, {0}, base, down, step)
  BY <1>4, Zenon DEF Descends
<1>6. PICK f \in [0 .. n -> Nat] : Solves(f, n, {0}, base, down, step)
  BY <1>1, <1>5, Recursion
<1>7. ASSUME NEW k \in 0 .. n
      PROVE  f[k] = IF k = 0 THEN 0 ELSE 10 * f[k - 1] + ValueOf(t[k])
  <2>1. f[k] = IF k \in {0} THEN base[k] ELSE step[k, f[down[k]]]
    BY <1>6 DEF Solves
  <2>2. CASE k = 0
    BY <1>2, <2>1, <2>2
  <2>3. CASE k # 0
    <3>1. k \in 1 .. n /\ k - 1 \in 0 .. n
      BY <1>1, <2>3
    <3>2. f[k - 1] \in Nat
      BY <3>1
    <3> QED BY <1>2, <1>3, <2>1, <2>3, <3>1, <3>2
  <2> QED BY <2>2, <2>3
<1>8. f = [k \in 0 .. n |-> f[k]]
  OBVIOUS
<1>9. f = [k \in 0 .. n |-> IF k = 0 THEN 0 ELSE 10 * f[k - 1] + ValueOf(t[k])]
  BY <1>7, <1>8
<1> QED
  BY <1>9 DEF n

LEMMA MagnitudeIsSum ==
  ASSUME NEW t \in Seq(Digit)
  PROVE  \E f : IsSumOf(f, t) /\ Magnitude(t) = f[Len(t)]
<1> DEFINE F(f) == [k \in 0 .. Len(t) |-> IF k = 0 THEN 0 ELSE 10 * f[k - 1] + ValueOf(t[k])]
           sum == CHOOSE f : f = F(f)
<1>1. Magnitude(t) = sum[Len(t)]
  BY DEF Magnitude
<1>2. \E f : f = F(f)
  BY SumExists
<1> HIDE DEF F
<1>3. sum = F(sum)
  BY <1>2
<1> HIDE DEF sum
<1>4. IsSumOf(sum, t)
  BY <1>3 DEF F, IsSumOf
<1> QED
  BY <1>1, <1>4

LEMMA SumsAgree ==
  ASSUME NEW t \in Seq(Digit), NEW c \in Digit, NEW f, IsSumOf(f, t), NEW g, IsSumOf(g, Append(t, c))
  PROVE  \A k \in 0 .. Len(t) : f[k] \in Nat /\ g[k] = f[k]
<1> DEFINE T == {k \in Nat : k <= Len(t) => f[k] \in Nat /\ g[k] = f[k]}
<1>1. PICK n \in Nat : n = Len(t)
  OBVIOUS
<1>2. Len(Append(t, c)) = n + 1 /\ \A k \in 1 .. n : Append(t, c)[k] = t[k] /\ t[k] \in Digit
  BY <1>1
<1>3. /\ \A k \in 0 .. n : f[k] = IF k = 0 THEN 0 ELSE 10 * f[k - 1] + ValueOf(t[k])
      /\ \A k \in 0 .. n + 1 : g[k] = IF k = 0 THEN 0 ELSE 10 * g[k - 1] + ValueOf(Append(t, c)[k])
  BY <1>1, <1>2 DEF IsSumOf
<1>4. ASSUME NEW k \in Nat, \A m \in Nat : m < k => m \in T
      PROVE  k \in T
  <2>1. SUFFICES ASSUME k <= n
                 PROVE  f[k] \in Nat /\ g[k] = f[k]
    BY <1>1
  <2>2. CASE k = 0
    <3>1. 0 \in 0 .. n /\ 0 \in 0 .. n + 1
      OBVIOUS
    <3>2. f[0] = 0 /\ g[0] = 0
      BY <1>3, <3>1
    <3> QED BY <2>2, <3>2
  <2>3. CASE k # 0
    <3>1. k - 1 \in Nat /\ k - 1 < k /\ k - 1 <= n /\ k \in 1 .. n
      BY <2>1, <2>3
    <3>2. f[k - 1] \in Nat /\ g[k - 1] = f[k - 1]
      <4>1. k - 1 \in T
        BY <1>4, <3>1, Zenon
      <4> QED BY <1>1, <3>1, <4>1
    <3>3. k \in 0 .. n /\ k \in 0 .. n + 1
      BY <3>1
    <3>4. f[k] = 10 * f[k - 1] + ValueOf(t[k]) /\ g[k] = 10 * g[k - 1] + ValueOf(Append(t, c)[k])
      BY <1>3, <2>3, <3>3, Zenon
    <3>5. Append(t, c)[k] = t[k] /\ ValueOf(t[k]) \in Nat
      <4>1. Append(t, c)[k] = t[k] /\ t[k] \in Digit
        BY <1>2, <3>1, Zenon
      <4>2. ValueOf(t[k]) \in 0 .. 9
        BY <4>1, ValueOfDigit, Zenon
      <4> QED BY <4>1, <4>2
    <3>6. \A a, b \in Nat : 10 * a + b \in Nat
      OBVIOUS
    <3> QED BY <3>2, <3>4, <3>5, <3>6, Zenon
  <2> QED BY <2>2, <2>3
<1>5. T = Nat
  <2>1. T \in SUBSET Nat
    OBVIOUS
  <2> HIDE DEF T
  <2> QED BY <1>4, <2>1, SmallerFirst, Zenon
<1>6. ASSUME NEW k \in 0 .. Len(t)
      PROVE  f[k] \in Nat /\ g[k] = f[k]
  <2>1. k \in Nat /\ k <= Len(t)
    BY <1>1
  <2>2. k \in T
    BY <1>5, <2>1, Zenon
  <2> QED BY <2>1, <2>2, Zenon
<1> QED
  BY <1>6

LEMMA MagnitudeOfMore ==
  ASSUME NEW t \in Seq(Digit), NEW c \in Digit
  PROVE  /\ Magnitude(t) \in Nat
         /\ Magnitude(Append(t, c)) = 10 * Magnitude(t) + ValueOf(c)
<1>1. PICK n \in Nat : n = Len(t)
  OBVIOUS
<1>2. Append(t, c) \in Seq(Digit) /\ Len(Append(t, c)) = n + 1 /\ Append(t, c)[n + 1] = c
  BY <1>1
<1>3. PICK f : IsSumOf(f, t) /\ Magnitude(t) = f[n]
  BY <1>1, MagnitudeIsSum
<1>4. PICK g : IsSumOf(g, Append(t, c)) /\ Magnitude(Append(t, c)) = g[n + 1]
  BY <1>2, MagnitudeIsSum
<1>5. f[n] \in Nat /\ g[n] = f[n]
  BY <1>1, <1>3, <1>4, SumsAgree
<1>6. g[n + 1] = 10 * g[n] + ValueOf(c)
  <2>1. n + 1 \in 0 .. n + 1 /\ n + 1 # 0 /\ (n + 1) - 1 = n
    OBVIOUS
  <2>2. g[n + 1] = IF n + 1 = 0 THEN 0 ELSE 10 * g[(n + 1) - 1] + ValueOf(Append(t, c)[n + 1])
    BY <1>2, <1>4, <2>1 DEF IsSumOf
  <2> QED BY <1>2, <2>1, <2>2
<1> QED
  BY <1>3, <1>4, <1>5, <1>6

LEMMA MagnitudeOfNone == Magnitude(<< >>) = 0
<1>1. << >> \in Seq(Digit) /\ Len(<< >>) = 0
  OBVIOUS
<1>2. PICK f : IsSumOf(f, << >>) /\ Magnitude(<< >>) = f[0]
  BY <1>1, MagnitudeIsSum
<1>3. 0 \in 0 .. 0
  OBVIOUS
<1> QED
  BY <1>1, <1>2, <1>3 DEF IsSumOf

-----------------------------------------------------------------------------
(***************************************************************************)
(* The two recursions of dump_integer.                                     *)
(***************************************************************************)
Counted(x, f) ==
  IF x < 10 THEN 1 ELSE IF x < 100 THEN 2 ELSE IF x < 1000 THEN 3
  ELSE IF x < 10000 THEN 4 ELSE 4 + f[x \div 10000]

WrittenFrom(x, f) ==
  IF x >= 100 THEN f[x \div 100] \o TwoDigits(x % 100)
  ELSE IF x >= 10 THEN TwoDigits(x) ELSE <<Digits[x + 1]>>

LEMMA CountExists ==
  ASSUME NEW N \in Nat
  PROVE  \E f : f = [x \in 0 .. N |-> Counted(x, f)]
<1> DEFINE Low == 0 .. 9999
           Quarter(x) == x \div 10000
           base == [x \in Low |-> Counted(x, << >>)]
           down == [x \in Nat |-> Quarter(x)]
           step == [p \in Nat \X Nat |-> 4 + p[2]]
<1>1. ASSUME NEW x \in Nat, x \notin Low
      PROVE  Quarter(x) \in Nat /\ Quarter(x) < x
  BY <1>1
<1>2. ASSUME NEW x \in Low
      PROVE  /\ Counted(x, << >>) \in {1, 2, 3, 4}
             /\ \A f : Counted(x, f) = Counted(x, << >>)
  BY DEF Counted
<1>3. ASSUME NEW x \in Nat, x \notin Low
      PROVE  \A f : Counted(x, f) = 4 + f[Quarter(x)]
  <2>1. ~ (x < 10) /\ ~ (x < 100) /\ ~ (x < 1000) /\ ~ (x < 10000)
    BY <1>3
  <2> QED BY <2>1, SMT DEF Counted
<1> HIDE DEF Low, Quarter
<1>4. /\ \A x \in Low : base[x] = Counted(x, << >>)
      /\ \A x \in Nat : down[x] = Quarter(x)
      /\ \A x, s \in Nat : step[x, s] = 4 + s
  OBVIOUS
<1> HIDE DEF base, down, step
<1>5. ASSUME NEW x \in 0 .. N
      PROVE  /\ x \in Low => base[x] \in Nat
             /\ x \notin Low => /\ down[x] \in Nat /\ down[x] < x
                                /\ \A s \in Nat : step[x, s] \in Nat
  <2>1. ASSUME x \in Low
        PROVE  base[x] \in Nat
    <3>1. base[x] \in {1, 2, 3, 4}
      BY <1>2, <1>4, <2>1, Zenon
    <3> QED BY <3>1
  <2>2. ASSUME x \notin Low
        PROVE  down[x] \in Nat /\ down[x] < x /\ \A s \in Nat : step[x, s] \in Nat
    <3>1. x \in Nat /\ \A s \in Nat : 4 + s \in Nat
      OBVIOUS
    <3>2. Quarter(x) \in Nat /\ Quarter(x) < x
      BY <1>1, <2>2, <3>1, Zenon
    <3> QED BY <1>4, <3>1, <3>2, Zenon
  <2> QED BY <2>1, <2>2, Zenon
<1>6. Descends(N, Nat, Low, base, down, step)
  BY <1>5, Zenon DEF Descends
<1>7. PICK f \in [0 .. N -> Nat] : Solves(f, N, Low, base, down, step)
  BY <1>6, Recursion
<1>8. ASSUME NEW x \in 0 .. N
      PROVE  f[x] = Counted(x, f)
  <2>1. f[x] = IF x \in Low THEN base[x] ELSE step[x, f[down[x]]]
    BY <1>7, Zenon DEF Solves
  <2>2. CASE x \in Low
    BY <1>2, <1>4, <2>1, <2>2, Zenon
  <2>3. CASE x \notin Low
    <3>1. x \in Nat
      OBVIOUS
    <3>2. Quarter(x) \in Nat /\ Quarter(x) < x
      BY <1>1, <2>3, <3>1, Zenon
    <3>3. f[Quarter(x)] \in Nat
      <4>1. Quarter(x) \in 0 .. N
        BY <3>2
      <4> QED BY <4>1
    <3>4. f[x] = 4 + f[Quarter(x)]
      <4>1. down[x] = Quarter(x)
        BY <1>4, <3>1, Zenon
      <4>2. step[x, f[Quarter(x)]] = 4 + f[Quarter(x)]
        BY <1>4, <3>1, <3>3, Zenon
      <4> QED BY <2>1, <2>3, <4>1, <4>2, Zenon
    <3> QED BY <1>3, <2>3, <3>1, <3>4, Zenon
  <2> QED BY <2>2, <2>3
<1>9. f = [x \in 0 .. N |-> f[x]]
  OBVIOUS
<1> QED
  BY <1>8, <1>9, Zenon

LEMMA CountIs ==
  ASSUME NEW N \in Nat
  PROVE  \E f : f = [x \in 0 .. N |-> Counted(x, f)] /\ count_digits(N) = f[N]
<1> DEFINE F(f) == [x \in 0 .. N |-> Counted(x, f)]
           count == CHOOSE f : f = F(f)
<1>1. count_digits(N) = count[N]
  BY DEF count_digits, Counted
<1>2. \E f : f = F(f)
  BY CountExists
<1> HIDE DEF F
<1>3. count = F(count)
  BY <1>2
<1> HIDE DEF count
<1> QED
  BY <1>1, <1>3 DEF F

LEMMA PairOfDigits ==
  ASSUME NEW x \in 0 .. 99
  PROVE  \E a, b \in Digit : /\ TwoDigits(x) = <<a, b>>
                             /\ 10 * ValueOf(a) + ValueOf(b) = x
                             /\ x >= 10 => a # "0"
<1>1. /\ x \div 10 \in 0 .. 9 /\ x % 10 \in 0 .. 9 /\ 10 * (x \div 10) + (x % 10) = x
      /\ x >= 10 => x \div 10 \in 1 .. 9
  OBVIOUS
<1> DEFINE a == Digits[(x \div 10) + 1]
           b == Digits[(x % 10) + 1]
<1>2. a \in Digit /\ ValueOf(a) = x \div 10 /\ b \in Digit /\ ValueOf(b) = x % 10
  BY <1>1, ValueOfDigit, Zenon
<1>3. x >= 10 => a # "0"
  BY <1>1, ValueOfDigit, Zenon
<1>4. TwoDigits(x) = <<a, b>>
  BY DEF TwoDigits
<1> HIDE DEF a, b
<1>5. 10 * ValueOf(a) + ValueOf(b) = x
  BY <1>1, <1>2
<1> QED
  BY <1>2, <1>3, <1>4, <1>5

LEMMA WrittenExists ==
  ASSUME NEW N \in Nat
  PROVE  \E f : f = [x \in 0 .. N |-> WrittenFrom(x, f)]
<1> DEFINE base == [x \in 0 .. 99 |-> WrittenFrom(x, << >>)]
           down == [x \in Nat |-> x \div 100]
           step == [p \in Nat \X Seq(Digit) |-> p[2] \o TwoDigits(p[1] % 100)]
<1>1. \A x \in 0 .. 99 : base[x] = WrittenFrom(x, << >>)
  OBVIOUS
<1>2. \A x \in Nat : down[x] = x \div 100
  OBVIOUS
<1>3. \A x \in Nat, s \in Seq(Digit) : step[x, s] = s \o TwoDigits(x % 100)
  OBVIOUS
<1> HIDE DEF base, down, step
<1>4. \A x \in 0 .. 99 : TwoDigits(x) \in Seq(Digit)
  <2> TAKE x \in 0 .. 99
  <2>1. PICK a \in Digit, b \in Digit : TwoDigits(x) = <<a, b>>
    BY PairOfDigits
  <2>2. <<a, b>> \in Seq(Digit)
    OBVIOUS
  <2> QED BY <2>1, <2>2, Zenon
<1>5. ASSUME NEW x \in 0 .. N
      PROVE  /\ x \in 0 .. 99 => base[x] \in Seq(Digit)
             /\ x \notin 0 .. 99 => /\ down[x] \in Nat /\ down[x] < x
                                    /\ \A s \in Seq(Digit) : step[x, s] \in Seq(Digit)
  <2>1. ASSUME x \in 0 .. 99
        PROVE  base[x] \in Seq(Digit)
    <3>1. base[x] = WrittenFrom(x, << >>)
      BY <1>1, <2>1, Zenon
    <3>2. CASE x >= 10
      <4>1. ~ (x >= 100)
        BY <2>1
      <4>2. WrittenFrom(x, << >>) = TwoDigits(x)
        BY <3>2, <4>1, Zenon DEF WrittenFrom
      <4> QED BY <1>4, <2>1, <3>1, <4>2, Zenon
    <3>3. CASE ~ (x >= 10)
      <4>1. ~ (x >= 100) /\ x \in 0 .. 9
        BY <2>1, <3>3
      <4>2. WrittenFrom(x, << >>) = <<Digits[x + 1]>>
        BY <3>3, <4>1, Zenon DEF WrittenFrom
      <4>3. Digits[x + 1] \in Digit
        BY <4>1, ValueOfDigit, Zenon
      <4>4. \A a \in Digit : <<a>> \in Seq(Digit)
        OBVIOUS
      <4> QED BY <3>1, <4>2, <4>3, <4>4, Zenon
    <3> QED BY <3>2, <3>3, Zenon
  <2>2. ASSUME x \notin 0 .. 99
        PROVE  down[x] \in Nat /\ down[x] < x /\ \A s \in Seq(Digit) : step[x, s] \in Seq(Digit)
    <3>1. x \in Nat /\ x \div 100 \in Nat /\ x \div 100 < x /\ x % 100 \in 0 .. 99
      BY <2>2
    <3>2. down[x] = x \div 100 /\ \A s \in Seq(Digit) : step[x, s] = s \o TwoDigits(x % 100)
      BY <1>2, <1>3, <3>1, Zenon
    <3>3. TwoDigits(x % 100) \in Seq(Digit)
      BY <1>4, <3>1, Zenon
    <3>4. \A s, t \in Seq(Digit) : s \o t \in Seq(Digit)
      OBVIOUS
    <3>5. down[x] \in Nat /\ down[x] < x
      BY <3>1, <3>2, Zenon
    <3>6. \A s \in Seq(Digit) : step[x, s] \in Seq(Digit)
      BY <3>2, <3>3, <3>4, Zenon
    <3> QED BY <3>5, <3>6, Zenon
  <2> QED BY <2>1, <2>2, Zenon
<1>6. Descends(N, Seq(Digit), 0 .. 99, base, down, step)
  BY <1>5, Zenon DEF Descends
<1>7. PICK f \in [0 .. N -> Seq(Digit)] : Solves(f, N, 0 .. 99, base, down, step)
  BY <1>6, Recursion
<1>8. ASSUME NEW x \in 0 .. N
      PROVE  f[x] = WrittenFrom(x, f)
  <2>1. f[x] = IF x \in 0 .. 99 THEN base[x] ELSE step[x, f[down[x]]]
    BY <1>7, Zenon DEF Solves
  <2>2. CASE x \in 0 .. 99
    <3>1. f[x] = WrittenFrom(x, << >>)
      BY <1>1, <2>1, <2>2, Zenon
    <3>2. ~ (x >= 100)
      BY <2>2
    <3>3. WrittenFrom(x, << >>) = WrittenFrom(x, f)
      BY <3>2, Zenon DEF WrittenFrom
    <3> QED BY <3>1, <3>3
  <2>3. CASE x \notin 0 .. 99
    <3>1. x \in Nat /\ x \div 100 \in 0 .. N /\ x >= 100
      BY <2>3
    <3>2. f[x \div 100] \in Seq(Digit)
      BY <3>1
    <3>3. f[x] = f[x \div 100] \o TwoDigits(x % 100)
      BY <1>2, <1>3, <2>1, <2>3, <3>1, <3>2, Zenon
    <3>4. WrittenFrom(x, f) = f[x \div 100] \o TwoDigits(x % 100)
      BY <3>1, Zenon DEF WrittenFrom
    <3> QED BY <3>3, <3>4
  <2> QED BY <2>2, <2>3
<1>9. f = [x \in 0 .. N |-> f[x]]
  OBVIOUS
<1> QED
  BY <1>8, <1>9

LEMMA WrittenIs ==
  ASSUME NEW N \in Nat
  PROVE  \E f : f = [x \in 0 .. N |-> WrittenFrom(x, f)] /\ Written(N) = f[N]
<1> DEFINE F(f) == [x \in 0 .. N |-> WrittenFrom(x, f)]
           from == CHOOSE f : f = F(f)
<1>1. Written(N) = from[N]
  BY DEF Written, WrittenFrom
<1>2. \E f : f = F(f)
  BY WrittenExists
<1> HIDE DEF F
<1>3. from = F(from)
  BY <1>2
<1> HIDE DEF from
<1> QED
  BY <1>1, <1>3 DEF F

LEMMA TwoMoreDigits ==
  ASSUME NEW s \in Seq(Digit), NEW x \in 0 .. 99
  PROVE  /\ s \o TwoDigits(x) \in Seq(Digit)
         /\ Len(s \o TwoDigits(x)) = Len(s) + 2
         /\ Magnitude(s \o TwoDigits(x)) = 100 * Magnitude(s) + x
         /\ s # << >> => (s \o TwoDigits(x))[1] = s[1]
<1>1. PICK a \in Digit, b \in Digit : /\ TwoDigits(x) = <<a, b>>
                                      /\ 10 * ValueOf(a) + ValueOf(b) = x
  BY PairOfDigits
<1>2. s \o <<a, b>> = Append(Append(s, a), b)
  OBVIOUS
<1>3. /\ Append(s, a) \in Seq(Digit) /\ Append(Append(s, a), b) \in Seq(Digit)
      /\ Len(Append(Append(s, a), b)) = Len(s) + 2
      /\ s # << >> => Append(Append(s, a), b)[1] = s[1]
  OBVIOUS
<1>4. Magnitude(Append(Append(s, a), b)) = 100 * Magnitude(s) + x
  <2>1. /\ Magnitude(s) \in Nat
        /\ Magnitude(Append(s, a)) = 10 * Magnitude(s) + ValueOf(a)
        /\ Magnitude(Append(Append(s, a), b)) = 10 * Magnitude(Append(s, a)) + ValueOf(b)
    BY <1>3, MagnitudeOfMore
  <2>2. ValueOf(a) \in 0 .. 9 /\ ValueOf(b) \in 0 .. 9
    BY ValueOfDigit
  <2>3. ValueOf(a) \in Nat /\ ValueOf(b) \in Nat
    BY <2>2
  <2>4. PICK m \in Nat, v \in Nat, w \in Nat : m = Magnitude(s) /\ v = ValueOf(a) /\ w = ValueOf(b)
    BY <2>1, <2>3
  <2>5. Magnitude(Append(Append(s, a), b)) = 10 * (10 * m + v) + w /\ 10 * v + w = x
    BY <1>1, <2>1, <2>4, Zenon
  <2>6. 10 * (10 * m + v) + w = 100 * m + (10 * v + w)
    OBVIOUS
  <2> QED BY <2>4, <2>5, <2>6
<1> QED
  BY <1>1, <1>2, <1>3, <1>4, Zenon

WellWritten(d, x) ==
  /\ d \in Seq(Digit) /\ d # << >>
  /\ Magnitude(d) = x
  /\ x > 0 => d[1] # "0"
  /\ x < 10 => Len(d) = 1
  /\ x >= 10 /\ x < 100 => Len(d) = 2

LEMMA WrittenLow ==
  ASSUME NEW x \in 0 .. 99, NEW f
  PROVE  WellWritten(WrittenFrom(x, f), x)
<1>1. ~ (x >= 100)
  OBVIOUS
<1>2. CASE x >= 10
  <2>1. WrittenFrom(x, f) = TwoDigits(x)
    BY <1>1, <1>2, Zenon DEF WrittenFrom
  <2>2. PICK a \in Digit, b \in Digit : TwoDigits(x) = <<a, b>> /\ a # "0"
    BY <1>2, PairOfDigits
  <2>3. << >> \in Seq(Digit) /\ << >> \o <<a, b>> = <<a, b>> /\ Len(<<a, b>>) = 2
        /\ <<a, b>>[1] = a /\ <<a, b>> # << >> /\ <<a, b>> \in Seq(Digit)
    OBVIOUS
  <2>4. Magnitude(<< >> \o TwoDigits(x)) = 100 * Magnitude(<< >>) + x
    BY <2>3, TwoMoreDigits
  <2>5. Magnitude(<<a, b>>) = x
    <3>1. 100 * 0 + x = x
      OBVIOUS
    <3> QED BY <2>2, <2>3, <2>4, <3>1, MagnitudeOfNone, Zenon
  <2>6. ~ (x < 10)
    BY <1>2
  <2> QED BY <2>1, <2>2, <2>3, <2>5, <2>6, Zenon DEF WellWritten
<1>3. CASE ~ (x >= 10)
  <2>1. WrittenFrom(x, f) = <<Digits[x + 1]>>
    BY <1>1, <1>3, Zenon DEF WrittenFrom
  <2>2. x \in 0 .. 9 /\ (x > 0 => x \in 1 .. 9)
    BY <1>3
  <2>3. /\ Digits[x + 1] \in Digit /\ ValueOf(Digits[x + 1]) = x
        /\ x > 0 => Digits[x + 1] # "0"
    BY <2>2, ValueOfDigit, Zenon
  <2> DEFINE a == Digits[x + 1]
  <2>4. a \in Digit /\ ValueOf(a) = x /\ (x > 0 => a # "0")
    BY <2>3
  <2> HIDE DEF a
  <2>5. << >> \in Seq(Digit) /\ Append(<< >>, a) = <<a>> /\ Len(<<a>>) = 1
        /\ <<a>>[1] = a /\ <<a>> # << >> /\ <<a>> \in Seq(Digit)
    BY <2>4
  <2>6. Magnitude(Append(<< >>, a)) = 10 * Magnitude(<< >>) + ValueOf(a)
    BY <2>4, <2>5, MagnitudeOfMore, Zenon
  <2>7. Magnitude(<<a>>) = x
    <3>1. 10 * 0 + x = x
      OBVIOUS
    <3> QED BY <2>4, <2>5, <2>6, <3>1, MagnitudeOfNone, Zenon
  <2>8. WellWritten(<<a>>, x)
    BY <1>3, <2>4, <2>5, <2>7, Zenon DEF WellWritten
  <2> QED BY <2>1, <2>8 DEF a
<1> QED
  BY <1>2, <1>3

LEMMA WrittenHigh ==
  ASSUME NEW x \in Nat, x >= 100, NEW f, WellWritten(f[x \div 100], x \div 100)
  PROVE  /\ WellWritten(WrittenFrom(x, f), x)
         /\ Len(WrittenFrom(x, f)) = Len(f[x \div 100]) + 2
<1> DEFINE y == x \div 100
           r == x % 100
<1>1. y \in Nat /\ y > 0 /\ r \in 0 .. 99 /\ 100 * y + r = x
  OBVIOUS
<1>2. WrittenFrom(x, f) = f[y] \o TwoDigits(r)
  BY DEF WrittenFrom
<1>3. /\ f[y] \in Seq(Digit) /\ f[y] # << >> /\ Magnitude(f[y]) = y /\ f[y][1] # "0"
  BY <1>1 DEF WellWritten
<1> HIDE DEF y, r
<1> DEFINE d == f[y] \o TwoDigits(r)
<1>4. /\ d \in Seq(Digit) /\ Len(d) = Len(f[y]) + 2
      /\ Magnitude(d) = 100 * Magnitude(f[y]) + r /\ d[1] = f[y][1]
  BY <1>1, <1>3, TwoMoreDigits
<1>5. Magnitude(d) = x
  BY <1>1, <1>3, <1>4, Zenon
<1>6. d # << >>
  <2>1. Len(f[y]) \in Nat
    BY <1>3
  <2>2. Len(d) # 0
    BY <1>4, <2>1
  <2> QED BY <1>4, <2>2, EmptySeq
<1>7. ~ (x < 10) /\ ~ (x < 100)
  OBVIOUS
<1> HIDE DEF d
<1>8. WellWritten(d, x)
  BY <1>3, <1>4, <1>5, <1>6, <1>7, Zenon DEF WellWritten
<1> QED
  BY <1>2, <1>4, <1>8 DEF d, y

(***************************************************************************)
(* The digits are those of the number, and as many as were counted: two at *)
(* a time, and four.                                                       *)
(***************************************************************************)
LEMMA WrittenWell ==
  ASSUME NEW N \in Nat
  PROVE  WellWritten(Written(N), N) /\ Len(Written(N)) = count_digits(N)
<1>1. PICK w : w = [x \in 0 .. N |-> WrittenFrom(x, w)] /\ Written(N) = w[N]
  BY WrittenIs
<1>2. PICK c : c = [x \in 0 .. N |-> Counted(x, c)] /\ count_digits(N) = c[N]
  BY CountIs
<1>3. \A x \in 0 .. N : w[x] = WrittenFrom(x, w) /\ c[x] = Counted(x, c)
  BY <1>1, <1>2
<1> DEFINE Good(x) == WellWritten(w[x], x) /\ Len(w[x]) = c[x]
           T == {x \in Nat : x <= N => Good(x)}
<1>4. ASSUME NEW x \in Nat, x <= N, \A m \in Nat : m < x => m \in T
      PROVE  Good(x)
  <2>1. w[x] = WrittenFrom(x, w) /\ c[x] = Counted(x, c)
    <3>1. x \in 0 .. N
      BY <1>4
    <3> QED BY <1>3, <3>1
  <2>2. CASE x < 100
    <3>1. x \in 0 .. 99
      BY <2>2
    <3>2. WellWritten(w[x], x)
      BY <2>1, <3>1, WrittenLow, Zenon
    <3>3. x < 10 => Counted(x, c) = 1
      BY DEF Counted
    <3>4. ~ (x < 10) => Counted(x, c) = 2
      BY <2>2 DEF Counted
    <3>5. ~ (x < 10) => x >= 10
      OBVIOUS
    <3> QED BY <2>1, <2>2, <3>2, <3>3, <3>4, <3>5, Zenon DEF WellWritten
  <2>3. CASE ~ (x < 100)
    <3> DEFINE y == x \div 100
    <3>1. x >= 100 /\ y \in Nat /\ y < x /\ y <= N
      BY <1>4, <2>3
    <3>2. Good(y)
      <4> HIDE DEF Good, y
      <4>1. y \in T
        BY <1>4, <3>1, Zenon
      <4> QED BY <3>1, <4>1, Zenon
    <3>3. WellWritten(w[x], x) /\ Len(w[x]) = Len(w[y]) + 2
      <4>1. WellWritten(w[x \div 100], x \div 100)
        BY <3>2
      <4>2. x >= 100
        BY <3>1
      <4>3. WellWritten(WrittenFrom(x, w), x) /\ Len(WrittenFrom(x, w)) = Len(w[x \div 100]) + 2
        BY <4>1, <4>2, WrittenHigh
      <4> QED BY <2>1, <4>3
    <3>4. CASE x < 1000
      <4>1. y < 10
        BY <3>4
      <4>2. Len(w[y]) = 1
        BY <3>2, <4>1, Zenon DEF WellWritten
      <4>3. Counted(x, c) = 3
        BY <2>3, <3>4 DEF Counted
      <4>4. Len(w[x]) = 3
        BY <3>3, <4>2
      <4> QED BY <2>1, <3>3, <4>3, <4>4
    <3>5. CASE ~ (x < 1000) /\ x < 10000
      <4>1. y >= 10 /\ y < 100
        BY <3>5
      <4>2. Len(w[y]) = 2
        BY <3>2, <4>1, Zenon DEF WellWritten
      <4>3. Counted(x, c) = 4
        BY <2>3, <3>5 DEF Counted
      <4>4. Len(w[x]) = 4
        BY <3>3, <4>2
      <4> QED BY <2>1, <3>3, <4>3, <4>4
    <3>6. CASE ~ (x < 10000)
      <4> DEFINE z == y \div 100
      <4>1. y >= 100 /\ z \in Nat /\ z < x /\ z <= N
        BY <1>4, <3>6
      <4>2. Good(z)
        <5> HIDE DEF Good, z
        <5>1. z \in T
          BY <1>4, <4>1, Zenon
        <5> QED BY <4>1, <5>1, Zenon
      <4>3. Len(w[y]) = Len(w[z]) + 2
        <5>1. WellWritten(w[y \div 100], y \div 100) /\ y \in 0 .. N
          BY <3>1, <4>2
        <5>2. Len(WrittenFrom(y, w)) = Len(w[y \div 100]) + 2
          BY <3>1, <4>1, <5>1, WrittenHigh
        <5> QED BY <1>3, <5>1, <5>2
      <4>4. ~ (x < 10) /\ ~ (x < 100) /\ ~ (x < 1000) /\ ~ (x < 10000)
        BY <3>6
      <4>5. Counted(x, c) = 4 + c[x \div 10000]
        BY <4>4, SMT DEF Counted
      <4>6. Len(w[z]) \in Nat
        BY <4>2 DEF WellWritten
      <4>7. Len(w[z]) = c[x \div 10000]
        <5>1. z = x \div 10000
          OBVIOUS
        <5>2. Len(w[z]) = c[z]
          BY <4>2
        <5> HIDE DEF z
        <5> QED BY <5>1, <5>2
      <4>8. Len(w[x]) = 4 + Len(w[z])
        <5> HIDE DEF z, y
        <5> QED BY <3>3, <4>3, <4>6
      <4> QED BY <2>1, <3>3, <4>5, <4>7, <4>8
    <3> QED BY <3>4, <3>5, <3>6
  <2> QED BY <2>2, <2>3
<1>5. T = Nat
  <2> HIDE DEF Good
  <2>1. \A x \in Nat : (\A m \in Nat : m < x => m \in T) => x \in T
    BY <1>4, Zenon
  <2>2. T \in SUBSET Nat
    OBVIOUS
  <2> HIDE DEF T
  <2> QED BY <2>1, <2>2, SmallerFirst
<1>6. Good(N)
  <2> HIDE DEF Good
  <2>1. N \in T /\ N <= N
    BY <1>5
  <2> QED BY <2>1
<1> QED
  BY <1>1, <1>2, <1>6

LEMMA DigitsAreText ==
  ASSUME NEW t \in Seq(Digit)
  PROVE  t \in Seq(Character)
<1>1. Digit \subseteq Character
  BY DEF Character
<1> QED
  BY <1>1

LEMMA Dumped ==
  ASSUME NEW x \in Int
  PROVE  LET d == dump_integer(x)
         IN  /\ d \in Seq(Character) /\ d # << >>
             /\ x >= 0 => d = Written(x)
             /\ x < 0 => d[1] = "-" /\ Tail(d) = Written(-x)
<1> DEFINE d == dump_integer(x)
<1>1. CASE x >= 0
  <2>1. PICK w : w = Written(x) /\ w \in Seq(Digit) /\ w # << >> /\ Len(w) = count_digits(x)
    BY <1>1, WrittenWell DEF WellWritten
  <2>2. d = [k \in 1 .. Len(w) |-> w[k]]
    <3>1. ~ (x < 0) /\ Len(w) + 0 = Len(w) /\ Len(w) - Len(w) = 0
          /\ \A k \in 1 .. Len(w) : k > 0 /\ k - 0 = k
      BY <1>1, <2>1
    <3>2. d = [k \in 1 .. Len(w) |-> IF k > 0 THEN w[k - 0]
                                     ELSE IF x < 0 /\ k = 1 THEN "-" ELSE Undefined]
      BY <2>1, <3>1 DEF dump_integer
    <3> QED BY <3>1, <3>2
  <2>3. d = w
    BY <2>1, <2>2
  <2> QED BY <1>1, <2>1, <2>3, DigitsAreText
<1>2. CASE x < 0
  <2>1. remove_sign(x) = -x /\ -x \in Nat
    BY <1>2 DEF remove_sign
  <2>2. PICK w : w = Written(-x) /\ w \in Seq(Digit) /\ w # << >> /\ Len(w) = count_digits(-x)
    BY <2>1, WrittenWell DEF WellWritten
  <2>3. PICK n \in Nat : n = Len(w)
    BY <2>2
  <2>4. d = [k \in 1 .. n + 1 |-> IF k > 1 THEN w[k - 1] ELSE "-"]
    <3>1. (n + 1) - n = 1 /\ \A k \in 1 .. n + 1 : ~ (k > 1) => k = 1
      OBVIOUS
    <3>2. d = [k \in 1 .. n + 1 |-> IF k > 1 THEN w[k - 1]
                                    ELSE IF x < 0 /\ k = 1 THEN "-" ELSE Undefined]
      BY <1>2, <2>1, <2>2, <2>3, <3>1 DEF dump_integer
    <3> QED BY <1>2, <3>1, <3>2
  <2>5. w \in Seq(Character) /\ "-" \in Character
    BY <2>2, DigitsAreText DEF Character
  <2>6. d \in Seq(Character) /\ Len(d) = n + 1 /\ d[1] = "-" /\ \A k \in 1 .. n : d[k + 1] = w[k]
    <3>1. \A k \in 1 .. n + 1 : (IF k > 1 THEN w[k - 1] ELSE "-") \in Character
      BY <2>3, <2>5
    <3> QED BY <2>4, <3>1
  <2>7. Tail(d) = w
    <3> HIDE DEF d
    <3>1. Tail(d) \in Seq(Character) /\ Len(Tail(d)) = n /\ \A k \in 1 .. n : Tail(d)[k] = d[k + 1]
      BY <2>6
    <3> QED BY <2>3, <2>5, <2>6, <3>1, SeqEqual
  <2>8. d # << >>
    BY <2>6
  <2> QED BY <1>2, <2>2, <2>6, <2>7, <2>8
<1> QED
  BY <1>1, <1>2

LEMMA DumpedIsWhole ==
  ASSUME NEW x \in Int
  PROVE  LET d == dump_integer(x)
         IN  /\ IsWhole(d) /\ SignedValue(d) = x
             /\ d[1] = "-" <=> x < 0
<1> DEFINE d == dump_integer(x)
           n == IF x < 0 THEN -x ELSE x
<1>1. /\ n \in Nat /\ (x < 0 => x = -n) /\ (~ (x < 0) => x = n /\ x >= 0)
  OBVIOUS
<1> HIDE DEF n
<1>2. PICK w : w = Written(n) /\ WellWritten(w, n)
  BY <1>1, WrittenWell
<1>3. /\ w \in Seq(Digit) /\ w # << >> /\ Magnitude(w) = n /\ w[1] \in Digit
      /\ n > 0 => w[1] # "0"
      /\ n < 10 => Len(w) = 1
  BY <1>2 DEF WellWritten
<1>4. IsInteger(w)
  <2>1. AreDigits(w)
    BY <1>3 DEF AreDigits
  <2>2. ~ (n > 0) => n < 10
    BY <1>1
  <2> QED BY <1>3, <2>1, <2>2 DEF IsInteger
<1>5. d # << >> /\ (x >= 0 => d = Written(x)) /\ (x < 0 => d[1] = "-" /\ Tail(d) = Written(-x))
  BY Dumped
<1> HIDE DEF d
<1>6. CASE x < 0
  <2>1. d[1] = "-" /\ Tail(d) = w
    BY <1>2, <1>5, <1>6 DEF n
  <2>2. UnsignedPart(d) = w /\ SignedValue(d) = -n
    BY <1>3, <1>5, <2>1 DEF UnsignedPart, SignedValue
  <2> QED BY <1>1, <1>4, <1>6, <2>1, <2>2 DEF IsWhole, d
<1>7. CASE ~ (x < 0)
  <2>1. d = w
    BY <1>1, <1>2, <1>5, <1>7
  <2>2. d[1] # "-"
    BY <1>3, <2>1, DigitsAre
  <2>3. UnsignedPart(d) = w /\ SignedValue(d) = n
    BY <1>3, <2>1, <2>2 DEF UnsignedPart, SignedValue
  <2> QED BY <1>1, <1>4, <1>7, <2>2, <2>3 DEF IsWhole, d
<1> QED
  BY <1>6, <1>7

-----------------------------------------------------------------------------
LEMMA ScanInvInit == NumberInit \/ NotScanning => ScanInv
<1>1. << >> \in Seq(Character) /\ Len(<< >>) = 0
  OBVIOUS
<1>2. ASSUME NEW text \in Seq(Character), ScanInit(text)
      PROVE  ScanInv
  <2>1. /\ input = text /\ position = 1 /\ label = "init" /\ number_type = "value_unsigned"
        /\ token_buffer = << >> /\ token = "scanning"
    BY <1>2 DEF ScanInit
  <2>2. Reading
    <3>1. SubSeq(text, 1, 0) = << >>
      BY SubSeqEmpty
    <3>2. 1 \in 1 .. Len(text) + 1 /\ 1 - 1 = 0
      OBVIOUS
    <3> QED BY <2>1, <3>1, <3>2 DEF Reading
  <2>3. Labelled
    <3>1. UnsignedPart(<< >>) = << >>
      BY DEF UnsignedPart
    <3>2. TypeOf("init", << >>) = "value_unsigned" /\ "init" \in Live
      BY DEF TypeOf, Live
    <3> QED BY <2>1, <3>1, <3>2, NothingRead DEF Labelled
  <2>4. ScansNumbers
    BY <2>1 DEF ScansNumbers
  <2> QED BY <2>2, <2>3, <2>4 DEF ScanInv
<1>3. ASSUME NumberInit
      PROVE  ScanInv
  <2>1. CASE \E text \in Texts : ScanInit(text)
    <3>1. PICK text \in Texts : ScanInit(text)
      BY <2>1
    <3>2. text \in Seq(Character)
      <4>1. STRING \subseteq Character
        BY DEF Character
      <4>2. text \in Seq(STRING)
        BY NumberAssumption
      <4>3. ASSUME NEW S, S \subseteq Character, NEW t \in Seq(S)
            PROVE  t \in Seq(Character)
        BY <4>3
      <4> QED BY <4>1, <4>2, <4>3
    <3> QED BY <1>2, <3>1, <3>2
  <2>2. CASE \E x \in Numbers : ScanInit(dump_integer(x))
    <3>1. PICK x \in Numbers : ScanInit(dump_integer(x))
      BY <2>2
    <3>2. x \in Int
      BY NumberAssumption, PowerAssumption
    <3> QED BY <1>2, <3>1, <3>2, Dumped
  <2> QED BY <1>3, <2>1, <2>2 DEF NumberInit
<1>4. ASSUME NotScanning
      PROVE  ScanInv
  <2>1. input = << >> /\ position = 1 /\ token_buffer = << >> /\ token = "none"
    BY <1>4 DEF NotScanning
  <2>2. Reading
    <3>1. SubSeq(<< >>, 1, 0) = << >> /\ 1 \in 1 .. 0 + 1 /\ 1 - 1 = 0
      OBVIOUS
    <3> QED BY <1>1, <2>1, <3>1 DEF Reading
  <2>3. ScansNumbers
    BY <2>1 DEF ScansNumbers
  <2> QED BY <2>1, <2>2, <2>3 DEF ScanInv
<1> QED
  BY <1>3, <1>4

LEMMA ScanInvNext == ScanInv /\ [Scan]_numberVars => ScanInv'
<1> SUFFICES ASSUME ScanInv, [Scan]_numberVars
             PROVE  ScanInv'
  OBVIOUS
<1>1. CASE Read
  <2>1. Reading' /\ Labelled'
    BY <1>1, ReadKeeps DEF ScanInv, Read
  <2>2. token' = "scanning"
    BY <1>1 DEF Read
  <2>3. ScansNumbers'
    BY <2>2 DEF ScansNumbers
  <2> QED BY <2>1, <2>3 DEF ScanInv
<1>2. CASE ScanFails
  <2>1. Reading' /\ ScansNumbers'
    BY <1>2, FailKeeps DEF ScanInv, ScanFails
  <2>2. token' # "scanning"
    BY <1>2 DEF ScanFails
  <2> QED BY <2>1, <2>2 DEF ScanInv
<1>3. CASE ScanDone
  <2>1. Reading' /\ ScansNumbers' /\ Labelled
    BY <1>3, DoneKeeps DEF ScanInv, ScanDone
  <2>2. token' # "scanning"
    <3>1. number_type # "scanning"
      BY <2>1 DEF Labelled, TypeOf
    <3> QED BY <1>3, <3>1 DEF ScanDone
  <2> QED BY <2>1, <2>2 DEF ScanInv
<1>4. CASE UNCHANGED numberVars
  <2>1. /\ input' = input /\ position' = position /\ label' = label /\ number_type' = number_type
        /\ token_buffer' = token_buffer /\ token' = token /\ value' = value
    BY <1>4 DEF numberVars
  <2>2. Reading' <=> Reading
    BY <2>1 DEF Reading
  <2>3. Labelled' <=> Labelled
    BY <2>1 DEF Labelled
  <2>4. ScansNumbers' <=> ScansNumbers
    BY <2>1 DEF ScansNumbers, NextCharacter, KeepsValue
  <2> QED BY <2>1, <2>2, <2>3, <2>4 DEF ScanInv
<1> QED
  BY <1>1, <1>2, <1>3, <1>4 DEF Scan

(***************************************************************************)
(* scan_number reads as far as the text is the beginning of a number of    *)
(* the grammar, fails exactly if that is no number, and keeps its value,   *)
(* for texts of every length and integers of every width.                  *)
(***************************************************************************)
THEOREM NumbersAreScanned == NumberSpec => []ScansNumbers
<1>1. ScanInv => ScansNumbers
  BY DEF ScanInv
<1> QED
  BY <1>1, ScanInvInit, ScanInvNext, PTL DEF NumberSpec

-----------------------------------------------------------------------------
(***************************************************************************)
(* A dumped integer is read to its end, as every part of it goes on.       *)
(***************************************************************************)
LEMMA IntegerBegins ==
  ASSUME NEW u \in Seq(Character), IsInteger(u), NEW p \in Seq(Character),
         p # << >>, Len(p) <= Len(u), \A k \in 1 .. Len(p) : p[k] = u[k]
  PROVE  IsInteger(p)
<1>1. Len(p) \in Nat /\ Len(u) \in Nat /\ Len(p) # 0
  BY EmptySeq
<1>2. /\ DOMAIN p = 1 .. Len(p) /\ DOMAIN u = 1 .. Len(u) /\ 1 \in 1 .. Len(p)
      /\ \A k \in 1 .. Len(p) : k \in 1 .. Len(u)
  BY <1>1
<1>3. AreDigits(u) /\ (u[1] = "0" => Len(u) = 1)
  BY DEF IsInteger
<1>4. AreDigits(p)
  BY <1>2, <1>3 DEF AreDigits
<1>5. p[1] = "0" => Len(p) = 1
  BY <1>1, <1>2, <1>3
<1> QED
  BY <1>4, <1>5 DEF IsInteger

LEMMA WholeContinues ==
  ASSUME NEW t \in Seq(Character), IsWhole(t), NEW n \in 1 .. Len(t)
  PROVE  CanContinue(SubSeq(t, 1, n))
<1> DEFINE p == SubSeq(t, 1, n)
<1>1. PICK m \in Nat : m = Len(t)
  OBVIOUS
<1>2. \A i \in 1 .. m : t[i] \in Character
  BY <1>1
<1>3. p \in Seq(Character) /\ Len(p) = n /\ \A i \in 1 .. n : p[i] = t[i]
  BY <1>1, <1>2, SubSeqProperties
<1> HIDE DEF p
<1>4. p # << >> /\ t # << >> /\ p[1] = t[1] /\ n \in Nat /\ n >= 1 /\ n <= m
  BY <1>1, <1>3
<1>5. ASSUME NEW q, IsInteger(UnsignedPart(q))
      PROVE  IsNumber(q)
  BY <1>5 DEF IsNumber, IsDecimal
<1>6. CASE t[1] # "-"
  <2>1. UnsignedPart(t) = t /\ UnsignedPart(p) = p
    BY <1>4, <1>6 DEF UnsignedPart
  <2>2. IsInteger(p)
    <3>1. IsInteger(t)
      BY <2>1 DEF IsWhole
    <3> QED BY <1>1, <1>3, <1>4, <3>1, IntegerBegins
  <2> QED BY <1>5, <2>1, <2>2 DEF CanContinue, p
<1>7. CASE t[1] = "-"
  <2>1. UnsignedPart(t) = Tail(t) /\ IsInteger(Tail(t)) /\ UnsignedPart(p) = Tail(p)
    BY <1>4, <1>7 DEF UnsignedPart, IsWhole
  <2>2. CASE n = 1
    <3>1. p = <<"-">>
      BY <1>3, <1>4, <1>7, <2>2, OnlyOne
    <3>2. "0" \in Character /\ "0" \in Digit
      BY DigitsAre DEF Character
    <3>3. Tail(p) = << >>
      BY <3>1
    <3>4. Append(<< >>, "0") = <<"0">>
      OBVIOUS
    <3>5. UnsignedPart(Append(p, "0")) = <<"0">>
      BY <1>3, <1>4, <2>1, <3>2, <3>3, <3>4, MoreUnsigned
    <3>6. IsInteger(<<"0">>)
      BY <3>2 DEF IsInteger, AreDigits
    <3> QED BY <1>5, <3>5, <3>6 DEF CanContinue, p
  <2>3. CASE n # 1
    <3>1. /\ Tail(t) \in Seq(Character) /\ Len(Tail(t)) = m - 1
          /\ \A k \in 1 .. m - 1 : Tail(t)[k] = t[k + 1]
      BY <1>1, <1>4
    <3>2. /\ Tail(p) \in Seq(Character) /\ Len(Tail(p)) = n - 1
          /\ \A k \in 1 .. n - 1 : Tail(p)[k] = p[k + 1]
      BY <1>3, <1>4
    <3>3. n - 1 \in Nat /\ n - 1 # 0 /\ n - 1 <= m - 1
          /\ \A k \in 1 .. n - 1 : k \in 1 .. m - 1 /\ k + 1 \in 1 .. n
      BY <1>1, <1>4, <2>3
    <3>4. \A k \in 1 .. n - 1 : Tail(p)[k] = Tail(t)[k]
      BY <1>3, <3>1, <3>2, <3>3
    <3>5. Tail(p) # << >>
      BY <3>2, <3>3, EmptySeq
    <3>6. IsInteger(Tail(p))
      BY <2>1, <3>1, <3>2, <3>3, <3>4, <3>5, IntegerBegins
    <3> QED BY <1>5, <2>1, <3>6 DEF CanContinue, p
  <2> QED BY <2>2, <2>3
<1> QED
  BY <1>6, <1>7

CameBack ==
  \A x \in Numbers :
    input = dump_integer(x) /\ token \notin {"none", "scanning"} =>
      /\ token = IF x < 0 THEN "value_integer" ELSE "value_unsigned"
      /\ value = x
      /\ position = Len(input) + 1

LEMMA DumpedComesBack == ScanInv => CameBack
<1> SUFFICES ASSUME ScanInv, NEW x \in Numbers,
                    input = dump_integer(x), token \notin {"none", "scanning"}
             PROVE  /\ token = IF x < 0 THEN "value_integer" ELSE "value_unsigned"
                    /\ value = x
                    /\ position = Len(input) + 1
  BY DEF CameBack
<1>1. x \in Int /\ x >= -(2 ^ (Bits - 1)) /\ x <= 2 ^ Bits - 1
      /\ 2 ^ (Bits - 1) \in Nat /\ 2 ^ Bits \in Nat
  BY NumberAssumption, PowerAssumption
<1>2. /\ input \in Seq(Character) /\ input # << >> /\ IsWhole(input) /\ SignedValue(input) = x
      /\ input[1] = "-" <=> x < 0
  BY <1>1, Dumped, DumpedIsWhole
<1>3. /\ position \in 1 .. Len(input) + 1 /\ token_buffer = SubSeq(input, 1, position - 1)
      /\ NextCharacter # << >> => ~ CanContinue(token_buffer \o NextCharacter)
      /\ token = "parse_error" => ~ IsNumber(token_buffer)
      /\ token # "parse_error" => KeepsValue
  BY DEF ScanInv, Reading, ScansNumbers
<1>4. position = Len(input) + 1
  <2>1. SUFFICES ASSUME position \in 1 .. Len(input)
                 PROVE  FALSE
    BY <1>2, <1>3
  <2>2. /\ NextCharacter = SubSeq(input, position, position)
        /\ SubSeq(input, position, position) = <<input[position]>>
        /\ input[position] \in Character /\ token_buffer \in Seq(Character)
        /\ SubSeq(input, 1, position) = Append(token_buffer, input[position])
    BY <1>2, <1>3, <2>1, ReadOneMore DEF NextCharacter
  <2>3. token_buffer \o NextCharacter = SubSeq(input, 1, position)
    <3>1. token_buffer \o <<input[position]>> = Append(token_buffer, input[position])
      BY <2>2, AppendIsConcat
    <3> QED BY <2>2, <3>1
  <2>4. CanContinue(SubSeq(input, 1, position))
    BY <1>2, <2>1, WholeContinues
  <2>5. NextCharacter # << >>
    BY <2>2
  <2> QED BY <1>3, <2>3, <2>4, <2>5
<1>5. token_buffer = input
  <2>1. (Len(input) + 1) - 1 = Len(input)
    BY <1>2
  <2>2. SubSeq(input, 1, Len(input)) = input
    BY <1>2, SubSeqFull
  <2> QED BY <1>3, <1>4, <2>1, <2>2
<1>6. IsNumber(input)
  BY <1>2 DEF IsNumber, IsDecimal, IsWhole
<1>7. KeepsValue
  BY <1>3, <1>5, <1>6
<1>8. CASE x < 0
  <2>1. x \in IntegerRange
    BY <1>1, <1>8 DEF IntegerRange
  <2> QED BY <1>2, <1>4, <1>5, <1>7, <1>8, <2>1 DEF KeepsValue
<1>9. CASE ~ (x < 0)
  <2>1. x \in 0 .. MaxUnsigned
    BY <1>1, <1>9 DEF MaxUnsigned
  <2> QED BY <1>2, <1>4, <1>5, <1>7, <1>9, <2>1 DEF KeepsValue
<1> QED
  BY <1>8, <1>9

(***************************************************************************)
(* Every integer dump_integer writes is read by scan_number to its end,    *)
(* and has the same value and the type of its sign.                        *)
(***************************************************************************)
THEOREM IntegersAreKept == NumberSpec => IntegersComeBack
<1> DEFINE Back == \A x \in Numbers :
             input = dump_integer(x) /\ token' \notin {"none", "scanning"} =>
               /\ token' = IF x < 0 THEN "value_integer" ELSE "value_unsigned"
               /\ value' = x
               /\ position' = Len(input) + 1
<1>1. CameBack' /\ [Scan]_numberVars => [Back]_numberVars
  <2> SUFFICES ASSUME CameBack', Scan
               PROVE  Back
    OBVIOUS
  <2>1. input' = input
    BY DEF Scan, Read, ScanFails, ScanDone
  <2> QED BY <2>1 DEF CameBack
<1>2. NumberSpec => [][Back]_numberVars
  <2> HIDE DEF Back
  <2> QED BY <1>1, DumpedComesBack, ScanInvInit, ScanInvNext, PTL DEF NumberSpec
<1> QED
  BY <1>2 DEF IntegersComeBack
=============================================================================
