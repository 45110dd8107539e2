---------------------------- MODULE MCJsonString ----------------------------
(***************************************************************************)
(* Bytes at the edges of the ranges that scanner and serializer tell       *)
(* apart, and the pieces literals are made of.                             *)
(***************************************************************************)
EXTENDS JsonString, SequencesExt

Continuations == {128, 143, 144, 159, 160, 191}
SomeOctets ==
  {8, 31, 34, 65, 92, 127, 193, 194, 223, 224, 236, 237, 238, 240, 243, 244, 245}
    \cup Continuations

FourOctets == {<<a, b, c, d>> : a \in {240, 243, 244}, b \in Continuations,
                                c \in {128, 191}, d \in {127, 128, 191}}

Pair == <<240, 144, 128, 128>>
Long == {FlattenSeq(<<a, b, c, d>>) : a, b, c, d \in {<<31>>, <<65, 65>>, Pair,
                                                     <<226, 130>>}}

MCStrings == {<< >>} \cup {<<a>> : a \in SomeOctets}
               \cup {<<a, b>> : a, b \in SomeOctets}
               \cup {<<a, b, c>> : a \in SomeOctets, b \in SomeOctets,
                                   c \in {34, 65, 128, 143, 191, 224}}
               \cup FourOctets \cup Long

-----------------------------------------------------------------------------
Digits4(u) == SubSeq(UnicodeEscape(u), 3, 6)
Units == {0, 31, 127, 128, 2047, 2048, 55295, 55296, 56319, 56320, 57343,
          57344, 65535}
Escape(u) == UnicodeEscape(u)

Pieces ==
  {<<b>> : b \in {0, 31, 32, 34, 92, 117, 127, 128, 194, 245}}
    \cup {<<92, letter>> : letter \in {34, 47, 92, 98, 102, 110, 114, 116, 117, 120}}
    \cup {Escape(u) : u \in Units}
    \cup {<<92, 117, 48, 48, 65, 70>>, <<92, 117, 48, 48, 71>>,
          <<92, 117, 68, 56, 51, 100>>}
    \cup {<<237, 159, 191>>, <<237, 160, 128>>, <<224, 159, 128>>, <<224, 160>>,
          <<240, 143, 128, 128>>, Pair, <<244, 143, 191, 191>>,
          <<244, 144, 128, 128>>, <<243, 128, 128>>}

MCLiterals == {p \o q \o <<34>> : p, q \in Pieces} \cup {p : p \in Pieces}

-----------------------------------------------------------------------------
(***************************************************************************)
(* WellFormed is what reading one character after the other finds.         *)
(***************************************************************************)
ReadThrough(t) ==
  LET From[k \in 1 .. Len(t) + 1] ==
        \/ k = Len(t) + 1
        \/ \E n \in 1 .. 4 : /\ k + n - 1 <= Len(t)
                            /\ IsCharacter(SubSeq(t, k, k + n - 1))
                            /\ From[k + n]
  IN  From[1]

ASSUME Utf8Assumption ==
  \A t \in MCStrings \cup MCLiterals : WellFormed(t) <=> ReadThrough(t)
=============================================================================
