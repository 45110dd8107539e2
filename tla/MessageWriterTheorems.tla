------------------------ MODULE MessageWriterTheorems ------------------------
(***************************************************************************)
(* Proofs about MessageWriter, for every schema, every set of documents    *)
(* and the widths of the program's integers.  The idea of the inductive    *)
(* invariant: the points calculateMessageSize has passed are closed under  *)
(* "the point after", except where a call of it still stands, so           *)
(* writeMessage only reaches points whose size is known, and the bytes     *)
(* written so far are accounted for by the sizes of the points the active  *)
(* calls stand at.  For KeepsPromise they are, at each of these points,    *)
(* the beginning of the encoding of the point's message.                   *)
(***************************************************************************)
EXTENDS MessageWriter, WireFormatTheorems, SequenceTheorems, WellFoundedInduction

Passed == DOMAIN sized

Running == phase \in {"size", "write"}

PointAfter(p) == IF HasValue(p) THEN NextValue(p) ELSE NextField(p)

(***************************************************************************)
(* The points a call can stand at.                                         *)
(***************************************************************************)
WellPlaced(p) ==
  /\ p \in Points
  /\ p.field <= Len(Schema[p.type]) + 1
  /\ AtEnd(p) => p.elem = 1
  /\ ~ AtEnd(p) => p.elem <= Len(ValuesAt(p)) + 1

SameCall(p, q) == p.type = q.type /\ p.value = q.value

Before(p, q) ==
  /\ SameCall(p, q)
  /\ \/ p.field < q.field
     \/ p.field = q.field /\ p.elem < q.elem

ChildStart(p) == Start(FieldAt(p).message, ValueAt(p))
ChildEnd(p)   == End(FieldAt(p).message, ValueAt(p))

CallsChild(p) == HasValue(p) /\ FieldAt(p).type = "MESSAGE"

-----------------------------------------------------------------------------
NothingYet ==
  /\ phase = "validate" => Passed = {}
  /\ phase \in {"validate", "size"} => output = << >>

(***************************************************************************)
(* The outermost call is for the document, each other call is for the      *)
(* value its caller stands at.                                             *)
(***************************************************************************)
CallsNest ==
  Running =>
    /\ stack # << >>
    /\ SameCall(stack[1].at, Start(Root, doc))
    /\ \A k \in 1 .. Len(stack) :
         /\ stack[k].at \in Passed
         /\ Start(stack[k].at.type, stack[k].at.value) \in Passed
    /\ \A k \in 1 .. Len(stack) - 1 :
         /\ CallsChild(stack[k].at)
         /\ SameCall(stack[k + 1].at, ChildStart(stack[k].at))

PassedWellPlaced == \A p \in Passed : WellPlaced(p)

(***************************************************************************)
(* What calculateMessageSize does between a point and the one after it.    *)
(***************************************************************************)
SizeOfStart == \A p \in Passed : p.field = 1 /\ p.elem = 1 => sized[p] = 0

SizeOfField ==
  \A p \in Passed :
    HasValue(p) /\ FieldAt(p).type # "MESSAGE" /\ NextValue(p) \in Passed =>
      /\ ~ Throws(FieldAt(p), ValueAt(p))
      /\ sized[NextValue(p)] = sized[p] + FieldSize(FieldAt(p), ValueAt(p))

SizeOfChild ==
  \A p \in Passed :
    CallsChild(p) /\ NextValue(p) \in Passed =>
      /\ ChildStart(p) \in Passed
      /\ ChildEnd(p) \in Passed
      /\ sized[NextValue(p)] =
           sized[p] + PrefixSize(FieldAt(p), sized[ChildEnd(p)])
                    + sized[ChildEnd(p)]

SizeOfSkip ==
  \A p \in Passed :
    ~ AtEnd(p) /\ ~ HasValue(p) /\ NextField(p) \in Passed =>
      sized[NextField(p)] = sized[p]

(***************************************************************************)
(* Every passed point was left for the one after it, unless a call of      *)
(* calculateMessageSize still stands there.                                *)
(***************************************************************************)
PassedClosed ==
  Running =>
    \A p \in Passed :
      \/ AtEnd(p)
      \/ PointAfter(p) \in Passed
      \/ phase = "size" /\ \E k \in 1 .. Len(stack) : stack[k].at = p

(***************************************************************************)
(* The size pass goes through a message in order, and never subtracts.     *)
(***************************************************************************)
PassedInOrder ==
  \A q \in Passed :
    \A i \in 1 .. Len(Schema[q.type]) :
      \A e \in 1 .. Len(Visited(Schema[q.type][i], q.value)) + 1 :
        Before(Point(q.type, q.value, i, e), q) =>
          Point(q.type, q.value, i, e) \in Passed

SizesGrow ==
  \A p, q \in Passed : Before(p, q) => sized[p] <= sized[q]

(***************************************************************************)
(* The whole message of every call of writeMessage has been measured.      *)
(***************************************************************************)
EndsPassed ==
  phase = "write" =>
    /\ total = sized[End(Root, doc)]
    /\ \A k \in 1 .. Len(stack) :
         End(stack[k].at.type, stack[k].at.value) \in Passed

SizeTable ==
  /\ PassedWellPlaced
  /\ PassedInOrder
  /\ SizeOfStart
  /\ SizeOfField
  /\ SizeOfChild
  /\ SizeOfSkip
  /\ SizesGrow

SInv ==
  /\ TypeOK
  /\ NothingYet
  /\ SizeTable
  /\ CallsNest
  /\ PassedClosed
  /\ EndsPassed

-----------------------------------------------------------------------------
(***************************************************************************)
(* Where the payload of the message the call k is in begins, counted from  *)
(* the sizes.                                                              *)
(***************************************************************************)
ChildOffset(k) ==
  stack[k].start + sized[stack[k].at]
    + PrefixSize(FieldAt(stack[k].at), sized[ChildEnd(stack[k].at)])

(***************************************************************************)
(* Nothing is written past what has been counted ...                       *)
(***************************************************************************)
Bounded ==
  phase = "write" =>
    /\ Len(output) <= Top.start + sized[At]
    /\ \A k \in 1 .. Len(stack) - 1 : stack[k + 1].start <= ChildOffset(k)
    /\ \A k \in 1 .. Len(stack) :
         stack[k].start + MessageSize(stack[k].at.type, stack[k].at.value) <= total

(***************************************************************************)
(* ... and, when every field's size is exact, nothing less is.             *)
(***************************************************************************)
Exact ==
  phase = "write" =>
    /\ Len(output) = Top.start + sized[At]
    /\ \A k \in 1 .. Len(stack) - 1 : stack[k + 1].start = ChildOffset(k)

BoundedInv == SInv /\ Bounded

ExactInv == SInv /\ Exact

-----------------------------------------------------------------------------
(***************************************************************************)
(* The values a field is given, and what they are converted to.            *)
(***************************************************************************)
LEMMA MemberType ==
  ASSUME NEW f, NEW v \in Json, HasMember(f, v)
  PROVE  Member(f, v) \in Json
<1>1. v.kind = "object"
  BY DEF HasMember, Keys
<1>2. \A key \in DOMAIN v.members : v.members[key] \in Json
  BY <1>1, JsonAssumption
<1>3. \/ f.jsonName \in Keys(v)
      \/ f.name \in Keys(v)
      \/ f.lowerName \in Keys(v)
  BY DEF HasMember, FieldKeys
<1>4. Keys(v) = DOMAIN v.members
  BY <1>1 DEF Keys
<1> QED BY <1>2, <1>3, <1>4 DEF Member

LEMMA VisitedType ==
  ASSUME NEW f, NEW v \in Json
  PROVE  Visited(f, v) \in Seq(Json)
<1>1. CASE ~ HasMember(f, v)
  BY <1>1 DEF Visited
<1>2. CASE HasMember(f, v)
  <2>1. Member(f, v) \in Json
    BY <1>2, MemberType
  <2>2. Member(f, v).kind = "array" => Member(f, v).elements \in Seq(Json)
    BY <2>1, JsonAssumption
  <2> QED BY <1>2, <2>1, <2>2 DEF Visited
<1> QED BY <1>1, <1>2

LEMMA TruncatedType ==
  ASSUME NEW v \in Json
  PROVE  Halves(v) \in Int /\ Truncated(v) \in Int
<1>1. Halves(v) \in Int
  BY JsonAssumption DEF Halves
<1>2. \A h \in Int : h \div 2 \in Int /\ -((-h) \div 2) \in Int
  OBVIOUS
<1> QED BY <1>1, <1>2 DEF Truncated

LEMMA EnumValueType ==
  ASSUME NEW f \in Field, NEW v \in Json, f.type = "ENUM"
  PROVE  EnumValue(f, v) \in Int
<1>1. Signed(Truncated(v), Bits32) \in Int
  BY TruncatedType, SignedType
<1>2. f.values \in Seq(Text)
  BY SchemaAssumption
<1>3. Skipped(f, v) \subseteq 1 .. Len(f.values)
  BY <1>2 DEF Skipped
<1>4. IsFiniteSet(1 .. Len(f.values))
  BY <1>2, FS_Interval
<1>5. Cardinality(Skipped(f, v)) \in Nat
  BY <1>3, <1>4, FS_Subset, FS_CardinalityType
<1> QED BY <1>1, <1>5 DEF EnumValue

LEMMA ScalarValueType ==
  ASSUME NEW f \in Field, NEW v \in Json
  PROVE  /\ ScalarValue(f, v) \in Int
         /\ f.type \in {"UINT32", "UINT64"} => ScalarValue(f, v) \in Nat
<1>1. WidthOf(f.type) \in {Bits32, Bits64}
  BY DEF WidthOf
<1>2. /\ Signed(Truncated(v), WidthOf(f.type)) \in Int
      /\ Unsigned(Truncated(v), WidthOf(f.type)) \in Nat
      /\ Halves(v) \in Int
  BY <1>1, TruncatedType, SignedType, UnsignedType
<1>3. f.type = "ENUM" => EnumValue(f, v) \in Int
  BY EnumValueType
<1> QED BY <1>2, <1>3 DEF ScalarValue, RealTypes, SignedTypes

-----------------------------------------------------------------------------
(***************************************************************************)
(* The size pass counts at least what the write pass writes for a field,   *)
(* exactly that unless the field is of type BYTES; an empty STRING is the  *)
(* one exception.                                                          *)
(***************************************************************************)
NoEmptyText == \A v \in Json : v.kind = "string" => TextBytes[v.text] # << >>

NoBytesFields == \A f \in Field : f.type # "BYTES"

LEMMA FieldSizeOfString ==
  ASSUME NEW f \in Field, NEW v \in Json, f.type = "STRING", v.kind = "string"
  PROVE  /\ FieldSize(f, v) \in Nat
         /\ FieldBytes(f, v) \in Seq(Octet)
         /\ TextBytes[v.text] # << >> => Len(FieldBytes(f, v)) = FieldSize(f, v)
<1>1. TextBytes[v.text] \in Seq(Octet)
  BY JsonAssumption, TextAssumption
<1>2. f.number \in Nat \ {0} /\ v.text \in Text
  BY SchemaAssumption, JsonAssumption
<1> DEFINE tag == TagBytes(f.number, f.type)
           contents == LengthDelimitedBytes(TextBytes[v.text])
<1>3. /\ tag \in Seq(Octet)
      /\ Len(tag) = TagSize(f.number)
      /\ TagSize(f.number) \in Nat
  BY <1>2, TagBytesLength
<1>4. /\ contents \in Seq(Octet)
      /\ Len(contents) = LengthDelimitedSize(Len(TextBytes[v.text]))
      /\ LengthDelimitedSize(Len(TextBytes[v.text])) \in Nat
  BY <1>1, LengthDelimitedLength
<1>5. FieldBytes(f, v) = tag \o contents
  BY DEF FieldBytes, VarintTypes, FixedTypes, Fixed32Types, Fixed64Types
<1>6. FieldSize(f, v) = IF TextBytes[v.text] # << >>
                        THEN TagSize(f.number)
                               + LengthDelimitedSize(Len(TextBytes[v.text]))
                        ELSE 0
  BY DEF FieldSize, VarintTypes, FixedTypes, Fixed32Types, Fixed64Types
<1> HIDE DEF tag, contents
<1>7. tag \o contents \in Seq(Octet) /\ Len(tag \o contents) = Len(tag) + Len(contents)
  BY <1>3, <1>4
<1> QED BY <1>3, <1>4, <1>5, <1>6, <1>7

LEMMA FieldSizeOfBytes ==
  ASSUME NEW f \in Field, NEW v \in Json, f.type = "BYTES", v.kind = "string"
  PROVE  /\ FieldSize(f, v) \in Nat
         /\ FieldBytes(f, v) \in Seq(Octet)
         /\ Len(FieldBytes(f, v)) <= FieldSize(f, v)
<1> DEFINE text == TextBytes[v.text]
           decoded == DecodedBytes[v.text]
           tag == TagBytes(f.number, f.type)
           contents == LengthDelimitedBytes(decoded)
           encoded == Base64Length(Len(text))
<1>1. /\ text \in Seq(Octet)
      /\ decoded \in Seq(Octet)
      /\ Len(decoded) <= Len(text)
  BY JsonAssumption, TextAssumption
<1>2. /\ tag \in Seq(Octet)
      /\ Len(tag) = TagSize(f.number)
      /\ TagSize(f.number) \in Nat
  BY SchemaAssumption, TagBytesLength
<1>3. /\ contents \in Seq(Octet)
      /\ Len(contents) = LengthDelimitedSize(Len(decoded))
      /\ LengthDelimitedSize(Len(decoded)) \in Nat
  BY <1>1, LengthDelimitedLength
<1>4. \A n \in Nat : Base64Length(n) \in Nat /\ Base64Length(n) >= n
  BY DEF Base64Length
<1>5. encoded \in Nat /\ encoded >= Len(text)
  <2>1. Len(text) \in Nat
    BY <1>1
  <2> QED BY <1>4, <2>1
<1>6. Len(text) \in Nat /\ Len(decoded) \in Nat /\ (text = << >> <=> Len(text) = 0)
      /\ (decoded = << >> <=> Len(decoded) = 0)
  BY <1>1
<1>7. /\ LengthDelimitedSize(Len(decoded)) <= LengthDelimitedSize(encoded)
      /\ LengthDelimitedSize(encoded) \in Nat
  <2>1. Len(decoded) <= encoded
    BY <1>1, <1>5, <1>6
  <2> QED BY <1>5, <1>6, <2>1, LengthDelimitedSizeGrows
<1>8. FieldBytes(f, v) = IF decoded # << >> THEN tag \o contents ELSE << >>
  BY DEF FieldBytes, VarintTypes, FixedTypes, Fixed32Types, Fixed64Types
<1>9. FieldSize(f, v) = IF text # << >>
                        THEN TagSize(f.number) + LengthDelimitedSize(encoded)
                        ELSE 0
  BY DEF FieldSize, VarintTypes, FixedTypes, Fixed32Types, Fixed64Types
<1> HIDE DEF text, decoded, tag, contents, encoded
<1>10. tag \o contents \in Seq(Octet) /\ Len(tag \o contents) = Len(tag) + Len(contents)
  BY <1>2, <1>3
<1>11. CASE decoded = << >>
  BY <1>2, <1>7, <1>8, <1>9, <1>11
<1>12. CASE decoded # << >>
  <2>1. text # << >>
    BY <1>1, <1>6, <1>12
  <2> QED BY <1>2, <1>3, <1>7, <1>8, <1>9, <1>10, <1>12, <2>1
<1> QED BY <1>11, <1>12

LEMMA FieldSizeOfVarint ==
  ASSUME NEW f \in Field, NEW v \in Json, f.type \in VarintTypes
  PROVE  /\ FieldSize(f, v) \in Nat
         /\ FieldBytes(f, v) \in Seq(Octet)
         /\ Len(FieldBytes(f, v)) = FieldSize(f, v)
<1> DEFINE x == VarintValue(f.type, ScalarValue(f, v))
           tag == TagBytes(f.number, f.type)
<1>1. x \in Nat
  BY ScalarValueType, VarintValueType
<1>2. /\ tag \in Seq(Octet)
      /\ Len(tag) = TagSize(f.number)
      /\ TagSize(f.number) \in Nat
  BY SchemaAssumption, TagBytesLength
<1>3. FieldBytes(f, v) = IF ScalarValue(f, v) # 0 THEN tag \o VarintBytes(x) ELSE << >>
  BY DEF FieldBytes, VarintTypes, FixedTypes, Fixed32Types, Fixed64Types
<1>4. FieldSize(f, v) = IF ScalarValue(f, v) # 0
                        THEN TagSize(f.number) + VarintSize(x) ELSE 0
  BY DEF FieldSize, VarintTypes, FixedTypes, Fixed32Types, Fixed64Types
<1> HIDE DEF x, tag
<1>5. /\ VarintBytes(x) \in Seq(Octet)
      /\ Len(VarintBytes(x)) = VarintSize(x)
      /\ VarintSize(x) \in Nat
  BY <1>1, VarintBytesLength, VarintSizeType, MaxVarintSizeType
<1>6. /\ tag \o VarintBytes(x) \in Seq(Octet)
      /\ Len(tag \o VarintBytes(x)) = Len(tag) + Len(VarintBytes(x))
  BY <1>2, <1>5
<1> QED BY <1>2, <1>3, <1>4, <1>5, <1>6

LEMMA FieldSizeOfFixed ==
  ASSUME NEW f \in Field, NEW v \in Json, f.type \in FixedTypes
  PROVE  /\ FieldSize(f, v) \in Nat
         /\ FieldBytes(f, v) \in Seq(Octet)
         /\ Len(FieldBytes(f, v)) = FieldSize(f, v)
<1> DEFINE bytes == FixedBytes(f.type, ScalarValue(f, v))
           tag == TagBytes(f.number, f.type)
<1>1. /\ bytes \in Seq(Octet)
      /\ Len(bytes) = FixedSize(f.type)
      /\ FixedSize(f.type) \in Nat
  BY ScalarValueType, FixedBytesLength
<1>2. /\ tag \in Seq(Octet)
      /\ Len(tag) = TagSize(f.number)
      /\ TagSize(f.number) \in Nat
  BY SchemaAssumption, TagBytesLength
<1>3. FieldBytes(f, v) = IF ScalarValue(f, v) # 0 THEN tag \o bytes ELSE << >>
  BY DEF FieldBytes, VarintTypes, FixedTypes, Fixed32Types, Fixed64Types
<1>4. FieldSize(f, v) = IF ScalarValue(f, v) # 0
                        THEN TagSize(f.number) + FixedSize(f.type) ELSE 0
  BY DEF FieldSize, VarintTypes, FixedTypes, Fixed32Types, Fixed64Types
<1> HIDE DEF bytes, tag
<1>5. tag \o bytes \in Seq(Octet) /\ Len(tag \o bytes) = Len(tag) + Len(bytes)
  BY <1>1, <1>2
<1> QED BY <1>1, <1>2, <1>3, <1>4, <1>5

LEMMA FieldSizeCoversBytes ==
  ASSUME NEW f \in Field, NEW v \in Json, f.type # "MESSAGE", ~ Throws(f, v)
  PROVE  /\ FieldSize(f, v) \in Nat
         /\ FieldBytes(f, v) \in Seq(Octet)
         /\ NoEmptyText => Len(FieldBytes(f, v)) <= FieldSize(f, v)
         /\ NoEmptyText /\ NoBytesFields =>
              Len(FieldBytes(f, v)) = FieldSize(f, v)
<1>1. f.type \in {"STRING", "BYTES"} \cup VarintTypes \cup FixedTypes
  BY SchemaAssumption
     DEF Throws, FieldTypes, ScalarTypes, TextTypes
<1>2. f.type \in {"STRING", "BYTES"} => v.kind = "string"
  BY DEF Throws, Converts, TextTypes, Int32Types, Int64Types
<1>3. CASE f.type = "STRING"
  <2>1. Len(FieldBytes(f, v)) \in Nat
    BY <1>2, <1>3, FieldSizeOfString
  <2> QED BY <1>2, <1>3, <2>1, FieldSizeOfString DEF NoEmptyText
<1>4. CASE f.type = "BYTES"
  BY <1>2, <1>4, FieldSizeOfBytes DEF NoBytesFields
<1>5. CASE f.type \in VarintTypes
  BY <1>5, FieldSizeOfVarint
<1>6. CASE f.type \in FixedTypes
  BY <1>6, FieldSizeOfFixed
<1> QED BY <1>1, <1>3, <1>4, <1>5, <1>6

(***************************************************************************)
(* The tag and length prefix of a nested message are as long as counted.   *)
(***************************************************************************)
LEMMA PrefixLength ==
  ASSUME NEW f \in Field, NEW size \in Nat
  PROVE  /\ PrefixBytes(f, size) \in Seq(Octet)
         /\ Len(PrefixBytes(f, size)) = PrefixSize(f, size)
         /\ PrefixSize(f, size) \in Nat
<1>1. /\ TagBytes(f.number, f.type) \in Seq(Octet)
      /\ Len(TagBytes(f.number, f.type)) = TagSize(f.number)
      /\ TagSize(f.number) \in Nat
  BY SchemaAssumption, TagBytesLength
<1>2. /\ VarintBytes(size) \in Seq(Octet)
      /\ Len(VarintBytes(size)) = VarintSize(size)
      /\ VarintSize(size) \in Nat
  BY VarintBytesLength, VarintSizeType, MaxVarintSizeType
<1> QED BY <1>1, <1>2 DEF PrefixBytes, PrefixSize

-----------------------------------------------------------------------------
(***************************************************************************)
(* Points: their types, the point after one, their order.                  *)
(***************************************************************************)
LEMMA PointType ==
  ASSUME NEW type \in MessageType, NEW value \in Json,
         NEW i \in Nat \ {0}, NEW e \in Nat \ {0}
  PROVE  /\ Point(type, value, i, e) \in Points
         /\ Point(type, value, i, e).type = type
         /\ Point(type, value, i, e).value = value
         /\ Point(type, value, i, e).field = i
         /\ Point(type, value, i, e).elem = e
BY DEF Point, Points

LEMMA PointEquality ==
  ASSUME NEW p \in Points, NEW q \in Points,
         p.type = q.type, p.value = q.value, p.field = q.field, p.elem = q.elem
  PROVE  p = q
BY DEF Points

LEMMA PointComponents ==
  ASSUME NEW p \in Points
  PROVE  /\ p.type \in MessageType
         /\ p.value \in Json
         /\ p.field \in Nat \ {0}
         /\ p.elem \in Nat \ {0}
         /\ p = Point(p.type, p.value, p.field, p.elem)
         /\ NextValue(p) = Point(p.type, p.value, p.field, p.elem + 1)
         /\ NextField(p) = Point(p.type, p.value, p.field + 1, 1)
<1>1. /\ p.type \in MessageType /\ p.value \in Json
      /\ p.field \in Nat \ {0} /\ p.elem \in Nat \ {0}
  BY DEF Points
<1>2. p = Point(p.type, p.value, p.field, p.elem)
  BY DEF Points, Point
<1> QED BY <1>1, <1>2 DEF NextValue, NextField

LEMMA SchemaLength ==
  ASSUME NEW type \in MessageType
  PROVE  /\ Schema[type] \in Seq(Field)
         /\ Len(Schema[type]) \in Nat
BY SchemaAssumption

LEMMA FieldAtType ==
  ASSUME NEW p \in Points, ~ AtEnd(p)
  PROVE  /\ FieldAt(p) \in Field
         /\ ValuesAt(p) \in Seq(Json)
         /\ Len(ValuesAt(p)) \in Nat
         /\ HasValue(p) => ValueAt(p) \in Json
<1>1. p.field \in 1 .. Len(Schema[p.type])
  BY PointComponents, SchemaLength DEF AtEnd
<1>2. FieldAt(p) \in Field
  BY <1>1, PointComponents, SchemaLength DEF FieldAt
<1>3. ValuesAt(p) \in Seq(Json)
  BY PointComponents, VisitedType DEF ValuesAt
<1>4. HasValue(p) => ValueAt(p) \in Json
  <2>1. HasValue(p) => p.elem \in 1 .. Len(ValuesAt(p))
    BY <1>3, PointComponents DEF HasValue
  <2> QED BY <1>3, <2>1 DEF ValueAt
<1> QED BY <1>2, <1>3, <1>4

LEMMA ChildTypes ==
  ASSUME NEW p \in Points, CallsChild(p)
  PROVE  /\ FieldAt(p) \in Field
         /\ FieldAt(p).message \in MessageType
         /\ ValueAt(p) \in Json
<1>1. FieldAt(p) \in Field /\ ValueAt(p) \in Json
  BY FieldAtType DEF CallsChild, HasValue
<1> QED BY <1>1, SchemaAssumption DEF CallsChild

LEMMA StartWellPlaced ==
  ASSUME NEW type \in MessageType, NEW value \in Json
  PROVE  /\ WellPlaced(Start(type, value))
         /\ Start(type, value) \in Points
         /\ Start(type, value).type = type
         /\ Start(type, value).value = value
         /\ Start(type, value).field = 1
         /\ Start(type, value).elem = 1
<1> DEFINE s == Start(type, value)
<1>1. /\ s \in Points
      /\ s.type = type /\ s.value = value /\ s.field = 1 /\ s.elem = 1
  BY PointType DEF Start
<1> HIDE DEF s
<1>2. s.field <= Len(Schema[s.type]) + 1
  BY <1>1, SchemaLength
<1>3. ~ AtEnd(s) => s.elem <= Len(ValuesAt(s)) + 1
  BY <1>1, FieldAtType
<1> QED BY <1>1, <1>2, <1>3 DEF WellPlaced, s

LEMMA EndIsUnique ==
  ASSUME NEW p, WellPlaced(p), AtEnd(p)
  PROVE  p = End(p.type, p.value)
<1>1. p.field = Len(Schema[p.type]) + 1 /\ p.elem = 1
  BY PointComponents, SchemaLength DEF WellPlaced, AtEnd
<1> QED BY <1>1, PointComponents DEF WellPlaced, End

LEMMA PointAfterFacts ==
  ASSUME NEW p, WellPlaced(p), ~ AtEnd(p)
  PROVE  /\ WellPlaced(PointAfter(p))
         /\ SameCall(PointAfter(p), p)
         /\ Before(p, PointAfter(p))
         /\ ~ (PointAfter(p).field = 1 /\ PointAfter(p).elem = 1)
         /\ HasValue(p) => /\ PointAfter(p) = NextValue(p)
                           /\ PointAfter(p).field = p.field
                           /\ PointAfter(p).elem = p.elem + 1
         /\ ~ HasValue(p) => /\ PointAfter(p) = NextField(p)
                             /\ PointAfter(p).field = p.field + 1
                             /\ PointAfter(p).elem = 1
<1> DEFINE r == PointAfter(p)
<1>1. /\ p \in Points /\ p.type \in MessageType /\ p.value \in Json
      /\ p.field \in Nat \ {0} /\ p.elem \in Nat \ {0}
  BY PointComponents DEF WellPlaced
<1>2. p.field <= Len(Schema[p.type]) /\ Len(Schema[p.type]) \in Nat
  BY <1>1, SchemaLength DEF AtEnd
<1>3. Len(ValuesAt(p)) \in Nat
  BY <1>1, FieldAtType
<1>4. CASE HasValue(p)
  <2>1. r = Point(p.type, p.value, p.field, p.elem + 1)
    BY <1>1, <1>4, PointComponents DEF PointAfter
  <2>2. /\ r \in Points /\ r.type = p.type /\ r.value = p.value
        /\ r.field = p.field /\ r.elem = p.elem + 1
    BY <1>1, <2>1, PointType
  <2>3. r = NextValue(p)
    BY <1>4 DEF PointAfter
  <2> HIDE DEF r
  <2>4. ~ AtEnd(r) /\ ValuesAt(r) = ValuesAt(p)
    BY <1>2, <2>2 DEF AtEnd, ValuesAt, FieldAt
  <2>5. r.elem <= Len(ValuesAt(r)) + 1
    BY <1>1, <1>3, <1>4, <2>2, <2>4 DEF HasValue
  <2>6. WellPlaced(r)
    BY <1>2, <2>2, <2>4, <2>5 DEF WellPlaced
  <2>7. SameCall(r, p) /\ Before(p, r)
    BY <1>1, <2>2 DEF SameCall, Before
  <2> QED BY <1>1, <1>4, <2>2, <2>3, <2>6, <2>7 DEF r
<1>5. CASE ~ HasValue(p)
  <2>1. r = Point(p.type, p.value, p.field + 1, 1)
    BY <1>1, <1>5, PointComponents DEF PointAfter
  <2>2. /\ r \in Points /\ r.type = p.type /\ r.value = p.value
        /\ r.field = p.field + 1 /\ r.elem = 1
    BY <1>1, <2>1, PointType
  <2>3. r = NextField(p)
    BY <1>5 DEF PointAfter
  <2> HIDE DEF r
  <2>4. ~ AtEnd(r) => Len(ValuesAt(r)) \in Nat
    BY <2>2, FieldAtType
  <2>5. WellPlaced(r)
    BY <1>1, <1>2, <2>2, <2>4 DEF WellPlaced
  <2>6. SameCall(r, p) /\ Before(p, r)
    BY <1>1, <2>2 DEF SameCall, Before
  <2> QED BY <1>1, <1>5, <2>2, <2>3, <2>5, <2>6 DEF r
<1> QED BY <1>4, <1>5

(***************************************************************************)
(* No point lies between a point and the one after it.                     *)
(***************************************************************************)
LEMMA PointAfterIsNext ==
  ASSUME NEW p, WellPlaced(p), ~ AtEnd(p),
         NEW x, WellPlaced(x), Before(x, PointAfter(p))
  PROVE  x = p \/ Before(x, p)
<1> DEFINE r == PointAfter(p)
<1>1. /\ p \in Points /\ p.field \in Nat \ {0} /\ p.elem \in Nat \ {0}
      /\ x \in Points /\ x.field \in Nat \ {0} /\ x.elem \in Nat \ {0}
  BY PointComponents DEF WellPlaced
<1>2. x.type = p.type /\ x.value = p.value
  BY PointAfterFacts DEF Before, SameCall
<1>3. CASE HasValue(p)
  <2>1. r.field = p.field /\ r.elem = p.elem + 1
    BY <1>3, PointAfterFacts
  <2>2. \/ x.field < p.field
        \/ x.field = p.field /\ x.elem < p.elem
        \/ x.field = p.field /\ x.elem = p.elem
    BY <1>1, <2>1 DEF Before
  <2> QED BY <1>1, <1>2, <2>2, PointEquality DEF Before, SameCall
<1>4. CASE ~ HasValue(p)
  <2>1. r.field = p.field + 1 /\ r.elem = 1
    BY <1>4, PointAfterFacts
  <2>2. x.field <= p.field
    BY <1>1, <2>1 DEF Before
  <2>3. x.field = p.field => x.elem <= p.elem
    <3>1. HAVE x.field = p.field
    <3>2. ~ AtEnd(x) /\ ValuesAt(x) = ValuesAt(p)
      BY <1>2, <3>1 DEF AtEnd, ValuesAt, FieldAt
    <3>3. x.elem <= Len(ValuesAt(p)) + 1
      BY <3>2 DEF WellPlaced
    <3>4. ~ (p.elem <= Len(ValuesAt(p))) /\ Len(ValuesAt(p)) \in Nat
      BY <1>1, <1>4, FieldAtType DEF HasValue
    <3> QED BY <1>1, <3>3, <3>4
  <2>4. \/ x.field < p.field
        \/ x.field = p.field /\ x.elem < p.elem
        \/ x.field = p.field /\ x.elem = p.elem
    BY <1>1, <2>2, <2>3
  <2> QED BY <1>1, <1>2, <2>4, PointEquality DEF Before, SameCall
<1> QED BY <1>3, <1>4

(***************************************************************************)
(* Different points are followed by different points.                      *)
(***************************************************************************)
LEMMA PointAfterInjective ==
  ASSUME NEW p, WellPlaced(p), ~ AtEnd(p),
         NEW q, WellPlaced(q), ~ AtEnd(q), PointAfter(p) = PointAfter(q)
  PROVE  p = q
<1>1. /\ p \in Points /\ p.field \in Nat \ {0} /\ p.elem \in Nat \ {0}
      /\ q \in Points /\ q.field \in Nat \ {0} /\ q.elem \in Nat \ {0}
  BY PointComponents DEF WellPlaced
<1>2. Before(p, PointAfter(q)) /\ Before(q, PointAfter(p))
  BY PointAfterFacts
<1>3. (p = q \/ Before(p, q)) /\ (q = p \/ Before(q, p))
  BY <1>2, PointAfterIsNext
<1> QED BY <1>1, <1>3 DEF Before

LEMMA PassedBefore ==
  ASSUME PassedInOrder, PassedWellPlaced, NEW q \in Passed,
         NEW x, WellPlaced(x), Before(x, q)
  PROVE  x \in Passed
<1>1. WellPlaced(q)
  BY DEF PassedWellPlaced
<1>2. /\ q \in Points /\ q.field \in Nat \ {0} /\ q.elem \in Nat \ {0}
      /\ x \in Points /\ x.field \in Nat \ {0} /\ x.elem \in Nat \ {0}
      /\ x.type \in MessageType
      /\ x = Point(x.type, x.value, x.field, x.elem)
  BY <1>1, PointComponents DEF WellPlaced
<1>3. x.type = q.type /\ x.value = q.value
  BY DEF Before, SameCall
<1>4. Len(Schema[q.type]) \in Nat
  BY <1>2, <1>3, SchemaLength
<1>5. x.field <= Len(Schema[q.type])
  <2>1. q.field <= Len(Schema[q.type]) + 1
    BY <1>1 DEF WellPlaced
  <2>2. q.field > Len(Schema[q.type]) => q.elem = 1
    BY <1>1 DEF WellPlaced, AtEnd
  <2> QED BY <1>2, <1>4, <2>1, <2>2 DEF Before
<1>6. ~ AtEnd(x)
  BY <1>2, <1>3, <1>4, <1>5 DEF AtEnd
<1>7. x.elem <= Len(ValuesAt(x)) + 1 /\ Len(ValuesAt(x)) \in Nat
  BY <1>2, <1>6, FieldAtType DEF WellPlaced
<1>8. ValuesAt(x) = Visited(Schema[q.type][x.field], q.value)
  BY <1>3 DEF ValuesAt, FieldAt
<1>9. /\ x.field \in 1 .. Len(Schema[q.type])
      /\ x.elem \in 1 .. Len(Visited(Schema[q.type][x.field], q.value)) + 1
  BY <1>2, <1>4, <1>5, <1>7, <1>8
<1>10. x = Point(q.type, q.value, x.field, x.elem)
  BY <1>2, <1>3
<1> QED BY <1>9, <1>10 DEF PassedInOrder

-----------------------------------------------------------------------------
(***************************************************************************)
(* The table of sizes only grows: a point already passed is given the size *)
(* it has.                                                                 *)
(***************************************************************************)
LEMMA TableExtends ==
  ASSUME sized \in [Passed -> Nat], Passed \subseteq Points,
         NEW r \in Points, NEW n \in Nat, SizeAt(r, n),
         r \in Passed => sized[r] = n
  PROVE  /\ Passed' = Passed \cup {r}
         /\ Passed' \subseteq Points
         /\ sized' \in [Passed' -> Nat]
         /\ sized'[r] = n
         /\ \A p \in Passed : sized'[p] = sized[p]
<1>1. sized' = [q \in Passed \cup {r} |-> IF q = r THEN n ELSE sized[q]]
  BY DEF SizeAt, Passed
<1>2. Passed' = Passed \cup {r}
  BY <1>1 DEF Passed
<1> QED BY <1>1, <1>2

(***************************************************************************)
(* Adding the point r with the size n to the table.                        *)
(***************************************************************************)
LEMMA TableStep ==
  ASSUME sized \in [Passed -> Nat], Passed \subseteq Points, SizeTable,
         NEW r, WellPlaced(r), NEW n \in Nat, SizeAt(r, n),
         r \in Passed => sized[r] = n,
         r.field = 1 /\ r.elem = 1 => n = 0,
         \A p \in Passed :
           HasValue(p) /\ FieldAt(p).type # "MESSAGE" /\ NextValue(p) = r =>
             /\ ~ Throws(FieldAt(p), ValueAt(p))
             /\ n = sized[p] + FieldSize(FieldAt(p), ValueAt(p)),
         \A p \in Passed :
           CallsChild(p) /\ NextValue(p) = r =>
             /\ ChildStart(p) \in Passed
             /\ ChildEnd(p) \in Passed
             /\ n = sized[p] + PrefixSize(FieldAt(p), sized[ChildEnd(p)])
                             + sized[ChildEnd(p)],
         \A p \in Passed :
           ~ AtEnd(p) /\ ~ HasValue(p) /\ NextField(p) = r => n = sized[p],
         \A x : WellPlaced(x) /\ Before(x, r) => x \in Passed,
         \A p \in Passed : Before(p, r) => sized[p] <= n
  PROVE  SizeTable'
<1>1. r \in Points
  BY DEF WellPlaced
<1>2. /\ Passed' = Passed \cup {r}
      /\ sized'[r] = n
      /\ \A p \in Passed : sized'[p] = sized[p]
  BY <1>1, TableExtends
<1> USE DEF SizeTable
<1>3. PassedWellPlaced'
  BY <1>2 DEF PassedWellPlaced
<1>4. PassedInOrder'
  <2> SUFFICES ASSUME NEW q \in Passed',
                      NEW i \in 1 .. Len(Schema[q.type]),
                      NEW e \in 1 .. Len(Visited(Schema[q.type][i], q.value)) + 1,
                      Before(Point(q.type, q.value, i, e), q)
               PROVE  Point(q.type, q.value, i, e) \in Passed'
    BY DEF PassedInOrder
  <2>1. CASE q \in Passed
    BY <1>2, <2>1 DEF PassedInOrder
  <2>2. CASE q = r
    <3> DEFINE x == Point(q.type, q.value, i, e)
    <3>1. q.type \in MessageType /\ q.value \in Json
      BY <1>1, <2>2, PointComponents
    <3>2. Schema[q.type] \in Seq(Field) /\ Len(Schema[q.type]) \in Nat
      BY <3>1, SchemaLength
    <3>3. Len(Visited(Schema[q.type][i], q.value)) \in Nat
      BY <3>1, VisitedType
    <3>4. /\ x \in Points /\ x.type = q.type /\ x.value = q.value
          /\ x.field = i /\ x.elem = e
      BY <3>1, <3>2, <3>3, PointType
    <3> HIDE DEF x
    <3>5. WellPlaced(x)
      BY <3>2, <3>3, <3>4 DEF WellPlaced, AtEnd, ValuesAt, FieldAt
    <3>6. x \in Passed
      BY <2>2, <3>5 DEF x
    <3> QED BY <1>2, <3>6 DEF x
  <2> QED BY <1>2, <2>1, <2>2
<1>5. SizeOfStart'
  BY <1>2 DEF SizeOfStart
(***************************************************************************)
(* A new point's successors are new: they would have to come after it.     *)
(***************************************************************************)
<1>6. ASSUME r \notin Passed, ~ AtEnd(r)
      PROVE  PointAfter(r) \notin Passed'
  <2>1. Before(r, PointAfter(r)) /\ WellPlaced(PointAfter(r))
    BY <1>6, PointAfterFacts
  <2>2. PointAfter(r) # r
    BY <1>1, <2>1, PointComponents DEF Before
  <2>3. PointAfter(r) \notin Passed
    BY <1>6, <2>1, PassedBefore
  <2> QED BY <1>2, <2>2, <2>3
<1>7. SizeOfField'
  <2> SUFFICES ASSUME NEW p \in Passed', HasValue(p),
                      FieldAt(p).type # "MESSAGE", NextValue(p) \in Passed'
               PROVE  /\ ~ Throws(FieldAt(p), ValueAt(p))
                      /\ sized'[NextValue(p)] =
                           sized'[p] + FieldSize(FieldAt(p), ValueAt(p))
    BY DEF SizeOfField
  <2>1. NextValue(p) = PointAfter(p) /\ ~ AtEnd(p)
    BY DEF PointAfter, HasValue
  <2>2. p \in Passed
    BY <1>2, <1>6, <2>1
  <2>3. CASE NextValue(p) \in Passed
    BY <1>2, <2>2, <2>3 DEF SizeOfField
  <2>4. CASE NextValue(p) = r
    BY <1>2, <2>2, <2>4
  <2> QED BY <1>2, <2>3, <2>4
<1>8. SizeOfChild'
  <2> SUFFICES ASSUME NEW p \in Passed', CallsChild(p), NextValue(p) \in Passed'
               PROVE  /\ ChildStart(p) \in Passed'
                      /\ ChildEnd(p) \in Passed'
                      /\ sized'[NextValue(p)] =
                           sized'[p] + PrefixSize(FieldAt(p), sized'[ChildEnd(p)])
                                     + sized'[ChildEnd(p)]
    BY DEF SizeOfChild
  <2>1. NextValue(p) = PointAfter(p) /\ ~ AtEnd(p)
    BY DEF PointAfter, HasValue, CallsChild
  <2>2. p \in Passed
    BY <1>2, <1>6, <2>1
  <2>3. CASE NextValue(p) \in Passed
    BY <1>2, <2>2, <2>3 DEF SizeOfChild
  <2>4. CASE NextValue(p) = r
    BY <1>2, <2>2, <2>4
  <2> QED BY <1>2, <2>3, <2>4
<1>9. SizeOfSkip'
  <2> SUFFICES ASSUME NEW p \in Passed', ~ AtEnd(p), ~ HasValue(p),
                      NextField(p) \in Passed'
               PROVE  sized'[NextField(p)] = sized'[p]
    BY DEF SizeOfSkip
  <2>1. NextField(p) = PointAfter(p)
    BY DEF PointAfter
  <2>2. p \in Passed
    BY <1>2, <1>6, <2>1
  <2>3. CASE NextField(p) \in Passed
    BY <1>2, <2>2, <2>3 DEF SizeOfSkip
  <2>4. CASE NextField(p) = r
    BY <1>2, <2>2, <2>4
  <2> QED BY <1>2, <2>3, <2>4
<1>10. SizesGrow'
  <2> SUFFICES ASSUME NEW p \in Passed', NEW q \in Passed', Before(p, q)
               PROVE  sized'[p] <= sized'[q]
    BY DEF SizesGrow
  <2>1. WellPlaced(p) /\ WellPlaced(q)
    BY <1>3 DEF PassedWellPlaced
  <2>2. CASE q \in Passed
    <3>1. p \in Passed
      BY <2>1, <2>2, PassedBefore
    <3> QED BY <1>2, <2>2, <3>1 DEF SizesGrow
  <2>3. CASE q = r
    <3>1. p \in Passed
      BY <2>1, <2>3
    <3> QED BY <1>2, <2>3, <3>1
  <2> QED BY <1>2, <2>2, <2>3
<1> QED BY <1>3, <1>4, <1>5, <1>7, <1>8, <1>9, <1>10

(***************************************************************************)
(* The same when r is the point after a passed point c: what is known of   *)
(* the size at c decides all.                                              *)
(***************************************************************************)
LEMMA TableStepAfter ==
  ASSUME sized \in [Passed -> Nat], Passed \subseteq Points, SizeTable,
         NEW c \in Passed, ~ AtEnd(c), NEW n \in Nat, SizeAt(PointAfter(c), n),
         sized[c] <= n,
         HasValue(c) /\ FieldAt(c).type # "MESSAGE" =>
           /\ ~ Throws(FieldAt(c), ValueAt(c))
           /\ n = sized[c] + FieldSize(FieldAt(c), ValueAt(c)),
         CallsChild(c) =>
           /\ ChildStart(c) \in Passed
           /\ ChildEnd(c) \in Passed
           /\ n = sized[c] + PrefixSize(FieldAt(c), sized[ChildEnd(c)])
                           + sized[ChildEnd(c)],
         ~ HasValue(c) => n = sized[c]
  PROVE  /\ SizeTable'
         /\ Passed' = Passed \cup {PointAfter(c)}
         /\ Passed' \subseteq Points
         /\ sized' \in [Passed' -> Nat]
<1> DEFINE r == PointAfter(c)
<1> USE DEF SizeTable
<1>1. WellPlaced(c)
  BY DEF PassedWellPlaced
<1>2. /\ WellPlaced(r)
      /\ r \in Points
      /\ ~ (r.field = 1 /\ r.elem = 1)
  BY <1>1, PointAfterFacts DEF WellPlaced
<1>3. ASSUME NEW p \in Passed, ~ AtEnd(p), PointAfter(p) = r
      PROVE  p = c
  BY <1>1, <1>3, PointAfterInjective DEF PassedWellPlaced
<1>4. ASSUME NEW x, WellPlaced(x), Before(x, r)
      PROVE  x = c \/ Before(x, c)
  BY <1>1, <1>4, PointAfterIsNext
<1>5. SizeAt(r, n)
  OBVIOUS
<1>6. r \in Passed => sized[r] = n
  <2>1. CASE ~ HasValue(c)
    BY <2>1 DEF PointAfter, SizeOfSkip
  <2>2. CASE CallsChild(c)
    BY <2>2 DEF PointAfter, SizeOfChild, CallsChild
  <2>3. CASE HasValue(c) /\ FieldAt(c).type # "MESSAGE"
    BY <2>3 DEF PointAfter, SizeOfField
  <2> QED BY <2>1, <2>2, <2>3 DEF CallsChild
<1>7. ASSUME NEW p \in Passed, HasValue(p), FieldAt(p).type # "MESSAGE",
             NextValue(p) = r
      PROVE  /\ ~ Throws(FieldAt(p), ValueAt(p))
             /\ n = sized[p] + FieldSize(FieldAt(p), ValueAt(p))
  <2>1. p = c
    BY <1>3, <1>7 DEF PointAfter, HasValue
  <2> QED BY <1>7, <2>1
<1>8. ASSUME NEW p \in Passed, CallsChild(p), NextValue(p) = r
      PROVE  /\ ChildStart(p) \in Passed
             /\ ChildEnd(p) \in Passed
             /\ n = sized[p] + PrefixSize(FieldAt(p), sized[ChildEnd(p)])
                             + sized[ChildEnd(p)]
  <2>1. p = c
    BY <1>3, <1>8 DEF PointAfter, HasValue, CallsChild
  <2> QED BY <1>8, <2>1
<1>9. ASSUME NEW p \in Passed, ~ AtEnd(p), ~ HasValue(p), NextField(p) = r
      PROVE  n = sized[p]
  <2>1. p = c
    BY <1>3, <1>9 DEF PointAfter
  <2> QED BY <1>9, <2>1
<1>10. ASSUME NEW x, WellPlaced(x), Before(x, r)
       PROVE  x \in Passed
  BY <1>4, <1>10, PassedBefore
<1>11. ASSUME NEW p \in Passed, Before(p, r)
       PROVE  sized[p] <= n
  <2>1. p = c \/ Before(p, c)
    BY <1>4, <1>11 DEF PassedWellPlaced
  <2>2. sized[p] <= sized[c] /\ sized[p] \in Nat /\ sized[c] \in Nat
    BY <2>1 DEF SizesGrow
  <2> QED BY <2>2
<1> HIDE DEF r, SizeTable
<1>12. SizeTable'
  BY <1>2, <1>5, <1>6, <1>7, <1>8, <1>9, <1>10, <1>11, TableStep
<1>13. /\ Passed' = Passed \cup {r}
       /\ Passed' \subseteq Points
       /\ sized' \in [Passed' -> Nat]
  BY <1>2, <1>5, <1>6, TableExtends
<1> QED BY <1>12, <1>13 DEF r

(***************************************************************************)
(* The same when r is where the call for a nested message starts.          *)
(***************************************************************************)
LEMMA TableStepStart ==
  ASSUME sized \in [Passed -> Nat], Passed \subseteq Points, SizeTable,
         NEW type \in MessageType, NEW value \in Json,
         SizeAt(Start(type, value), 0)
  PROVE  /\ SizeTable'
         /\ Passed' = Passed \cup {Start(type, value)}
         /\ Passed' \subseteq Points
         /\ sized' \in [Passed' -> Nat]
<1> DEFINE r == Start(type, value)
<1> USE DEF SizeTable
<1>1. /\ WellPlaced(r) /\ r \in Points
      /\ r.field = 1 /\ r.elem = 1
  BY StartWellPlaced
<1>2. SizeAt(r, 0)
  OBVIOUS
<1> HIDE DEF r
<1>3. r \in Passed => sized[r] = 0
  BY <1>1 DEF SizeOfStart
<1>4. ASSUME NEW p \in Passed
      PROVE  NextValue(p) # r /\ NextField(p) # r
  <2>1. /\ p.field \in Nat \ {0} /\ p.elem \in Nat \ {0}
        /\ p.type \in MessageType /\ p.value \in Json
    BY PointComponents
  <2>2. NextValue(p).elem = p.elem + 1 /\ NextField(p).field = p.field + 1
    BY <2>1, PointType DEF NextValue, NextField
  <2> QED BY <1>1, <2>1, <2>2
<1>5. ASSUME NEW x, WellPlaced(x), Before(x, r)
      PROVE  FALSE
  <2>1. x.field \in Nat \ {0} /\ x.elem \in Nat \ {0}
    BY <1>5, PointComponents DEF WellPlaced
  <2> QED BY <1>1, <1>5, <2>1 DEF Before
<1>6. \A p \in Passed : ~ Before(p, r)
  BY <1>5 DEF PassedWellPlaced
<1> HIDE DEF SizeTable
<1>7. SizeTable'
  BY <1>1, <1>2, <1>3, <1>4, <1>5, <1>6, TableStep DEF CallsChild
<1>8. /\ Passed' = Passed \cup {r}
      /\ Passed' \subseteq Points
      /\ sized' \in [Passed' -> Nat]
  BY <1>1, <1>2, <1>3, TableExtends
<1> QED BY <1>7, <1>8 DEF r

-----------------------------------------------------------------------------
(***************************************************************************)
(* The stack of calls.                                                     *)
(***************************************************************************)
LEMMA MoveToStack ==
  ASSUME stack \in Seq(Calls), stack # << >>, NEW p \in Points, MoveTo(p)
  PROVE  /\ stack' \in Seq(Calls)
         /\ stack' # << >>
         /\ Len(stack') = Len(stack)
         /\ Len(stack) \in Nat \ {0}
         /\ \A k \in 1 .. Len(stack) - 1 : stack'[k] = stack[k]
         /\ stack'[Len(stack)].at = p
         /\ stack'[Len(stack)].start = stack[Len(stack)].start
<1>1. stack' = [stack EXCEPT ![Len(stack)].at = p]
  BY DEF MoveTo
<1>2. Len(stack) \in Nat \ {0} /\ stack[Len(stack)] \in Calls
  OBVIOUS
<1>3. [stack[Len(stack)] EXCEPT !.at = p] \in Calls
  BY <1>2 DEF Calls
<1>4. stack' = [stack EXCEPT ![Len(stack)] = [stack[Len(stack)] EXCEPT !.at = p]]
  BY <1>1
<1>5. stack' \in Seq(Calls) /\ Len(stack') = Len(stack)
  BY <1>2, <1>3, <1>4
<1>6. stack'[Len(stack)] = [stack[Len(stack)] EXCEPT !.at = p]
  BY <1>2, <1>4
<1>7. \A k \in 1 .. Len(stack) - 1 : stack'[k] = stack[k]
  BY <1>2, <1>4
<1>8. stack'[Len(stack)].at = p /\ stack'[Len(stack)].start = stack[Len(stack)].start
  BY <1>2, <1>6 DEF Calls
<1> QED BY <1>2, <1>5, <1>7, <1>8

LEMMA PushStack ==
  ASSUME stack \in Seq(Calls), NEW p \in Points, NEW start \in Nat,
         Push(Call(p, start))
  PROVE  /\ stack' \in Seq(Calls)
         /\ stack' # << >>
         /\ Len(stack') = Len(stack) + 1
         /\ Len(stack) \in Nat
         /\ \A k \in 1 .. Len(stack) : stack'[k] = stack[k]
         /\ stack'[Len(stack) + 1].at = p
         /\ stack'[Len(stack) + 1].start = start
<1>1. Call(p, start) \in Calls /\ Call(p, start).at = p /\ Call(p, start).start = start
  BY DEF Call, Calls
<1>2. stack' = Append(stack, Call(p, start))
  BY DEF Push
<1> QED BY <1>1, <1>2

LEMMA ReturnStack ==
  ASSUME stack \in Seq(Calls), Len(stack) > 1, NEW p \in Points, ReturnTo(p)
  PROVE  /\ stack' \in Seq(Calls)
         /\ stack' # << >>
         /\ Len(stack') = Len(stack) - 1
         /\ Len(stack) \in Nat
         /\ \A k \in 1 .. Len(stack) - 2 : stack'[k] = stack[k]
         /\ stack'[Len(stack) - 1].at = p
         /\ stack'[Len(stack) - 1].start = stack[Len(stack) - 1].start
<1> DEFINE n == Len(stack) - 1
           s == SubSeq(stack, 1, n)
<1>1. n \in Nat \ {0} /\ Len(stack) \in Nat
  <2>1. Len(stack) \in Nat
    OBVIOUS
  <2>2. \A m \in Nat : m > 1 => m - 1 \in Nat \ {0}
    OBVIOUS
  <2> QED BY <2>1, <2>2
<1>2. s \in Seq(Calls) /\ Len(s) = n /\ \A k \in 1 .. n : s[k] = stack[k]
  BY <1>1
<1>3. stack' = [s EXCEPT ![n].at = p]
  BY DEF ReturnTo, Callers
<1> HIDE DEF s
<1>4. s[n] \in Calls /\ s[n] = stack[n]
  BY <1>1, <1>2
<1>5. [s[n] EXCEPT !.at = p] \in Calls
  BY <1>4 DEF Calls
<1>6. stack' = [s EXCEPT ![n] = [s[n] EXCEPT !.at = p]]
  BY <1>3
<1>7. stack' \in Seq(Calls) /\ Len(stack') = n
  BY <1>1, <1>2, <1>5, <1>6
<1>8. stack'[n] = [s[n] EXCEPT !.at = p]
  BY <1>1, <1>2, <1>6
<1>9. \A k \in 1 .. n - 1 : stack'[k] = stack[k]
  BY <1>1, <1>2, <1>6
<1>10. stack'[n].at = p /\ stack'[n].start = stack[n].start
  BY <1>4, <1>8 DEF Calls
<1> QED BY <1>1, <1>7, <1>9, <1>10

(***************************************************************************)
(* Where the innermost call and its caller stand.                          *)
(***************************************************************************)
LEMMA AtFacts ==
  ASSUME TypeOK, PassedWellPlaced, CallsNest, Running
  PROVE  /\ Len(stack) \in Nat \ {0}
         /\ At = stack[Len(stack)].at
         /\ At \in Passed
         /\ At \in Points
         /\ WellPlaced(At)
         /\ sized[At] \in Nat
         /\ Top.start \in Nat
<1>1. Len(stack) \in Nat \ {0} /\ stack[Len(stack)] \in Calls
  BY DEF TypeOK, CallsNest
<1>2. At = stack[Len(stack)].at /\ Top = stack[Len(stack)]
  BY DEF At, Top
<1>3. At \in Passed
  BY <1>1, <1>2 DEF CallsNest
<1>4. sized[At] \in Nat
  BY <1>3 DEF TypeOK, Passed
<1> QED BY <1>1, <1>2, <1>3, <1>4 DEF PassedWellPlaced, WellPlaced, Calls

LEMMA CallerFacts ==
  ASSUME TypeOK, PassedWellPlaced, CallsNest, Running, Len(stack) > 1
  PROVE  /\ Caller.at = stack[Len(stack) - 1].at
         /\ Len(stack) - 1 \in 1 .. Len(stack) - 1
         /\ Caller.at \in Passed
         /\ Caller.at \in Points
         /\ WellPlaced(Caller.at)
         /\ sized[Caller.at] \in Nat
         /\ CallsChild(Caller.at)
         /\ SameCall(At, ChildStart(Caller.at))
<1>1. Len(stack) \in Nat \ {0}
  BY AtFacts
<1> DEFINE n == Len(stack) - 1
<1>2. n \in 1 .. Len(stack) - 1 /\ n \in 1 .. Len(stack) /\ n + 1 = Len(stack)
  BY <1>1
<1>3. Caller.at = stack[n].at /\ At = stack[Len(stack)].at
  BY DEF Caller, At, Top
<1> HIDE DEF n
<1>4. /\ stack[n].at \in Passed
      /\ CallsChild(stack[n].at)
      /\ SameCall(stack[n + 1].at, ChildStart(stack[n].at))
  BY <1>2 DEF CallsNest
<1>5. sized[Caller.at] \in Nat
  BY <1>3, <1>4 DEF TypeOK, Passed
<1> QED BY <1>2, <1>3, <1>4, <1>5 DEF PassedWellPlaced, WellPlaced, n

(***************************************************************************)
(* The nesting of the calls, whichever pass they belong to.                *)
(***************************************************************************)
LEMMA NestMove ==
  ASSUME TypeOK, PassedWellPlaced, CallsNest, Running, UNCHANGED doc,
         Passed \subseteq Passed', ~ AtEnd(At), MoveTo(PointAfter(At)),
         PointAfter(At) \in Passed'
  PROVE  CallsNest' /\ stack' \in Seq(Calls)
<1> DEFINE n == Len(stack)
           r == PointAfter(At)
<1>1. /\ n \in Nat \ {0}
      /\ At = stack[n].at
      /\ WellPlaced(At)
  BY AtFacts
<1>2. WellPlaced(r) /\ r \in Points /\ SameCall(r, At)
  BY <1>1, PointAfterFacts DEF WellPlaced
<1>3. /\ stack' \in Seq(Calls)
      /\ stack' # << >>
      /\ Len(stack') = n
      /\ \A k \in 1 .. n - 1 : stack'[k] = stack[k]
      /\ stack'[n].at = r
  BY <1>2, MoveToStack DEF TypeOK, CallsNest
<1> HIDE DEF n, r
<1>4. \A k \in 1 .. n : SameCall(stack'[k].at, stack[k].at)
  BY <1>1, <1>2, <1>3 DEF SameCall
<1>5. \A k \in 1 .. n : /\ stack[k].at \in Passed
                        /\ Start(stack[k].at.type, stack[k].at.value) \in Passed
  BY DEF CallsNest, n
<1>6. \A k \in 1 .. n : /\ stack'[k].at \in Passed'
                        /\ Start(stack'[k].at.type, stack'[k].at.value) \in Passed'
  <2> SUFFICES ASSUME NEW k \in 1 .. n
               PROVE  /\ stack'[k].at \in Passed'
                      /\ Start(stack'[k].at.type, stack'[k].at.value) \in Passed'
    OBVIOUS
  <2>1. stack'[k].at \in Passed'
    BY <1>1, <1>3, <1>5 DEF r
  <2>2. Start(stack'[k].at.type, stack'[k].at.value)
          = Start(stack[k].at.type, stack[k].at.value)
    BY <1>4 DEF SameCall
  <2> QED BY <1>5, <2>1, <2>2
<1>7. \A k \in 1 .. n - 1 : /\ CallsChild(stack'[k].at)
                            /\ SameCall(stack'[k + 1].at, ChildStart(stack'[k].at))
  <2> SUFFICES ASSUME NEW k \in 1 .. n - 1
               PROVE  /\ CallsChild(stack'[k].at)
                      /\ SameCall(stack'[k + 1].at, ChildStart(stack'[k].at))
    OBVIOUS
  <2>1. CallsChild(stack[k].at) /\ SameCall(stack[k + 1].at, ChildStart(stack[k].at))
    BY DEF CallsNest, n
  <2>2. k + 1 \in 1 .. n
    BY <1>1
  <2>3. SameCall(stack'[k + 1].at, stack[k + 1].at) /\ stack'[k] = stack[k]
    BY <1>3, <1>4, <2>2
  <2> QED BY <2>1, <2>3 DEF SameCall
<1>8. SameCall(stack'[1].at, Start(Root, doc'))
  BY <1>1, <1>4 DEF CallsNest, SameCall
<1> QED BY <1>3, <1>6, <1>7, <1>8 DEF CallsNest

LEMMA NestPush ==
  ASSUME TypeOK, PassedWellPlaced, CallsNest, Running, UNCHANGED doc,
         Passed \subseteq Passed', CallsChild(At), NEW start \in Nat,
         Push(Call(ChildStart(At), start)), ChildStart(At) \in Passed'
  PROVE  CallsNest' /\ stack' \in Seq(Calls)
<1> DEFINE n == Len(stack)
           r == ChildStart(At)
<1>1. n \in Nat \ {0} /\ At = stack[n].at /\ At \in Points
  BY AtFacts
<1>2. FieldAt(At).message \in MessageType /\ ValueAt(At) \in Json
  BY <1>1, ChildTypes
<1>3. r \in Points /\ r = Start(r.type, r.value)
  BY <1>2, StartWellPlaced DEF ChildStart
<1>4. /\ stack' \in Seq(Calls)
      /\ stack' # << >>
      /\ Len(stack') = n + 1
      /\ \A k \in 1 .. n : stack'[k] = stack[k]
      /\ stack'[n + 1].at = r
  BY <1>3, PushStack DEF TypeOK
<1> HIDE DEF n, r
<1>5. \A k \in 1 .. n + 1 :
        /\ stack'[k].at \in Passed'
        /\ Start(stack'[k].at.type, stack'[k].at.value) \in Passed'
  <2>1. \A k \in 1 .. n : /\ stack[k].at \in Passed
                          /\ Start(stack[k].at.type, stack[k].at.value) \in Passed
    BY DEF CallsNest, n
  <2>2. r \in Passed'
    BY DEF r
  <2>3. \A k \in 1 .. n + 1 : k \in 1 .. n \/ k = n + 1
    BY <1>1
  <2> QED BY <1>3, <1>4, <2>1, <2>2, <2>3
<1>6. \A k \in 1 .. n :
        /\ CallsChild(stack'[k].at)
        /\ SameCall(stack'[k + 1].at, ChildStart(stack'[k].at))
  <2> SUFFICES ASSUME NEW k \in 1 .. n
               PROVE  /\ CallsChild(stack'[k].at)
                      /\ SameCall(stack'[k + 1].at, ChildStart(stack'[k].at))
    OBVIOUS
  <2>1. CASE k = n
    BY <1>1, <1>4, <2>1 DEF SameCall, r
  <2>2. CASE k # n
    <3>1. k \in 1 .. n - 1 /\ k + 1 \in 1 .. n
      BY <1>1, <2>2
    <3>2. CallsChild(stack[k].at) /\ SameCall(stack[k + 1].at, ChildStart(stack[k].at))
      BY <3>1 DEF CallsNest, n
    <3> QED BY <1>4, <3>1, <3>2
  <2> QED BY <2>1, <2>2
<1>7. SameCall(stack'[1].at, Start(Root, doc'))
  BY <1>1, <1>4 DEF CallsNest
<1>8. Len(stack') - 1 = n
  BY <1>1, <1>4
<1> QED BY <1>4, <1>5, <1>6, <1>7, <1>8 DEF CallsNest

LEMMA NestReturn ==
  ASSUME TypeOK, PassedWellPlaced, CallsNest, Running, UNCHANGED doc,
         Passed \subseteq Passed', Len(stack) > 1,
         ReturnTo(NextValue(Caller.at)), NextValue(Caller.at) \in Passed'
  PROVE  CallsNest' /\ stack' \in Seq(Calls)
<1> DEFINE n == Len(stack) - 1
           r == NextValue(Caller.at)
<1>1. /\ n \in 1 .. Len(stack) - 1
      /\ Caller.at = stack[n].at
      /\ WellPlaced(Caller.at)
      /\ CallsChild(Caller.at)
  BY CallerFacts
<1>2. n \in Nat \ {0} /\ Len(stack) = n + 1
  BY AtFacts
<1>3. r \in Points /\ SameCall(r, Caller.at)
  <2>1. r = PointAfter(Caller.at) /\ ~ AtEnd(Caller.at)
    BY <1>1 DEF PointAfter, CallsChild, HasValue
  <2> QED BY <1>1, <2>1, PointAfterFacts DEF WellPlaced
<1>4. /\ stack' \in Seq(Calls)
      /\ stack' # << >>
      /\ Len(stack') = Len(stack) - 1
      /\ \A k \in 1 .. Len(stack) - 2 : stack'[k] = stack[k]
      /\ stack'[n].at = r
  BY <1>3, ReturnStack DEF TypeOK
<1>5. Len(stack') = n /\ \A k \in 1 .. n - 1 : stack'[k] = stack[k]
  BY <1>2, <1>4
<1> HIDE DEF n, r
<1>6. \A k \in 1 .. n : SameCall(stack'[k].at, stack[k].at)
  BY <1>1, <1>2, <1>3, <1>4, <1>5 DEF SameCall
<1>7. \A k \in 1 .. n : /\ stack[k].at \in Passed
                        /\ Start(stack[k].at.type, stack[k].at.value) \in Passed
  BY <1>2 DEF CallsNest
<1>8. \A k \in 1 .. n : /\ stack'[k].at \in Passed'
                        /\ Start(stack'[k].at.type, stack'[k].at.value) \in Passed'
  <2> SUFFICES ASSUME NEW k \in 1 .. n
               PROVE  /\ stack'[k].at \in Passed'
                      /\ Start(stack'[k].at.type, stack'[k].at.value) \in Passed'
    OBVIOUS
  <2>1. stack'[k].at \in Passed'
    BY <1>2, <1>4, <1>5, <1>7 DEF r
  <2>2. Start(stack'[k].at.type, stack'[k].at.value)
          = Start(stack[k].at.type, stack[k].at.value)
    BY <1>6 DEF SameCall
  <2> QED BY <1>7, <2>1, <2>2
<1>9. \A k \in 1 .. n - 1 :
        /\ CallsChild(stack'[k].at)
        /\ SameCall(stack'[k + 1].at, ChildStart(stack'[k].at))
  <2> SUFFICES ASSUME NEW k \in 1 .. n - 1
               PROVE  /\ CallsChild(stack'[k].at)
                      /\ SameCall(stack'[k + 1].at, ChildStart(stack'[k].at))
    OBVIOUS
  <2>1. k + 1 \in 1 .. n /\ k \in 1 .. Len(stack) - 1
    BY <1>2
  <2>2. CallsChild(stack[k].at) /\ SameCall(stack[k + 1].at, ChildStart(stack[k].at))
    BY <2>1 DEF CallsNest
  <2>3. SameCall(stack'[k + 1].at, stack[k + 1].at) /\ stack'[k] = stack[k]
    BY <1>5, <1>6, <2>1
  <2> QED BY <2>2, <2>3 DEF SameCall
<1>10. SameCall(stack'[1].at, Start(Root, doc'))
  BY <1>2, <1>6 DEF CallsNest, SameCall
<1> QED BY <1>4, <1>5, <1>8, <1>9, <1>10 DEF CallsNest

-----------------------------------------------------------------------------
(***************************************************************************)
(* SInv is preserved by each step of calculateMessageSize.                 *)
(***************************************************************************)
LEMMA SizeMoves ==
  ASSUME SInv, phase = "size", ~ AtEnd(At), MoveTo(PointAfter(At)),
         UNCHANGED <<doc, phase, total, output>>,
         NEW n \in Nat, SizeAt(PointAfter(At), n), sized[At] <= n,
         ~ CallsChild(At),
         HasValue(At) => /\ ~ Throws(FieldAt(At), ValueAt(At))
                         /\ n = sized[At] + FieldSize(FieldAt(At), ValueAt(At)),
         ~ HasValue(At) => n = sized[At]
  PROVE  SInv'
<1> DEFINE r == PointAfter(At)
           c == At
<1> USE DEF SInv
<1>1. Running /\ PassedWellPlaced
  BY DEF Running, SizeTable
<1>2. /\ At \in Passed /\ WellPlaced(At)
      /\ At = stack[Len(stack)].at /\ Len(stack) \in Nat \ {0}
  BY <1>1, AtFacts
<1>3. sized \in [Passed -> Nat] /\ Passed \subseteq Points
  BY DEF TypeOK, Passed
<1>4. /\ SizeTable'
      /\ Passed' = Passed \cup {r}
      /\ Passed' \subseteq Points
      /\ sized' \in [Passed' -> Nat]
  BY <1>2, <1>3, TableStepAfter
<1>5. CallsNest' /\ stack' \in Seq(Calls)
  BY <1>1, <1>4, NestMove
<1>6. TypeOK'
  BY <1>4, <1>5 DEF TypeOK, Passed
<1>7. /\ Len(stack') = Len(stack)
      /\ \A k \in 1 .. Len(stack) - 1 : stack'[k] = stack[k]
      /\ stack'[Len(stack)].at = r
  <2>1. r \in Points /\ stack # << >> /\ stack \in Seq(Calls)
    BY <1>1, <1>4 DEF CallsNest, TypeOK
  <2> QED BY <2>1, MoveToStack
<1>8. PassedClosed'
  <2> SUFFICES ASSUME NEW p \in Passed', ~ AtEnd(p), PointAfter(p) \notin Passed'
               PROVE  phase' = "size" /\ \E k \in 1 .. Len(stack') : stack'[k].at = p
    BY DEF PassedClosed
  <2>1. CASE p = r
    BY <1>2, <1>7, <2>1
  <2>2. CASE p \in Passed
    <3>1. PICK k \in 1 .. Len(stack) : stack[k].at = p
      BY <1>1, <1>4, <2>2 DEF PassedClosed
    <3>2. k # Len(stack)
      BY <1>2, <1>4, <3>1
    <3> QED BY <1>2, <1>7, <3>1, <3>2
  <2> QED BY <1>4, <2>1, <2>2
<1>9. EndsPassed' /\ NothingYet'
  BY DEF EndsPassed, NothingYet
<1> QED BY <1>4, <1>5, <1>6, <1>8, <1>9

LEMMA SizeNextFieldStep == SInv /\ SizeNextField => SInv'
<1> SUFFICES ASSUME SInv, SizeNextField PROVE SInv'
  OBVIOUS
<1>1. /\ phase = "size" /\ ~ AtEnd(At) /\ ~ HasValue(At)
      /\ PointAfter(At) = NextField(At)
  BY DEF SizeNextField, PointAfter
<1>2. sized[At] \in Nat
  BY <1>1, AtFacts DEF SInv, SizeTable, Running
<1>3. ~ CallsChild(At)
  BY <1>1 DEF CallsChild
<1> QED BY <1>1, <1>2, <1>3, SizeMoves DEF SizeNextField

LEMMA SizeFieldStep == SInv /\ SizeField => SInv'
<1> SUFFICES ASSUME SInv, SizeField PROVE SInv'
  OBVIOUS
<1> DEFINE n == sized[At] + FieldSize(FieldAt(At), ValueAt(At))
<1>1. /\ phase = "size" /\ ~ AtEnd(At) /\ HasValue(At)
      /\ PointAfter(At) = NextValue(At)
      /\ FieldAt(At).type # "MESSAGE"
      /\ ~ Throws(FieldAt(At), ValueAt(At))
  BY DEF SizeField, PointAfter, HasValue
<1>2. sized[At] \in Nat /\ At \in Points
  BY <1>1, AtFacts DEF SInv, SizeTable, Running
<1>3. FieldSize(FieldAt(At), ValueAt(At)) \in Nat
  BY <1>1, <1>2, FieldAtType, FieldSizeCoversBytes
<1>4. n \in Nat /\ sized[At] <= n
  BY <1>2, <1>3
<1>5. ~ CallsChild(At)
  BY <1>1 DEF CallsChild
<1>6. MoveTo(PointAfter(At)) /\ SizeAt(PointAfter(At), n)
      /\ UNCHANGED <<doc, phase, total, output>>
  BY <1>1 DEF SizeField
<1> QED BY <1>1, <1>4, <1>5, <1>6, SizeMoves

LEMMA SizeCallStep == SInv /\ SizeCall => SInv'
<1> SUFFICES ASSUME SInv, SizeCall PROVE SInv'
  OBVIOUS
<1> USE DEF SInv
<1> DEFINE r == ChildStart(At)
<1>1. phase = "size" /\ CallsChild(At) /\ Push(Call(r, 0)) /\ SizeAt(r, 0)
      /\ UNCHANGED <<doc, phase, total, output>>
  BY DEF SizeCall, CallsChild, ChildStart
<1>2. Running /\ PassedWellPlaced
  BY <1>1 DEF Running, SizeTable
<1>3. /\ At \in Passed /\ At \in Points
      /\ At = stack[Len(stack)].at /\ Len(stack) \in Nat \ {0}
  BY <1>2, AtFacts
<1>4. FieldAt(At).message \in MessageType /\ ValueAt(At) \in Json
  BY <1>1, <1>3, ChildTypes
<1>5. sized \in [Passed -> Nat] /\ Passed \subseteq Points
  BY DEF TypeOK, Passed
<1>6. /\ SizeTable'
      /\ Passed' = Passed \cup {r}
      /\ Passed' \subseteq Points
      /\ sized' \in [Passed' -> Nat]
  BY <1>1, <1>4, <1>5, TableStepStart DEF ChildStart
<1>7. CallsNest' /\ stack' \in Seq(Calls)
  BY <1>1, <1>2, <1>6, NestPush
<1>8. TypeOK'
  BY <1>1, <1>6, <1>7 DEF TypeOK, Passed
<1>9. /\ Len(stack') = Len(stack) + 1
      /\ \A k \in 1 .. Len(stack) : stack'[k] = stack[k]
      /\ stack'[Len(stack) + 1].at = r
  <2>1. r \in Points /\ stack \in Seq(Calls)
    BY <1>6 DEF TypeOK
  <2> QED BY <1>1, <2>1, PushStack
<1>10. PassedClosed'
  <2> SUFFICES ASSUME NEW p \in Passed', ~ AtEnd(p), PointAfter(p) \notin Passed'
               PROVE  phase' = "size" /\ \E k \in 1 .. Len(stack') : stack'[k].at = p
    BY DEF PassedClosed
  <2>1. CASE p = r
    BY <1>1, <1>3, <1>9, <2>1
  <2>2. CASE p \in Passed
    <3>1. PICK k \in 1 .. Len(stack) : stack[k].at = p
      BY <1>1, <1>2, <1>6, <2>2 DEF PassedClosed
    <3> QED BY <1>1, <1>3, <1>9, <3>1
  <2> QED BY <1>6, <2>1, <2>2
<1>11. EndsPassed' /\ NothingYet'
  BY <1>1 DEF EndsPassed, NothingYet
<1> QED BY <1>6, <1>7, <1>8, <1>10, <1>11

LEMMA ChildIsMeasured ==
  ASSUME TypeOK, PassedWellPlaced, CallsNest, Running, Len(stack) > 1, AtEnd(At)
  PROVE  /\ At = ChildEnd(Caller.at)
         /\ ChildStart(Caller.at) \in Passed
<1> DEFINE c == Caller.at
<1>1. At.type = FieldAt(c).message /\ At.value = ValueAt(c)
  <2>1. SameCall(At, ChildStart(c)) /\ CallsChild(c) /\ c \in Points
    BY CallerFacts
  <2>2. FieldAt(c).message \in MessageType /\ ValueAt(c) \in Json
    BY <2>1, ChildTypes
  <2> QED BY <2>1, <2>2, StartWellPlaced DEF SameCall, ChildStart
<1>2. At = End(At.type, At.value)
  BY AtFacts, EndIsUnique
<1>3. Start(At.type, At.value) \in Passed
  BY AtFacts DEF CallsNest
<1> QED BY <1>1, <1>2, <1>3 DEF ChildEnd, ChildStart

LEMMA SizeReturnStep == SInv /\ SizeReturn => SInv'
<1> SUFFICES ASSUME SInv, SizeReturn PROVE SInv'
  OBVIOUS
<1> USE DEF SInv
<1> DEFINE c == Caller.at
           r == PointAfter(c)
           n == sized[c] + PrefixSize(FieldAt(c), sized[At]) + sized[At]
<1>1. /\ phase = "size" /\ AtEnd(At) /\ Len(stack) > 1
      /\ UNCHANGED <<doc, phase, total, output>>
  BY DEF SizeReturn
<1>2. Running /\ PassedWellPlaced
  BY <1>1 DEF Running, SizeTable
<1>3. /\ c = stack[Len(stack) - 1].at /\ c \in Passed /\ c \in Points
      /\ WellPlaced(c) /\ CallsChild(c) /\ sized[c] \in Nat
  BY <1>1, <1>2, CallerFacts
<1>4. ~ AtEnd(c) /\ HasValue(c) /\ r = NextValue(c) /\ FieldAt(c).type = "MESSAGE"
  BY <1>3 DEF CallsChild, HasValue, PointAfter
<1>5. ReturnTo(r) /\ SizeAt(r, n)
  BY <1>4 DEF SizeReturn
<1>6. /\ At \in Passed /\ sized[At] \in Nat
      /\ At = stack[Len(stack)].at /\ Len(stack) \in Nat \ {0}
  BY <1>2, AtFacts
<1>7. At = ChildEnd(c) /\ ChildStart(c) \in Passed
  BY <1>1, <1>2, ChildIsMeasured
<1>8. PrefixSize(FieldAt(c), sized[At]) \in Nat
  BY <1>3, <1>6, ChildTypes, PrefixLength
<1>9. n \in Nat /\ sized[c] <= n
  BY <1>3, <1>6, <1>8
<1>10. sized \in [Passed -> Nat] /\ Passed \subseteq Points
  BY DEF TypeOK, Passed
<1>11. n = sized[c] + PrefixSize(FieldAt(c), sized[ChildEnd(c)]) + sized[ChildEnd(c)]
  BY <1>7
<1> HIDE DEF c, n
<1>12. /\ SizeTable'
       /\ Passed' = Passed \cup {r}
       /\ Passed' \subseteq Points
       /\ sized' \in [Passed' -> Nat]
  BY <1>3, <1>4, <1>5, <1>6, <1>7, <1>9, <1>10, <1>11, TableStepAfter
<1>13. CallsNest' /\ stack' \in Seq(Calls)
  BY <1>1, <1>2, <1>4, <1>5, <1>12, NestReturn DEF c
<1>14. TypeOK'
  BY <1>1, <1>12, <1>13 DEF TypeOK, Passed
<1>15. /\ Len(stack') = Len(stack) - 1
       /\ \A k \in 1 .. Len(stack) - 2 : stack'[k] = stack[k]
       /\ stack'[Len(stack) - 1].at = r
  <2>1. r \in Points /\ stack \in Seq(Calls)
    BY <1>12 DEF TypeOK
  <2> QED BY <1>1, <1>5, <2>1, ReturnStack
<1>16. PassedClosed'
  <2> SUFFICES ASSUME NEW p \in Passed', ~ AtEnd(p), PointAfter(p) \notin Passed'
               PROVE  phase' = "size" /\ \E k \in 1 .. Len(stack') : stack'[k].at = p
    BY DEF PassedClosed
  <2>1. CASE p = r
    BY <1>1, <1>6, <1>15, <2>1
  <2>2. CASE p \in Passed
    <3>1. PICK k \in 1 .. Len(stack) : stack[k].at = p
      BY <1>1, <1>2, <1>12, <2>2 DEF PassedClosed
    <3>2. k # Len(stack)
      BY <1>1, <1>6, <3>1
    <3>3. k # Len(stack) - 1
      BY <1>3, <1>12, <3>1
    <3>4. k \in 1 .. Len(stack) - 2 /\ k \in 1 .. Len(stack')
      BY <1>6, <1>15, <3>2, <3>3
    <3> QED BY <1>1, <1>15, <3>1, <3>4
  <2> QED BY <1>12, <2>1, <2>2
<1>17. EndsPassed' /\ NothingYet'
  BY <1>1 DEF EndsPassed, NothingYet
<1> QED BY <1>12, <1>13, <1>14, <1>16, <1>17

-----------------------------------------------------------------------------
(***************************************************************************)
(* SInv holds initially and is preserved by the steps of serializeMessage  *)
(* itself.                                                                 *)
(***************************************************************************)
LEMMA InitSInv == Init => SInv
<1> SUFFICES ASSUME Init PROVE SInv
  OBVIOUS
<1>1. /\ doc \in Docs /\ phase = "validate" /\ stack = << >>
      /\ sized = [p \in {} |-> 0] /\ total = 0 /\ output = << >>
  BY DEF Init
<1>2. Passed = {} /\ sized \in [Passed -> Nat]
  BY <1>1 DEF Passed
<1>3. TypeOK
  BY <1>1, <1>2 DEF TypeOK, Phases, Passed
<1>4. SizeTable
  BY <1>2 DEF SizeTable, PassedWellPlaced, PassedInOrder, SizeOfStart,
              SizeOfField, SizeOfChild, SizeOfSkip, SizesGrow
<1> QED BY <1>1, <1>2, <1>3, <1>4
        DEF SInv, NothingYet, CallsNest, PassedClosed, EndsPassed, Running

LEMMA AcceptStep == SInv /\ Accept => SInv'
<1> SUFFICES ASSUME SInv, Accept PROVE SInv'
  OBVIOUS
<1> USE DEF SInv
<1> DEFINE r == Start(Root, doc)
<1>1. /\ phase = "validate" /\ phase' = "size"
      /\ stack' = <<Call(r, 0)>> /\ SizeAt(r, 0)
      /\ UNCHANGED <<doc, total, output>>
  BY DEF Accept
<1>2. Root \in MessageType /\ doc \in Json
  BY WriterAssumption DEF TypeOK
<1>3. r \in Points /\ r = Start(r.type, r.value)
  BY <1>2, StartWellPlaced
<1>4. sized \in [Passed -> Nat] /\ Passed = {} /\ Passed \subseteq Points
  BY <1>1 DEF TypeOK, Passed, NothingYet
<1>5. /\ SizeTable'
      /\ Passed' = {r}
      /\ sized' \in [Passed' -> Nat]
  BY <1>1, <1>2, <1>4, TableStepStart
<1> HIDE DEF r
<1>6. Call(r, 0) \in Calls /\ Call(r, 0).at = r
  BY <1>3 DEF Call, Calls
<1>7. /\ stack' \in Seq(Calls) /\ stack' # << >> /\ Len(stack') = 1
      /\ stack'[1] = Call(r, 0)
  BY <1>1, <1>6
<1>8. TypeOK'
  BY <1>1, <1>3, <1>5, <1>7 DEF TypeOK, Passed, Phases
<1>9. CallsNest'
  <2>1. SameCall(stack'[1].at, Start(Root, doc'))
    BY <1>1, <1>6, <1>7 DEF SameCall, r
  <2>2. \A k \in 1 .. Len(stack') : k = 1
    BY <1>7
  <2>3. \A k \in 1 .. Len(stack') - 1 : FALSE
    BY <1>7
  <2> QED BY <1>3, <1>5, <1>6, <1>7, <2>1, <2>2, <2>3 DEF CallsNest
<1>10. PassedClosed'
  BY <1>1, <1>5, <1>6, <1>7 DEF PassedClosed
<1>11. EndsPassed' /\ NothingYet'
  BY <1>1 DEF EndsPassed, NothingYet
<1> QED BY <1>5, <1>8, <1>9, <1>10, <1>11

(***************************************************************************)
(* A step that only ends the call.                                         *)
(***************************************************************************)
LEMMA EndingStep ==
  ASSUME SInv, phase' \in Ended, UNCHANGED <<doc, stack, sized, total, output>>
  PROVE  SInv'
<1> USE DEF SInv
<1>1. ~ Running' /\ phase' # "write" /\ phase' \notin {"validate", "size"}
      /\ phase' \in Phases
  BY DEF Running, Ended, Phases
<1>2. TypeOK'
  BY <1>1 DEF TypeOK
<1>3. SizeTable'
  BY DEF SizeTable, PassedWellPlaced, PassedInOrder, SizeOfStart, Passed,
         SizeOfField, SizeOfChild, SizeOfSkip, SizesGrow
<1> QED BY <1>1, <1>2, <1>3 DEF NothingYet, CallsNest, PassedClosed, EndsPassed

LEMMA AllocateStep == SInv /\ Allocate => SInv'
<1> SUFFICES ASSUME SInv, Allocate PROVE SInv'
  OBVIOUS
<1> USE DEF SInv
<1> DEFINE r == Start(Root, doc)
<1>1. /\ phase = "size" /\ AtEnd(At) /\ Len(stack) = 1
      /\ phase' = "write" /\ total' = sized[At]
      /\ stack' = <<Call(r, 0)>>
      /\ UNCHANGED <<doc, sized, output>>
  BY DEF Allocate
<1>2. Running /\ PassedWellPlaced
  BY <1>1 DEF Running, SizeTable
<1>3. /\ At = stack[1].at /\ At \in Passed /\ WellPlaced(At) /\ sized[At] \in Nat
  BY <1>1, <1>2, AtFacts
<1>4. Root \in MessageType /\ doc \in Json
  BY WriterAssumption DEF TypeOK
<1>5. r \in Points /\ r.type = Root /\ r.value = doc
  BY <1>4, StartWellPlaced
<1>6. At.type = Root /\ At.value = doc
  BY <1>2, <1>3, <1>5 DEF CallsNest, SameCall
<1>7. At = End(Root, doc) /\ Start(Root, doc) \in Passed
  BY <1>1, <1>2, <1>3, <1>6, EndIsUnique DEF CallsNest
<1>8. /\ SizeTable' /\ Passed' = Passed
  BY <1>1 DEF SizeTable, PassedWellPlaced, PassedInOrder, SizeOfStart, Passed,
              SizeOfField, SizeOfChild, SizeOfSkip, SizesGrow
<1>9. r \in Passed /\ r = Start(r.type, r.value) /\ End(r.type, r.value) \in Passed
  BY <1>3, <1>5, <1>7
<1> HIDE DEF r
<1>10. Call(r, 0) \in Calls /\ Call(r, 0).at = r
  BY <1>5 DEF Call, Calls
<1>11. /\ stack' \in Seq(Calls) /\ stack' # << >> /\ Len(stack') = 1
       /\ stack'[1] = Call(r, 0)
  BY <1>1, <1>10
<1>12. TypeOK'
  BY <1>1, <1>3, <1>11 DEF TypeOK, Phases
<1>13. \A k \in 1 .. Len(stack') : k = 1
  BY <1>11
<1>14. \A k \in 1 .. Len(stack') - 1 : FALSE
  BY <1>11
<1>15. CallsNest'
  <2>1. SameCall(stack'[1].at, Start(Root, doc'))
    BY <1>1, <1>10, <1>11 DEF SameCall, r
  <2> QED BY <1>8, <1>9, <1>10, <1>11, <1>13, <1>14, <2>1 DEF CallsNest
<1>16. PassedClosed'
  <2> SUFFICES ASSUME NEW p \in Passed, ~ AtEnd(p)
               PROVE  PointAfter(p) \in Passed
    BY <1>8 DEF PassedClosed
  <2>1. \A k \in 1 .. Len(stack) : k = 1
    BY <1>1
  <2> QED BY <1>1, <1>2, <1>3, <2>1 DEF PassedClosed
<1>17. EndsPassed' /\ NothingYet'
  BY <1>1, <1>7, <1>8, <1>9, <1>10, <1>11, <1>13 DEF EndsPassed, NothingYet
<1> QED BY <1>8, <1>12, <1>15, <1>16, <1>17

-----------------------------------------------------------------------------
(***************************************************************************)
(* What the write pass finds in the table.                                 *)
(***************************************************************************)
LEMMA WriteFacts ==
  ASSUME SInv, phase = "write"
  PROVE  /\ Running /\ PassedWellPlaced /\ Passed \subseteq Points
         /\ sized \in [Passed -> Nat]
         /\ Len(stack) \in Nat \ {0}
         /\ At = stack[Len(stack)].at /\ Top = stack[Len(stack)]
         /\ At \in Passed /\ At \in Points /\ WellPlaced(At)
         /\ ~ AtEnd(At) => PointAfter(At) \in Passed
         /\ HasValue(At) /\ FieldAt(At).type # "MESSAGE" =>
              /\ ~ Throws(FieldAt(At), ValueAt(At))
              /\ sized[PointAfter(At)] =
                   sized[At] + FieldSize(FieldAt(At), ValueAt(At))
         /\ CallsChild(At) =>
              /\ ChildStart(At) \in Passed
              /\ ChildEnd(At) \in Passed
              /\ sized[PointAfter(At)] =
                   sized[At] + PrefixSize(FieldAt(At), sized[ChildEnd(At)])
                             + sized[ChildEnd(At)]
         /\ ~ AtEnd(At) /\ ~ HasValue(At) => sized[PointAfter(At)] = sized[At]
<1> USE DEF SInv
<1>1. Running /\ PassedWellPlaced
  BY DEF Running, SizeTable
<1>2. /\ Len(stack) \in Nat \ {0}
      /\ At = stack[Len(stack)].at
      /\ At \in Passed /\ At \in Points /\ WellPlaced(At)
  BY <1>1, AtFacts
<1>3. Passed \subseteq Points /\ sized \in [Passed -> Nat]
  BY DEF TypeOK, Passed
<1>4. ~ AtEnd(At) => PointAfter(At) \in Passed
  BY <1>1, <1>2 DEF PassedClosed
<1>5. HasValue(At) => ~ AtEnd(At) /\ PointAfter(At) = NextValue(At)
  BY DEF HasValue, PointAfter
<1>6. ~ HasValue(At) => PointAfter(At) = NextField(At)
  BY DEF PointAfter
<1>7. CallsChild(At) => HasValue(At)
  BY DEF CallsChild
<1>8. HasValue(At) /\ FieldAt(At).type # "MESSAGE" =>
        /\ ~ Throws(FieldAt(At), ValueAt(At))
        /\ sized[PointAfter(At)] = sized[At] + FieldSize(FieldAt(At), ValueAt(At))
  BY <1>2, <1>4, <1>5 DEF SizeTable, SizeOfField
<1>9. CallsChild(At) =>
        /\ ChildStart(At) \in Passed
        /\ ChildEnd(At) \in Passed
        /\ sized[PointAfter(At)] =
             sized[At] + PrefixSize(FieldAt(At), sized[ChildEnd(At)])
                       + sized[ChildEnd(At)]
  BY <1>2, <1>4, <1>5, <1>7 DEF SizeTable, SizeOfChild
<1>10. ~ AtEnd(At) /\ ~ HasValue(At) => sized[PointAfter(At)] = sized[At]
  BY <1>2, <1>4, <1>6 DEF SizeTable, SizeOfSkip
<1> QED BY <1>1, <1>2, <1>3, <1>4, <1>8, <1>9, <1>10 DEF Top

(***************************************************************************)
(* SInv is preserved by each step of writeMessage.                         *)
(***************************************************************************)
LEMMA WriteKeepsTable ==
  ASSUME SInv, phase = "write", UNCHANGED <<doc, phase, sized, total>>,
         stack' \in Seq(Calls), CallsNest', output' \in Seq(Octet),
         \A k \in 1 .. Len(stack') :
           End(stack'[k].at.type, stack'[k].at.value) \in Passed
  PROVE  SInv'
<1> USE DEF SInv
<1>1. SizeTable' /\ Passed' = Passed
  BY DEF SizeTable, PassedWellPlaced, PassedInOrder, SizeOfStart, Passed,
         SizeOfField, SizeOfChild, SizeOfSkip, SizesGrow
<1>2. TypeOK'
  BY DEF TypeOK
<1>3. PassedClosed'
  BY <1>1 DEF PassedClosed, Running
<1>4. EndsPassed' /\ NothingYet'
  BY <1>1 DEF EndsPassed, NothingYet
<1> QED BY <1>1, <1>2, <1>3, <1>4

LEMMA WriteMoves ==
  ASSUME SInv, phase = "write", ~ AtEnd(At), MoveTo(PointAfter(At)),
         UNCHANGED <<doc, phase, sized, total>>, output' \in Seq(Octet)
  PROVE  /\ SInv'
         /\ Len(stack') = Len(stack)
         /\ \A k \in 1 .. Len(stack) - 1 : stack'[k] = stack[k]
         /\ At' = PointAfter(At)
         /\ SameCall(At', At)
         /\ Top' = stack'[Len(stack)]
         /\ Top'.start = Top.start
<1> USE DEF SInv
<1> DEFINE r == PointAfter(At)
           n == Len(stack)
<1>1. /\ Running /\ PassedWellPlaced /\ n \in Nat \ {0}
      /\ At = stack[n].at /\ Top = stack[n]
      /\ WellPlaced(At) /\ r \in Passed /\ r \in Points
  BY WriteFacts
<1>2. Passed' = Passed
  BY DEF Passed
<1>3. CallsNest' /\ stack' \in Seq(Calls)
  BY <1>1, <1>2, NestMove
<1>4. /\ Len(stack') = n
      /\ \A k \in 1 .. n - 1 : stack'[k] = stack[k]
      /\ stack'[n].at = r
      /\ stack'[n].start = stack[n].start
  <2>1. stack # << >> /\ stack \in Seq(Calls)
    BY <1>1 DEF CallsNest, TypeOK
  <2> QED BY <1>1, <2>1, MoveToStack
<1>5. At' = r /\ Top' = stack'[n]
  BY <1>4 DEF At, Top
<1>6. SameCall(r, At)
  BY <1>1, PointAfterFacts
<1> HIDE DEF r, n
<1>7. \A k \in 1 .. n : SameCall(stack'[k].at, stack[k].at)
  BY <1>1, <1>4, <1>6 DEF SameCall
<1>8. \A k \in 1 .. Len(stack') : End(stack'[k].at.type, stack'[k].at.value) \in Passed
  BY <1>4, <1>7 DEF EndsPassed, SameCall, n
<1>9. SInv'
  BY <1>3, <1>8, WriteKeepsTable
<1> QED BY <1>1, <1>4, <1>5, <1>6, <1>9 DEF r, n

LEMMA WriteCalls ==
  ASSUME SInv, WriteCall
  PROVE  /\ SInv'
         /\ phase = "write" /\ CallsChild(At) /\ ~ AtEnd(At)
         /\ UNCHANGED <<phase, sized, total>>
         /\ Len(stack') = Len(stack) + 1
         /\ \A k \in 1 .. Len(stack) : stack'[k] = stack[k]
         /\ At' = ChildStart(At)
         /\ sized[ChildEnd(At)] \in Nat
         /\ Top'.start = Len(output')
         /\ Top' = stack'[Len(stack')]
         /\ Len(output') =
              Len(output) + PrefixSize(FieldAt(At), sized[ChildEnd(At)])
         /\ PrefixSize(FieldAt(At), sized[ChildEnd(At)]) \in Nat
         /\ SameCall(At', ChildEnd(At))
<1> USE DEF SInv
<1> DEFINE r == ChildStart(At)
           n == Len(stack)
           size == sized[ChildEnd(At)]
           prefix == PrefixBytes(FieldAt(At), size)
           start == Len(output) + Len(prefix)
<1>1. /\ phase = "write" /\ CallsChild(At) /\ ~ AtEnd(At)
      /\ output' = output \o prefix
      /\ Push(Call(r, start))
      /\ UNCHANGED <<doc, phase, sized, total>>
  BY DEF WriteCall, CallsChild, ChildStart, ChildEnd, MessageSize, HasValue
<1>2. /\ Running /\ PassedWellPlaced /\ n \in Nat \ {0}
      /\ At = stack[n].at /\ At \in Points
      /\ r \in Passed /\ r \in Points
      /\ ChildEnd(At) \in Passed /\ size \in Nat
  BY <1>1, WriteFacts
<1>3. FieldAt(At) \in Field /\ FieldAt(At).message \in MessageType /\ ValueAt(At) \in Json
  BY <1>1, <1>2, ChildTypes
<1>4. /\ prefix \in Seq(Octet) /\ Len(prefix) = PrefixSize(FieldAt(At), size)
      /\ PrefixSize(FieldAt(At), size) \in Nat
  BY <1>2, <1>3, PrefixLength
<1> HIDE DEF prefix
<1>5. output \in Seq(Octet) /\ Len(output) \in Nat
  BY DEF TypeOK
<1>6. /\ output' \in Seq(Octet)
      /\ Len(output') = Len(output) + Len(prefix)
      /\ start \in Nat
  <2>1. Len(prefix) \in Nat
    BY <1>4
  <2>2. start \in Nat
    BY <1>5, <2>1
  <2>3. /\ output \o prefix \in Seq(Octet)
        /\ Len(output \o prefix) = Len(output) + Len(prefix)
    BY <1>4, <1>5
  <2> QED BY <1>1, <2>2, <2>3
<1>7. r.type = FieldAt(At).message /\ r.value = ValueAt(At)
  BY <1>3, StartWellPlaced DEF ChildStart
<1>8. ChildEnd(At) = End(r.type, r.value)
  BY <1>7 DEF ChildEnd
<1>9. SameCall(r, ChildEnd(At))
  <2>1. Len(Schema[FieldAt(At).message]) + 1 \in Nat \ {0}
    BY <1>3, SchemaLength
  <2> QED BY <1>3, <1>7, <2>1, PointType DEF ChildEnd, End, SameCall
<1>10. Passed' = Passed
  BY <1>1 DEF Passed
<1> HIDE DEF r, start
<1>11. CallsNest' /\ stack' \in Seq(Calls)
  BY <1>1, <1>2, <1>6, <1>10, NestPush DEF r
<1>12. /\ Len(stack') = n + 1
       /\ \A k \in 1 .. n : stack'[k] = stack[k]
       /\ stack'[n + 1].at = r
       /\ stack'[n + 1].start = start
  BY <1>1, <1>2, <1>6, PushStack DEF TypeOK
<1>13. At' = r /\ Top' = stack'[n + 1]
  BY <1>12 DEF At, Top
<1>14. \A k \in 1 .. Len(stack') : End(stack'[k].at.type, stack'[k].at.value) \in Passed
  <2>1. \A k \in 1 .. n + 1 : k \in 1 .. n \/ k = n + 1
    BY <1>2
  <2> QED BY <1>1, <1>2, <1>8, <1>12, <2>1 DEF EndsPassed
<1>15. SInv'
  BY <1>1, <1>6, <1>11, <1>14, WriteKeepsTable
<1> QED BY <1>1, <1>2, <1>4, <1>6, <1>9, <1>12, <1>13, <1>15 DEF start, r

LEMMA WriteReturns ==
  ASSUME SInv, WriteReturn
  PROVE  /\ SInv'
         /\ phase = "write" /\ AtEnd(At) /\ Len(stack) > 1
         /\ UNCHANGED <<phase, sized, total, output>>
         /\ Len(stack') = Len(stack) - 1
         /\ \A k \in 1 .. Len(stack) - 2 : stack'[k] = stack[k]
         /\ At' = NextValue(Caller.at)
         /\ SameCall(At', Caller.at)
         /\ Top'.start = Caller.start
         /\ Top' = stack'[Len(stack')]
         /\ At = ChildEnd(Caller.at)
         /\ Caller = stack[Len(stack) - 1]
         /\ sized[At'] = sized[Caller.at]
                           + PrefixSize(FieldAt(Caller.at), sized[At]) + sized[At]
<1> USE DEF SInv
<1> DEFINE c == Caller.at
           n == Len(stack) - 1
<1>1. /\ phase = "write" /\ AtEnd(At) /\ Len(stack) > 1
      /\ ReturnTo(NextValue(c))
      /\ UNCHANGED <<doc, phase, sized, total, output>>
  BY DEF WriteReturn
<1>2. Running /\ PassedWellPlaced /\ Len(stack) \in Nat \ {0}
  BY <1>1, WriteFacts
<1>3. /\ Caller = stack[n] /\ c = stack[n].at /\ c \in Passed /\ c \in Points
      /\ WellPlaced(c) /\ CallsChild(c)
  BY <1>1, <1>2, CallerFacts DEF Caller
<1>4. At = ChildEnd(c)
  BY <1>1, <1>2, ChildIsMeasured
<1>5. ~ AtEnd(c) /\ HasValue(c) /\ PointAfter(c) = NextValue(c)
  BY <1>3 DEF CallsChild, HasValue, PointAfter
<1>6. NextValue(c) \in Passed /\ NextValue(c) \in Points
  BY <1>1, <1>2, <1>3, <1>5 DEF PassedClosed, TypeOK, Passed
<1>7. sized[NextValue(c)] = sized[c] + PrefixSize(FieldAt(c), sized[At]) + sized[At]
  BY <1>3, <1>4, <1>6 DEF SizeTable, SizeOfChild
<1>8. SameCall(NextValue(c), c)
  BY <1>3, <1>5, PointAfterFacts
<1>9. Passed' = Passed
  BY <1>1 DEF Passed
<1>10. CallsNest' /\ stack' \in Seq(Calls)
  BY <1>1, <1>2, <1>6, <1>9, NestReturn
<1>11. /\ Len(stack') = n
       /\ \A k \in 1 .. Len(stack) - 2 : stack'[k] = stack[k]
       /\ stack'[n].at = NextValue(c)
       /\ stack'[n].start = stack[n].start
  BY <1>1, <1>6, ReturnStack DEF TypeOK
<1>12. At' = NextValue(c) /\ Top' = stack'[n]
  BY <1>11 DEF At, Top
<1> HIDE DEF c
<1>13. \A k \in 1 .. Len(stack') : End(stack'[k].at.type, stack'[k].at.value) \in Passed
  <2>1. \A k \in 1 .. n : k \in 1 .. Len(stack) /\ (k \in 1 .. Len(stack) - 2 \/ k = n)
    BY <1>2
  <2>2. \A k \in 1 .. n : SameCall(stack'[k].at, stack[k].at)
    BY <1>3, <1>8, <1>11, <2>1 DEF SameCall
  <2> QED BY <1>1, <1>11, <2>1, <2>2 DEF EndsPassed, SameCall
<1>14. SInv'
  BY <1>1, <1>10, <1>13, WriteKeepsTable DEF TypeOK
<1> QED BY <1>1, <1>3, <1>4, <1>7, <1>8, <1>11, <1>12, <1>14 DEF c

LEMMA WriteNextFieldStep ==
  ASSUME SInv, WriteNextField
  PROVE  /\ SInv'
         /\ phase = "write" /\ ~ AtEnd(At) /\ ~ HasValue(At)
         /\ MoveTo(PointAfter(At))
         /\ UNCHANGED <<doc, phase, sized, total, output>>
<1>1. /\ phase = "write" /\ ~ AtEnd(At) /\ ~ HasValue(At)
      /\ MoveTo(PointAfter(At))
      /\ UNCHANGED <<doc, phase, sized, total, output>>
  BY DEF WriteNextField, PointAfter
<1>2. output' \in Seq(Octet)
  BY <1>1 DEF SInv, TypeOK
<1> QED BY <1>1, <1>2, WriteMoves

LEMMA WriteFieldStep ==
  ASSUME SInv, WriteField
  PROVE  /\ SInv'
         /\ phase = "write" /\ ~ AtEnd(At) /\ HasValue(At)
         /\ FieldAt(At).type # "MESSAGE" /\ ~ Throws(FieldAt(At), ValueAt(At))
         /\ MoveTo(PointAfter(At))
         /\ UNCHANGED <<doc, phase, sized, total>>
         /\ output' \in Seq(Octet)
         /\ Len(output') = Len(output) + Len(FieldBytes(FieldAt(At), ValueAt(At)))
         /\ FieldAt(At) \in Field /\ ValueAt(At) \in Json
<1>1. /\ phase = "write" /\ ~ AtEnd(At) /\ HasValue(At)
      /\ FieldAt(At).type # "MESSAGE" /\ ~ Throws(FieldAt(At), ValueAt(At))
      /\ MoveTo(PointAfter(At))
      /\ UNCHANGED <<doc, phase, sized, total>>
      /\ output' = output \o FieldBytes(FieldAt(At), ValueAt(At))
  BY DEF WriteField, PointAfter, HasValue
<1>2. At \in Points
  BY <1>1, WriteFacts
<1>3. FieldAt(At) \in Field /\ ValueAt(At) \in Json
  BY <1>1, <1>2, FieldAtType
<1>4. FieldBytes(FieldAt(At), ValueAt(At)) \in Seq(Octet)
  BY <1>1, <1>3, FieldSizeCoversBytes
<1>5. /\ output' \in Seq(Octet)
      /\ Len(output') = Len(output) + Len(FieldBytes(FieldAt(At), ValueAt(At)))
  <2>1. output \in Seq(Octet)
    BY DEF SInv, TypeOK
  <2> HIDE DEF FieldBytes
  <2> QED BY <1>1, <1>4, <2>1
<1>6. SInv'
  BY <1>1, <1>5, WriteMoves
<1> QED BY <1>1, <1>3, <1>5, <1>6

-----------------------------------------------------------------------------
LEMMA NextSInv == SInv /\ [Next]_vars => SInv'
<1> SUFFICES ASSUME SInv, [Next]_vars PROVE SInv'
  OBVIOUS
<1>1. CASE Reject
  BY <1>1, EndingStep DEF Reject, Ended
<1>2. CASE Accept
  BY <1>2, AcceptStep
<1>3. CASE Throw
  BY <1>3, EndingStep DEF Throw, Ended
<1>4. CASE SizeNextField
  BY <1>4, SizeNextFieldStep
<1>5. CASE SizeField
  BY <1>5, SizeFieldStep
<1>6. CASE SizeCall
  BY <1>6, SizeCallStep
<1>7. CASE SizeReturn
  BY <1>7, SizeReturnStep
<1>8. CASE TooLarge
  BY <1>8, EndingStep DEF TooLarge, Ended
<1>9. CASE Allocate
  BY <1>9, AllocateStep
<1>10. CASE WriteNextField
  BY <1>10, WriteNextFieldStep
<1>11. CASE WriteField
  BY <1>11, WriteFieldStep
<1>12. CASE WriteCall
  BY <1>12, WriteCalls
<1>13. CASE WriteReturn
  BY <1>13, WriteReturns
<1>14. CASE Return
  BY <1>14, EndingStep DEF Return, Ended
<1>15. CASE UNCHANGED vars
  BY <1>15 DEF vars, SInv, TypeOK, NothingYet, SizeTable, PassedWellPlaced,
               PassedInOrder, SizeOfStart, SizeOfField, SizeOfChild, SizeOfSkip,
               SizesGrow, CallsNest, PassedClosed, EndsPassed, Passed, Running
<1> QED BY <1>1, <1>2, <1>3, <1>4, <1>5, <1>6, <1>7, <1>8, <1>9, <1>10, <1>11,
           <1>12, <1>13, <1>14, <1>15 DEF Next

(***************************************************************************)
(* The writer's state keeps its types: the sizes it adds up are natural    *)
(* numbers, the bytes it writes are octets.                                *)
(***************************************************************************)
THEOREM WriterTypes == Spec => []TypeOK
<1>1. SInv => TypeOK
  BY DEF SInv
<1> QED BY <1>1, InitSInv, NextSInv, PTL DEF Spec

(***************************************************************************)
(* No exception leaves writeMessage, whatever the schema and the document: *)
(* calculateMessageSize has met every value the write pass visits.         *)
(***************************************************************************)
THEOREM WritePassIsSafe == Spec => WritePassNeverThrows
<1>1. SInv /\ [Next]_vars => [phase = "write" => phase' \notin Failures]_vars
  <2> SUFFICES ASSUME SInv, Next, phase = "write"
               PROVE  phase' \notin Failures
    BY DEF vars
  <2>1. ~ Throw
    <3>1. HasValue(At) /\ Throws(FieldAt(At), ValueAt(At)) => FieldAt(At).type = "MESSAGE"
      BY WriteFacts
    <3> QED BY <3>1 DEF Throw, Throws, Converts
  <2> QED BY <2>1 DEF Next, Reject, Accept, SizeNextField, SizeField, SizeCall,
                 SizeReturn, TooLarge, Allocate, WriteNextField, WriteField,
                 WriteCall, WriteReturn, Return, Failures
<1> QED BY <1>1, InitSInv, NextSInv, PTL DEF Spec, WritePassNeverThrows

-----------------------------------------------------------------------------
(***************************************************************************)
(* The write pass stays within the buffer.                                 *)
(***************************************************************************)
LEMMA SizeUpToEnd ==
  ASSUME SInv, phase = "write", NEW k \in 1 .. Len(stack),
         NEW p \in Passed, SameCall(p, stack[k].at)
  PROVE  /\ sized[p] <= MessageSize(stack[k].at.type, stack[k].at.value)
         /\ sized[p] \in Nat
         /\ MessageSize(stack[k].at.type, stack[k].at.value) \in Nat
<1> USE DEF SInv
<1> DEFINE e == End(stack[k].at.type, stack[k].at.value)
<1>1. e \in Passed /\ sized \in [Passed -> Nat] /\ Passed \subseteq Points
  BY WriteFacts DEF EndsPassed
<1>2. WellPlaced(p) /\ WellPlaced(e)
  BY <1>1 DEF SizeTable, PassedWellPlaced
<1>3. p.type = stack[k].at.type /\ p.value = stack[k].at.value
  BY DEF SameCall
<1>4. p.type \in MessageType /\ p.value \in Json /\ Len(Schema[p.type]) \in Nat
      /\ p.field \in Nat
  BY <1>1, PointComponents, SchemaLength
<1>5. e.type = p.type /\ e.value = p.value /\ e.field = Len(Schema[p.type]) + 1
  BY <1>3, <1>4, PointType DEF End
<1>6. p = e \/ Before(p, e)
  <2>1. CASE AtEnd(p)
    BY <1>2, <1>3, <2>1, EndIsUnique
  <2>2. CASE ~ AtEnd(p)
    BY <1>4, <1>5, <2>2 DEF Before, SameCall, AtEnd
  <2> QED BY <2>1, <2>2
<1>7. sized[p] <= sized[e] /\ sized[p] \in Nat /\ sized[e] \in Nat
  BY <1>1, <1>6 DEF SizeTable, SizesGrow
<1> QED BY <1>7 DEF MessageSize

(***************************************************************************)
(* What Bounded says of the innermost call, with its types.                *)
(***************************************************************************)
LEMMA BoundedFacts ==
  ASSUME BoundedInv, phase = "write"
  PROVE  /\ Len(output) \in Nat /\ Top.start \in Nat /\ sized[At] \in Nat
         /\ total \in Nat
         /\ Len(output) <= Top.start + sized[At]
         /\ Top.start + MessageSize(At.type, At.value) <= total
         /\ MessageSize(At.type, At.value) \in Nat
         /\ sized[At] <= MessageSize(At.type, At.value)
<1> USE DEF BoundedInv
<1>1. /\ Len(stack) \in Nat \ {0} /\ Top = stack[Len(stack)] /\ At = Top.at
      /\ At \in Passed
  BY WriteFacts DEF At
<1>2. Len(stack) \in 1 .. Len(stack)
  BY <1>1
<1>3. Len(output) \in Nat /\ total \in Nat /\ Top.start \in Nat
  BY WriteFacts, AtFacts DEF SInv, TypeOK
<1>4. /\ sized[At] <= MessageSize(At.type, At.value)
      /\ sized[At] \in Nat
      /\ MessageSize(At.type, At.value) \in Nat
  BY <1>1, <1>2, SizeUpToEnd DEF SameCall
<1>5. /\ Len(output) <= Top.start + sized[At]
      /\ Top.start + MessageSize(At.type, At.value) <= total
  BY <1>1, <1>2 DEF Bounded
<1> QED BY <1>3, <1>4, <1>5

LEMMA BoundedMove ==
  ASSUME BoundedInv, SInv', phase = "write",
         UNCHANGED <<phase, sized, total>>,
         Len(stack') = Len(stack),
         \A k \in 1 .. Len(stack) - 1 : stack'[k] = stack[k],
         SameCall(At', At), Top' = stack'[Len(stack)], Top'.start = Top.start,
         Len(output') <= Top.start + sized[At']
  PROVE  Bounded'
<1> USE DEF BoundedInv
<1>1. /\ Len(stack) \in Nat \ {0} /\ Top = stack[Len(stack)] /\ At = Top.at
  BY WriteFacts DEF At
<1>2. At' = Top'.at
  BY DEF At
<1>3. Len(output') <= Top'.start + sized'[At']
  OBVIOUS
<1>4. \A k \in 1 .. Len(stack') - 1 : stack'[k + 1].start <= ChildOffset(k)'
  <2> SUFFICES ASSUME NEW k \in 1 .. Len(stack) - 1
               PROVE  stack'[k + 1].start <= ChildOffset(k)'
    OBVIOUS
  <2>1. stack'[k + 1].start = stack[k + 1].start
    <3>1. k + 1 \in 1 .. Len(stack) - 1 \/ k + 1 = Len(stack)
      BY <1>1
    <3> QED BY <1>1, <3>1
  <2>2. ChildOffset(k)' = ChildOffset(k)
    BY DEF ChildOffset, ChildEnd, ValueAt, ValuesAt, FieldAt
  <2> QED BY <2>1, <2>2 DEF Bounded
<1>5. \A k \in 1 .. Len(stack') :
        stack'[k].start + sized'[End(stack'[k].at.type, stack'[k].at.value)] <= total'
  <2> SUFFICES ASSUME NEW k \in 1 .. Len(stack)
               PROVE  stack'[k].start
                        + sized[End(stack'[k].at.type, stack'[k].at.value)] <= total
    OBVIOUS
  <2>1. stack'[k].start = stack[k].start /\ SameCall(stack'[k].at, stack[k].at)
    <3>1. k \in 1 .. Len(stack) - 1 \/ k = Len(stack)
      BY <1>1
    <3> QED BY <1>1, <1>2, <3>1 DEF SameCall
  <2>2. stack[k].start + sized[End(stack[k].at.type, stack[k].at.value)] <= total
    BY DEF Bounded, MessageSize
  <2> QED BY <2>1, <2>2 DEF SameCall
<1> QED BY <1>3, <1>4, <1>5 DEF Bounded, MessageSize

LEMMA BoundedNext ==
  ASSUME NoEmptyText, BoundedInv, [Next]_vars
  PROVE  BoundedInv'
<1> USE DEF BoundedInv
<1>1. SInv'
  BY NextSInv
<1>2. CASE Allocate
  <2>1. /\ phase = "size" /\ Len(stack) = 1
        /\ phase' = "write" /\ total' = sized[At]
        /\ stack' = <<Call(Start(Root, doc), 0)>>
        /\ UNCHANGED <<doc, sized, output>>
    BY <1>2 DEF Allocate
  <2>2. output = << >> /\ Len(output') = 0
    BY <2>1 DEF SInv, NothingYet
  <2>3. Len(stack') = 1 /\ stack'[1].at = Start(Root, doc) /\ stack'[1].start = 0
    BY <2>1 DEF Call
  <2>4. At' = Start(Root, doc) /\ Top'.start = 0
    BY <2>3 DEF At, Top
  <2>5. sized'[At'] \in Nat
    <3>1. CallsNest' /\ Running' /\ sized' \in [Passed' -> Nat]
      BY <1>1, <2>1 DEF SInv, TypeOK, Passed, Running
    <3>2. At' \in Passed'
      BY <2>3, <2>4, <3>1 DEF CallsNest
    <3> QED BY <3>1, <3>2
  <2>6. Root \in MessageType /\ doc \in Json
    BY WriterAssumption DEF SInv, TypeOK
  <2>7. stack'[1].at.type = Root /\ stack'[1].at.value = doc
    BY <2>3, <2>6, StartWellPlaced
  <2>8. total' = sized'[End(Root, doc)] /\ total' \in Nat
    BY <1>1, <2>1 DEF SInv, EndsPassed, TypeOK
  <2>9. \A k \in 1 .. Len(stack') : k = 1
    BY <2>3
  <2>10. \A k \in 1 .. Len(stack') - 1 : FALSE
    BY <2>3
  <2>11. Len(output') <= Top'.start + sized'[At']
    BY <2>2, <2>4, <2>5
  <2>12. \A k \in 1 .. Len(stack') :
           stack'[k].start + sized'[End(stack'[k].at.type, stack'[k].at.value)] <= total'
    BY <2>3, <2>7, <2>8, <2>9
  <2> QED BY <1>1, <2>10, <2>11, <2>12 DEF Bounded, MessageSize
<1>3. CASE WriteNextField
  <2>1. /\ phase = "write" /\ ~ AtEnd(At) /\ ~ HasValue(At)
        /\ MoveTo(PointAfter(At))
        /\ UNCHANGED <<doc, phase, sized, total, output>>
    BY <1>3, WriteNextFieldStep
  <2>2. output' \in Seq(Octet)
    BY <1>1 DEF SInv, TypeOK
  <2>3. sized[PointAfter(At)] = sized[At]
    BY <2>1, WriteFacts
  <2>4. /\ Len(stack') = Len(stack)
        /\ \A k \in 1 .. Len(stack) - 1 : stack'[k] = stack[k]
        /\ At' = PointAfter(At) /\ SameCall(At', At)
        /\ Top' = stack'[Len(stack)] /\ Top'.start = Top.start
    BY <2>1, <2>2, WriteMoves
  <2>5. Len(output') <= Top.start + sized[At']
    BY <2>1, <2>3, <2>4, BoundedFacts
  <2> QED BY <1>1, <2>1, <2>4, <2>5, BoundedMove
<1>4. CASE WriteField
  <2> DEFINE bytes == FieldBytes(FieldAt(At), ValueAt(At))
             size == FieldSize(FieldAt(At), ValueAt(At))
  <2>1. /\ phase = "write" /\ ~ AtEnd(At) /\ HasValue(At)
        /\ FieldAt(At).type # "MESSAGE" /\ ~ Throws(FieldAt(At), ValueAt(At))
        /\ MoveTo(PointAfter(At))
        /\ UNCHANGED <<doc, phase, sized, total>>
        /\ output' \in Seq(Octet)
        /\ Len(output') = Len(output) + Len(bytes)
        /\ FieldAt(At) \in Field /\ ValueAt(At) \in Json
    BY <1>4, WriteFieldStep
  <2>2. sized[PointAfter(At)] = sized[At] + size
    BY <2>1, WriteFacts
  <2>3. Len(bytes) <= size /\ size \in Nat /\ bytes \in Seq(Octet)
    BY <2>1, FieldSizeCoversBytes
  <2>4. /\ Len(stack') = Len(stack)
        /\ \A k \in 1 .. Len(stack) - 1 : stack'[k] = stack[k]
        /\ At' = PointAfter(At) /\ SameCall(At', At)
        /\ Top' = stack'[Len(stack)] /\ Top'.start = Top.start
    BY <2>1, WriteMoves
  <2> HIDE DEF bytes, size
  <2>5. Len(bytes) \in Nat
    BY <2>3
  <2>6. Len(output') <= Top.start + sized[At']
    BY <2>1, <2>2, <2>3, <2>4, <2>5, BoundedFacts
  <2> QED BY <1>1, <2>1, <2>4, <2>6, BoundedMove
<1>5. CASE WriteCall
  <2> DEFINE n == Len(stack)
             size == sized[ChildEnd(At)]
             prefix == PrefixSize(FieldAt(At), size)
  <2>1. /\ phase = "write" /\ CallsChild(At) /\ ~ AtEnd(At)
        /\ UNCHANGED <<phase, sized, total>>
        /\ Len(stack') = n + 1
        /\ \A k \in 1 .. n : stack'[k] = stack[k]
        /\ At' = ChildStart(At) /\ SameCall(At', ChildEnd(At))
        /\ size \in Nat /\ prefix \in Nat
        /\ Top'.start = Len(output') /\ Top' = stack'[Len(stack')]
        /\ Len(output') = Len(output) + prefix
    BY <1>5, WriteCalls
  <2>2. /\ n \in Nat \ {0} /\ Top = stack[n] /\ At = stack[n].at
        /\ sized[PointAfter(At)] = sized[At] + prefix + size
        /\ PointAfter(At) \in Passed /\ WellPlaced(At)
    BY <2>1, WriteFacts
  <2>3. SameCall(PointAfter(At), stack[n].at)
    BY <2>1, <2>2, PointAfterFacts
  <2>4. /\ sized[PointAfter(At)] <= MessageSize(At.type, At.value)
        /\ sized[PointAfter(At)] \in Nat
    BY <2>1, <2>2, <2>3, SizeUpToEnd
  <2>5. /\ Len(output) \in Nat /\ Top.start \in Nat /\ sized[At] \in Nat
        /\ total \in Nat
        /\ Len(output) <= Top.start + sized[At]
        /\ Top.start + MessageSize(At.type, At.value) <= total
        /\ MessageSize(At.type, At.value) \in Nat
    BY <2>1, BoundedFacts
  <2>6. sized'[At'] \in Nat /\ At' = Top'.at
    BY <1>1, <2>1, AtFacts, WriteFacts DEF SInv, At
  <2> HIDE DEF size, prefix, n
  <2>7. Top'.start + size <= total
    <3>1. Top'.start = Len(output) + prefix /\ prefix \in Nat /\ size \in Nat
      BY <2>1
    <3>2. sized[PointAfter(At)] = sized[At] + prefix + size
      BY <2>2
    <3> QED BY <2>4, <2>5, <3>1, <3>2
  <2>8. Len(output') <= Top'.start + sized'[At']
    BY <2>1, <2>5, <2>6
  <2>9. \A k \in 1 .. n : stack'[k + 1].start <= ChildOffset(k)'
    <3> SUFFICES ASSUME NEW k \in 1 .. n
                 PROVE  stack'[k + 1].start <= ChildOffset(k)'
      OBVIOUS
    <3>1. ChildOffset(k)' = ChildOffset(k)
      BY <2>1 DEF ChildOffset, ChildEnd, ValueAt, ValuesAt, FieldAt
    <3>2. CASE k = n
      <4>1. ChildOffset(n) = Top.start + sized[At] + prefix
        BY <2>2 DEF ChildOffset, prefix, size
      <4> QED BY <2>1, <2>5, <3>1, <3>2, <4>1
    <3>3. CASE k # n
      <4>1. k \in 1 .. n - 1 /\ k + 1 \in 1 .. n
        BY <2>2, <3>3
      <4> QED BY <2>1, <3>1, <4>1 DEF Bounded, n
    <3> QED BY <3>2, <3>3
  <2>10. \A k \in 1 .. n + 1 :
           stack'[k].start + sized'[End(stack'[k].at.type, stack'[k].at.value)] <= total'
    <3> SUFFICES ASSUME NEW k \in 1 .. n + 1
                 PROVE  stack'[k].start
                          + sized[End(stack'[k].at.type, stack'[k].at.value)] <= total
      BY <2>1
    <3>1. CASE k = n + 1
      <4>1. stack'[k].at = At' /\ stack'[k].start = Top'.start
        BY <2>1, <2>6, <3>1
      <4>2. End(At'.type, At'.value) = ChildEnd(At)
        <5>1. FieldAt(At).message \in MessageType /\ ValueAt(At) \in Json
          BY <2>1, ChildTypes, WriteFacts
        <5> QED BY <2>1, <5>1, StartWellPlaced DEF ChildStart, ChildEnd
      <4> QED BY <2>7, <4>1, <4>2 DEF size
    <3>2. CASE k # n + 1
      <4>1. k \in 1 .. n
        BY <2>2, <3>2
      <4> QED BY <2>1, <4>1 DEF Bounded, MessageSize, n
    <3> QED BY <3>1, <3>2
  <2>11. Len(stack') - 1 = n
    BY <2>1, <2>2
  <2> QED BY <1>1, <2>1, <2>8, <2>9, <2>10, <2>11 DEF Bounded, MessageSize
<1>6. CASE WriteReturn
  <2> DEFINE n == Len(stack) - 1
             c == Caller.at
             prefix == PrefixSize(FieldAt(c), sized[At])
  <2>1. /\ phase = "write" /\ AtEnd(At) /\ Len(stack) > 1
        /\ UNCHANGED <<phase, sized, total, output>>
        /\ Len(stack') = n
        /\ \A k \in 1 .. Len(stack) - 2 : stack'[k] = stack[k]
        /\ SameCall(At', c)
        /\ Top'.start = Caller.start /\ Top' = stack'[Len(stack')]
        /\ At = ChildEnd(c) /\ Caller = stack[n]
        /\ sized[At'] = sized[c] + prefix + sized[At]
    BY <1>6, WriteReturns
  <2>2. Len(stack) \in Nat \ {0} /\ Top = stack[Len(stack)]
    BY <2>1, WriteFacts
  <2>3. n \in Nat \ {0} /\ n + 1 = Len(stack)
    BY <2>1, <2>2
  <2>4. Top.start <= Caller.start + sized[c] + prefix
    <3>1. n \in 1 .. Len(stack) - 1
      BY <2>3
    <3>2. stack[n + 1].start <= ChildOffset(n)
      BY <2>1, <3>1 DEF Bounded
    <3>3. ChildOffset(n) = Caller.start + sized[c] + prefix
      BY <2>1 DEF ChildOffset
    <3> QED BY <2>2, <2>3, <3>2, <3>3
  <2>5. /\ c \in Passed /\ c \in Points /\ sized[c] \in Nat /\ CallsChild(c)
    BY <2>1, WriteFacts, CallerFacts DEF SInv
  <2>6. Len(output) <= Top.start + sized[At] /\ Top.start \in Nat
        /\ Len(output) \in Nat /\ sized[At] \in Nat
    BY <2>1, BoundedFacts
  <2>7. prefix \in Nat /\ Caller.start \in Nat
    <3>1. Caller \in Calls
      BY <2>1, <2>3 DEF SInv, TypeOK
    <3> QED BY <2>5, <2>6, <3>1, ChildTypes, PrefixLength DEF Calls
  <2>8. At' = Top'.at
    BY DEF At
  <2> HIDE DEF prefix, c, n
  <2>9. Len(output') <= Top'.start + sized'[At']
    <3>1. /\ Top'.start = Caller.start /\ output' = output /\ sized' = sized
          /\ sized[At'] = sized[c] + prefix + sized[At]
      BY <2>1
    <3>2. Len(output) <= Caller.start + (sized[c] + prefix + sized[At])
      BY <2>4, <2>5, <2>6, <2>7
    <3> QED BY <3>1, <3>2
  <2>10. \A k \in 1 .. n : /\ stack'[k].start = stack[k].start
                           /\ SameCall(stack'[k].at, stack[k].at)
    <3> SUFFICES ASSUME NEW k \in 1 .. n
                 PROVE  /\ stack'[k].start = stack[k].start
                        /\ SameCall(stack'[k].at, stack[k].at)
      OBVIOUS
    <3>1. k \in 1 .. Len(stack) - 2 \/ k = n
      BY <2>3
    <3> QED BY <2>1, <2>8, <3>1 DEF SameCall, c
  <2>11. \A k \in 1 .. n - 1 : stack'[k + 1].start <= ChildOffset(k)'
    <3> SUFFICES ASSUME NEW k \in 1 .. n - 1
                 PROVE  stack'[k + 1].start <= ChildOffset(k)'
      OBVIOUS
    <3>1. k \in 1 .. Len(stack) - 2 /\ k + 1 \in 1 .. n /\ k \in 1 .. Len(stack) - 1
      BY <2>3
    <3>2. ChildOffset(k)' = ChildOffset(k)
      BY <2>1, <3>1 DEF ChildOffset, ChildEnd, ValueAt, ValuesAt, FieldAt
    <3>3. stack[k + 1].start <= ChildOffset(k)
      BY <2>1, <3>1 DEF Bounded
    <3> QED BY <2>10, <3>1, <3>2, <3>3
  <2>12. \A k \in 1 .. n :
           stack'[k].start + sized'[End(stack'[k].at.type, stack'[k].at.value)] <= total'
    <3> SUFFICES ASSUME NEW k \in 1 .. n
                 PROVE  stack'[k].start
                          + sized[End(stack'[k].at.type, stack'[k].at.value)] <= total
      BY <2>1
    <3>1. k \in 1 .. Len(stack)
      BY <2>3
    <3>2. stack[k].start + sized[End(stack[k].at.type, stack[k].at.value)] <= total
      BY <2>1, <3>1 DEF Bounded, MessageSize
    <3> QED BY <2>10, <3>2 DEF SameCall
  <2> QED BY <1>1, <2>1, <2>9, <2>11, <2>12 DEF Bounded, MessageSize
<1>7. CASE UNCHANGED vars
  BY <1>1, <1>7 DEF vars, Bounded, ChildOffset, ChildEnd, MessageSize, ValueAt,
                    ValuesAt, FieldAt, At, Top
<1>8. CASE phase' # "write"
  BY <1>1, <1>8 DEF Bounded
<1>9. Next /\ phase' = "write" =>
        Allocate \/ WriteNextField \/ WriteField \/ WriteCall \/ WriteReturn
  BY DEF Next, Reject, Accept, Throw, SizeNextField, SizeField, SizeCall,
         SizeReturn, TooLarge, Return
<1> QED BY <1>2, <1>3, <1>4, <1>5, <1>6, <1>7, <1>8, <1>9

(***************************************************************************)
(* Whatever the schema and the document, writeMessage never writes past    *)
(* the end of the allocated string, provided that no text is empty: the    *)
(* size of an empty STRING is the one the size pass does not count.        *)
(***************************************************************************)
THEOREM WriterStaysInBuffer ==
  ASSUME NoEmptyText
  PROVE  Spec => []WritesWithinBuffer
<1>1. Init => BoundedInv
  BY InitSInv DEF BoundedInv, Bounded, Init
<1>2. BoundedInv /\ [Next]_vars => BoundedInv'
  BY BoundedNext
<1>3. BoundedInv => WritesWithinBuffer
  <2> SUFFICES ASSUME BoundedInv, phase = "write" PROVE Len(output) <= total
    BY DEF WritesWithinBuffer
  <2> QED BY BoundedFacts
<1> QED BY <1>1, <1>2, <1>3, PTL DEF Spec

-----------------------------------------------------------------------------
(***************************************************************************)
(* The write pass fills exactly what the size pass counted.                *)
(***************************************************************************)
LEMMA ExactFacts ==
  ASSUME ExactInv, phase = "write"
  PROVE  /\ Len(output) \in Nat /\ Top.start \in Nat /\ sized[At] \in Nat
         /\ Len(output) = Top.start + sized[At]
<1> USE DEF ExactInv
<1>1. Len(output) \in Nat /\ Top.start \in Nat /\ sized[At] \in Nat
  BY WriteFacts, AtFacts DEF SInv, TypeOK
<1> QED BY <1>1 DEF Exact

LEMMA ExactMove ==
  ASSUME ExactInv, SInv', phase = "write",
         UNCHANGED <<phase, sized, total>>,
         Len(stack') = Len(stack),
         \A k \in 1 .. Len(stack) - 1 : stack'[k] = stack[k],
         Top' = stack'[Len(stack)], Top'.start = Top.start,
         Len(output') = Top.start + sized[At']
  PROVE  Exact'
<1> USE DEF ExactInv
<1>1. Len(stack) \in Nat \ {0} /\ Top = stack[Len(stack)]
  BY WriteFacts
<1>2. Len(output') = Top'.start + sized'[At']
  OBVIOUS
<1>3. \A k \in 1 .. Len(stack') - 1 : stack'[k + 1].start = ChildOffset(k)'
  <2> SUFFICES ASSUME NEW k \in 1 .. Len(stack) - 1
               PROVE  stack'[k + 1].start = ChildOffset(k)'
    OBVIOUS
  <2>1. stack'[k + 1].start = stack[k + 1].start
    <3>1. k + 1 \in 1 .. Len(stack) - 1 \/ k + 1 = Len(stack)
      BY <1>1
    <3> QED BY <1>1, <3>1
  <2>2. ChildOffset(k)' = ChildOffset(k)
    BY DEF ChildOffset, ChildEnd, ValueAt, ValuesAt, FieldAt
  <2> QED BY <2>1, <2>2 DEF Exact
<1> QED BY <1>2, <1>3 DEF Exact

LEMMA ExactNext ==
  ASSUME NoEmptyText, NoBytesFields, ExactInv, [Next]_vars
  PROVE  ExactInv'
<1> USE DEF ExactInv
<1>1. SInv'
  BY NextSInv
<1>2. CASE Allocate
  <2>1. /\ phase = "size"
        /\ phase' = "write"
        /\ stack' = <<Call(Start(Root, doc), 0)>>
        /\ UNCHANGED <<doc, sized, output>>
    BY <1>2 DEF Allocate
  <2>2. Len(output') = 0
    BY <2>1 DEF SInv, NothingYet
  <2>3. Len(stack') = 1 /\ stack'[1].at = Start(Root, doc) /\ stack'[1].start = 0
    BY <2>1 DEF Call
  <2>4. At' = Start(Root, doc) /\ Top'.start = 0
    BY <2>3 DEF At, Top
  <2>5. sized'[At'] = 0
    <3>1. CallsNest' /\ Running' /\ SizeOfStart'
      BY <1>1, <2>1 DEF SInv, SizeTable, Running
    <3>2. At' \in Passed'
      BY <2>3, <2>4, <3>1 DEF CallsNest
    <3>3. Root \in MessageType /\ doc \in Json
      BY WriterAssumption DEF SInv, TypeOK
    <3> QED BY <2>4, <3>1, <3>2, <3>3, StartWellPlaced DEF SizeOfStart
  <2>6. \A k \in 1 .. Len(stack') - 1 : FALSE
    BY <2>3
  <2>7. Len(output') = Top'.start + sized'[At']
    BY <2>2, <2>4, <2>5
  <2> QED BY <1>1, <2>6, <2>7 DEF Exact
<1>3. CASE WriteNextField
  <2>1. /\ phase = "write" /\ ~ AtEnd(At) /\ ~ HasValue(At)
        /\ MoveTo(PointAfter(At))
        /\ UNCHANGED <<doc, phase, sized, total, output>>
    BY <1>3, WriteNextFieldStep
  <2>2. output' \in Seq(Octet)
    BY <1>1 DEF SInv, TypeOK
  <2>3. sized[PointAfter(At)] = sized[At]
    BY <2>1, WriteFacts
  <2>4. /\ Len(stack') = Len(stack)
        /\ \A k \in 1 .. Len(stack) - 1 : stack'[k] = stack[k]
        /\ At' = PointAfter(At)
        /\ Top' = stack'[Len(stack)] /\ Top'.start = Top.start
    BY <2>1, <2>2, WriteMoves
  <2>5. Len(output') = Top.start + sized[At']
    BY <2>1, <2>3, <2>4, ExactFacts
  <2> QED BY <1>1, <2>1, <2>4, <2>5, ExactMove
<1>4. CASE WriteField
  <2> DEFINE bytes == FieldBytes(FieldAt(At), ValueAt(At))
             size == FieldSize(FieldAt(At), ValueAt(At))
  <2>1. /\ phase = "write" /\ ~ AtEnd(At) /\ HasValue(At)
        /\ FieldAt(At).type # "MESSAGE" /\ ~ Throws(FieldAt(At), ValueAt(At))
        /\ MoveTo(PointAfter(At))
        /\ UNCHANGED <<doc, phase, sized, total>>
        /\ output' \in Seq(Octet)
        /\ Len(output') = Len(output) + Len(bytes)
        /\ FieldAt(At) \in Field /\ ValueAt(At) \in Json
    BY <1>4, WriteFieldStep
  <2>2. sized[PointAfter(At)] = sized[At] + size
    BY <2>1, WriteFacts
  <2>3. Len(bytes) = size /\ size \in Nat
    BY <2>1, FieldSizeCoversBytes
  <2>4. /\ Len(stack') = Len(stack)
        /\ \A k \in 1 .. Len(stack) - 1 : stack'[k] = stack[k]
        /\ At' = PointAfter(At)
        /\ Top' = stack'[Len(stack)] /\ Top'.start = Top.start
    BY <2>1, WriteMoves
  <2> HIDE DEF bytes, size
  <2>5. Len(output') = Top.start + sized[At']
    BY <2>1, <2>2, <2>3, <2>4, ExactFacts
  <2> QED BY <1>1, <2>1, <2>4, <2>5, ExactMove
<1>5. CASE WriteCall
  <2> DEFINE n == Len(stack)
             size == sized[ChildEnd(At)]
             prefix == PrefixSize(FieldAt(At), size)
  <2>1. /\ phase = "write" /\ CallsChild(At) /\ ~ AtEnd(At)
        /\ UNCHANGED <<phase, sized, total>>
        /\ Len(stack') = n + 1
        /\ \A k \in 1 .. n : stack'[k] = stack[k]
        /\ At' = ChildStart(At)
        /\ prefix \in Nat
        /\ Top'.start = Len(output') /\ Top' = stack'[Len(stack')]
        /\ Len(output') = Len(output) + prefix
    BY <1>5, WriteCalls
  <2>2. /\ n \in Nat \ {0} /\ Top = stack[n] /\ At = stack[n].at /\ At \in Points
        /\ ChildStart(At) \in Passed
    BY <2>1, WriteFacts
  <2>3. sized'[At'] = 0
    <3>1. FieldAt(At).message \in MessageType /\ ValueAt(At) \in Json
      BY <2>1, <2>2, ChildTypes
    <3>2. ChildStart(At).field = 1 /\ ChildStart(At).elem = 1
      BY <3>1, StartWellPlaced DEF ChildStart
    <3> QED BY <2>1, <2>2, <3>2 DEF SInv, SizeTable, SizeOfStart
  <2> HIDE DEF size, prefix, n
  <2>4. /\ Len(output) \in Nat /\ Top.start \in Nat /\ sized[At] \in Nat
        /\ Len(output) = Top.start + sized[At]
    BY <2>1, ExactFacts
  <2>5. Len(output') = Top'.start + sized'[At']
    BY <2>1, <2>3, <2>4
  <2>6. \A k \in 1 .. n : stack'[k + 1].start = ChildOffset(k)'
    <3> SUFFICES ASSUME NEW k \in 1 .. n
                 PROVE  stack'[k + 1].start = ChildOffset(k)'
      OBVIOUS
    <3>1. ChildOffset(k)' = ChildOffset(k)
      BY <2>1 DEF ChildOffset, ChildEnd, ValueAt, ValuesAt, FieldAt
    <3>2. CASE k = n
      <4>1. ChildOffset(n) = Top.start + sized[At] + prefix
        BY <2>2 DEF ChildOffset, prefix, size
      <4> QED BY <2>1, <2>4, <3>1, <3>2, <4>1
    <3>3. CASE k # n
      <4>1. k \in 1 .. n - 1 /\ k + 1 \in 1 .. n
        BY <2>2, <3>3
      <4> QED BY <2>1, <3>1, <4>1 DEF Exact, n
    <3> QED BY <3>2, <3>3
  <2>7. Len(stack') - 1 = n
    BY <2>1, <2>2
  <2> QED BY <1>1, <2>5, <2>6, <2>7 DEF Exact
<1>6. CASE WriteReturn
  <2> DEFINE n == Len(stack) - 1
             c == Caller.at
             prefix == PrefixSize(FieldAt(c), sized[At])
  <2>1. /\ phase = "write" /\ AtEnd(At) /\ Len(stack) > 1
        /\ UNCHANGED <<phase, sized, total, output>>
        /\ Len(stack') = n
        /\ \A k \in 1 .. Len(stack) - 2 : stack'[k] = stack[k]
        /\ Top'.start = Caller.start /\ Top' = stack'[Len(stack')]
        /\ At = ChildEnd(c) /\ Caller = stack[n]
        /\ sized[At'] = sized[c] + prefix + sized[At]
    BY <1>6, WriteReturns
  <2>2. Len(stack) \in Nat \ {0} /\ Top = stack[Len(stack)]
    BY <2>1, WriteFacts
  <2>3. n \in Nat \ {0} /\ n + 1 = Len(stack)
    BY <2>1, <2>2
  <2>4. Top.start = Caller.start + sized[c] + prefix
    <3>1. n \in 1 .. Len(stack) - 1
      BY <2>3
    <3>2. stack[n + 1].start = ChildOffset(n)
      BY <2>1, <3>1 DEF Exact
    <3>3. ChildOffset(n) = Caller.start + sized[c] + prefix
      BY <2>1 DEF ChildOffset
    <3> QED BY <2>2, <2>3, <3>2, <3>3
  <2>5. /\ c \in Points /\ sized[c] \in Nat /\ CallsChild(c)
    BY <2>1, WriteFacts, CallerFacts DEF SInv
  <2>6. Len(output) = Top.start + sized[At] /\ sized[At] \in Nat
    BY <2>1, ExactFacts
  <2>7. prefix \in Nat /\ Caller.start \in Nat
    <3>1. Caller \in Calls
      BY <2>1, <2>3 DEF SInv, TypeOK
    <3> QED BY <2>5, <2>6, <3>1, ChildTypes, PrefixLength DEF Calls
  <2> HIDE DEF prefix, c, n
  <2>8. Len(output') = Top'.start + sized'[At']
    BY <2>1, <2>4, <2>5, <2>6, <2>7
  <2>9. \A k \in 1 .. n - 1 : stack'[k + 1].start = ChildOffset(k)'
    <3> SUFFICES ASSUME NEW k \in 1 .. n - 1
                 PROVE  stack'[k + 1].start = ChildOffset(k)'
      OBVIOUS
    <3>1. /\ k \in 1 .. Len(stack) - 2 /\ k \in 1 .. Len(stack) - 1
          /\ k + 1 \in 1 .. Len(stack) - 2 \/ k + 1 = n
      BY <2>3
    <3>2. stack'[k + 1].start = stack[k + 1].start
      BY <2>1, <3>1
    <3>3. ChildOffset(k)' = ChildOffset(k)
      BY <2>1, <3>1 DEF ChildOffset, ChildEnd, ValueAt, ValuesAt, FieldAt
    <3>4. stack[k + 1].start = ChildOffset(k)
      BY <2>1, <3>1 DEF Exact
    <3> QED BY <3>2, <3>3, <3>4
  <2> QED BY <1>1, <2>1, <2>8, <2>9 DEF Exact
<1>7. CASE UNCHANGED vars
  BY <1>1, <1>7 DEF vars, Exact, ChildOffset, ChildEnd, ValueAt, ValuesAt,
                    FieldAt, At, Top
<1>8. CASE phase' # "write"
  BY <1>1, <1>8 DEF Exact
<1>9. Next /\ phase' = "write" =>
        Allocate \/ WriteNextField \/ WriteField \/ WriteCall \/ WriteReturn
  BY DEF Next, Reject, Accept, Throw, SizeNextField, SizeField, SizeCall,
         SizeReturn, TooLarge, Return
<1> QED BY <1>2, <1>3, <1>4, <1>5, <1>6, <1>7, <1>8, <1>9

(***************************************************************************)
(* Without empty texts and BYTES fields every length prefix announces      *)
(* exactly the payload that follows it, at every depth of nesting, and the *)
(* outermost message fills its buffer.                                     *)
(***************************************************************************)
THEOREM WriterPrefixesExact ==
  ASSUME NoEmptyText, NoBytesFields
  PROVE  Spec => []PayloadMatchesPrefix
<1>1. Init => ExactInv
  BY InitSInv DEF ExactInv, Exact, Init
<1>2. ExactInv /\ [Next]_vars => ExactInv'
  BY ExactNext
<1>3. ExactInv => PayloadMatchesPrefix
  <2> SUFFICES ASSUME ExactInv, phase = "write", AtEnd(At)
               PROVE  Len(output) - Top.start = MessageSize(At.type, At.value)
    BY DEF PayloadMatchesPrefix
  <2>1. At = End(At.type, At.value)
    BY WriteFacts, EndIsUnique DEF ExactInv
  <2>2. MessageSize(At.type, At.value) = sized[At]
    BY <2>1 DEF MessageSize
  <2> QED BY <2>2, ExactFacts
<1> QED BY <1>1, <1>2, <1>3, PTL DEF Spec

-----------------------------------------------------------------------------
(***************************************************************************)
(* Definitions by recursion.  Each element of D has a rank, and step[x][g] *)
(* only looks at g where the rank is smaller than that of x.               *)
(***************************************************************************)
Recursive(D, V, rank, step) ==
  /\ rank \in [D -> Nat]
  /\ step \in [D -> [[D -> V] -> V]]
  /\ \A x \in D : \A g, h \in [D -> V] :
       (\A y \in D : rank[y] < rank[x] => g[y] = h[y]) => step[x][g] = step[x][h]

Follows(f, D, rank, step, n) == \A x \in D : rank[x] < n => f[x] = step[x][f]

LEMMA SmallerFirst ==
  ASSUME NEW T \in SUBSET Nat, \A n \in Nat : (\A m \in Nat : m < n => m \in T) => n \in T
  PROVE  T = Nat
<1> DEFINE Out == Nat \ T
<1>1. SUFFICES ASSUME Out # {}
               PROVE  FALSE
  OBVIOUS
<1>2. PICK n \in Out : \A m \in Out : ~ (<<m, n>> \in OpToRel(<, Nat))
  <2>1. Out \subseteq Nat
    OBVIOUS
  <2> HIDE DEF Out
  <2> QED BY <1>1, <2>1, NatLessThanWellFounded, WFMin
<1>3. ASSUME NEW m \in Nat, m < n
      PROVE  m \in T
  <2>1. <<m, n>> \in OpToRel(<, Nat)
    BY <1>3, Zenon DEF OpToRel
  <2> QED BY <1>2, <2>1
<1> QED
  BY <1>2, <1>3

LEMMA OneRankFurther ==
  ASSUME NEW D, NEW V, NEW rank, NEW step, Recursive(D, V, rank, step),
         NEW n \in Nat, NEW f \in [D -> V], Follows(f, D, rank, step, n)
  PROVE  \E h \in [D -> V] : Follows(h, D, rank, step, n + 1)
<1> DEFINE h == [x \in D |-> IF rank[x] < n THEN f[x] ELSE step[x][f]]
<1>1. rank \in [D -> Nat] /\ step \in [D -> [[D -> V] -> V]]
  BY DEF Recursive
<1>2. h \in [D -> V]
  <2>1. \A x \in D : step[x][f] \in V
    BY <1>1
  <2> QED BY <2>1
<1>3. ASSUME NEW x \in D, rank[x] < n + 1
      PROVE  h[x] = step[x][h]
  <2>1. \A y \in D : rank[y] < rank[x] => h[y] = f[y]
    BY <1>1, <1>3
  <2>2. step[x][h] = step[x][f]
    <3> HIDE DEF h
    <3> QED BY <1>2, <2>1 DEF Recursive
  <2>3. CASE rank[x] < n
    BY <2>2, <2>3 DEF Follows
  <2>4. CASE ~ rank[x] < n
    BY <2>2, <2>4
  <2> QED BY <2>3, <2>4
<1> HIDE DEF h
<1> QED BY <1>2, <1>3 DEF Follows

LEMMA ApproximationsExist ==
  ASSUME NEW D, NEW V, NEW rank, NEW step, Recursive(D, V, rank, step), V # {}
  PROVE  \A n \in Nat : \E f \in [D -> V] : Follows(f, D, rank, step, n)
<1> DEFINE Upto(n) == \E f \in [D -> V] : Follows(f, D, rank, step, n)
           T == {n \in Nat : Upto(n)}
<1>1. Upto(0)
  <2>1. PICK v \in V : TRUE
    OBVIOUS
  <2>2. [x \in D |-> v] \in [D -> V]
    OBVIOUS
  <2>3. \A x \in D : ~ rank[x] < 0
    BY DEF Recursive
  <2> QED BY <2>2, <2>3 DEF Follows
<1>2. ASSUME NEW n \in Nat, Upto(n)
      PROVE  Upto(n + 1)
  BY <1>2, OneRankFurther
<1> HIDE DEF Upto
<1>3. ASSUME NEW n \in Nat, \A m \in Nat : m < n => m \in T
      PROVE  n \in T
  <2>1. CASE n = 0
    BY <1>1, <2>1
  <2>2. CASE n # 0
    <3>1. n - 1 \in Nat /\ n - 1 < n /\ (n - 1) + 1 = n
      BY <2>2
    <3>2. Upto(n - 1)
      BY <1>3, <3>1
    <3> QED BY <1>2, <3>1, <3>2
  <2> QED BY <2>1, <2>2
<1>4. T = Nat
  <2>1. T \in SUBSET Nat
    OBVIOUS
  <2> HIDE DEF T
  <2> QED BY <1>3, <2>1, SmallerFirst
<1>5. \A n \in Nat : Upto(n)
  BY <1>4
<1> QED BY <1>5 DEF Upto

LEMMA ApproximationsAgree ==
  ASSUME NEW D, NEW V, NEW rank, NEW step, Recursive(D, V, rank, step),
         NEW x \in D, NEW m \in Nat, NEW n \in Nat, rank[x] < m, rank[x] < n,
         NEW f \in [D -> V], Follows(f, D, rank, step, m),
         NEW g \in [D -> V], Follows(g, D, rank, step, n)
  PROVE  f[x] = g[x]
<1> DEFINE Same(r) == \A y \in D : rank[y] = r /\ r < m /\ r < n => f[y] = g[y]
           T == {r \in Nat : Same(r)}
<1>1. \A y \in D : rank[y] \in Nat
  BY DEF Recursive
<1>2. ASSUME NEW r \in Nat, \A q \in Nat : q < r => q \in T
      PROVE  r \in T
  <2> SUFFICES ASSUME NEW y \in D, rank[y] = r, r < m, r < n
               PROVE  f[y] = g[y]
    OBVIOUS
  <2>1. ASSUME NEW z \in D, rank[z] < rank[y]
        PROVE  f[z] = g[z]
    <3>1. rank[z] \in Nat /\ rank[z] < r /\ rank[z] < m /\ rank[z] < n
      BY <1>1, <2>1
    <3>2. Same(rank[z])
      BY <1>2, <3>1
    <3> QED BY <3>1, <3>2
  <2>2. step[y][f] = step[y][g]
    BY <2>1 DEF Recursive
  <2> QED BY <2>2 DEF Follows
<1>3. T = Nat
  <2>1. T \in SUBSET Nat
    OBVIOUS
  <2> HIDE DEF T
  <2> QED BY <1>2, <2>1, SmallerFirst
<1>4. rank[x] \in T
  BY <1>1, <1>3
<1> QED BY <1>4

(***************************************************************************)
(* A recursive definition has a solution.                                  *)
(***************************************************************************)
LEMMA RecursionDefines ==
  ASSUME NEW D, NEW V, NEW rank, NEW step, Recursive(D, V, rank, step), V # {}
  PROVE  \E f \in [D -> V] : \A x \in D : f[x] = step[x][f]
<1> DEFINE Upto(n) == CHOOSE f \in [D -> V] : Follows(f, D, rank, step, n)
           g == [x \in D |-> Upto(rank[x] + 1)[x]]
<1>1. \A n \in Nat : Upto(n) \in [D -> V] /\ Follows(Upto(n), D, rank, step, n)
  BY ApproximationsExist
<1>2. \A x \in D : rank[x] \in Nat /\ rank[x] + 1 \in Nat
  BY DEF Recursive
<1> HIDE DEF Upto
<1>3. g \in [D -> V]
  BY <1>1, <1>2
<1>4. ASSUME NEW x \in D
      PROVE  g[x] = step[x][g]
  <2> DEFINE n == rank[x] + 1
  <2>1. n \in Nat /\ rank[x] < n /\ Upto(n) \in [D -> V] /\ Follows(Upto(n), D, rank, step, n)
    BY <1>1, <1>2
  <2>2. ASSUME NEW y \in D, rank[y] < rank[x]
        PROVE  g[y] = Upto(n)[y]
    <3> DEFINE k == rank[y] + 1
    <3>1. /\ k \in Nat /\ rank[y] < k /\ rank[y] < n
          /\ Upto(k) \in [D -> V] /\ Follows(Upto(k), D, rank, step, k)
      BY <1>1, <1>2, <2>2
    <3>2. g[y] = Upto(k)[y]
      OBVIOUS
    <3> HIDE DEF k, n, g
    <3> QED BY <2>1, <3>1, <3>2, ApproximationsAgree
  <2>3. g[x] = Upto(n)[x]
    OBVIOUS
  <2> HIDE DEF n, g
  <2>4. step[x][g] = step[x][Upto(n)]
    BY <1>3, <2>1, <2>2 DEF Recursive
  <2>5. Upto(n)[x] = step[x][Upto(n)]
    BY <2>1 DEF Follows
  <2> QED BY <2>3, <2>4, <2>5
<1> HIDE DEF g
<1> QED BY <1>3, <1>4

(***************************************************************************)
(* The parts of an encoding one behind the other.                          *)
(***************************************************************************)
LEMMA JoinsFacts ==
  ASSUME NEW n \in Nat, NEW parts, \A k \in 1 .. n : parts[k] \in Seq(Octet)
  PROVE  /\ Joins(parts, n) \in [0 .. n -> Seq(Octet)]
         /\ Joins(parts, n)[0] = << >>
         /\ \A k \in 1 .. n : Joins(parts, n)[k] = Joins(parts, n)[k - 1] \o parts[k]
<1> DEFINE D == 0 .. n
           V == Seq(Octet)
           rank == [k \in D |-> k]
           step == [k \in D |-> [g \in [D -> V] |->
                                   IF k = 0 THEN << >> ELSE g[k - 1] \o parts[k]]]
           F(f) == [k \in D |-> IF k = 0 THEN << >> ELSE f[k - 1] \o parts[k]]
           join == CHOOSE f : f = F(f)
<1>1. \A k \in D : k # 0 => k - 1 \in D /\ k \in 1 .. n
  OBVIOUS
<1>2. ASSUME NEW k \in D, NEW g \in [D -> V], k # 0
      PROVE  g[k - 1] \o parts[k] \in V
  <2>1. g[k - 1] \in V /\ parts[k] \in V
    BY <1>1, <1>2
  <2> HIDE DEF D
  <2> QED BY <2>1
<1>3. << >> \in V
  OBVIOUS
<1>4. Recursive(D, V, rank, step)
  <2>1. rank \in [D -> Nat]
    OBVIOUS
  <2>2. step \in [D -> [[D -> V] -> V]]
    <3> HIDE DEF D, V
    <3> QED BY <1>2, <1>3
  <2>3. ASSUME NEW k \in D, NEW g \in [D -> V], NEW h \in [D -> V],
               \A y \in D : rank[y] < rank[k] => g[y] = h[y]
        PROVE  step[k][g] = step[k][h]
    <3>1. k # 0 => k - 1 \in D /\ rank[k - 1] < rank[k]
      BY <1>1
    <3>2. k # 0 => g[k - 1] = h[k - 1]
      BY <2>3, <3>1
    <3>3. /\ step[k][g] = IF k = 0 THEN << >> ELSE g[k - 1] \o parts[k]
          /\ step[k][h] = IF k = 0 THEN << >> ELSE h[k - 1] \o parts[k]
      <4> HIDE DEF D, V
      <4> QED OBVIOUS
    <3> QED BY <3>2, <3>3
  <2> HIDE DEF D, V, rank, step
  <2> QED BY <2>1, <2>2, <2>3 DEF Recursive
<1>5. \E f \in [D -> V] : \A k \in D : f[k] = step[k][f]
  <2> HIDE DEF D, V, rank, step
  <2> QED BY <1>3, <1>4, RecursionDefines
<1>6. PICK f \in [D -> V] : \A k \in D : f[k] = step[k][f]
  BY <1>5
<1>7. f = F(f)
  <2>1. \A k \in D : step[k][f] = IF k = 0 THEN << >> ELSE f[k - 1] \o parts[k]
    <3> HIDE DEF D, V
    <3> QED OBVIOUS
  <2> HIDE DEF D, V, step
  <2> QED BY <1>6, <2>1
<1> HIDE DEF F
<1>8. join = F(join)
  BY <1>7
<1>9. Joins(parts, n) = join
  BY DEF Joins, F
<1> HIDE DEF join, D, V
<1>10. \A k \in D : join[k] = IF k = 0 THEN << >> ELSE join[k - 1] \o parts[k]
  BY <1>8 DEF F
<1>11. DOMAIN join = D /\ join = [k \in D |-> join[k]]
  BY <1>8 DEF F
<1>12. \A k \in D : join[k] \in V
  <2> DEFINE T == {k \in Nat : k \in D => join[k] \in V}
  <2>1. ASSUME NEW k \in Nat, \A m \in Nat : m < k => m \in T
        PROVE  k \in T
    <3>1. SUFFICES ASSUME k \in D PROVE join[k] \in V
      OBVIOUS
    <3>2. CASE k = 0
      BY <1>3, <1>10, <3>1, <3>2
    <3>3. CASE k # 0
      <4>1. k - 1 \in D /\ k \in 1 .. n /\ k - 1 \in Nat /\ k - 1 < k
        BY <1>1, <3>1, <3>3
      <4>2. join[k - 1] \in V /\ parts[k] \in V
        BY <2>1, <4>1 DEF V
      <4>3. join[k] = join[k - 1] \o parts[k]
        BY <1>10, <3>1, <3>3
      <4> QED BY <4>2, <4>3 DEF V
    <3> QED BY <3>2, <3>3
  <2>2. T \in SUBSET Nat
    OBVIOUS
  <2> HIDE DEF T
  <2>3. T = Nat
    BY <2>1, <2>2, SmallerFirst
  <2> QED BY <2>3 DEF T, D
<1>13. join \in [D -> V]
  BY <1>11, <1>12
<1>14. 0 \in D /\ \A k \in 1 .. n : k \in D /\ k # 0
  BY DEF D
<1> QED BY <1>9, <1>10, <1>13, <1>14 DEF D, V

LEMMA JoinedType ==
  ASSUME NEW n \in Nat, NEW parts, \A k \in 1 .. n : parts[k] \in Seq(Octet)
  PROVE  Joined(parts, n) \in Seq(Octet)
<1>1. Joins(parts, n) \in [0 .. n -> Seq(Octet)]
  BY JoinsFacts, Zenon
<1>2. n \in 0 .. n
  OBVIOUS
<1> QED BY <1>1, <1>2, Zenon DEF Joined

(***************************************************************************)
(* The values of a document's fields are deeper in it.                     *)
(***************************************************************************)
LEMMA VisitedDeeper ==
  ASSUME NEW f, NEW v \in Json, NEW k \in DOMAIN Visited(f, v)
  PROVE  /\ Visited(f, v)[k] \in Json
         /\ Depth[Visited(f, v)[k]] \in Nat
         /\ Depth[v] \in Nat
         /\ Depth[Visited(f, v)[k]] < Depth[v]
<1> DEFINE m == Member(f, v)
           w == Visited(f, v)[k]
<1>1. HasMember(f, v)
  BY DEF Visited
<1>2. m \in Json
  BY <1>1, MemberType
<1>3. w \in Json
  BY VisitedType
<1>4. m \in Parts(v)
  <2>1. v.kind = "object"
    BY <1>1 DEF HasMember, Keys
  <2>2. \/ f.jsonName \in Keys(v)
        \/ f.name \in Keys(v)
        \/ f.lowerName \in Keys(v)
    BY <1>1 DEF HasMember, FieldKeys
  <2>3. Keys(v) = DOMAIN v.members
    BY <2>1 DEF Keys
  <2>4. Parts(v) = {v.members[key] : key \in DOMAIN v.members}
    BY <2>1 DEF Parts
  <2> QED BY <2>2, <2>3, <2>4 DEF Member
<1>5. w = m \/ w \in Parts(m)
  <2>1. CASE m.kind = "array" /\ f.label = "REPEATED"
    <3>1. Visited(f, v) = m.elements
      BY <1>1, <2>1 DEF Visited
    <3>2. Parts(m) = {m.elements[i] : i \in DOMAIN m.elements}
      BY <2>1 DEF Parts
    <3> QED BY <3>1, <3>2
  <2>2. CASE ~ (m.kind = "array" /\ f.label = "REPEATED")
    <3>1. Visited(f, v) = <<m>>
      BY <1>1, <2>2 DEF Visited
    <3> QED BY <3>1
  <2> QED BY <2>1, <2>2
<1> HIDE DEF m, w
<1>6. /\ Depth[m] < Depth[v]
      /\ w = m \/ Depth[w] < Depth[m]
      /\ Depth[v] \in Nat /\ Depth[m] \in Nat /\ Depth[w] \in Nat
  BY <1>2, <1>3, <1>4, <1>5, DepthAssumption
<1> QED BY <1>3, <1>6 DEF w

(***************************************************************************)
(* Whether a value represents a message only depends on what its fields'   *)
(* values represent.                                                       *)
(***************************************************************************)
LEMMA MessageOfDeeper ==
  ASSUME NEW type \in MessageType, NEW v \in Json, NEW g, NEW h,
         \A w \in Json : Depth[w] < Depth[v] => g[w] = h[w]
  PROVE  IsMessageOf(type, v, g) = IsMessageOf(type, v, h)
<1>1. ASSUME NEW f
      PROVE  RepresentsField(f, v, g) <=> RepresentsField(f, v, h)
  <2>1. \A k \in DOMAIN Visited(f, v) : g[Visited(f, v)[k]] = h[Visited(f, v)[k]]
    BY VisitedDeeper
  <2>2. \A k \in DOMAIN Visited(f, v) :
          RepresentsValue(f, Visited(f, v)[k], g[Visited(f, v)[k]])
            = RepresentsValue(f, Visited(f, v)[k], h[Visited(f, v)[k]])
    BY <2>1
  <2> QED BY <2>2 DEF RepresentsField
<1>2. IsMessageOf(type, v, g) <=> IsMessageOf(type, v, h)
  BY <1>1 DEF IsMessageOf
<1>3. IsMessageOf(type, v, g) \in BOOLEAN /\ IsMessageOf(type, v, h) \in BOOLEAN
  BY DEF IsMessageOf
<1> QED BY <1>2, <1>3

LEMMA RepresentedFacts ==
  \A v \in Json : Represented[v] = {type \in MessageType : IsMessageOf(type, v, Represented)}
<1> DEFINE V == SUBSET MessageType
           Types(v, g) == {type \in MessageType : IsMessageOf(type, v, g)}
           step == [v \in Json |-> [g \in [Json -> V] |-> Types(v, g)]]
           F(g) == [v \in Json |-> Types(v, g)]
           types == CHOOSE g : g = F(g)
<1>1. Recursive(Json, V, Depth, step)
  <2>1. ASSUME NEW v \in Json, NEW g \in [Json -> V], NEW h \in [Json -> V],
               \A w \in Json : Depth[w] < Depth[v] => g[w] = h[w]
        PROVE  step[v][g] = step[v][h]
    <3>1. Types(v, g) = Types(v, h)
      BY <2>1, MessageOfDeeper
    <3> HIDE DEF Types, V
    <3> QED BY <3>1
  <2>2. step \in [Json -> [[Json -> V] -> V]]
    OBVIOUS
  <2> HIDE DEF V, step
  <2> QED BY <2>1, <2>2, DepthAssumption DEF Recursive
<1>2. V # {}
  OBVIOUS
<1>3. PICK f \in [Json -> V] : \A v \in Json : f[v] = step[v][f]
  <2> HIDE DEF V, step
  <2> QED BY <1>1, <1>2, RecursionDefines
<1> HIDE DEF V, Types
<1>4. f = F(f)
  BY <1>3
<1> HIDE DEF F
<1>5. types = F(types)
  BY <1>4
<1>6. Represented = types
  BY DEF Represented, F, Types
<1> HIDE DEF types
<1> QED BY <1>5, <1>6 DEF F, Types

-----------------------------------------------------------------------------
(***************************************************************************)
(* What a scalar stands for, and what the serializer converts it to.       *)
(***************************************************************************)
LEMMA EnumeratorFound ==
  ASSUME NEW f \in Field, NEW v \in Json, f.type = "ENUM",
         NEW i \in DOMAIN f.values, f.values[i] = v.text
  PROVE  /\ (CHOOSE j \in DOMAIN f.values : f.values[j] = v.text) = i
         /\ i \in 1 .. Len(f.values)
         /\ f.numbers[i] \in Int
         /\ Skipped(f, v) = 1 .. (i - 1)
         /\ Cardinality(Skipped(f, v)) = i - 1
<1>1. f.values \in Seq(Text) /\ f.numbers \in [DOMAIN f.values -> Int]
  BY SchemaAssumption, EnumAssumption
<1>2. \A j \in DOMAIN f.values : f.values[j] = v.text => j = i
  BY EnumAssumption
<1>3. (CHOOSE j \in DOMAIN f.values : f.values[j] = v.text) = i
  BY <1>2
<1>4. i \in 1 .. Len(f.values) /\ DOMAIN f.values = 1 .. Len(f.values) /\ Len(f.values) \in Nat
  BY <1>1
<1>5. Skipped(f, v) = 1 .. (i - 1)
  <2>1. ASSUME NEW j \in DOMAIN f.values
        PROVE  (\A k \in 1 .. j : f.values[k] # v.text) <=> j \in 1 .. (i - 1)
    <3>1. j \in Nat /\ i \in Nat /\ i >= 1 /\ j >= 1
      BY <1>4
    <3>2. CASE i <= j
      <4>1. i \in 1 .. j /\ ~ j \in 1 .. (i - 1)
        BY <3>1, <3>2
      <4> QED BY <4>1
    <3>3. CASE j < i
      <4>1. \A k \in 1 .. j : k \in DOMAIN f.values /\ k # i
        BY <1>4, <3>1, <3>3
      <4>2. j \in 1 .. (i - 1)
        BY <3>1, <3>3
      <4> QED BY <1>2, <4>1, <4>2
    <3> QED BY <3>1, <3>2, <3>3
  <2>2. 1 .. (i - 1) \subseteq DOMAIN f.values
    BY <1>4
  <2> QED BY <2>1, <2>2 DEF Skipped
<1>6. Cardinality(1 .. (i - 1)) = i - 1
  <2>1. i - 1 \in Nat /\ i \in Nat
    BY <1>4
  <2> DEFINE n == i - 1
  <2>2. n \in Nat /\ n \in Int /\ 1 \in Int
    BY <2>1
  <2> HIDE DEF n
  <2>3. Cardinality(1 .. n) = IF 1 > n THEN 0 ELSE n - 1 + 1
    BY <2>2, FS_Interval
  <2>4. Cardinality(1 .. n) = n
    BY <2>2, <2>3
  <2> QED BY <2>4 DEF n
<1> QED BY <1>1, <1>3, <1>4, <1>5, <1>6

LEMMA TruncatedInteger ==
  ASSUME NEW v \in Json, v.kind = "number", v.halves % 2 = 0
  PROVE  /\ Truncated(v) = v.halves \div 2
         /\ v.halves \div 2 \in Int
<1>1. v.halves \in Int /\ Halves(v) = v.halves
  BY JsonAssumption DEF Halves
<1> DEFINE h == v.halves
<1>2. h \in Int /\ h % 2 = 0
  BY <1>1
<1>3. Truncated(v) = IF h >= 0 THEN h \div 2 ELSE -((-h) \div 2)
  BY <1>1 DEF Truncated
<1> HIDE DEF h
<1>4. h \div 2 \in Int /\ (h < 0 => -((-h) \div 2) = h \div 2)
  BY <1>2
<1> QED BY <1>2, <1>3, <1>4 DEF h

LEMMA IntegerConverted ==
  ASSUME NEW type \in FieldTypes, NEW v \in Json, IsIntegerOf(type, v)
  PROVE  /\ v.kind = "number"
         /\ v.halves \div 2 \in Int
         /\ type \notin SignedTypes => v.halves \div 2 \in Nat
         /\ type \in SignedTypes => Signed(Truncated(v), WidthOf(type)) = v.halves \div 2
         /\ type \notin SignedTypes => Unsigned(Truncated(v), WidthOf(type)) = v.halves \div 2
<1> DEFINE x == v.halves \div 2
           w == WidthOf(type)
<1>1. w \in {Bits32, Bits64}
  BY DEF WidthOf
<1>2. v.kind = "number" /\ Truncated(v) = x /\ x \in Int /\ x \in LowestValue(type) .. HighestValue(type)
  BY TruncatedInteger DEF IsIntegerOf
<1>3. 2 ^ w \in Nat \ {0} /\ 2 ^ (w - 1) \in Nat \ {0}
  BY <1>1, WidthPower
<1>4. CASE type \in SignedTypes
  <2>1. LowestValue(type) = -(2 ^ (w - 1)) /\ HighestValue(type) = 2 ^ (w - 1) - 1
    BY <1>4 DEF LowestValue, HighestValue
  <2> HIDE DEF x, w
  <2>2. -(2 ^ (w - 1)) <= x /\ x < 2 ^ (w - 1)
    BY <1>2, <1>3, <2>1
  <2>3. Signed(x, w) = x
    BY <1>1, <1>2, <2>2, SignedKeeps
  <2> QED BY <1>2, <1>4, <2>3 DEF x, w
<1>5. CASE type \notin SignedTypes
  <2>1. LowestValue(type) = 0 /\ HighestValue(type) = 2 ^ w - 1
    BY <1>5 DEF LowestValue, HighestValue
  <2> HIDE DEF x, w
  <2>2. x \in Nat /\ x < 2 ^ w
    BY <1>2, <1>3, <2>1
  <2>3. Unsigned(x, w) = x
    BY <1>1, <2>2, UnsignedKeeps
  <2> QED BY <1>2, <1>5, <2>2, <2>3 DEF x, w
<1> QED BY <1>4, <1>5

IntegerTypes == ScalarTypes \ (RealTypes \cup {"BOOL", "ENUM"})

LEMMA MeaningOfInteger ==
  ASSUME NEW f \in Field, NEW v \in Json, NEW types, RepresentsValue(f, v, types),
         f.type \in IntegerTypes
  PROVE  /\ Meaning(f, v) \in Int
         /\ f.type \in {"UINT32", "UINT64"} => Meaning(f, v) \in Nat
         /\ ScalarValue(f, v) = Meaning(f, v)
         /\ ~ Throws(f, v)
<1>1. /\ f.type \in FieldTypes /\ f.type # "ENUM" /\ f.type # "BOOL" /\ f.type # "MESSAGE"
      /\ f.type # "GROUP" /\ f.type \notin RealTypes /\ f.type \notin TextTypes
      /\ f.type \in Int32Types \cup Int64Types
  BY DEF IntegerTypes, FieldTypes, ScalarTypes, RealTypes, TextTypes, VarintTypes,
         FixedTypes, Fixed32Types, Fixed64Types, Int32Types, Int64Types
<1>2. IsIntegerOf(f.type, v)
  BY <1>1 DEF RepresentsValue
<1>3. /\ v.kind = "number"
      /\ v.halves \div 2 \in Int
      /\ f.type \notin SignedTypes => v.halves \div 2 \in Nat
      /\ f.type \in SignedTypes => Signed(Truncated(v), WidthOf(f.type)) = v.halves \div 2
      /\ f.type \notin SignedTypes => Unsigned(Truncated(v), WidthOf(f.type)) = v.halves \div 2
  BY <1>1, <1>2, IntegerConverted
<1>4. Meaning(f, v) = v.halves \div 2
  BY <1>1, <1>3 DEF Meaning
<1>5. ScalarValue(f, v) = v.halves \div 2
  BY <1>1, <1>3, Zenon DEF ScalarValue
<1>6. ~ Throws(f, v)
  BY <1>1, <1>3 DEF Throws, Converts
<1>7. {"UINT32", "UINT64"} \cap SignedTypes = {}
  BY DEF SignedTypes
<1> QED BY <1>3, <1>4, <1>5, <1>6, <1>7

LEMMA MeaningOfReal ==
  ASSUME NEW f \in Field, NEW v \in Json, NEW types, RepresentsValue(f, v, types),
         f.type \in RealTypes
  PROVE  /\ Meaning(f, v) \in Int
         /\ ScalarValue(f, v) = Meaning(f, v)
         /\ ~ Throws(f, v)
<1>1. v.kind = "number"
  BY DEF RepresentsValue, RealTypes, TextTypes
<1>2. v.halves \in Int /\ Halves(v) = v.halves
  BY <1>1, JsonAssumption DEF Halves
<1>3. Meaning(f, v) = v.halves
  BY <1>1 DEF Meaning
<1>4. ScalarValue(f, v) = v.halves
  BY <1>2 DEF ScalarValue, RealTypes, SignedTypes
<1>5. ~ Throws(f, v)
  BY <1>1 DEF Throws, Converts, RealTypes
<1> QED BY <1>2, <1>3, <1>4, <1>5

LEMMA MeaningOfBool ==
  ASSUME NEW f \in Field, NEW v \in Json, NEW types, RepresentsValue(f, v, types),
         f.type = "BOOL"
  PROVE  /\ Meaning(f, v) \in Int
         /\ ScalarValue(f, v) = Meaning(f, v)
         /\ ~ Throws(f, v)
<1>1. v.kind = "boolean" /\ v.truth \in BOOLEAN
  BY JsonAssumption DEF RepresentsValue, TextTypes, RealTypes
<1>2. Meaning(f, v) = IF v.truth THEN 1 ELSE 0
  BY <1>1 DEF Meaning
<1>3. Halves(v) = IF v.truth THEN 2 ELSE 0
  BY <1>1 DEF Halves
<1>4. Truncated(v) = IF v.truth THEN 1 ELSE 0
  BY <1>1, <1>3 DEF Truncated
<1>5. WidthOf(f.type) = Bits32
  BY DEF WidthOf, Int64Types
<1>6. 2 ^ Bits32 \in Nat /\ 1 < 2 ^ Bits32
  <2> DEFINE h == 2 ^ (Bits32 - 1)
  <2>1. h \in Nat \ {0} /\ 2 ^ Bits32 = 2 * h
    BY WidthPower
  <2> HIDE DEF h
  <2> QED BY <2>1
<1>7. Unsigned(1, Bits32) = 1 /\ Unsigned(0, Bits32) = 0
  BY <1>6, UnsignedKeeps
<1>8. ScalarValue(f, v) = Unsigned(Truncated(v), Bits32)
  BY <1>5 DEF ScalarValue, RealTypes, SignedTypes
<1>9. ScalarValue(f, v) = IF v.truth THEN 1 ELSE 0
  BY <1>1, <1>4, <1>7, <1>8
<1>10. ~ Throws(f, v)
  BY <1>1 DEF Throws, Converts
<1> QED BY <1>1, <1>2, <1>9, <1>10

LEMMA MeaningOfEnum ==
  ASSUME NEW f \in Field, NEW v \in Json, NEW types, RepresentsValue(f, v, types),
         f.type = "ENUM"
  PROVE  /\ Meaning(f, v) \in Int
         /\ ~ Departs(f, v) => ScalarValue(f, v) = Meaning(f, v)
         /\ ~ Throws(f, v)
<1>1. ~ Throws(f, v)
  BY DEF Throws, Converts
<1>2. ScalarValue(f, v) = EnumValue(f, v)
  BY DEF ScalarValue, RealTypes
<1>3. CASE v.kind = "number"
  <2>1. IsIntegerOf(f.type, v)
    BY <1>3 DEF RepresentsValue, TextTypes, RealTypes
  <2>2. f.type \in FieldTypes /\ f.type \in SignedTypes /\ WidthOf(f.type) = Bits32
    BY DEF FieldTypes, ScalarTypes, VarintTypes, SignedTypes, WidthOf, Int64Types
  <2>3. v.halves \div 2 \in Int /\ Signed(Truncated(v), Bits32) = v.halves \div 2
    BY <2>1, <2>2, IntegerConverted
  <2>4. Meaning(f, v) = v.halves \div 2
    BY <1>3 DEF Meaning, RealTypes
  <2>5. EnumValue(f, v) = Signed(Truncated(v), Bits32)
    BY <1>3 DEF EnumValue
  <2> QED BY <1>1, <1>2, <2>3, <2>4, <2>5
<1>4. CASE v.kind # "number"
  <2>1. v.kind = "string" /\ \E i \in DOMAIN f.values : f.values[i] = v.text
    BY <1>4 DEF RepresentsValue, TextTypes, RealTypes, IsIntegerOf
  <2>2. PICK i \in DOMAIN f.values : f.values[i] = v.text
    BY <2>1
  <2>3. /\ (CHOOSE j \in DOMAIN f.values : f.values[j] = v.text) = i
        /\ i \in 1 .. Len(f.values)
        /\ f.numbers[i] \in Int
        /\ Cardinality(Skipped(f, v)) = i - 1
    BY <2>2, EnumeratorFound
  <2>4. Meaning(f, v) = f.numbers[i]
    BY <2>1, <2>3 DEF Meaning
  <2>5. EnumValue(f, v) = i - 1
    <3>1. i - 1 < Len(f.values)
      BY <2>3, SchemaAssumption
    <3> QED BY <2>1, <2>3, <3>1 DEF EnumValue
  <2>6. ~ Departs(f, v) => f.numbers[i] = i - 1
    BY <2>1, <2>2 DEF Departs
  <2> QED BY <1>1, <1>2, <2>3, <2>4, <2>5, <2>6
<1> QED BY <1>3, <1>4

LEMMA ScalarMeaning ==
  ASSUME NEW f \in Field, NEW v \in Json, NEW types, RepresentsValue(f, v, types),
         f.type \in ScalarTypes
  PROVE  /\ Meaning(f, v) \in Int
         /\ f.type \in {"UINT32", "UINT64"} => Meaning(f, v) \in Nat
         /\ ~ Departs(f, v) => ScalarValue(f, v) = Meaning(f, v)
         /\ ~ Throws(f, v)
<1>1. \/ f.type \in IntegerTypes \/ f.type \in RealTypes
      \/ f.type = "BOOL" \/ f.type = "ENUM"
  BY DEF IntegerTypes
<1>2. f.type \in {"UINT32", "UINT64"} => f.type \in IntegerTypes
  BY DEF IntegerTypes, RealTypes
<1> QED BY <1>1, <1>2, MeaningOfInteger, MeaningOfReal, MeaningOfBool, MeaningOfEnum

-----------------------------------------------------------------------------
(***************************************************************************)
(* A value of a field: what it is encoded as, and what the two passes make *)
(* of it.                                                                  *)
(***************************************************************************)
LEMMA NoGroup ==
  ASSUME NEW f \in Field, NEW v, NEW types, RepresentsValue(f, v, types)
  PROVE  f.type # "GROUP"
BY DEF RepresentsValue, TextTypes, RealTypes

LEMMA ContentsType ==
  ASSUME NEW f \in Field, NEW v \in Json, NEW types, NEW encodings,
         RepresentsValue(f, v, types),
         f.type = "MESSAGE" => encodings[f.message] \in Seq(Octet)
  PROVE  ContentsBytes(f, v, encodings) \in Seq(Octet)
<1>1. f.type \in {"MESSAGE", "STRING", "BYTES"} \cup VarintTypes \cup FixedTypes
  BY SchemaAssumption, NoGroup DEF FieldTypes, ScalarTypes, TextTypes
<1>2. CASE f.type = "MESSAGE"
  <2>1. LengthDelimitedBytes(encodings[f.message]) \in Seq(Octet)
    BY <1>2, LengthDelimitedLength
  <2> QED BY <1>2, <2>1 DEF ContentsBytes, VarintTypes
<1>3. CASE f.type \in {"STRING", "BYTES"}
  <2>1. v.kind = "string"
    BY <1>3 DEF RepresentsValue, TextTypes, RealTypes
  <2>2. TextBytes[v.text] \in Seq(Octet) /\ DecodedBytes[v.text] \in Seq(Octet)
    BY <2>1, JsonAssumption, TextAssumption
  <2>3. /\ LengthDelimitedBytes(TextBytes[v.text]) \in Seq(Octet)
        /\ LengthDelimitedBytes(DecodedBytes[v.text]) \in Seq(Octet)
    BY <2>2, LengthDelimitedLength
  <2> QED BY <1>3, <2>3 DEF ContentsBytes, VarintTypes
<1>4. CASE f.type \in VarintTypes
  <2>1. f.type \in ScalarTypes
    BY <1>4 DEF ScalarTypes
  <2>2. VarintValue(f.type, Meaning(f, v)) \in Nat
    BY <2>1, ScalarMeaning, VarintValueType
  <2>3. VarintBytes(VarintValue(f.type, Meaning(f, v))) \in Seq(Octet)
    BY <2>2, VarintBytesLength
  <2> QED BY <1>4, <2>3 DEF ContentsBytes, VarintTypes
<1>5. CASE f.type \in FixedTypes
  <2>1. f.type \in ScalarTypes
    BY <1>5 DEF ScalarTypes
  <2>2. FixedBytes(f.type, Meaning(f, v)) \in Seq(Octet)
    BY <2>1, ScalarMeaning, FixedBytesLength
  <2> QED BY <1>5, <2>2 DEF ContentsBytes, VarintTypes, FixedTypes, Fixed32Types, Fixed64Types
<1> QED BY <1>1, <1>2, <1>3, <1>4, <1>5

LEMMA ValueBytesType ==
  ASSUME NEW f \in Field, NEW v \in Json, NEW types, NEW encodings,
         RepresentsValue(f, v, types),
         f.type = "MESSAGE" => encodings[f.message] \in Seq(Octet)
  PROVE  ValueBytes(f, v, encodings) \in Seq(Octet)
<1>1. ContentsBytes(f, v, encodings) \in Seq(Octet)
  BY ContentsType
<1>2. TagBytes(f.number, f.type) \in Seq(Octet)
  BY SchemaAssumption, TagBytesLength
<1> DEFINE tag == TagBytes(f.number, f.type)
           contents == ContentsBytes(f, v, encodings)
<1>3. ValueBytes(f, v, encodings) = << >> \/ ValueBytes(f, v, encodings) = tag \o contents
  BY DEF ValueBytes
<1> HIDE DEF tag, contents
<1>4. tag \o contents \in Seq(Octet)
  BY <1>1, <1>2 DEF tag, contents
<1>5. << >> \in Seq(Octet)
  OBVIOUS
<1> QED BY <1>3, <1>4, <1>5, Zenon

LEMMA TextWritten ==
  ASSUME NEW f \in Field, NEW v \in Json, NEW types, NEW encodings,
         RepresentsValue(f, v, types), f.type \in TextTypes, ~ Departs(f, v)
  PROVE  /\ ~ Throws(f, v)
         /\ FieldBytes(f, v) = ValueBytes(f, v, encodings)
         /\ FieldSize(f, v) = Len(FieldBytes(f, v))
<1>1. v.kind = "string"
  BY DEF RepresentsValue, TextTypes, RealTypes
<1>2. ~ Throws(f, v)
  BY <1>1 DEF Throws, Converts, TextTypes
<1>3. CASE f.type = "STRING"
  <2>1. TextBytes[v.text] # << >>
    BY <1>3 DEF Departs
  <2>2. FieldBytes(f, v) = TagBytes(f.number, f.type) \o LengthDelimitedBytes(TextBytes[v.text])
    BY <1>3 DEF FieldBytes, VarintTypes, FixedTypes, Fixed32Types, Fixed64Types
  <2>3. ~ IsDefault(f, v)
    BY <1>3, <2>1 DEF IsDefault
  <2>4. ContentsBytes(f, v, encodings) = LengthDelimitedBytes(TextBytes[v.text])
    BY <1>3 DEF ContentsBytes, VarintTypes
  <2>5. Len(FieldBytes(f, v)) = FieldSize(f, v)
    BY <1>1, <1>3, <2>1, FieldSizeOfString
  <2> QED BY <1>2, <2>2, <2>3, <2>4, <2>5 DEF ValueBytes
<1>4. CASE f.type = "BYTES"
  <2>1. f.label = "OPTIONAL" /\ TextBytes[v.text] = << >>
    BY <1>4 DEF Departs
  <2>2. DecodedBytes[v.text] = << >>
    <3>1. /\ DecodedBytes[v.text] \in Seq(Octet)
          /\ Len(DecodedBytes[v.text]) <= Len(TextBytes[v.text])
      BY <1>1, JsonAssumption, TextAssumption
    <3> QED BY <2>1, <3>1
  <2>3. FieldBytes(f, v) = << >>
    BY <1>4, <2>2 DEF FieldBytes, VarintTypes, FixedTypes, Fixed32Types, Fixed64Types
  <2>4. FieldSize(f, v) = 0
    BY <1>4, <2>1 DEF FieldSize, VarintTypes, FixedTypes, Fixed32Types, Fixed64Types
  <2>5. IsDefault(f, v)
    BY <1>4, <2>2 DEF IsDefault
  <2> QED BY <1>2, <2>1, <2>3, <2>4, <2>5 DEF ValueBytes
<1> QED BY <1>3, <1>4 DEF TextTypes

LEMMA ScalarWritten ==
  ASSUME NEW f \in Field, NEW v \in Json, NEW types, NEW encodings,
         RepresentsValue(f, v, types), f.type \in ScalarTypes, ~ Departs(f, v)
  PROVE  /\ ~ Throws(f, v)
         /\ FieldBytes(f, v) = ValueBytes(f, v, encodings)
         /\ FieldSize(f, v) = Len(FieldBytes(f, v))
<1> DEFINE x == Meaning(f, v)
           tag == TagBytes(f.number, f.type)
           contents == ContentsBytes(f, v, encodings)
<1>1. ~ Throws(f, v) /\ ScalarValue(f, v) = x
  BY ScalarMeaning
<1>2. /\ f.type \notin {"MESSAGE", "STRING", "BYTES"}
      /\ f.type \in VarintTypes => f.type \notin FixedTypes
      /\ f.type \in VarintTypes \/ f.type \in FixedTypes
  BY DEF ScalarTypes, VarintTypes, FixedTypes, Fixed32Types, Fixed64Types
<1>3. contents = IF f.type \in VarintTypes THEN VarintBytes(VarintValue(f.type, x))
                                           ELSE FixedBytes(f.type, x)
  BY <1>2 DEF ContentsBytes
<1>4. FieldBytes(f, v) = IF x # 0 THEN tag \o contents ELSE << >>
  <2>1. CASE f.type \in VarintTypes
    BY <1>1, <1>2, <1>3, <2>1 DEF FieldBytes
  <2>2. CASE f.type \in FixedTypes
    BY <1>1, <1>2, <1>3, <2>2 DEF FieldBytes
  <2> QED BY <1>2, <2>1, <2>2
<1>5. IsDefault(f, v) <=> x = 0
  BY <1>2 DEF IsDefault
<1>6. x = 0 => f.label = "OPTIONAL"
  BY <1>2 DEF Departs
<1>7. ValueBytes(f, v, encodings) = IF x = 0 THEN << >> ELSE tag \o contents
  BY <1>5, <1>6 DEF ValueBytes
<1>8. Len(FieldBytes(f, v)) = FieldSize(f, v)
  BY <1>2, FieldSizeOfVarint, FieldSizeOfFixed
<1> HIDE DEF x, tag, contents
<1> QED BY <1>1, <1>4, <1>7, <1>8

LEMMA ValueWritten ==
  ASSUME NEW f \in Field, NEW v \in Json, NEW types, NEW encodings,
         RepresentsValue(f, v, types), f.type # "MESSAGE", ~ Departs(f, v)
  PROVE  /\ ~ Throws(f, v)
         /\ FieldBytes(f, v) = ValueBytes(f, v, encodings)
         /\ FieldSize(f, v) = Len(ValueBytes(f, v, encodings))
         /\ ValueBytes(f, v, encodings) \in Seq(Octet)
<1>1. f.type \in TextTypes \/ f.type \in ScalarTypes
  BY SchemaAssumption, NoGroup DEF FieldTypes
<1>2. ValueBytes(f, v, encodings) \in Seq(Octet)
  BY ValueBytesType
<1> QED BY <1>1, <1>2, TextWritten, ScalarWritten

-----------------------------------------------------------------------------
(***************************************************************************)
(* The values in a message, and its encoding.                              *)
(***************************************************************************)
LEMMA ValuesInMessage ==
  ASSUME NEW v \in Json, NEW type \in Represented[v],
         NEW i \in 1 .. Len(Schema[type]), NEW f, f = Schema[type][i]
  PROVE  /\ v.kind = "object"
         /\ type \in MessageType
         /\ i \in DOMAIN Schema[type]
         /\ f \in Field
         /\ ~ HasMember(f, v) => f.label # "REQUIRED"
         /\ HasMember(f, v) /\ f.label = "REPEATED" => Member(f, v).kind = "array"
         /\ Visited(f, v) \in Seq(Json)
         /\ Len(Visited(f, v)) \in Nat
         /\ \A k \in 1 .. Len(Visited(f, v)) :
              /\ k \in DOMAIN Visited(f, v)
              /\ Visited(f, v)[k] \in Json
              /\ Depth[Visited(f, v)[k]] < Depth[v]
              /\ RepresentsValue(f, Visited(f, v)[k], Represented[Visited(f, v)[k]])
              /\ f.type = "MESSAGE" => f.message \in Represented[Visited(f, v)[k]]
<1>1. type \in MessageType /\ IsMessageOf(type, v, Represented)
  BY RepresentedFacts
<1>2. i \in DOMAIN Schema[type] /\ f \in Field
  BY <1>1, SchemaAssumption
<1>3. v.kind = "object" /\ RepresentsField(f, v, Represented)
  BY <1>1, <1>2 DEF IsMessageOf
<1>4. Visited(f, v) \in Seq(Json)
  BY VisitedType
<1>5. Len(Visited(f, v)) \in Nat /\ DOMAIN Visited(f, v) = 1 .. Len(Visited(f, v))
  BY <1>4
<1>6. ASSUME NEW k \in DOMAIN Visited(f, v)
      PROVE  /\ Visited(f, v)[k] \in Json
             /\ Depth[Visited(f, v)[k]] < Depth[v]
             /\ RepresentsValue(f, Visited(f, v)[k], Represented[Visited(f, v)[k]])
             /\ f.type = "MESSAGE" => f.message \in Represented[Visited(f, v)[k]]
  <2>1. RepresentsValue(f, Visited(f, v)[k], Represented[Visited(f, v)[k]])
    BY <1>3 DEF RepresentsField
  <2>2. f.type = "MESSAGE" => f.message \in Represented[Visited(f, v)[k]]
    BY <2>1 DEF RepresentsValue, TextTypes, RealTypes
  <2> QED BY <2>1, <2>2, VisitedDeeper
<1>7. /\ ~ HasMember(f, v) => f.label # "REQUIRED"
      /\ HasMember(f, v) /\ f.label = "REPEATED" => Member(f, v).kind = "array"
  BY <1>3 DEF RepresentsField
<1> QED BY <1>1, <1>2, <1>3, <1>4, <1>5, <1>6, <1>7

LEMMA ValuePartsType ==
  ASSUME NEW v \in Json, NEW type \in Represented[v],
         NEW i \in 1 .. Len(Schema[type]), NEW f, f = Schema[type][i], NEW encodings,
         \A w \in Json : Depth[w] < Depth[v] => encodings[w] \in [MessageType -> Seq(Octet)]
  PROVE  \A k \in 1 .. Len(Visited(f, v)) :
           /\ ValueParts(f, v, encodings)[k] =
                ValueBytes(f, Visited(f, v)[k], encodings[Visited(f, v)[k]])
           /\ ValueParts(f, v, encodings)[k] \in Seq(Octet)
<1> SUFFICES ASSUME NEW k \in 1 .. Len(Visited(f, v))
             PROVE  /\ ValueParts(f, v, encodings)[k] =
                         ValueBytes(f, Visited(f, v)[k], encodings[Visited(f, v)[k]])
                    /\ ValueParts(f, v, encodings)[k] \in Seq(Octet)
  OBVIOUS
<1> DEFINE w == Visited(f, v)[k]
<1>1. /\ f \in Field /\ k \in DOMAIN Visited(f, v) /\ w \in Json /\ Depth[w] < Depth[v]
      /\ RepresentsValue(f, w, Represented[w])
  BY ValuesInMessage
<1>2. ValueParts(f, v, encodings)[k] = ValueBytes(f, w, encodings[w])
  BY <1>1 DEF ValueParts
<1> HIDE DEF w
<1>3. f.type = "MESSAGE" => encodings[w][f.message] \in Seq(Octet)
  BY <1>1, SchemaAssumption
<1>4. ValueBytes(f, w, encodings[w]) \in Seq(Octet)
  BY <1>1, <1>3, ValueBytesType
<1> QED BY <1>2, <1>4 DEF w

LEMMA FieldPartsType ==
  ASSUME NEW v \in Json, NEW type \in Represented[v], NEW encodings,
         \A w \in Json : Depth[w] < Depth[v] => encodings[w] \in [MessageType -> Seq(Octet)]
  PROVE  /\ Len(Schema[type]) \in Nat
         /\ \A i \in 1 .. Len(Schema[type]) :
              LET f == Schema[type][i]
              IN  /\ FieldParts(type, v, encodings)[i] =
                       Joined(ValueParts(f, v, encodings), Len(Visited(f, v)))
                  /\ FieldParts(type, v, encodings)[i] \in Seq(Octet)
         /\ Joined(FieldParts(type, v, encodings), Len(Schema[type])) \in Seq(Octet)
<1>1. type \in MessageType
  BY RepresentedFacts
<1>2. Len(Schema[type]) \in Nat
  BY <1>1, SchemaLength
<1>3. ASSUME NEW i \in 1 .. Len(Schema[type]), NEW f, f = Schema[type][i]
      PROVE  /\ FieldParts(type, v, encodings)[i] =
                  Joined(ValueParts(f, v, encodings), Len(Visited(f, v)))
             /\ FieldParts(type, v, encodings)[i] \in Seq(Octet)
  <2> DEFINE n == Len(Visited(f, v))
             parts == ValueParts(f, v, encodings)
  <2>1. n \in Nat /\ i \in DOMAIN Schema[type]
    BY <1>3, ValuesInMessage
  <2>2. \A k \in 1 .. n : parts[k] \in Seq(Octet)
    BY <1>3, ValuePartsType
  <2>3. FieldParts(type, v, encodings)[i] = Joined(parts, n)
    BY <1>3, <2>1 DEF FieldParts
  <2> HIDE DEF n, parts
  <2>4. Joined(parts, n) \in Seq(Octet)
    BY <2>1, <2>2, JoinedType, Zenon
  <2> QED BY <2>3, <2>4 DEF n, parts
<1>4. Joined(FieldParts(type, v, encodings), Len(Schema[type])) \in Seq(Octet)
  <2> DEFINE n == Len(Schema[type])
             parts == FieldParts(type, v, encodings)
  <2>1. \A i \in 1 .. n : parts[i] \in Seq(Octet)
    BY <1>3
  <2>2. n \in Nat
    BY <1>2
  <2> HIDE DEF n, parts
  <2>3. Joined(parts, n) \in Seq(Octet)
    BY <2>1, <2>2, JoinedType, Zenon
  <2> QED BY <2>3 DEF n, parts
<1> QED BY <1>2, <1>3, <1>4

LEMMA FieldPartsDeeper ==
  ASSUME NEW v \in Json, NEW type \in MessageType, NEW g, NEW h,
         \A w \in Json : Depth[w] < Depth[v] => g[w] = h[w]
  PROVE  FieldParts(type, v, g) = FieldParts(type, v, h)
<1>1. ASSUME NEW f
      PROVE  ValueParts(f, v, g) = ValueParts(f, v, h)
  <2>1. ASSUME NEW k \in DOMAIN Visited(f, v)
        PROVE  ValueBytes(f, Visited(f, v)[k], g[Visited(f, v)[k]])
                 = ValueBytes(f, Visited(f, v)[k], h[Visited(f, v)[k]])
    <3>1. g[Visited(f, v)[k]] = h[Visited(f, v)[k]]
      BY VisitedDeeper
    <3> QED BY <3>1
  <2> QED BY <2>1 DEF ValueParts
<1> QED BY <1>1 DEF FieldParts

LEMMA EncodingsFacts ==
  /\ Encodings \in [Json -> [MessageType -> Seq(Octet)]]
  /\ \A v \in Json : \A type \in Represented[v] :
       Encodings[v][type] = Joined(FieldParts(type, v, Encodings), Len(Schema[type]))
<1> DEFINE V == [MessageType -> Seq(Octet)]
           Of(type, v, g) == IF type \in Represented[v]
                             THEN Joined(FieldParts(type, v, g), Len(Schema[type]))
                             ELSE << >>
           step == [v \in Json |-> [g \in [Json -> V] |-> [type \in MessageType |-> Of(type, v, g)]]]
           F(g) == [v \in Json |-> [type \in MessageType |-> Of(type, v, g)]]
           encodings == CHOOSE g : g = F(g)
<1>1. ASSUME NEW v \in Json, NEW g \in [Json -> V], NEW type \in MessageType
      PROVE  Of(type, v, g) \in Seq(Octet)
  <2>1. CASE type \in Represented[v]
    <3>1. \A w \in Json : Depth[w] < Depth[v] => g[w] \in [MessageType -> Seq(Octet)]
      OBVIOUS
    <3>2. Joined(FieldParts(type, v, g), Len(Schema[type])) \in Seq(Octet)
      BY <2>1, <3>1, FieldPartsType
    <3> QED BY <2>1, <3>2
  <2>2. CASE type \notin Represented[v]
    BY <2>2
  <2> QED BY <2>1, <2>2
<1>2. ASSUME NEW v \in Json, NEW g \in [Json -> V], NEW h \in [Json -> V],
             \A w \in Json : Depth[w] < Depth[v] => g[w] = h[w], NEW type \in MessageType
      PROVE  Of(type, v, g) = Of(type, v, h)
  BY <1>2, FieldPartsDeeper
<1> HIDE DEF Of
<1>3. Recursive(Json, V, Depth, step)
  <2>1. step \in [Json -> [[Json -> V] -> V]]
    <3>1. \A v \in Json, g \in [Json -> V] : [type \in MessageType |-> Of(type, v, g)] \in V
      BY <1>1
    <3> HIDE DEF V
    <3> QED BY <3>1
  <2>2. ASSUME NEW v \in Json, NEW g \in [Json -> V], NEW h \in [Json -> V],
               \A w \in Json : Depth[w] < Depth[v] => g[w] = h[w]
        PROVE  step[v][g] = step[v][h]
    <3>1. [type \in MessageType |-> Of(type, v, g)] = [type \in MessageType |-> Of(type, v, h)]
      BY <1>2, <2>2
    <3> HIDE DEF V
    <3> QED BY <3>1
  <2> HIDE DEF V, step
  <2> QED BY <2>1, <2>2, DepthAssumption DEF Recursive
<1>4. V # {}
  <2>1. [type \in MessageType |-> << >>] \in V
    OBVIOUS
  <2> QED BY <2>1
<1>5. PICK f \in [Json -> V] : \A v \in Json : f[v] = step[v][f]
  <2> HIDE DEF V, step
  <2> QED BY <1>3, <1>4, RecursionDefines
<1> HIDE DEF V
<1>6. f = F(f)
  BY <1>5
<1> HIDE DEF F
<1>7. encodings = F(encodings)
  BY <1>6
<1>8. Encodings = encodings
  BY DEF Encodings, F, Of
<1> HIDE DEF encodings
<1>9. \A v \in Json : encodings[v] = [type \in MessageType |-> Of(type, v, encodings)]
  BY <1>7 DEF F
<1>10. ASSUME NEW v \in Json, \A w \in Json : Depth[w] < Depth[v] => encodings[w] \in V
       PROVE  encodings[v] \in V
  <2>1. ASSUME NEW type \in MessageType
        PROVE  Of(type, v, encodings) \in Seq(Octet)
    <3>1. CASE type \in Represented[v]
      <4>1. Joined(FieldParts(type, v, encodings), Len(Schema[type])) \in Seq(Octet)
        BY <1>10, <3>1, FieldPartsType DEF V
      <4> QED BY <3>1, <4>1 DEF Of
    <3>2. CASE type \notin Represented[v]
      BY <3>2 DEF Of
    <3> QED BY <3>1, <3>2
  <2> QED BY <1>9, <2>1 DEF V
<1>11. \A v \in Json : encodings[v] \in V
  <2> DEFINE T == {n \in Nat : \A v \in Json : Depth[v] = n => encodings[v] \in V}
  <2>1. ASSUME NEW n \in Nat, \A m \in Nat : m < n => m \in T
        PROVE  n \in T
    <3> SUFFICES ASSUME NEW v \in Json, Depth[v] = n
                 PROVE  encodings[v] \in V
      OBVIOUS
    <3>1. ASSUME NEW w \in Json, Depth[w] < Depth[v]
          PROVE  encodings[w] \in V
      <4>1. Depth[w] \in Nat /\ Depth[w] < n
        BY <3>1, DepthAssumption
      <4>2. Depth[w] \in T
        BY <2>1, <4>1
      <4> QED BY <4>2
    <3> QED BY <1>10, <3>1
  <2>2. T \in SUBSET Nat
    OBVIOUS
  <2> HIDE DEF T
  <2>3. T = Nat
    BY <2>1, <2>2, SmallerFirst
  <2>4. \A v \in Json : Depth[v] \in T
    BY <2>3, DepthAssumption
  <2> QED BY <2>4 DEF T
<1>12. encodings \in [Json -> V]
  BY <1>7, <1>11 DEF F
<1>13. ASSUME NEW v \in Json, NEW type \in Represented[v]
       PROVE  encodings[v][type] = Joined(FieldParts(type, v, encodings), Len(Schema[type]))
  <2>1. type \in MessageType
    BY RepresentedFacts
  <2> QED BY <1>9, <2>1 DEF Of
<1> QED BY <1>8, <1>12, <1>13 DEF V

-----------------------------------------------------------------------------
(***************************************************************************)
(* What stands before a point in the encoding of its message.              *)
(***************************************************************************)
Meant(p) == p.type \in Represented[p.value]

FieldJoins(type, v) == Joins(FieldParts(type, v, Encodings), Len(Schema[type]))

ValueJoins(f, v) == Joins(ValueParts(f, v, Encodings), Len(Visited(f, v)))

AllValues(f, v) == ValueJoins(f, v)[Len(Visited(f, v))]

FieldsBefore(p) == FieldJoins(p.type, p.value)[p.field - 1]

ValuesBefore(p) ==
  IF AtEnd(p) THEN << >> ELSE ValueJoins(FieldAt(p), p.value)[p.elem - 1]

Beginning(p) == FieldsBefore(p) \o ValuesBefore(p)

Written(f, w) == ValueBytes(f, w, Encodings[w])

BytesAt(p) == Written(FieldAt(p), ValueAt(p))

LEMMA EncodingsDeeper ==
  \A v \in Json : \A w \in Json :
    Depth[w] < Depth[v] => Encodings[w] \in [MessageType -> Seq(Octet)]
BY EncodingsFacts

LEMMA FieldsJoin ==
  ASSUME NEW v \in Json, NEW type \in Represented[v], NEW n, n = Len(Schema[type])
  PROVE  /\ n \in Nat
         /\ FieldJoins(type, v) \in [0 .. n -> Seq(Octet)]
         /\ FieldJoins(type, v)[0] = << >>
         /\ FieldJoins(type, v)[n] = Encoding(type, v)
         /\ \A i \in 1 .. n :
              FieldJoins(type, v)[i]
                = FieldJoins(type, v)[i - 1] \o AllValues(Schema[type][i], v)
<1>1. PICK parts : parts = FieldParts(type, v, Encodings)
  OBVIOUS
<1>2. /\ n \in Nat
      /\ \A i \in 1 .. n :
           /\ parts[i] = Joined(ValueParts(Schema[type][i], v, Encodings),
                                Len(Visited(Schema[type][i], v)))
           /\ parts[i] \in Seq(Octet)
  BY <1>1, EncodingsDeeper, FieldPartsType
<1>3. FieldJoins(type, v) = Joins(parts, n)
  BY <1>1 DEF FieldJoins
<1>4. /\ Joins(parts, n) \in [0 .. n -> Seq(Octet)]
      /\ Joins(parts, n)[0] = << >>
      /\ \A i \in 1 .. n : Joins(parts, n)[i] = Joins(parts, n)[i - 1] \o parts[i]
  BY <1>2, JoinsFacts
<1>5. Encoding(type, v) = Joins(parts, n)[n]
  BY <1>1, EncodingsFacts DEF Joined, Encoding
<1>6. ASSUME NEW i \in 1 .. n
      PROVE  parts[i] = AllValues(Schema[type][i], v)
  BY <1>2, <1>6 DEF Joined, AllValues, ValueJoins
<1> QED BY <1>2, <1>3, <1>4, <1>5, <1>6

LEMMA ValuesJoin ==
  ASSUME NEW v \in Json, NEW type \in Represented[v], NEW i \in 1 .. Len(Schema[type]),
         NEW f, f = Schema[type][i], NEW n, n = Len(Visited(f, v))
  PROVE  /\ n \in Nat
         /\ ValueJoins(f, v) \in [0 .. n -> Seq(Octet)]
         /\ ValueJoins(f, v)[0] = << >>
         /\ \A k \in 1 .. n :
              /\ ValueJoins(f, v)[k]
                   = ValueJoins(f, v)[k - 1] \o Written(f, Visited(f, v)[k])
              /\ Written(f, Visited(f, v)[k]) \in Seq(Octet)
<1>1. n \in Nat
  BY ValuesInMessage
<1>2. PICK encodings : encodings = Encodings
  OBVIOUS
<1>3. PICK parts : parts = ValueParts(f, v, encodings)
  OBVIOUS
<1>4. \A w \in Json : Depth[w] < Depth[v] => encodings[w] \in [MessageType -> Seq(Octet)]
  BY <1>2, EncodingsDeeper
<1>5. \A k \in 1 .. n :
        /\ parts[k] = ValueBytes(f, Visited(f, v)[k], encodings[Visited(f, v)[k]])
        /\ parts[k] \in Seq(Octet)
  <2>1. \A k \in 1 .. Len(Visited(f, v)) :
          /\ ValueParts(f, v, encodings)[k]
               = ValueBytes(f, Visited(f, v)[k], encodings[Visited(f, v)[k]])
          /\ ValueParts(f, v, encodings)[k] \in Seq(Octet)
    BY ONLY <1>4, v \in Json, type \in Represented[v], i \in 1 .. Len(Schema[type]),
            f = Schema[type][i], ValuePartsType
  <2> QED BY <1>3, <2>1
<1>6. /\ Joins(parts, n) \in [0 .. n -> Seq(Octet)]
      /\ Joins(parts, n)[0] = << >>
      /\ \A k \in 1 .. n : Joins(parts, n)[k] = Joins(parts, n)[k - 1] \o parts[k]
  BY <1>1, <1>5, JoinsFacts
<1>7. ValueJoins(f, v) = Joins(parts, n)
  BY <1>2, <1>3 DEF ValueJoins
<1>8. ASSUME NEW k \in 1 .. n
      PROVE  parts[k] = Written(f, Visited(f, v)[k])
  BY <1>2, <1>5, <1>8 DEF Written
<1> QED BY <1>1, <1>5, <1>6, <1>7, <1>8

LEMMA PointInMessage ==
  ASSUME NEW p, WellPlaced(p), Meant(p)
  PROVE  /\ p.value \in Json /\ p.type \in Represented[p.value] /\ p.type \in MessageType
         /\ p.field \in Nat \ {0} /\ p.elem \in Nat \ {0}
         /\ Len(Schema[p.type]) \in Nat
         /\ p.field - 1 \in 0 .. Len(Schema[p.type])
         /\ AtEnd(p) => p.field = Len(Schema[p.type]) + 1
<1>1. /\ p.value \in Json /\ p.type \in MessageType
      /\ p.field \in Nat \ {0} /\ p.elem \in Nat \ {0}
      /\ p.type \in Represented[p.value]
      /\ p.field <= Len(Schema[p.type]) + 1
  BY PointComponents DEF WellPlaced, Meant
<1>2. Len(Schema[p.type]) \in Nat
  BY <1>1, SchemaLength
<1> QED BY <1>1, <1>2 DEF AtEnd

LEMMA ValuesAtPoint ==
  ASSUME NEW p, WellPlaced(p), Meant(p), ~ AtEnd(p), NEW f, f = FieldAt(p),
         NEW n, n = Len(ValuesAt(p)), NEW joins, joins = ValueJoins(f, p.value)
  PROVE  /\ p.field \in 1 .. Len(Schema[p.type])
         /\ f = Schema[p.type][p.field]
         /\ ValuesAt(p) = Visited(f, p.value)
         /\ n \in Nat
         /\ p.elem - 1 \in 0 .. n
         /\ HasValue(p) <=> p.elem \in 1 .. n
         /\ ~ HasValue(p) => p.elem - 1 = n
         /\ joins \in [0 .. n -> Seq(Octet)]
         /\ joins[0] = << >>
         /\ HasValue(p) => /\ joins[p.elem] = joins[p.elem - 1] \o BytesAt(p)
                           /\ BytesAt(p) \in Seq(Octet)
<1>1. PICK v \in Json : v = p.value
  BY PointInMessage
<1>2. PICK type \in Represented[v] : type = p.type
  BY <1>1, PointInMessage
<1>3. PICK i \in 1 .. Len(Schema[type]) : i = p.field
  BY <1>2, PointInMessage DEF AtEnd
<1>4. f = Schema[type][i] /\ ValuesAt(p) = Visited(f, v)
  BY <1>1, <1>2, <1>3 DEF FieldAt, ValuesAt
<1>5. /\ n \in Nat
      /\ ValueJoins(f, v) \in [0 .. n -> Seq(Octet)]
      /\ ValueJoins(f, v)[0] = << >>
      /\ \A k \in 1 .. n :
           /\ ValueJoins(f, v)[k]
                = ValueJoins(f, v)[k - 1] \o Written(f, Visited(f, v)[k])
           /\ Written(f, Visited(f, v)[k]) \in Seq(Octet)
  <2>1. f = Schema[type][i] /\ n = Len(Visited(f, v))
    BY <1>4
  <2> QED BY ONLY <2>1, v \in Json, type \in Represented[v], i \in 1 .. Len(Schema[type]), ValuesJoin
<1>6. joins = ValueJoins(f, v)
  BY <1>1
<1>7. p.elem \in Nat \ {0} /\ p.elem <= n + 1
  BY PointInMessage DEF WellPlaced
<1>8. HasValue(p) <=> p.elem \in 1 .. n
  BY <1>5, <1>7 DEF HasValue
<1>9. ASSUME HasValue(p)
      PROVE  joins[p.elem] = joins[p.elem - 1] \o BytesAt(p) /\ BytesAt(p) \in Seq(Octet)
  <2>1. PICK w : w = ValueAt(p)
    OBVIOUS
  <2>2. p.elem \in 1 .. n /\ w = Visited(f, v)[p.elem]
    BY <1>4, <1>8, <1>9, <2>1 DEF ValueAt
  <2>3. BytesAt(p) = Written(f, w)
    BY <2>1 DEF BytesAt
  <2> QED BY <1>5, <1>6, <2>2, <2>3
<1>10. ~ HasValue(p) => p.elem - 1 = n
  BY <1>5, <1>7, <1>8
<1>11. p.elem - 1 \in 0 .. n
  BY <1>5, <1>7
<1>12. /\ p.field \in 1 .. Len(Schema[p.type])
       /\ f = Schema[p.type][p.field]
       /\ ValuesAt(p) = Visited(f, p.value)
  BY <1>1, <1>2, <1>3, <1>4
<1>13. joins \in [0 .. n -> Seq(Octet)] /\ joins[0] = << >>
  BY <1>5, <1>6
<1> QED BY <1>5, <1>8, <1>9, <1>10, <1>11, <1>12, <1>13

LEMMA BeginningType ==
  ASSUME NEW p, WellPlaced(p), Meant(p)
  PROVE  /\ FieldsBefore(p) \in Seq(Octet)
         /\ ValuesBefore(p) \in Seq(Octet)
         /\ Beginning(p) \in Seq(Octet)
         /\ HasValue(p) => BytesAt(p) \in Seq(Octet)
<1>1. FieldsBefore(p) \in Seq(Octet)
  <2>1. PICK n : n = Len(Schema[p.type])
    OBVIOUS
  <2>2. FieldJoins(p.type, p.value) \in [0 .. n -> Seq(Octet)] /\ p.field - 1 \in 0 .. n
    BY <2>1, PointInMessage, FieldsJoin
  <2> QED BY <2>2 DEF FieldsBefore
<1>2. ValuesBefore(p) \in Seq(Octet) /\ (HasValue(p) => BytesAt(p) \in Seq(Octet))
  <2>1. CASE AtEnd(p)
    BY <2>1 DEF ValuesBefore, HasValue
  <2>2. CASE ~ AtEnd(p)
    <3>1. PICK joins : joins = ValueJoins(FieldAt(p), p.value)
      OBVIOUS
    <3>2. PICK n : n = Len(ValuesAt(p))
      OBVIOUS
    <3>3. /\ joins \in [0 .. n -> Seq(Octet)] /\ p.elem - 1 \in 0 .. n
          /\ HasValue(p) => BytesAt(p) \in Seq(Octet)
      BY <2>2, <3>1, <3>2, ValuesAtPoint
    <3>4. ValuesBefore(p) = joins[p.elem - 1]
      BY <2>2, <3>1 DEF ValuesBefore
    <3> QED BY <3>3, <3>4
  <2> QED BY <2>1, <2>2
<1> QED BY <1>1, <1>2 DEF Beginning

LEMMA NothingBeforeStart ==
  ASSUME NEW p, WellPlaced(p), Meant(p), p.elem = 1
  PROVE  /\ ValuesBefore(p) = << >>
         /\ Beginning(p) = FieldsBefore(p)
         /\ p.field = 1 => Beginning(p) = << >>
<1>1. ValuesBefore(p) = << >>
  <2>1. CASE AtEnd(p)
    BY <2>1 DEF ValuesBefore
  <2>2. CASE ~ AtEnd(p)
    <3>1. PICK joins : joins = ValueJoins(FieldAt(p), p.value)
      OBVIOUS
    <3>2. joins[0] = << >>
      BY <2>2, <3>1, ValuesAtPoint
    <3>3. ValuesBefore(p) = joins[p.elem - 1]
      BY <2>2, <3>1 DEF ValuesBefore
    <3> QED BY <3>2, <3>3
  <2> QED BY <2>1, <2>2
<1>2. p.field = 1 => FieldsBefore(p) = << >>
  <2>1. FieldJoins(p.type, p.value)[0] = << >>
    BY PointInMessage, FieldsJoin
  <2> QED BY <2>1 DEF FieldsBefore
<1>3. Beginning(p) = FieldsBefore(p)
  BY <1>1, BeginningType DEF Beginning
<1> QED BY <1>1, <1>2, <1>3

(***************************************************************************)
(* How the beginning of a message grows from a point to the one after it.  *)
(***************************************************************************)
LEMMA BeginningGrows ==
  ASSUME NEW p, WellPlaced(p), Meant(p), HasValue(p)
  PROVE  /\ Meant(NextValue(p))
         /\ Beginning(NextValue(p)) = Beginning(p) \o BytesAt(p)
<1>1. PICK q : q = NextValue(p)
  OBVIOUS
<1>2. ~ AtEnd(p) /\ p \in Points
  BY DEF HasValue, WellPlaced
<1>3. q.type = p.type /\ q.value = p.value /\ q.field = p.field /\ q.elem = p.elem + 1
  BY <1>1 DEF NextValue, Point
<1>4. Meant(q)
  BY <1>3 DEF Meant
<1>5. ~ AtEnd(q) /\ FieldAt(q) = FieldAt(p) /\ FieldsBefore(q) = FieldsBefore(p)
  BY <1>2, <1>3 DEF AtEnd, FieldAt, FieldsBefore
<1>6. ValuesBefore(q) = ValuesBefore(p) \o BytesAt(p)
  <2>1. PICK joins : joins = ValueJoins(FieldAt(p), p.value)
    OBVIOUS
  <2>2. joins[p.elem] = joins[p.elem - 1] \o BytesAt(p)
    BY <1>2, <2>1, ValuesAtPoint
  <2>3. ValuesBefore(p) = joins[p.elem - 1]
    BY <1>2, <2>1 DEF ValuesBefore
  <2>4. ValuesBefore(q) = joins[q.elem - 1]
    BY <1>3, <1>5, <2>1 DEF ValuesBefore
  <2>5. q.elem - 1 = p.elem
    BY <1>3, PointInMessage
  <2> QED BY <2>2, <2>3, <2>4, <2>5
<1>7. FieldsBefore(p) \o (ValuesBefore(p) \o BytesAt(p))
        = (FieldsBefore(p) \o ValuesBefore(p)) \o BytesAt(p)
  BY BeginningType, ConcatAssociative
<1> QED BY <1>1, <1>4, <1>5, <1>6, <1>7 DEF Beginning

LEMMA BeginningStays ==
  ASSUME NEW p, WellPlaced(p), Meant(p), ~ AtEnd(p), ~ HasValue(p)
  PROVE  /\ Meant(NextField(p))
         /\ Beginning(NextField(p)) = Beginning(p)
<1>1. PICK q : q = NextField(p)
  OBVIOUS
<1>2. WellPlaced(q)
  BY <1>1, PointAfterFacts
<1>3. q.type = p.type /\ q.value = p.value /\ q.field = p.field + 1 /\ q.elem = 1
  BY <1>1 DEF NextField, Point
<1>4. Meant(q)
  BY <1>3 DEF Meant
<1>5. Beginning(q) = FieldsBefore(q)
  BY <1>2, <1>3, <1>4, NothingBeforeStart
<1>6. PICK f : f = FieldAt(p)
  OBVIOUS
<1>7. PICK n : n = Len(ValuesAt(p))
  OBVIOUS
<1>8. PICK joins : joins = ValueJoins(f, p.value)
  OBVIOUS
<1>9. /\ p.field \in 1 .. Len(Schema[p.type]) /\ f = Schema[p.type][p.field]
      /\ ValuesAt(p) = Visited(f, p.value) /\ p.elem - 1 = n
  BY <1>6, <1>7, <1>8, ValuesAtPoint
<1>10. ValuesBefore(p) = joins[n]
  BY <1>6, <1>8, <1>9 DEF ValuesBefore
<1>11. FieldJoins(p.type, p.value)[p.field]
         = FieldJoins(p.type, p.value)[p.field - 1] \o joins[n]
  <2>1. PICK fields : fields = FieldJoins(p.type, p.value)
    OBVIOUS
  <2>2. fields[p.field] = fields[p.field - 1] \o AllValues(f, p.value)
    <3>1. PICK v \in Json : v = p.value
      BY PointInMessage
    <3>2. PICK type \in Represented[v] : type = p.type
      BY <3>1, PointInMessage
    <3>3. p.field \in 1 .. Len(Schema[type]) /\ f = Schema[type][p.field]
      BY <1>9, <3>2
    <3>4. FieldJoins(type, v)[p.field]
            = FieldJoins(type, v)[p.field - 1] \o AllValues(f, v)
      BY <3>3, FieldsJoin
    <3> QED BY <2>1, <3>1, <3>2, <3>4
  <2> QED BY <1>7, <1>8, <1>9, <2>1, <2>2 DEF AllValues
<1>12. q.field - 1 = p.field
  BY <1>3, PointInMessage
<1> QED BY <1>1, <1>3, <1>4, <1>5, <1>10, <1>11, <1>12 DEF Beginning, FieldsBefore

LEMMA BeginningEnds ==
  ASSUME NEW p, WellPlaced(p), Meant(p), AtEnd(p)
  PROVE  Beginning(p) = Encoding(p.type, p.value)
<1>1. PICK n : n = Len(Schema[p.type])
  OBVIOUS
<1>2. FieldJoins(p.type, p.value)[n] = Encoding(p.type, p.value)
  <2>1. p.value \in Json /\ p.type \in Represented[p.value]
    BY PointInMessage
  <2> QED BY <1>1, <2>1, FieldsJoin
<1>3. p.field = n + 1 /\ n \in Nat /\ p.elem = 1
  BY <1>1, PointInMessage DEF WellPlaced
<1>4. FieldsBefore(p) = Encoding(p.type, p.value)
  BY <1>2, <1>3 DEF FieldsBefore
<1> QED BY <1>3, <1>4, NothingBeforeStart

(***************************************************************************)
(* The value at a point of a message.                                      *)
(***************************************************************************)
LEMMA ValueAtPoint ==
  ASSUME NoDepartures, NEW p, WellPlaced(p), Meant(p), HasValue(p)
  PROVE  /\ FieldAt(p) \in Field
         /\ ValueAt(p) \in Json
         /\ ~ Throws(FieldAt(p), ValueAt(p))
         /\ FieldAt(p).type # "MESSAGE" =>
              /\ FieldBytes(FieldAt(p), ValueAt(p)) = BytesAt(p)
              /\ FieldSize(FieldAt(p), ValueAt(p)) = Len(BytesAt(p))
         /\ FieldAt(p).type = "MESSAGE" => FieldAt(p).message \in Represented[ValueAt(p)]
<1>1. PICK v \in Json : v = p.value
  BY PointInMessage
<1>2. PICK type \in Represented[v] : type = p.type
  BY <1>1, PointInMessage
<1>3. PICK f : f = FieldAt(p)
  OBVIOUS
<1>4. PICK w : w = ValueAt(p)
  OBVIOUS
<1>5. PICK k : k = p.elem
  OBVIOUS
<1>6. ~ AtEnd(p)
  BY DEF HasValue
<1>7. PICK i \in 1 .. Len(Schema[type]) : i = p.field /\ f = Schema[type][i]
  <2>1. p.field \in 1 .. Len(Schema[p.type]) /\ f = Schema[p.type][p.field]
    BY <1>3, <1>6, ValuesAtPoint
  <2> QED BY <1>2, <2>1
<1>8. ValuesAt(p) = Visited(f, v) /\ k \in 1 .. Len(Visited(f, v)) /\ w = Visited(f, v)[k]
  BY <1>1, <1>3, <1>4, <1>5, <1>6, ValuesAtPoint DEF ValueAt
<1>9. /\ f \in Field /\ i \in DOMAIN Schema[type] /\ type \in MessageType
      /\ k \in DOMAIN Visited(f, v) /\ w \in Json
      /\ RepresentsValue(f, w, Represented[w])
      /\ f.type = "MESSAGE" => f.message \in Represented[w]
  BY <1>7, <1>8, ValuesInMessage
<1>10. ~ Departs(f, w)
  BY <1>7, <1>8, <1>9 DEF NoDepartures
<1>11. ASSUME f.type # "MESSAGE"
       PROVE  /\ ~ Throws(f, w)
              /\ FieldBytes(f, w) = Written(f, w)
              /\ FieldSize(f, w) = Len(Written(f, w))
  BY <1>9, <1>10, <1>11, ValueWritten DEF Written
<1>12. f.type = "MESSAGE" => ~ Throws(f, w)
  BY DEF Throws, Converts
<1> QED BY <1>3, <1>4, <1>9, <1>11, <1>12 DEF BytesAt

LEMMA ChildWritten ==
  ASSUME NoDepartures, NEW p, WellPlaced(p), Meant(p), CallsChild(p),
         NEW q, WellPlaced(q), SameCall(q, ChildStart(p))
  PROVE  /\ Meant(q)
         /\ AtEnd(q) =>
              BytesAt(p) = PrefixBytes(FieldAt(p), Len(Beginning(q))) \o Beginning(q)
<1>1. PICK f : f = FieldAt(p)
  OBVIOUS
<1>2. PICK w : w = ValueAt(p)
  OBVIOUS
<1>3. /\ f \in Field /\ w \in Json /\ f.type = "MESSAGE"
      /\ f.message \in Represented[w] /\ f.message \in MessageType
  BY <1>1, <1>2, ValueAtPoint, SchemaAssumption DEF CallsChild
<1>4. q.type = f.message /\ q.value = w
  BY <1>1, <1>2, <1>3, StartWellPlaced DEF SameCall, ChildStart
<1>5. Meant(q)
  BY <1>3, <1>4 DEF Meant
<1>6. ASSUME AtEnd(q)
      PROVE  BytesAt(p) = PrefixBytes(f, Len(Beginning(q))) \o Beginning(q)
  <2>1. PICK e \in Seq(Octet) : e = Beginning(q)
    BY <1>5, BeginningType
  <2>2. e = Encodings[w][f.message]
    BY <1>4, <1>5, <1>6, <2>1, BeginningEnds DEF Encoding
  <2>3. ~ IsDefault(f, w)
    BY <1>3 DEF IsDefault
  <2>4. ContentsBytes(f, w, Encodings[w]) = VarintBytes(Len(e)) \o e
    BY <1>3, <2>2 DEF ContentsBytes, LengthDelimitedBytes, VarintTypes
  <2>5. Written(f, w) = TagBytes(f.number, f.type) \o (VarintBytes(Len(e)) \o e)
    BY <2>3, <2>4 DEF Written, ValueBytes
  <2>6. TagBytes(f.number, f.type) \in Seq(Octet)
    BY <1>3, SchemaAssumption, TagBytesLength
  <2>7. VarintBytes(Len(e)) \in Seq(Octet)
    <3>1. Len(e) \in Nat
      BY <2>1
    <3> QED BY <3>1, VarintBytesLength
  <2>8. TagBytes(f.number, f.type) \o (VarintBytes(Len(e)) \o e)
          = (TagBytes(f.number, f.type) \o VarintBytes(Len(e))) \o e
    <3>1. PICK tag \in Seq(Octet) : tag = TagBytes(f.number, f.type)
      BY <2>6
    <3>2. PICK length \in Seq(Octet) : length = VarintBytes(Len(e))
      BY <2>7
    <3>3. tag \o (length \o e) = (tag \o length) \o e
      BY <2>1, ConcatAssociative
    <3> QED BY <3>1, <3>2, <3>3
  <2> QED BY <1>1, <1>2, <2>1, <2>5, <2>8 DEF BytesAt, PrefixBytes
<1> QED BY <1>1, <1>5, <1>6

-----------------------------------------------------------------------------
(***************************************************************************)
(* The invariant of KeepsPromise: a size in the table is the length of     *)
(* what stands before its point, and while a document that represents a    *)
(* message is written, the output is what the active calls have sent: in   *)
(* each caller the beginning of its message and the prefix of the child.   *)
(***************************************************************************)
SizesKnown == \A p \in Passed : Meant(p) => sized[p] = Len(Beginning(p))

FitsInt == phase = "write" => total <= IntMax

Announced(p) == Beginning(p) \o PrefixBytes(FieldAt(p), sized[ChildEnd(p)])

Sends(sent) ==
  /\ sent \in [1 .. Len(stack) -> Seq(Octet)]
  /\ sent[1] = << >>
  /\ \A k \in 1 .. Len(stack) - 1 : sent[k + 1] = sent[k] \o Announced(stack[k].at)
  /\ output = sent[Len(stack)] \o Beginning(At)

OutputKnown == phase = "write" /\ Represents(Root, doc) => \E sent : Sends(sent)

PromiseInv == SInv /\ SizesKnown /\ FitsInt /\ OutputKnown

LEMMA CallsAreMeant ==
  ASSUME NoDepartures, SInv, Running, Represents(Root, doc)
  PROVE  \A k \in 1 .. Len(stack) : WellPlaced(stack[k].at) /\ Meant(stack[k].at)
<1>1. \A k \in 1 .. Len(stack) : WellPlaced(stack[k].at)
  BY DEF SInv, SizeTable, PassedWellPlaced, CallsNest
<1>2. Len(stack) \in Nat \ {0}
  BY AtFacts DEF SInv, SizeTable
<1>3. Meant(stack[1].at)
  <2>1. Root \in MessageType /\ doc \in Json
    BY WriterAssumption DEF SInv, TypeOK
  <2>2. stack[1].at.type = Root /\ stack[1].at.value = doc
    BY <2>1, StartWellPlaced DEF SInv, CallsNest, SameCall
  <2> QED BY <2>2 DEF Meant, Represents
<1>4. ASSUME NEW k \in 1 .. Len(stack) - 1, Meant(stack[k].at)
      PROVE  Meant(stack[k + 1].at)
  <2>1. k \in 1 .. Len(stack) /\ k + 1 \in 1 .. Len(stack)
    BY <1>2
  <2>2. CallsChild(stack[k].at) /\ SameCall(stack[k + 1].at, ChildStart(stack[k].at))
    BY DEF SInv, CallsNest
  <2> QED BY <1>1, <1>4, <2>1, <2>2, ChildWritten
<1> DEFINE T == {n \in Nat : n \in 1 .. Len(stack) => Meant(stack[n].at)}
<1>5. ASSUME NEW n \in Nat, \A m \in Nat : m < n => m \in T
      PROVE  n \in T
  <2> SUFFICES ASSUME n \in 1 .. Len(stack), n # 1
               PROVE  Meant(stack[n].at)
    BY <1>3
  <2>1. n - 1 \in T /\ n - 1 \in 1 .. Len(stack) - 1 /\ n - 1 \in 1 .. Len(stack)
    BY <1>2, <1>5
  <2>2. Meant(stack[(n - 1) + 1].at)
    BY <1>4, <2>1
  <2> QED BY <2>2
<1>6. T \in SUBSET Nat
  OBVIOUS
<1> HIDE DEF T
<1>7. T = Nat
  BY <1>5, <1>6, SmallerFirst
<1>8. \A k \in 1 .. Len(stack) : k \in T
  BY <1>2, <1>7
<1> QED BY <1>1, <1>8 DEF T

LEMMA KnownStays ==
  ASSUME SizesKnown, NEW r, NEW n, SizeAt(r, n), Meant(r) => n = Len(Beginning(r))
  PROVE  SizesKnown'
<1> SUFFICES ASSUME NEW p \in Passed', Meant(p)
             PROVE  sized'[p] = Len(Beginning(p))
  BY DEF SizesKnown
<1>1. Passed' = Passed \cup {r} /\ sized'[p] = IF p = r THEN n ELSE sized[p]
  BY DEF SizeAt, Passed
<1>2. CASE p = r
  BY <1>1, <1>2
<1>3. CASE p # r
  BY <1>1, <1>3 DEF SizesKnown
<1> QED BY <1>2, <1>3

LEMMA KnownAtStart ==
  ASSUME NEW type \in MessageType, NEW v \in Json, Meant(Start(type, v))
  PROVE  Beginning(Start(type, v)) = << >>
BY StartWellPlaced, NothingBeforeStart

LEMMA MeantThroughout ==
  ASSUME NEW p
  PROVE  /\ Meant(NextValue(p)) <=> Meant(p)
         /\ Meant(NextField(p)) <=> Meant(p)
BY DEF Meant, NextValue, NextField, Point

LEMMA SizeFieldKeepsKnown ==
  ASSUME NoDepartures, SInv, SizesKnown, SizeNextField \/ SizeField
  PROVE  SizesKnown'
<1>1. phase = "size" /\ Running
  BY DEF SizeNextField, SizeField, Running
<1>2. At \in Passed /\ WellPlaced(At) /\ sized[At] \in Nat
  BY <1>1, AtFacts DEF SInv, SizeTable
<1>3. CASE SizeNextField
  <2>1. ~ AtEnd(At) /\ ~ HasValue(At) /\ SizeAt(NextField(At), sized[At])
    BY <1>3 DEF SizeNextField
  <2>2. ASSUME Meant(NextField(At))
        PROVE  sized[At] = Len(Beginning(NextField(At)))
    <3>1. Meant(At)
      BY <2>2, MeantThroughout
    <3>2. Beginning(NextField(At)) = Beginning(At)
      BY <1>2, <2>1, <3>1, BeginningStays
    <3> QED BY <1>2, <3>1, <3>2 DEF SizesKnown
  <2> QED BY <2>1, <2>2, KnownStays
<1>4. CASE SizeField
  <2>1. /\ HasValue(At) /\ FieldAt(At).type # "MESSAGE"
        /\ SizeAt(NextValue(At), sized[At] + FieldSize(FieldAt(At), ValueAt(At)))
    BY <1>4 DEF SizeField
  <2>2. ASSUME Meant(NextValue(At))
        PROVE  sized[At] + FieldSize(FieldAt(At), ValueAt(At)) = Len(Beginning(NextValue(At)))
    <3>1. Meant(At)
      BY <2>2, MeantThroughout
    <3>2. PICK a \in Seq(Octet) : a = Beginning(At)
      BY <1>2, <3>1, BeginningType
    <3>3. PICK b \in Seq(Octet) : b = BytesAt(At)
      BY <1>2, <2>1, <3>1, BeginningType
    <3>4. Beginning(NextValue(At)) = a \o b
      BY <1>2, <2>1, <3>1, <3>2, <3>3, BeginningGrows
    <3>5. FieldSize(FieldAt(At), ValueAt(At)) = Len(b)
      BY <1>2, <2>1, <3>1, <3>3, ValueAtPoint
    <3>6. sized[At] = Len(a)
      BY <1>2, <3>1, <3>2 DEF SizesKnown
    <3>7. Len(a \o b) = Len(a) + Len(b)
      OBVIOUS
    <3> QED BY <3>4, <3>5, <3>6, <3>7
  <2> QED BY <2>1, <2>2, KnownStays
<1> QED BY <1>3, <1>4

LEMMA SizeReturnKeepsKnown ==
  ASSUME NoDepartures, SInv, SizesKnown, SizeReturn
  PROVE  SizesKnown'
<1>1. PICK c : c = Caller.at
  OBVIOUS
<1>2. /\ Running /\ AtEnd(At) /\ Len(stack) > 1
      /\ SizeAt(NextValue(c), sized[c] + PrefixSize(FieldAt(c), sized[At]) + sized[At])
  BY <1>1 DEF SizeReturn, Running
<1>3. TypeOK /\ PassedWellPlaced /\ CallsNest
  BY DEF SInv, SizeTable
<1>4. /\ c \in Passed /\ WellPlaced(c) /\ CallsChild(c) /\ HasValue(c) /\ c \in Points
      /\ SameCall(At, ChildStart(c))
  BY <1>1, <1>2, <1>3, CallerFacts DEF CallsChild
<1>5. At \in Passed /\ WellPlaced(At) /\ sized[At] \in Nat
  BY <1>2, <1>3, AtFacts
<1>6. ASSUME Meant(NextValue(c))
      PROVE  sized[c] + PrefixSize(FieldAt(c), sized[At]) + sized[At]
               = Len(Beginning(NextValue(c)))
  <2>1. Meant(c)
    BY <1>6, MeantThroughout
  <2>2. Meant(At)
    BY <1>4, <1>5, <2>1, ChildWritten
  <2>3. PICK a \in Seq(Octet) : a = Beginning(c)
    BY <1>4, <2>1, BeginningType
  <2>4. PICK e \in Seq(Octet) : e = Beginning(At)
    BY <1>5, <2>2, BeginningType
  <2>5. sized[c] = Len(a) /\ sized[At] = Len(e)
    BY <1>4, <1>5, <2>1, <2>2, <2>3, <2>4 DEF SizesKnown
  <2>6. FieldAt(c) \in Field
    BY <1>4, <2>1, ValueAtPoint
  <2>7. PICK b \in Seq(Octet) : /\ b = PrefixBytes(FieldAt(c), Len(e))
                                /\ Len(b) = PrefixSize(FieldAt(c), Len(e))
    BY <2>4, <2>6, PrefixLength
  <2>8. BytesAt(c) = b \o e
    BY <1>2, <1>4, <1>5, <2>1, <2>4, <2>7, ChildWritten
  <2>9. Beginning(NextValue(c)) = a \o (b \o e)
    BY <1>4, <2>1, <2>3, <2>8, BeginningGrows
  <2>10. Len(a \o (b \o e)) = Len(a) + Len(b) + Len(e)
    OBVIOUS
  <2> QED BY <2>5, <2>7, <2>9, <2>10
<1> QED BY <1>2, <1>6, KnownStays

LEMMA SizesStayKnown ==
  ASSUME NoDepartures, SInv, SizesKnown, [Next]_vars
  PROVE  SizesKnown'
<1>1. CASE UNCHANGED sized
  BY <1>1 DEF SizesKnown, Passed
<1>2. CASE Accept
  <2>1. Root \in MessageType /\ doc \in Json /\ SizeAt(Start(Root, doc), 0)
    BY <1>2, WriterAssumption DEF Accept, SInv, TypeOK
  <2>2. Meant(Start(Root, doc)) => 0 = Len(Beginning(Start(Root, doc)))
    BY <2>1, KnownAtStart
  <2> QED BY <2>1, <2>2, KnownStays
<1>3. CASE SizeCall
  <2>1. /\ Running /\ CallsChild(At) /\ SizeAt(ChildStart(At), 0)
    BY <1>3 DEF SizeCall, CallsChild, ChildStart, Running
  <2>2. At \in Points
    BY <2>1, AtFacts DEF SInv, SizeTable
  <2>3. FieldAt(At).message \in MessageType /\ ValueAt(At) \in Json
    BY <2>1, <2>2, ChildTypes
  <2>4. Meant(ChildStart(At)) => 0 = Len(Beginning(ChildStart(At)))
    BY <2>3, KnownAtStart DEF ChildStart
  <2> QED BY <2>1, <2>4, KnownStays
<1> QED BY <1>1, <1>2, <1>3, SizeFieldKeepsKnown, SizeReturnKeepsKnown
        DEF Next, vars, Reject, Throw, TooLarge, Allocate, WriteNextField, WriteField,
            WriteCall, WriteReturn, Return

LEMMA StillSends ==
  ASSUME UNCHANGED sized, NEW n, Len(stack') = n,
         NEW sent \in [1 .. n -> Seq(Octet)], sent[1] = << >>,
         \A k \in 1 .. n - 1 : sent[k + 1] = sent[k] \o Announced(stack'[k].at),
         output' = sent[n] \o Beginning(At')
  PROVE  Sends(sent)'
<1>1. \A k \in 1 .. n - 1 : Announced(stack'[k].at) = Announced(stack[k].at)'
  BY DEF Announced
<1> QED BY <1>1 DEF Sends

LEMMA AllocateSends ==
  ASSUME SInv, Allocate, Represents(Root, doc)
  PROVE  \E sent : Sends(sent)'
<1> DEFINE sent == [k \in 1 .. 1 |-> << >>]
<1>1. /\ phase = "size" /\ stack' = <<Call(Start(Root, doc), 0)>>
      /\ UNCHANGED <<sized, output>>
  BY DEF Allocate
<1>2. output = << >> /\ Root \in MessageType /\ doc \in Json
  BY <1>1, WriterAssumption DEF SInv, TypeOK, NothingYet
<1>3. Len(stack') = 1 /\ At' = Start(Root, doc)
  BY <1>1 DEF At, Top, Call
<1>4. Beginning(At') = << >>
  <2>1. Start(Root, doc).type = Root /\ Start(Root, doc).value = doc
    BY <1>2, StartWellPlaced
  <2>2. Meant(Start(Root, doc))
    BY <2>1 DEF Meant, Represents
  <2> QED BY <1>2, <1>3, <2>2, KnownAtStart
<1>5. sent \in [1 .. 1 -> Seq(Octet)] /\ sent[1] = << >>
  OBVIOUS
<1> HIDE DEF sent
<1>6. \A k \in 1 .. 1 - 1 : sent[k + 1] = sent[k] \o Announced(stack'[k].at)
  OBVIOUS
<1>7. output' = sent[1] \o Beginning(At')
  BY <1>1, <1>2, <1>4, <1>5
<1> QED BY <1>1, <1>3, <1>5, <1>6, <1>7, StillSends

LEMMA MoveSends ==
  ASSUME NoDepartures, SInv, Represents(Root, doc), WriteNextField \/ WriteField,
         NEW sent, Sends(sent)
  PROVE  Sends(sent)'
<1> DEFINE n == Len(stack)
<1>1. /\ phase = "write" /\ ~ AtEnd(At) /\ MoveTo(PointAfter(At)) /\ Running
      /\ UNCHANGED <<doc, phase, sized, total>> /\ output' \in Seq(Octet)
  BY WriteNextFieldStep, WriteFieldStep DEF SInv, TypeOK, Running
<1>2. /\ Len(stack') = n
      /\ \A k \in 1 .. n - 1 : stack'[k] = stack[k]
      /\ At' = PointAfter(At)
  BY <1>1, WriteMoves
<1>3. n \in Nat \ {0} /\ At = stack[n].at
  BY <1>1, AtFacts DEF SInv, SizeTable
<1>4. WellPlaced(At) /\ Meant(At)
  BY <1>1, <1>3, CallsAreMeant
<1>5. PICK a \in Seq(Octet) : a = Beginning(At)
  BY <1>4, BeginningType
<1>6. sent[n] \in Seq(Octet) /\ output = sent[n] \o a
  BY <1>3, <1>5 DEF Sends
<1>7. output' = sent[n] \o Beginning(PointAfter(At))
  <2>1. CASE WriteNextField
    <3>1. ~ HasValue(At) /\ output' = output
      BY <2>1 DEF WriteNextField
    <3>2. Beginning(PointAfter(At)) = a
      BY <1>1, <1>4, <1>5, <3>1, BeginningStays DEF PointAfter
    <3> QED BY <1>6, <3>1, <3>2
  <2>2. CASE WriteField
    <3>1. HasValue(At) /\ FieldAt(At).type # "MESSAGE"
      BY <2>2 DEF WriteField
    <3>2. PICK b \in Seq(Octet) : b = BytesAt(At)
      BY <1>4, <3>1, BeginningType
    <3>3. FieldBytes(FieldAt(At), ValueAt(At)) = b
      BY <1>4, <3>1, <3>2, ValueAtPoint
    <3>4. output' = output \o b
      BY <2>2, <3>3 DEF WriteField
    <3>5. Beginning(PointAfter(At)) = a \o b
      BY <1>4, <1>5, <3>1, <3>2, BeginningGrows DEF PointAfter
    <3>6. PICK t \in Seq(Octet) : t = sent[n]
      BY <1>6
    <3>7. (t \o a) \o b = t \o (a \o b)
      BY ConcatAssociative
    <3> QED BY <1>6, <3>4, <3>5, <3>6, <3>7
  <2> QED BY <2>1, <2>2
<1>8. /\ sent \in [1 .. n -> Seq(Octet)] /\ sent[1] = << >>
      /\ \A k \in 1 .. n - 1 : sent[k + 1] = sent[k] \o Announced(stack'[k].at)
  BY <1>2 DEF Sends
<1> QED BY <1>1, <1>2, <1>7, <1>8, StillSends

LEMMA CallSends ==
  ASSUME NoDepartures, SInv, Represents(Root, doc), WriteCall, NEW sent, Sends(sent)
  PROVE  \E more : Sends(more)'
<1> DEFINE n == Len(stack)
           more == [k \in 1 .. n + 1 |-> IF k = n + 1 THEN output' ELSE sent[k]]
<1>1. /\ phase = "write" /\ Running /\ CallsChild(At)
      /\ output' = output \o PrefixBytes(FieldAt(At), sized[ChildEnd(At)])
      /\ UNCHANGED sized
  BY DEF WriteCall, CallsChild, ChildEnd, MessageSize, Running
<1>2. /\ Len(stack') = n + 1
      /\ \A k \in 1 .. n : stack'[k] = stack[k]
      /\ At' = ChildStart(At) /\ sized[ChildEnd(At)] \in Nat
      /\ SInv'
  BY WriteCalls
<1>3. n \in Nat \ {0} /\ At = stack[n].at /\ At \in Points
  BY <1>1, AtFacts DEF SInv, SizeTable
<1>4. WellPlaced(At) /\ Meant(At)
  BY <1>1, <1>3, CallsAreMeant
<1>5. /\ FieldAt(At).message \in MessageType /\ ValueAt(At) \in Json /\ FieldAt(At) \in Field
      /\ FieldAt(At).message \in Represented[ValueAt(At)]
  BY <1>1, <1>3, <1>4, ChildTypes, ValueAtPoint DEF CallsChild
<1>6. Beginning(At') = << >>
  <2>1. Meant(ChildStart(At))
    BY <1>5, StartWellPlaced DEF Meant, ChildStart
  <2> QED BY <1>2, <1>5, <2>1, KnownAtStart DEF ChildStart
<1>7. output' = sent[n] \o Announced(At) /\ output' \in Seq(Octet)
  <2>1. PICK a \in Seq(Octet) : a = Beginning(At)
    BY <1>4, BeginningType
  <2>2. PICK b \in Seq(Octet) : b = PrefixBytes(FieldAt(At), sized[ChildEnd(At)])
    BY <1>2, <1>5, PrefixLength
  <2>3. PICK t \in Seq(Octet) : t = sent[n]
    BY <1>3 DEF Sends
  <2>4. output = t \o a
    BY <2>1, <2>3 DEF Sends
  <2>5. (t \o a) \o b = t \o (a \o b)
    BY ConcatAssociative
  <2> QED BY <1>1, <2>1, <2>2, <2>3, <2>4, <2>5 DEF Announced
<1>8. /\ sent \in [1 .. n -> Seq(Octet)] /\ sent[1] = << >>
      /\ \A k \in 1 .. n - 1 : sent[k + 1] = sent[k] \o Announced(stack[k].at)
  BY DEF Sends
<1>9. more \in [1 .. n + 1 -> Seq(Octet)] /\ more[1] = << >>
  BY <1>3, <1>7, <1>8
<1>10. more[n + 1] = output' /\ \A k \in 1 .. n : more[k] = sent[k]
  BY <1>3
<1> HIDE DEF more
<1>11. ASSUME NEW k \in 1 .. (n + 1) - 1
       PROVE  more[k + 1] = more[k] \o Announced(stack'[k].at)
  <2>1. CASE k = n
    <3>1. k \in 1 .. n /\ k + 1 = n + 1
      BY <1>3, <2>1
    <3>2. stack'[k].at = At /\ more[k] = sent[n] /\ more[k + 1] = output'
      BY <1>2, <1>3, <1>10, <2>1, <3>1
    <3> QED BY <1>7, <3>2
  <2>2. CASE k # n
    <3>1. k \in 1 .. n - 1 /\ k \in 1 .. n /\ k + 1 \in 1 .. n
      BY <1>3, <2>2
    <3>2. stack'[k].at = stack[k].at /\ more[k] = sent[k] /\ more[k + 1] = sent[k + 1]
      BY <1>2, <1>10, <3>1
    <3> QED BY <1>8, <3>1, <3>2
  <2> QED BY <2>1, <2>2
<1>12. output' = more[n + 1] \o Beginning(At')
  BY <1>6, <1>7, <1>10
<1> QED BY <1>1, <1>2, <1>9, <1>11, <1>12, StillSends

LEMMA ReturnSends ==
  ASSUME NoDepartures, SInv, SizesKnown, Represents(Root, doc), WriteReturn,
         NEW sent, Sends(sent)
  PROVE  \E fewer : Sends(fewer)'
<1> DEFINE n == Len(stack) - 1
           fewer == [k \in 1 .. n |-> sent[k]]
<1>1. PICK c : c = Caller.at
  OBVIOUS
<1>2. /\ phase = "write" /\ Running /\ AtEnd(At) /\ Len(stack) > 1
      /\ UNCHANGED <<sized, output>>
      /\ Len(stack') = n
      /\ \A k \in 1 .. Len(stack) - 2 : stack'[k] = stack[k]
      /\ At' = NextValue(c) /\ At = ChildEnd(c) /\ c = stack[n].at
  BY <1>1, WriteReturns DEF Running
<1>3. TypeOK /\ PassedWellPlaced /\ CallsNest
  BY DEF SInv, SizeTable
<1>4. /\ Len(stack) \in Nat \ {0} /\ At \in Passed /\ At = stack[Len(stack)].at
      /\ CallsChild(c) /\ SameCall(At, ChildStart(c)) /\ HasValue(c)
  BY <1>1, <1>2, <1>3, AtFacts, CallerFacts DEF CallsChild
<1>5. n \in 1 .. Len(stack) /\ n \in 1 .. Len(stack) - 1 /\ n + 1 = Len(stack)
  BY <1>2, <1>4
<1>6. WellPlaced(At) /\ Meant(At) /\ WellPlaced(c) /\ Meant(c)
  BY <1>2, <1>4, <1>5, CallsAreMeant
<1>7. output' = sent[n] \o Beginning(At')
  <2>1. PICK e \in Seq(Octet) : e = Beginning(At)
    BY <1>6, BeginningType
  <2>2. PICK a \in Seq(Octet) : a = Beginning(c)
    BY <1>6, BeginningType
  <2>3. FieldAt(c) \in Field
    BY <1>4, <1>6, ValueAtPoint
  <2>4. PICK b \in Seq(Octet) : b = PrefixBytes(FieldAt(c), Len(e))
    BY <2>1, <2>3, PrefixLength
  <2>5. PICK t \in Seq(Octet) : t = sent[n]
    BY <1>5 DEF Sends
  <2>6. sized[ChildEnd(c)] = Len(e)
    BY <1>2, <1>4, <1>6, <2>1 DEF SizesKnown
  <2>7. sent[n + 1] = t \o (a \o b)
    BY <1>2, <1>5, <2>2, <2>4, <2>5, <2>6 DEF Sends, Announced
  <2>8. output = (t \o (a \o b)) \o e
    BY <1>5, <2>1, <2>7 DEF Sends
  <2>9. BytesAt(c) = b \o e
    BY <1>2, <1>4, <1>6, <2>1, <2>4, ChildWritten
  <2>10. Beginning(At') = a \o (b \o e)
    BY <1>2, <1>4, <1>6, <2>2, <2>9, BeginningGrows
  <2>11. (t \o (a \o b)) \o e = t \o (a \o (b \o e))
    <3> a \o b \in Seq(Octet)
      OBVIOUS
    <3>1. PICK ab \in Seq(Octet) : ab = a \o b
      OBVIOUS
    <3>2. (t \o ab) \o e = t \o (ab \o e)
      BY ConcatAssociative
    <3>3. (a \o b) \o e = a \o (b \o e)
      BY ConcatAssociative
    <3> QED BY <3>1, <3>2, <3>3
  <2> QED BY <1>2, <2>5, <2>8, <2>10, <2>11
<1>8. /\ sent \in [1 .. Len(stack) -> Seq(Octet)] /\ sent[1] = << >>
      /\ \A k \in 1 .. Len(stack) - 1 : sent[k + 1] = sent[k] \o Announced(stack[k].at)
  BY DEF Sends
<1>9. fewer \in [1 .. n -> Seq(Octet)] /\ fewer[1] = << >> /\ fewer[n] = sent[n]
  BY <1>4, <1>5, <1>8
<1>10. \A k \in 1 .. n : fewer[k] = sent[k]
  OBVIOUS
<1> HIDE DEF fewer
<1>11. ASSUME NEW k \in 1 .. n - 1
       PROVE  fewer[k + 1] = fewer[k] \o Announced(stack'[k].at)
  <2>1. /\ k \in 1 .. n /\ k + 1 \in 1 .. n /\ k \in 1 .. Len(stack) - 1
        /\ k \in 1 .. Len(stack) - 2
    BY <1>4, <1>5
  <2>2. stack'[k].at = stack[k].at /\ fewer[k] = sent[k] /\ fewer[k + 1] = sent[k + 1]
    BY <1>2, <1>10, <2>1
  <2> QED BY <1>8, <2>1, <2>2
<1>12. output' = fewer[n] \o Beginning(At')
  BY <1>7, <1>9
<1> QED BY <1>2, <1>9, <1>11, <1>12, StillSends

LEMMA InitPromiseInv == Init => PromiseInv
<1> SUFFICES ASSUME Init PROVE PromiseInv
  OBVIOUS
<1>1. phase = "validate" /\ Passed = {}
  BY DEF Init, Passed
<1> QED BY <1>1, InitSInv DEF PromiseInv, SizesKnown, FitsInt, OutputKnown

LEMMA NextPromiseInv ==
  ASSUME NoDepartures, PromiseInv, [Next]_vars
  PROVE  PromiseInv'
<1>1. SInv /\ SizesKnown /\ FitsInt /\ OutputKnown
  BY DEF PromiseInv
<1>2. SInv' /\ SizesKnown'
  BY <1>1, NextSInv, SizesStayKnown
<1>3. FitsInt'
  BY <1>1 DEF FitsInt, Next, vars, Reject, Accept, Throw, SizeNextField, SizeField, SizeCall,
              SizeReturn, TooLarge, Allocate, WriteNextField, WriteField, WriteCall,
              WriteReturn, Return
<1>4. OutputKnown'
  <2> SUFFICES ASSUME phase' = "write", Represents(Root, doc')
               PROVE  \E sent : Sends(sent)'
    BY DEF OutputKnown
  <2>1. CASE UNCHANGED vars
    BY <1>1, <2>1 DEF OutputKnown, Sends, Announced, At, Top, vars
  <2>2. CASE Next
    <3>1. /\ doc' = doc
          /\ Allocate \/ WriteNextField \/ WriteField \/ WriteCall \/ WriteReturn
      BY <2>2 DEF Next, Reject, Accept, Throw, SizeNextField, SizeField, SizeCall, SizeReturn,
                  TooLarge, Allocate, WriteNextField, WriteField, WriteCall, WriteReturn, Return
    <3>2. CASE Allocate
      BY <1>1, <3>1, <3>2, AllocateSends
    <3>3. CASE WriteNextField \/ WriteField \/ WriteCall \/ WriteReturn
      <4>1. PICK sent : Sends(sent)
        BY <1>1, <3>1, <3>3 DEF OutputKnown, WriteNextField, WriteField, WriteCall, WriteReturn
      <4>2. CASE WriteNextField \/ WriteField
        BY <1>1, <3>1, <4>1, <4>2, MoveSends
      <4>3. CASE WriteCall
        BY <1>1, <3>1, <4>1, <4>3, CallSends
      <4>4. CASE WriteReturn
        BY <1>1, <3>1, <4>1, <4>4, ReturnSends
      <4> QED BY <3>3, <4>2, <4>3, <4>4
    <3> QED BY <3>1, <3>2, <3>3
  <2> QED BY <2>1, <2>2
<1> QED BY <1>2, <1>3, <1>4 DEF PromiseInv

-----------------------------------------------------------------------------
(***************************************************************************)
(* How a call ends.                                                        *)
(***************************************************************************)
LEMMA RepresentedIsValid ==
  ASSUME NEW v \in Json, NEW type \in Represented[v]
  PROVE  Valid(type, v)
<1> SUFFICES ASSUME NEW i \in 1 .. Len(Schema[type]), Refused(Schema[type][i], v)
             PROVE  FALSE
  BY DEF Valid
<1>1. PICK f : f = Schema[type][i]
  OBVIOUS
<1>2. /\ ~ HasMember(f, v) => f.label # "REQUIRED"
      /\ HasMember(f, v) /\ f.label = "REPEATED" => Member(f, v).kind = "array"
      /\ f \in Field
  BY <1>1, ValuesInMessage
<1>3. PICK m : m = Member(f, v)
  OBVIOUS
<1>4. HasMember(f, v) /\ Mismatch(f, m)
  BY <1>1, <1>2, <1>3 DEF Refused
<1>5. f.label # "REPEATED"
  BY <1>2, <1>3, <1>4 DEF Mismatch
<1>6. Visited(f, v) = <<m>>
  BY <1>3, <1>4, <1>5 DEF Visited
<1>7. Len(Visited(f, v)) = 1 /\ Visited(f, v)[1] = m
  BY <1>6
<1>8. /\ m \in Json /\ RepresentsValue(f, m, Represented[m])
      /\ f.type = "MESSAGE" => f.message \in Represented[m]
  <2>1. \A k \in 1 .. Len(Visited(f, v)) :
          /\ Visited(f, v)[k] \in Json
          /\ RepresentsValue(f, Visited(f, v)[k], Represented[Visited(f, v)[k]])
          /\ f.type = "MESSAGE" => f.message \in Represented[Visited(f, v)[k]]
    BY <1>1, ValuesInMessage
  <2>2. 1 \in 1 .. Len(Visited(f, v))
    BY <1>7
  <2> QED BY <1>7, <2>1, <2>2
<1>9. f.type = "MESSAGE" => m.kind = "object"
  BY <1>8, RepresentedFacts DEF IsMessageOf
<1>10. f.type # "MESSAGE" =>
         /\ f.type # "GROUP"
         /\ f.type = "BYTES" => m.kind = "string"
         /\ m.kind \in {"string", "boolean", "number"}
  BY <1>8 DEF RepresentsValue, TextTypes, RealTypes, IsIntegerOf
<1> QED BY <1>4, <1>5, <1>9, <1>10 DEF Mismatch

LEMMA EndOfMessage ==
  ASSUME NoDepartures, PromiseInv, Represents(Root, doc), Running, AtEnd(At), Len(stack) = 1
  PROVE  /\ sized[At] = Len(Encoding(Root, doc))
         /\ phase = "write" => /\ output = Encoding(Root, doc)
                               /\ total = Len(output)
                               /\ total <= IntMax
<1>1. SInv /\ SizesKnown /\ FitsInt /\ OutputKnown
  BY DEF PromiseInv
<1>2. At \in Passed /\ At = stack[1].at /\ Root \in MessageType /\ doc \in Json
  BY <1>1, AtFacts, WriterAssumption DEF SInv, SizeTable, TypeOK
<1>3. WellPlaced(At) /\ Meant(At)
  BY <1>1, <1>2, CallsAreMeant
<1>4. At.type = Root /\ At.value = doc
  BY <1>1, <1>2, StartWellPlaced DEF SInv, CallsNest, SameCall
<1>5. PICK e \in Seq(Octet) : e = Beginning(At) /\ e = Encoding(Root, doc)
  BY <1>3, <1>4, BeginningType, BeginningEnds
<1>6. sized[At] = Len(e)
  BY <1>1, <1>2, <1>3, <1>5 DEF SizesKnown
<1>7. ASSUME phase = "write"
      PROVE  output = e /\ total = Len(e) /\ total <= IntMax
  <2>1. PICK sent : Sends(sent)
    BY <1>1, <1>7 DEF OutputKnown
  <2>2. output = << >> \o e
    BY <1>5, <2>1 DEF Sends
  <2>3. << >> \o e = e
    OBVIOUS
  <2>4. At = End(Root, doc)
    BY <1>3, <1>4, EndIsUnique
  <2>5. total = sized[At]
    BY <1>1, <1>7, <2>4 DEF SInv, EndsPassed
  <2> QED BY <1>1, <1>6, <1>7, <2>2, <2>3, <2>5 DEF FitsInt
<1> QED BY <1>5, <1>6, <1>7

LEMMA ReturnKeepsPromise ==
  ASSUME NoDepartures, PromiseInv, Return
  PROVE  Serializer!Answer
<1>1. /\ phase = "write" /\ AtEnd(At) /\ Len(stack) = 1 /\ Running
      /\ UNCHANGED <<doc, stack, sized, total, output>>
      /\ phase' = "returned" \/ (Len(output) > total /\ phase' = "corrupted")
  BY DEF Return, Running
<1>2. /\ phase \notin Ended /\ phase' \in Ended /\ phase' \notin Failures
      /\ phase # "returned"
  BY <1>1 DEF Ended, Failures
<1>3. ASSUME Represents(Root, doc)
      PROVE  /\ output = Encoding(Root, doc)
             /\ total = Len(output)
             /\ total <= IntMax
  BY <1>1, <1>3, EndOfMessage
<1>4. doc \notin Forbidden
  <2> SUFFICES ASSUME Represents(Root, doc), Len(Encoding(Root, doc)) > IntMax
               PROVE  FALSE
    BY DEF Forbidden
  <2>1. total \in Int /\ IntMax \in Int
    BY WriterAssumption DEF PromiseInv, SInv, TypeOK
  <2> QED BY <1>3, <2>1
<1>5. ASSUME doc \in Promised
      PROVE  phase' = "returned" /\ Result' = Encoding(Root, doc)
  <2>1. Represents(Root, doc)
    BY <1>5 DEF Promised
  <2>2. PICK e : e = Encoding(Root, doc)
    OBVIOUS
  <2>3. output = e /\ total = Len(output) /\ output \in Seq(Octet) /\ total \in Nat
    BY <1>3, <2>1, <2>2 DEF PromiseInv, SInv, TypeOK
  <2>4. phase' = "returned"
    BY <1>1, <2>3
  <2>5. Result' = [i \in 1 .. total |-> IF i <= Len(output) THEN output[i] ELSE 0]
    BY <1>1 DEF Result
  <2>6. Result' = output
    BY <2>3, <2>5
  <2> QED BY <2>2, <2>3, <2>4, <2>6
<1> QED BY <1>1, <1>2, <1>4, <1>5 DEF Serializer!Answer, Outcome, Answered

LEMMA FailureKeepsPromise ==
  ASSUME NoDepartures, PromiseInv, Reject \/ Throw \/ TooLarge
  PROVE  Serializer!Refuse
<1>1. /\ phase \notin Ended /\ phase' \in Ended /\ phase' \in Failures /\ doc' = doc
      /\ phase # "returned" /\ phase' # "returned"
  BY DEF Reject, Throw, TooLarge, Ended, Failures
<1>2. doc \in Json
  BY WriterAssumption DEF PromiseInv, SInv, TypeOK
<1>3. ASSUME doc \in Promised
      PROVE  FALSE
  <2>1. Represents(Root, doc) /\ Len(Encoding(Root, doc)) <= IntMax
    BY <1>3 DEF Promised
  <2>2. CASE Reject
    BY <1>2, <2>1, <2>2, RepresentedIsValid DEF Reject, Represents
  <2>3. CASE Throw
    <3>1. Running /\ HasValue(At) /\ Throws(FieldAt(At), ValueAt(At))
      BY <2>3 DEF Throw, Running
    <3>2. Len(stack) \in Nat \ {0} /\ At = stack[Len(stack)].at
      BY <3>1, AtFacts DEF PromiseInv, SInv, SizeTable
    <3>3. WellPlaced(At) /\ Meant(At)
      BY <2>1, <3>1, <3>2, CallsAreMeant DEF PromiseInv
    <3> QED BY <3>1, <3>3, ValueAtPoint
  <2>4. CASE TooLarge
    <3>1. Running /\ AtEnd(At) /\ Len(stack) = 1 /\ sized[At] > IntMax
      BY <2>4 DEF TooLarge, Running
    <3>2. sized[At] = Len(Encoding(Root, doc)) /\ sized[At] \in Nat
      BY <2>1, <3>1, EndOfMessage, AtFacts DEF PromiseInv, SInv, SizeTable
    <3> QED BY <2>1, <3>1, <3>2, WriterAssumption
  <2> QED BY <2>2, <2>3, <2>4
<1> QED BY <1>1, <1>3 DEF Serializer!Refuse, Outcome, Answered

(***************************************************************************)
(* For documents whose values serializeMessage encodes as protobuf does,   *)
(* it implements its promise: what it returns is the encoding of the       *)
(* message the document represents, and it refuses no such document that   *)
(* fits into INT_MAX bytes.  That every call ends is left to the runs.     *)
(***************************************************************************)
THEOREM WriterKeepsPromise ==
  ASSUME NoDepartures
  PROVE  Spec /\ Serializer!Ends => KeepsPromise
<1>1. Init => Serializer!Init
  BY DEF Init, Serializer!Init, Ended, Outcome
<1>2. PromiseInv /\ [Next]_vars =>
        [Serializer!Next]_<<doc, Outcome, Answered>>
  <2> SUFFICES ASSUME PromiseInv, [Next]_vars
               PROVE  Serializer!Next \/ UNCHANGED <<doc, Outcome, Answered>>
    OBVIOUS
  <2>1. CASE Return
    BY <2>1, ReturnKeepsPromise DEF Serializer!Next
  <2>2. CASE Reject \/ Throw \/ TooLarge
    BY <2>2, FailureKeepsPromise DEF Serializer!Next
  <2>3. CASE UNCHANGED vars
    BY <2>3 DEF vars, Result, Outcome, Answered
  <2>4. CASE Next /\ ~ Return /\ ~ (Reject \/ Throw \/ TooLarge)
    <3>1. doc' = doc /\ phase \notin Ended /\ phase' \notin Ended
      BY <2>4 DEF Next, Accept, SizeNextField, SizeField, SizeCall, SizeReturn, Allocate,
                  WriteNextField, WriteField, WriteCall, WriteReturn, Ended
    <3>2. phase # "returned" /\ phase' # "returned"
      BY <3>1 DEF Ended
    <3> QED BY <3>1, <3>2 DEF Outcome, Answered
  <2> QED BY <2>1, <2>2, <2>3, <2>4
<1>3. Init => PromiseInv
  BY InitPromiseInv
<1>4. PromiseInv /\ [Next]_vars => PromiseInv'
  BY NextPromiseInv
<1> QED BY <1>1, <1>2, <1>3, <1>4, PTL DEF Spec, KeepsPromise, Serializer!Spec
=============================================================================
