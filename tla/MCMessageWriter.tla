--------------------------- MODULE MCMessageWriter ---------------------------
(***************************************************************************)
(* Schemas and documents for checking MessageWriter.                       *)
(***************************************************************************)
EXTENDS MessageWriter, MCMessages

(***************************************************************************)
(* No value of the documents for Chain is one the serializer encodes       *)
(* otherwise than protobuf.                                                *)
(***************************************************************************)
ASSUME ChainDoesNotDepart == Root = "Chain" => NoDepartures

(***************************************************************************)
(* Texts: the empty one, names, one whose length needs a two-byte varint,  *)
(* and base64 texts with and without padding.                              *)
(***************************************************************************)
MCTextBytes ==
  [empty |-> << >>, a |-> <<97>>, long |-> [i \in 1 .. 130 |-> 65],
   MOBILE |-> <<77>>, HOME |-> <<72>>, WORK |-> <<87>>, PAGER |-> <<79>>,
   b3 |-> <<81, 85, 74, 68>>, b1 |-> <<81, 81, 61, 61>>]

MCText == DOMAIN MCTextBytes

MCDecodedBytes ==
  [t \in MCText |-> CASE t = "b3" -> <<65, 66, 67>>
                      [] t = "b1" -> <<65>>
                      [] OTHER    -> << >>]

(***************************************************************************)
(* Chain nests, Every has one field of each type, Lists their repetition.  *)
(* Field numbers 15 and 16 have tags of one and of two bytes.              *)
(***************************************************************************)
Chain ==
  << F("label", 1, "STRING", "OPTIONAL"),
     MessageField("next", 2, "OPTIONAL", "Chain"),
     F("scores", 15, "SINT32", "REPEATED"),
     MessageField("kids", 16, "REPEATED", "Chain"),
     MessageField("every", 17, "OPTIONAL", "Every"),
     MessageField("lists", 18, "OPTIONAL", "Lists") >>

SeveralTypes ==
  <<"INT32", "SINT32", "UINT32", "INT64", "SINT64", "UINT64", "BOOL",
    "FIXED32", "SFIXED32", "FLOAT", "FIXED64", "SFIXED64", "DOUBLE", "STRING">>

Every ==
  [i \in DOMAIN SeveralTypes |->
     F(SeveralTypes[i], i + 8, SeveralTypes[i], "OPTIONAL")]
  \o << EnumField("ENUM", 23, "OPTIONAL", PhoneTypes, <<0, 1, 2>>) >>

Lists ==
  [i \in DOMAIN SeveralTypes |->
     F(SeveralTypes[i], i + 8, SeveralTypes[i], "REPEATED")]
  \o << EnumField("ENUM", 23, "REPEATED", PhoneTypes, <<0, 1, 2>>) >>

Attachment ==
  << F("before", 1, "BYTES", "OPTIONAL"),
     MessageField("inner", 2, "OPTIONAL", "Attachment"),
     F("after", 3, "STRING", "OPTIONAL"),
     F("parts", 16, "BYTES", "REPEATED") >>

(***************************************************************************)
(* A message for documents the serializer refuses: a required field with   *)
(* three different keys, a group, an enumeration, a nested message.        *)
(***************************************************************************)
Strict ==
  << [name |-> "Key_Id", jsonName |-> "keyId", lowerName |-> "key_id",
      number |-> 1, type |-> "BOOL", label |-> "REQUIRED"],
     F("group", 2, "GROUP", "REPEATED"),
     EnumField("kind", 3, "OPTIONAL", PhoneTypes, <<0, 5, 9>>),
     F("text", 4, "STRING", "OPTIONAL"),
     F("data", 5, "BYTES", "OPTIONAL"),
     MessageField("inner", 6, "OPTIONAL", "Strict"),
     MessageField("attached", 7, "OPTIONAL", "Attachment"),
     F("list", 8, "INT32", "REPEATED") >>

(***************************************************************************)
(* The messages a run needs are those its root can hold.                   *)
(***************************************************************************)
FieldsOf == [Chain |-> Chain, Every |-> Every, Lists |-> Lists,
             Attachment |-> Attachment, Strict |-> Strict]

MCMessageType == IF Root = "Chain" THEN {"Chain", "Every", "Lists"}
                 ELSE {"Strict", "Attachment"}
MCSchema      == [type \in MCMessageType |-> FieldsOf[type]]
MCField       == UNION {Range(FieldsOf[type]) : type \in MCMessageType}

-----------------------------------------------------------------------------
Leaves == Objects([label |-> {S("a"), S("long")}])

Links == Objects([next |-> Leaves, kids |-> Lists012({Obj([label |-> S("long")])})])

ChainDocs ==
  Links \cup Objects([label  |-> {S("a")},
                      scores |-> {Arr(<<N(-2)>>)},
                      next   |-> {l \in Links : "next" \in DOMAIN l.members},
                      kids   |-> Lists012({Obj([next |-> Obj([label |-> S("long")])])})])

(***************************************************************************)
(* Numbers at the edges of the varint sizes and of the integer types.      *)
(***************************************************************************)
Edges == {0, 1, -1, 63, 64, -64, -65, 127, 128, 2 ^ 14, 2 ^ 15 - 1, 2 ^ 15,
          -(2 ^ 15), 2 ^ 16 - 1, 2 ^ 16, 2 ^ 23 - 1, -(2 ^ 23), 2 ^ 24 - 1}

(***************************************************************************)
(* The number fields of each range together, all with the same value, and  *)
(* each field alone with values of which it refuses some.                  *)
(***************************************************************************)
Ranges == {{"INT32", "SINT32", "SFIXED32"}, {"UINT32", "FIXED32"},
           {"INT64", "SINT64", "SFIXED64"}, {"UINT64", "FIXED64"}, {"FLOAT", "DOUBLE"}}

Same(keys, v) == Obj([key \in keys |-> v])

EveryKey == UNION Ranges \cup {"BOOL", "STRING", "ENUM"}

ScalarDocs ==
  {Same(keys, N(2 * n)) : keys \in Ranges, n \in Edges}
    \cup {Same(UNION Ranges, N(1)), Same(UNION Ranges, N(-3))}
    \cup {Obj(key :> v) : key \in EveryKey, v \in {B(TRUE), S("WORK"), N(4)}}
    \cup {Obj("BOOL" :> B(FALSE)), Obj("STRING" :> S("a")), Obj("ENUM" :> S("MOBILE"))}

ListDocs ==
  {Same(keys, Arr(<<N(n), N(4)>>)) : keys \in Ranges, n \in {1, 2, -2, 2 ^ 24 - 2}}
    \cup {Obj(key :> Arr(<<v, w>>)) :
            key \in EveryKey, v \in {N(2), B(TRUE), S("WORK")}, w \in {S("long"), N(1)}}
    \cup {Obj("BOOL" :> Arr(<<B(TRUE), B(TRUE)>>)), Obj("ENUM" :> Arr(<<S("WORK"), S("HOME")>>))}

NestedDocs ==
  ChainDocs \cup {Obj("every" :> d) : d \in ScalarDocs}
            \cup {Obj("lists" :> d) : d \in ListDocs}

-----------------------------------------------------------------------------
(***************************************************************************)
(* BYTES fields, nested and next to text.                                  *)
(***************************************************************************)
Attached == Objects([before |-> {S("b3"), S("b1")}, after |-> {S("a")},
                     parts |-> Lists012({S("b1"), S("b3")})])

AttachmentDocs ==
  Attached \cup Objects([before |-> {S("b1")}, after |-> {S("long")},
                         inner  |-> Attached])

(***************************************************************************)
(* Documents of every kind, most of them refused.  What an empty STRING    *)
(* does is left to DepartingDocs.                                          *)
(***************************************************************************)
AnyValues == {Null, B(TRUE), N(2), N(-4), S("empty"), S("HOME"), S("PAGER"),
              Arr(<< >>), Arr(<<Null>>), Empty, Obj("keyId" :> B(FALSE))}

OneOfAny(key) ==
  {Obj(("Key_Id" :> B(TRUE)) @@ (key :> v)) :
     v \in IF key = "text" THEN AnyValues \ {S("empty")} ELSE AnyValues}

StrictKeys == {"keyId", "Key_Id", "key_id", "group", "kind", "text", "data", "inner"}

StrictDocs ==
  AnyValues \cup UNION {OneOfAny(key) : key \in StrictKeys}
    \cup {Obj(("key_id" :> B(TRUE)) @@ ("inner" :> w)) :
            w \in UNION {OneOfAny(key) : key \in StrictKeys}}
    \cup {Obj(("keyId" :> B(TRUE)) @@ ("attached" :> d)) : d \in AttachmentDocs}

-----------------------------------------------------------------------------
(***************************************************************************)
(* The safety part of KeepsPromise, for documents where the code departs   *)
(* from what protomessageserializer.h says of serializeMessage: the answer *)
(* is the protobuf serialization of the document's message.                *)
(***************************************************************************)
ReturnsEncoding ==
  phase = "returned" /\ Represents(Root, doc) => Result = Encoding(Root, doc)

-----------------------------------------------------------------------------
(***************************************************************************)
(* A document that shows the departures, one in each member: the second of *)
(* the names of an enumeration with declared numbers, an empty text, a     *)
(* padded BYTES field, a zero in a repeated field.                         *)
(***************************************************************************)
DepartingDocs ==
  {Obj(("keyId" :> B(TRUE)) @@ ("kind" :> S("HOME")) @@ ("text" :> S("empty"))
         @@ ("data" :> S("b1")) @@ ("list" :> Arr(<<N(0), N(2)>>)))}

JsonIn(docs) == UNION {Within(d) : d \in docs}

NestedJson    == JsonIn(NestedDocs)
StrictJson    == JsonIn(StrictDocs)
DepartingJson == JsonIn(DepartingDocs)
=============================================================================
