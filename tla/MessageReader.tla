---------------------------- MODULE MessageReader ----------------------------
(***************************************************************************)
(* ProtoMessageSerializer::readMessage: it reads a protobuf message from a *)
(* stream, field by field, into a JSON document that starts with the       *)
(* defaults of the message type.  A MESSAGE field is read by a serializer  *)
(* for its type, from the same stream under a new limit; the recursion is  *)
(* an explicit stack here, one step per tag, element or return.            *)
(***************************************************************************)
EXTENDS MessageValues, WireReading

CONSTANTS
  Root,        \* the message type the serializer was constructed with
  Inputs,      \* the strings readMessage is called with
  Utf8,        \* the texts that are UTF-8, which json::dump demands
  Leftovers,   \* what an int that is read uninitialised may hold
  LoopBound    \* bound on the elements a loop that reads nothing adds

ASSUME ReaderAssumption ==
  /\ Root \in MessageType
  /\ Inputs \subseteq Seq(Octet)
  /\ \A t \in Text : TextWith(TextBytes[t]) = t
  /\ Utf8 \subseteq Text
  /\ Leftovers \subseteq Int
  /\ LoopBound \in Nat

VARIABLES
  input,     \* the bytes of the stream
  pos,       \* how many of them have been consumed
  limit,     \* the stream's current limit
  calls,     \* the active calls of readMessage, the innermost one last
  tag,       \* the tag of the field that readField is called for, or 0
  loop,      \* the loop over a packed field that is running, if any
  phase      \* "read", or how the call ended

vars == <<input, pos, limit, calls, tag, loop, phase>>

Failures == {"InvalidMessage", "NotImplementedField", "type_error"}
Ended    == {"returned"} \cup Failures

-----------------------------------------------------------------------------
(***************************************************************************)
(* The JSON values readField makes.  A real number counts in halves.       *)
(***************************************************************************)
Scalar(f, x) ==
  CASE f.type = "BOOL"       -> Boolean(x # 0)
    [] f.type \in RealTypes  -> Number(x)
    [] OTHER                 -> Number(2 * x)

TextRead(f, bytes) == IF f.type = "BYTES" THEN TextWith(Base64(bytes))
                                          ELSE TextWith(bytes)

Members(json) == IF json.kind = "object" THEN json.members
                                         ELSE [key \in {} |-> Null]

(***************************************************************************)
(* assignJsonValue: the value of the field, or one more element of it.     *)
(***************************************************************************)
Elements(f, json) ==
  IF f.name \in DOMAIN Members(json) THEN Members(json)[f.name].elements
                                     ELSE << >>

Assigned(f, v, json) ==
  LET value == IF f.label = "REPEATED" THEN Array(Append(Elements(f, json), v))
                                       ELSE v
  IN  Object([key \in DOMAIN Members(json) \cup {f.name} |->
                IF key = f.name THEN value ELSE Members(json)[key]])

(***************************************************************************)
(* createDefaultInitializedJson: a value for each field that is neither a  *)
(* message nor a group, as the first element if the field is repeated.     *)
(* Without such a field the document stays null.                           *)
(***************************************************************************)
Default(f) ==
  CASE f.type \in TextTypes -> String(TextWith(<< >>))
    [] f.type = "ENUM"      -> String(f.values[1])
    [] f.type = "BOOL"      -> Boolean(FALSE)
    [] OTHER                -> Number(0)

HasDefault(f) == /\ f.type \in TextTypes \cup ScalarTypes
                 /\ f.type = "ENUM" => f.values # << >>

DefaultedFields(type) == {f \in Range(Schema[type]) : HasDefault(f)}

DefaultDocument(type) ==
  LET fields     == DefaultedFields(type)
      Named(key) == CHOOSE f \in fields : f.name = key
  IN  IF fields = {} THEN Null
      ELSE Object([key \in {f.name : f \in fields} |->
                     IF Named(key).label = "REPEATED" THEN Array(<<Default(Named(key))>>)
                                                      ELSE Default(Named(key))])

-----------------------------------------------------------------------------
(***************************************************************************)
(* A call of readMessage: its message type, the field of the caller it     *)
(* reads, the document so far, the members of it that hold a text dump()   *)
(* will refuse, and the limit its caller restores.                         *)
(***************************************************************************)
Call(type, field, outer) ==
  [type |-> type, field |-> field, json |-> DefaultDocument(type),
   unprintable |-> {}, outer |-> outer]

Top      == calls[Len(calls)]
Callers  == SubSeq(calls, 1, Len(calls) - 1)

(***************************************************************************)
(* The calls after the last of them has assigned v to field f.  dump()     *)
(* refuses v if it is bad.                                                 *)
(***************************************************************************)
Assigning(cs, f, v, bad) ==
  LET c == cs[Len(cs)]
  IN  [cs EXCEPT ![Len(cs)] =
         [c EXCEPT !.json = Assigned(f, v, c.json),
                   !.unprintable = IF bad THEN @ \cup {f.name}
                                   ELSE IF f.label = "REPEATED" THEN @
                                   ELSE @ \ {f.name}]]

AssignText(f, v, bad) == Assigning(calls, f, v, bad)
Assign(f, v)          == Assigning(calls, f, v, FALSE)

\* The calls after the last one has returned its document to its caller.
Returned == Assigning(Callers, Top.field, Top.json, Top.unprintable # {})

(***************************************************************************)
(* The field readField is called for: getField looks for the first one     *)
(* with the number in the tag, and throws if the message type has none.    *)
(***************************************************************************)
Numbered(i) == Schema[Top.type][i].number = GetTagFieldNumber(tag)

FieldsTagged ==
  {Schema[Top.type][i] : i \in {k \in DOMAIN Schema[Top.type] :
                                  Numbered(k) /\ \A j \in 1 .. k - 1 : ~ Numbered(j)}}

ReadsField(f) == phase = "read" /\ tag # 0 /\ f \in FieldsTagged

IsPacked(f) == f.label = "REPEATED" /\ GetTagWireType(tag) = 2

Fail(failure) ==
  phase' = failure /\ UNCHANGED <<input, pos, limit, calls, tag, loop>>

Init ==
  /\ input \in Inputs
  /\ pos = 0
  /\ limit = Len(input)
  /\ calls = <<Call(Root, << >>, Len(input))>>
  /\ tag = 0
  /\ loop = << >>
  /\ phase = "read"

-----------------------------------------------------------------------------
(***************************************************************************)
(* One iteration of readMessage reads a tag and calls readField for it; a  *)
(* zero tag ends the loop.                                                 *)
(***************************************************************************)
AwaitsTag == phase = "read" /\ loop = << >> /\ tag = 0

NextTag == ReadTag(input, pos, limit)

ReadNextTag ==
  /\ AwaitsTag
  /\ NextTag.value # 0
  /\ tag' = NextTag.value
  /\ pos' = NextTag.next
  /\ UNCHANGED <<input, limit, calls, loop, phase>>

UnknownField ==
  /\ phase = "read"
  /\ tag # 0
  /\ FieldsTagged = {}
  /\ Fail("InvalidMessage")

GroupField ==
  \E f \in FieldsTagged : /\ ReadsField(f)
                          /\ f.type = "GROUP"
                          /\ Fail("NotImplementedField")

(***************************************************************************)
(* The end of readField: v is what was read for f.                         *)
(***************************************************************************)
Store(cs, v) ==
  /\ calls' = cs
  /\ pos' = v.next
  /\ tag' = 0
  /\ UNCHANGED <<input, limit, loop, phase>>

ReadScalar ==
  \E f \in FieldsTagged :
    /\ ReadsField(f)
    /\ f.type \in ScalarTypes \ {"ENUM"}
    /\ ~ IsPacked(f)
    /\ LET v == ReadPrimitive(f.type, input, pos, limit)
       IN  Store(Assign(f, Scalar(f, v.value)), v)

\* As if the last enumerator was forgotten.
IsEnumeratorShort(f, x) == x \in 0 .. Len(f.values) - 2

IsEnumerator(f, x) == x \in 0 .. Len(f.values) - 1

Enumerator(f, x) == String(f.values[x + 1])

ReadEnum ==
  \E f \in FieldsTagged :
    /\ ReadsField(f)
    /\ f.type = "ENUM"
    /\ ~ IsPacked(f)
    /\ LET v == ReadPrimitive("ENUM", input, pos, limit)
       IN  IF IsEnumerator(f, v.value) THEN Store(Assign(f, Enumerator(f, v.value)), v)
                                       ELSE Fail("InvalidMessage")

ReadText ==
  \E f \in FieldsTagged :
    /\ ReadsField(f)
    /\ f.type \in TextTypes
    /\ LET v == ReadBytes(input, pos, limit)
           t == TextRead(f, v.value)
       IN  Store(AssignText(f, String(t), t \notin Utf8), v)

(***************************************************************************)
(* A packed field of fixed-width values is read in one call.               *)
(***************************************************************************)
AllAssigned(f, xs, json) ==
  FoldLeft(LAMBDA before, x : Assigned(f, Scalar(f, x), before), json, xs)

AssignEach(f, xs) == [calls EXCEPT ![Len(calls)].json = AllAssigned(f, xs, @)]

ReadPackedFixedField ==
  \E f \in FieldsTagged :
    /\ ReadsField(f)
    /\ f.type \in FixedTypes
    /\ IsPacked(f)
    /\ LET v == ReadPackedFixed(f.type, input, pos, limit)
       IN  Store(AssignEach(f, v.value), v)

-----------------------------------------------------------------------------
(***************************************************************************)
(* A packed field of varints: the loop of ReadPackedPrimitive, or the one  *)
(* readField has for ENUM.  The first gives up if there is no length and   *)
(* if an element cannot be read, without restoring the limit; the second   *)
(* never gives up.                                                         *)
(***************************************************************************)
PackedLength(f) ==
  IF f.type = "ENUM" THEN ReadVarint32AsInt(input, pos, limit)
                     ELSE ReadVarintSizeAsInt(input, pos, limit)

EnterPacked ==
  \E f \in FieldsTagged :
    /\ ReadsField(f)
    /\ f.type \in VarintTypes
    /\ IsPacked(f)
    /\ LET v == PackedLength(f)
       IN  /\ pos' = v.next
           /\ IF v.ok \/ f.type = "ENUM"
              THEN /\ loop' = <<[field |-> f, outer |-> limit]>>
                   /\ limit' = PushLimit(v.value, v.next, limit)
              ELSE UNCHANGED <<loop, limit>>
    /\ tag' = 0
    /\ UNCHANGED <<input, calls, phase>>

InLoop == phase = "read" /\ loop # << >> /\ pos < limit

Looped  == loop[1].field
Element == ReadPrimitive(Looped.type, input, pos, limit)

PackedElement ==
  /\ InLoop
  /\ Looped.type # "ENUM"
  /\ Element.ok
  /\ Store(Assign(Looped, Scalar(Looped, Element.value)), Element)

PackedFails ==
  /\ InLoop
  /\ Looped.type # "ENUM"
  /\ ~ Element.ok
  /\ pos' = Element.next
  /\ loop' = << >>
  /\ UNCHANGED <<input, limit, calls, tag, phase>>

(***************************************************************************)
(* The result of the read is not looked at: if it failed the variable is   *)
(* uninitialised and may hold anything, and if it consumed nothing the     *)
(* loop goes on.  An array that grows in that way keeps its last LoopBound *)
(* elements here.                                                          *)
(***************************************************************************)
Capped(f, cs) ==
  IF Element.next > pos \/ Len(Elements(f, cs[Len(cs)].json)) <= LoopBound THEN cs
  ELSE [cs EXCEPT ![Len(cs)].json.members[f.name].elements = Tail(@)]

PackedEnum ==
  /\ InLoop
  /\ Looped.type = "ENUM"
  /\ \E x \in IF Element.ok THEN {Element.value} ELSE Leftovers :
       IF IsEnumerator(Looped, x)
       THEN Store(Capped(Looped, Assign(Looped, Enumerator(Looped, x))), Element)
       ELSE Fail("InvalidMessage")

\* As if the limit of the packed field stayed in force.
LeavePackedLimited ==
  /\ phase = "read"
  /\ loop # << >>
  /\ pos >= limit
  /\ loop' = << >>
  /\ UNCHANGED <<input, pos, limit, calls, tag, phase>>

LeavePacked ==
  /\ phase = "read"
  /\ loop # << >>
  /\ pos >= limit
  /\ limit' = loop[1].outer
  /\ loop' = << >>
  /\ UNCHANGED <<input, pos, calls, tag, phase>>

-----------------------------------------------------------------------------
\* As if the limit was set without comparing it to the one in force.
EnterMessageUnlimited ==
  \E f \in FieldsTagged :
    /\ ReadsField(f)
    /\ f.type = "MESSAGE"
    /\ LET v == ReadVarintSizeAsInt(input, pos, limit)
       IN  /\ pos' = v.next
           /\ IF v.ok
              THEN /\ calls' = Append(calls, Call(f.message, f, limit))
                   /\ limit' = v.next + v.value
              ELSE UNCHANGED <<calls, limit>>
    /\ tag' = 0
    /\ UNCHANGED <<input, loop, phase>>

(***************************************************************************)
(* A MESSAGE field: the nested call reads under a limit of its own.  It is *)
(* skipped if there is no length.                                          *)
(***************************************************************************)
EnterMessage ==
  \E f \in FieldsTagged :
    /\ ReadsField(f)
    /\ f.type = "MESSAGE"
    /\ LET v == ReadVarintSizeAsInt(input, pos, limit)
       IN  /\ pos' = v.next
           /\ IF v.ok
              THEN /\ calls' = Append(calls, Call(f.message, f, limit))
                   /\ limit' = PushLimit(v.value, v.next, limit)
              ELSE UNCHANGED <<calls, limit>>
    /\ tag' = 0
    /\ UNCHANGED <<input, loop, phase>>

EndsMessage == AwaitsTag /\ NextTag.value = 0

\* As if the limit of the nested message stayed in force.
LeaveMessageLimited ==
  /\ EndsMessage
  /\ Len(calls) > 1
  /\ calls' = Returned
  /\ pos' = NextTag.next
  /\ UNCHANGED <<input, limit, tag, loop, phase>>

(***************************************************************************)
(* A zero tag ends a message: at its limit, or where there is none.  The   *)
(* caller reads on from there.                                             *)
(***************************************************************************)
LeaveMessage ==
  /\ EndsMessage
  /\ Len(calls) > 1
  /\ calls' = Returned
  /\ limit' = Top.outer
  /\ pos' = NextTag.next
  /\ UNCHANGED <<input, tag, loop, phase>>

(***************************************************************************)
(* The outermost call ends with dump(), which throws at a text that is not *)
(* UTF-8.                                                                  *)
(***************************************************************************)
Return ==
  /\ EndsMessage
  /\ Len(calls) = 1
  /\ pos' = NextTag.next
  /\ phase' = IF Top.unprintable = {} THEN "returned" ELSE "type_error"
  /\ UNCHANGED <<input, limit, calls, tag, loop>>

Next ==
  \/ ReadNextTag
  \/ UnknownField
  \/ GroupField
  \/ ReadScalar
  \/ ReadEnum
  \/ ReadText
  \/ ReadPackedFixedField
  \/ EnterPacked
  \/ PackedElement
  \/ PackedFails
  \/ PackedEnum
  \/ LeavePacked
  \/ EnterMessage
  \/ LeaveMessage
  \/ Return

(***************************************************************************)
(* A call runs on the caller's thread until it returns or throws.          *)
(***************************************************************************)
Spec == Init /\ [][Next]_vars /\ WF_vars(Next)

\* The document that dump() prints.
Document == calls[1].json

-----------------------------------------------------------------------------
(***************************************************************************)
(* The position, the limit and the active calls have their types.          *)
(***************************************************************************)
TypeOK ==
  /\ input \in Inputs
  /\ pos \in 0 .. Len(input)
  /\ limit \in 0 .. Len(input)
  /\ calls # << >>
  /\ \A i \in DOMAIN calls :
       /\ calls[i].type \in MessageType
       /\ calls[i].outer \in 0 .. Len(input)
       /\ i > 1 => calls[i].field \in Field
  /\ loop # << >> => loop[1].field \in Field /\ loop[1].outer \in 0 .. Len(input)
  /\ phase \in {"read"} \cup Ended

(***************************************************************************)
(* No call reads beyond the message it was started for: the position stays *)
(* within the limit in force, and that within the limit each active call   *)
(* will restore, whatever the lengths in the input say and whichever reads *)
(* fail without restoring theirs (readField, ReadPackedPrimitive).         *)
(***************************************************************************)
StaysInside ==
  /\ TypeOK
  /\ pos <= limit
  /\ loop # << >> => limit <= loop[1].outer /\ loop[1].outer <= Top.outer
  /\ limit <= Top.outer
  /\ \A i \in DOMAIN calls : \A j \in 1 .. i : calls[i].outer <= calls[j].outer
  /\ calls[1].outer = Len(input)

(***************************************************************************)
(* Every call of readMessage ends, whatever the bytes are.                 *)
(***************************************************************************)
Ends == <>(phase \in Ended)
=============================================================================
