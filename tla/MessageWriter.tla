---------------------------- MODULE MessageWriter ----------------------------
(***************************************************************************)
(* ProtoMessageSerializer::serializeMessage: it validates the document,    *)
(* adds up the size of the message (calculateMessageSize), allocates a     *)
(* string of that size and writes the message into it (writeMessage).      *)
(* Both passes recurse into the MESSAGE fields with a serializer for the   *)
(* nested type; the recursion is an explicit stack here, one step per      *)
(* value visited, call or return.                                          *)
(***************************************************************************)
EXTENDS ProtobufEncoding

CONSTANTS
  Root,      \* the message type the serializer was constructed with
  Docs,      \* the documents serializeMessage is called with
  IntMax     \* INT_MAX, the largest message protobuf allows

ASSUME WriterAssumption ==
  /\ Root \in MessageType
  /\ Docs \subseteq Json
  /\ IntMax \in Nat

VARIABLES
  doc,       \* the parsed JSON document
  phase,     \* the step of serializeMessage that is running, or how it ended
  stack,     \* the active calls of calculateMessageSize or of writeMessage
  sized,     \* total_size at each point calculateMessageSize has reached
  total,     \* the size of the allocated output
  output     \* the bytes from the start of the output to `target'

vars == <<doc, phase, stack, sized, total, output>>

Ended  == {"returned", "InvalidMessage", "NotImplementedField", "type_error",
           "corrupted"}
Phases == {"validate", "size", "write"} \cup Ended

(***************************************************************************)
(* Where a call's loops stand: its message type and JSON value, the index  *)
(* of the field and the index of the element within the field's values.    *)
(***************************************************************************)
Point(type, value, field, elem) ==
  [type |-> type, value |-> value, field |-> field, elem |-> elem]

Start(type, value) == Point(type, value, 1, 1)
End(type, value)   == Point(type, value, Len(Schema[type]) + 1, 1)

AtEnd(p)      == p.field > Len(Schema[p.type])
FieldAt(p)    == Schema[p.type][p.field]
ValuesAt(p)   == Visited(FieldAt(p), p.value)
HasValue(p)   == ~ AtEnd(p) /\ p.elem <= Len(ValuesAt(p))
ValueAt(p)    == ValuesAt(p)[p.elem]
NextValue(p)  == Point(p.type, p.value, p.field, p.elem + 1)
NextField(p)  == Point(p.type, p.value, p.field + 1, 1)

(***************************************************************************)
(* A call is a point and, for writeMessage, the offset its output starts   *)
(* at.                                                                     *)
(***************************************************************************)
Call(p, start) == [at |-> p, start |-> start]

Top    == stack[Len(stack)]
Caller == stack[Len(stack) - 1]
At     == Top.at

Callers(s)    == SubSeq(s, 1, Len(s) - 1)
Push(call)    == stack' = Append(stack, call)
MoveTo(p)     == stack' = [stack EXCEPT ![Len(stack)].at = p]
ReturnTo(p)   == stack' = [Callers(stack) EXCEPT ![Len(stack) - 1].at = p]

(***************************************************************************)
(* total_size is n at point p.  The calls nested at the same point compute *)
(* the same sizes, so a table of points is enough.                         *)
(***************************************************************************)
SizeAt(p, n) ==
  sized' = [q \in DOMAIN sized \cup {p} |-> IF q = p THEN n ELSE sized[q]]

(***************************************************************************)
(* What calculateMessageSize(value) returns, once it has been computed.    *)
(***************************************************************************)
MessageSize(type, value) == sized[End(type, value)]

-----------------------------------------------------------------------------
(***************************************************************************)
(* calculateFieldSize, for a field that is not a MESSAGE.  A scalar zero   *)
(* takes no space, nor does an empty text; the length of a BYTES field is  *)
(* that of the text's base64 encoding.                                     *)
(***************************************************************************)
Base64Length(n) == 4 * ((n + 2) \div 3)

FieldSize(f, v) ==
  CASE f.type = "STRING" /\ TextBytes[v.text] # << >> ->
         TagSize(f.number) + LengthDelimitedSize(Len(TextBytes[v.text]))
    [] f.type = "BYTES" /\ TextBytes[v.text] # << >> ->
         TagSize(f.number)
           + LengthDelimitedSize(Base64Length(Len(TextBytes[v.text])))
    [] f.type \in VarintTypes /\ ScalarValue(f, v) # 0 ->
         TagSize(f.number) + VarintSize(VarintValue(f.type, ScalarValue(f, v)))
    [] f.type \in FixedTypes /\ ScalarValue(f, v) # 0 ->
         TagSize(f.number) + FixedSize(f.type)
    [] OTHER -> 0

(***************************************************************************)
(* writeMessageField, for a field that is not a MESSAGE.  A STRING is      *)
(* written even if it is empty, a BYTES field holds the decoded text.      *)
(***************************************************************************)
FieldBytes(f, v) ==
  CASE f.type = "STRING" ->
         TagBytes(f.number, f.type) \o LengthDelimitedBytes(TextBytes[v.text])
    [] f.type = "BYTES" /\ DecodedBytes[v.text] # << >> ->
         TagBytes(f.number, f.type) \o LengthDelimitedBytes(DecodedBytes[v.text])
    [] f.type \in VarintTypes /\ ScalarValue(f, v) # 0 ->
         TagBytes(f.number, f.type)
           \o VarintBytes(VarintValue(f.type, ScalarValue(f, v)))
    [] f.type \in FixedTypes /\ ScalarValue(f, v) # 0 ->
         TagBytes(f.number, f.type) \o FixedBytes(f.type, ScalarValue(f, v))
    [] OTHER -> << >>

\* As if a length always took one byte.
PrefixSizeOfShortLength(f, size) == TagSize(f.number) + 1

\* As if the tag of a nested message was not counted.
PrefixSizeWithoutTag(f, size) == VarintSize(size)

(***************************************************************************)
(* The tag and length prefix of a nested message of the given size.        *)
(***************************************************************************)
PrefixSize(f, size) == TagSize(f.number) + VarintSize(size)

\* As if a length was written as one byte.
PrefixBytesOfShortLength(f, size) == TagBytes(f.number, f.type) \o <<size>>

PrefixBytes(f, size) == TagBytes(f.number, f.type) \o VarintBytes(size)

-----------------------------------------------------------------------------
Init ==
  /\ doc \in Docs
  /\ phase = "validate"
  /\ stack = << >>
  /\ sized = [p \in {} |-> 0]
  /\ total = 0
  /\ output = << >>

(***************************************************************************)
(* validateJsonMessage, on the fields of the outermost message only.       *)
(***************************************************************************)
Mismatch(f, v) ==
  \/ v.kind \in {"boolean", "number"} /\ f.type \in {"BYTES", "MESSAGE", "GROUP"}
  \/ v.kind = "string" /\ f.type \in {"MESSAGE", "GROUP"}
  \/ v.kind = "object" /\ f.type # "MESSAGE"
  \/ v.kind = "array" /\ f.label # "REPEATED"

Refused(f, v) ==
  IF HasMember(f, v) THEN Mismatch(f, Member(f, v)) ELSE f.label = "REQUIRED"

Valid(type, v) == \A i \in 1 .. Len(Schema[type]) : ~ Refused(Schema[type][i], v)

Reject ==
  /\ phase = "validate"
  /\ ~ Valid(Root, doc)
  /\ phase' = "InvalidMessage"
  /\ UNCHANGED <<doc, stack, sized, total, output>>

Accept ==
  /\ phase = "validate"
  /\ Valid(Root, doc)
  /\ phase' = "size"
  /\ stack' = <<Call(Start(Root, doc), 0)>>
  /\ SizeAt(Start(Root, doc), 0)
  /\ UNCHANGED <<doc, total, output>>

-----------------------------------------------------------------------------
(***************************************************************************)
(* A value that cannot be converted, or a GROUP field, throws out of       *)
(* whichever pass meets it.                                                *)
(***************************************************************************)
Throws(f, v) == f.type = "GROUP" \/ ~ Converts(f, v)

Throw ==
  /\ phase \in {"size", "write"}
  /\ HasValue(At)
  /\ Throws(FieldAt(At), ValueAt(At))
  /\ phase' = IF FieldAt(At).type = "GROUP" THEN "NotImplementedField"
                                            ELSE "type_error"
  /\ UNCHANGED <<doc, stack, sized, total, output>>

(***************************************************************************)
(* calculateMessageSize.                                                   *)
(***************************************************************************)
SizeNextField ==
  /\ phase = "size"
  /\ ~ AtEnd(At)
  /\ ~ HasValue(At)
  /\ MoveTo(NextField(At))
  /\ SizeAt(NextField(At), sized[At])
  /\ UNCHANGED <<doc, phase, total, output>>

\* As if calculateFieldSize had no default case.
SizeFieldIgnoresGroup ==
  /\ phase = "size"
  /\ HasValue(At)
  /\ FieldAt(At).type # "MESSAGE"
  /\ FieldAt(At).type = "GROUP" \/ ~ Throws(FieldAt(At), ValueAt(At))
  /\ MoveTo(NextValue(At))
  /\ SizeAt(NextValue(At), sized[At] + FieldSize(FieldAt(At), ValueAt(At)))
  /\ UNCHANGED <<doc, phase, total, output>>

\* As if the size was assigned, not added.
SizeFieldAssigns ==
  /\ phase = "size"
  /\ HasValue(At)
  /\ FieldAt(At).type # "MESSAGE"
  /\ ~ Throws(FieldAt(At), ValueAt(At))
  /\ MoveTo(NextValue(At))
  /\ SizeAt(NextValue(At), FieldSize(FieldAt(At), ValueAt(At)))
  /\ UNCHANGED <<doc, phase, total, output>>

SizeField ==
  /\ phase = "size"
  /\ HasValue(At)
  /\ FieldAt(At).type # "MESSAGE"
  /\ ~ Throws(FieldAt(At), ValueAt(At))
  /\ MoveTo(NextValue(At))
  /\ SizeAt(NextValue(At), sized[At] + FieldSize(FieldAt(At), ValueAt(At)))
  /\ UNCHANGED <<doc, phase, total, output>>

SizeCall ==
  /\ phase = "size"
  /\ HasValue(At)
  /\ FieldAt(At).type = "MESSAGE"
  /\ Push(Call(Start(FieldAt(At).message, ValueAt(At)), 0))
  /\ SizeAt(Start(FieldAt(At).message, ValueAt(At)), 0)
  /\ UNCHANGED <<doc, phase, total, output>>

SizeReturn ==
  /\ phase = "size"
  /\ AtEnd(At)
  /\ Len(stack) > 1
  /\ LET p == Caller.at
     IN  /\ ReturnTo(NextValue(p))
         /\ SizeAt(NextValue(p),
                   sized[p] + PrefixSize(FieldAt(p), sized[At]) + sized[At])
  /\ UNCHANGED <<doc, phase, total, output>>

(***************************************************************************)
(* The check against INT_MAX, output.resize and the call of writeMessage.  *)
(***************************************************************************)
TooLarge ==
  /\ phase = "size"
  /\ AtEnd(At)
  /\ Len(stack) = 1
  /\ sized[At] > IntMax
  /\ phase' = "InvalidMessage"
  /\ UNCHANGED <<doc, stack, sized, total, output>>

\* As if the size was not checked.
AllocateUnchecked ==
  /\ phase = "size"
  /\ AtEnd(At)
  /\ Len(stack) = 1
  /\ phase' = "write"
  /\ total' = sized[At]
  /\ stack' = <<Call(Start(Root, doc), 0)>>
  /\ UNCHANGED <<doc, sized, output>>

Allocate ==
  /\ phase = "size"
  /\ AtEnd(At)
  /\ Len(stack) = 1
  /\ sized[At] <= IntMax
  /\ phase' = "write"
  /\ total' = sized[At]
  /\ stack' = <<Call(Start(Root, doc), 0)>>
  /\ UNCHANGED <<doc, sized, output>>

-----------------------------------------------------------------------------
(***************************************************************************)
(* writeMessage.                                                           *)
(***************************************************************************)
WriteNextField ==
  /\ phase = "write"
  /\ ~ AtEnd(At)
  /\ ~ HasValue(At)
  /\ MoveTo(NextField(At))
  /\ UNCHANGED <<doc, phase, sized, total, output>>

WriteField ==
  /\ phase = "write"
  /\ HasValue(At)
  /\ FieldAt(At).type # "MESSAGE"
  /\ ~ Throws(FieldAt(At), ValueAt(At))
  /\ output' = output \o FieldBytes(FieldAt(At), ValueAt(At))
  /\ MoveTo(NextValue(At))
  /\ UNCHANGED <<doc, phase, sized, total>>

WriteCall ==
  /\ phase = "write"
  /\ HasValue(At)
  /\ FieldAt(At).type = "MESSAGE"
  /\ LET f      == FieldAt(At)
         v      == ValueAt(At)
         prefix == PrefixBytes(f, MessageSize(f.message, v))
     IN  /\ output' = output \o prefix
         /\ Push(Call(Start(f.message, v), Len(output) + Len(prefix)))
  /\ UNCHANGED <<doc, phase, sized, total>>

WriteReturn ==
  /\ phase = "write"
  /\ AtEnd(At)
  /\ Len(stack) > 1
  /\ ReturnTo(NextValue(Caller.at))
  /\ UNCHANGED <<doc, phase, sized, total, output>>

(***************************************************************************)
(* serializeMessage returns the allocated string.  If the writes went past *)
(* its end the behaviour is undefined: the string may look intact, cut at  *)
(* its allocated size, or the process may have been damaged.               *)
(***************************************************************************)
Return ==
  /\ phase = "write"
  /\ AtEnd(At)
  /\ Len(stack) = 1
  /\ \/ phase' = "returned"
     \/ Len(output) > total /\ phase' = "corrupted"
  /\ UNCHANGED <<doc, stack, sized, total, output>>

(***************************************************************************)
(* The returned string: what was written, then the zeros of resize.        *)
(***************************************************************************)
Result == [i \in 1 .. total |-> IF i <= Len(output) THEN output[i] ELSE 0]

Next ==
  \/ Reject
  \/ Accept
  \/ Throw
  \/ SizeNextField
  \/ SizeField
  \/ SizeCall
  \/ SizeReturn
  \/ TooLarge
  \/ Allocate
  \/ WriteNextField
  \/ WriteField
  \/ WriteCall
  \/ WriteReturn
  \/ Return

(***************************************************************************)
(* A call runs on the caller's thread until it returns or throws.          *)
(***************************************************************************)
Spec == Init /\ [][Next]_vars /\ WF_vars(Next)

-----------------------------------------------------------------------------
Points == [type : MessageType, value : Json, field : Nat \ {0}, elem : Nat \ {0}]
Calls  == [at : Points, start : Nat]

TypeOK ==
  /\ doc \in Docs
  /\ phase \in Phases
  /\ stack \in Seq(Calls)
  /\ DOMAIN sized \subseteq Points
  /\ sized \in [DOMAIN sized -> Nat]
  /\ total \in Nat
  /\ output \in Seq(Octet)

Failures == {"InvalidMessage", "NotImplementedField", "type_error"}

(***************************************************************************)
(* No exception leaves writeMessage: whatever cannot be converted or is    *)
(* not implemented has been met by calculateMessageSize, which visits the  *)
(* same values, before a byte is written.                                  *)
(***************************************************************************)
WritePassNeverThrows == [][phase = "write" => phase' \notin Failures]_vars

(***************************************************************************)
(* writeMessage writes through a raw pointer into the string that          *)
(* serializeMessage allocated, with no bound of its own: every byte it     *)
(* writes must be one that calculateMessageSize has counted.               *)
(***************************************************************************)
WritesWithinBuffer == phase = "write" => Len(output) <= total

(***************************************************************************)
(* When a call of writeMessage reaches its end, it has written exactly     *)
(* what calculateMessageSize returned for it: what the length prefix of a  *)
(* nested message announced, or the whole output of the outermost one.     *)
(***************************************************************************)
PayloadMatchesPrefix ==
  phase = "write" /\ AtEnd(At) =>
    Len(output) - Top.start = MessageSize(At.type, At.value)
-----------------------------------------------------------------------------
Promised  == {d \in Docs : Represents(Root, d) /\ Len(Encoding(Root, d)) <= IntMax}
Forbidden == {d \in Docs : Represents(Root, d) /\ Len(Encoding(Root, d)) > IntMax}

Outcome == IF phase \notin Ended THEN "running"
           ELSE IF phase \in Failures THEN "failed" ELSE "returned"

Answered == IF phase = "returned" THEN Result ELSE << >>

Serializer ==
  INSTANCE Serialization WITH
    Given     <- Docs,
    AnswerTo  <- [d \in Promised |-> Encoding(Root, d)],
    given     <- doc,
    state     <- Outcome,
    answer    <- Answered

(***************************************************************************)
(* serializeMessage implements its promise: it returns the encoding of the *)
(* message a document represents, refuses no such document unless it is    *)
(* too large, and always ends.                                             *)
(***************************************************************************)
KeepsPromise == Serializer!Spec
=============================================================================
