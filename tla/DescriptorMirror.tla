-------------------------- MODULE DescriptorMirror --------------------------
(***************************************************************************)
(* The mirror of protobuf's descriptors in lib/src/protofile.cpp: a        *)
(* ProtoFile is built with a ProtoMessage for each message of the file,    *)
(* and each ProtoMessage with its fields, its enumerations and, by         *)
(* recursion, the messages nested in it.  The message type of a field may  *)
(* be any message, that of the field included; it is only built when it is *)
(* asked for, by messageType, and then anew each time.                     *)
(***************************************************************************)
EXTENDS ProtoImporter

VARIABLES
  building,     \* the constructors that run, the innermost last
  protoFile,    \* the messages of the ProtoFile last returned
  message       \* the ProtoMessage its caller has come to

mirrorVars == <<building, protoFile, message>>

-----------------------------------------------------------------------------
(***************************************************************************)
(* Type and Label are numbered like FieldDescriptor's, and cast from them. *)
(***************************************************************************)
Type ==
  [DOUBLE |-> 1, FLOAT |-> 2, INT64 |-> 3, UINT64 |-> 4, INT32 |-> 5,
   FIXED64 |-> 6, FIXED32 |-> 7, BOOL |-> 8, STRING |-> 9, GROUP |-> 10,
   MESSAGE |-> 11, BYTES |-> 12, UINT32 |-> 13, ENUM |-> 14, SFIXED32 |-> 15,
   SFIXED64 |-> 16, SINT32 |-> 17, SINT64 |-> 18]

Label == [OPTIONAL |-> 1, REQUIRED |-> 2, REPEATED |-> 3]

Cast(number, enum) == CHOOSE name \in DOMAIN enum : enum[name] = number

MessageField(d) ==
  [name |-> d.name, type |-> Cast(d.type, Type), label |-> Cast(d.label, Label),
   descriptor |-> d]

\* As if the names were pushed back behind the elements made in advance.
ProtoEnumPushed(d) == [k \in DOMAIN d |-> ""] \o d

ProtoEnum(d) == [k \in DOMAIN d |-> d[k]]

-----------------------------------------------------------------------------
None == [type |-> "none"]

(***************************************************************************)
(* A constructor goes through the types of children in order.              *)
(***************************************************************************)
Constructor(type, children) == [type |-> type, children |-> children, built |-> << >>]

Inner == building[Len(building)]

Child == Inner.children[Len(Inner.built) + 1]

Constructing == building # << >> /\ Len(Inner.built) < Len(Inner.children)

\* As if each field had the mirror of its message made with it.
ChildrenOfFields(d) ==
  LET fields == SelectSeq(d.fields, LAMBDA f : "message" \in DOMAIN f)
  IN  [k \in DOMAIN fields |-> fields[k].message] \o d.nested

Children(d) == d.nested

Construct ==
  /\ Constructing
  /\ building' = Append(building, Constructor(Child, Children(Descriptor[Child])))
  /\ UNCHANGED <<protoFile, message>>

ProtoMessage(type, internal) ==
  [type     |-> type,
   fields   |-> [k \in DOMAIN Descriptor[type].fields |->
                   MessageField(Descriptor[type].fields[k])],
   enums    |-> [k \in DOMAIN Descriptor[type].enums |->
                   ProtoEnum(Descriptor[type].enums[k])],
   internal |-> internal]

Constructed ==
  /\ Len(building) > 1 /\ ~ Constructing
  /\ LET outer == SubSeq(building, 1, Len(building) - 1)
     IN  building' =
           [outer EXCEPT ![Len(outer)].built =
              Append(@, ProtoMessage(Inner.type, Inner.built))]
  /\ UNCHANGED <<protoFile, message>>

MirrorStep == Construct \/ Constructed

MirrorEnds == Len(building) = 1 /\ ~ Constructing

-----------------------------------------------------------------------------
(***************************************************************************)
(* What a caller does with the file it was given: it takes a message of    *)
(* the file, and goes on to the message type of a field.                   *)
(***************************************************************************)
Messages ==
  /\ building = << >>
  /\ \E k \in DOMAIN protoFile : message' = protoFile[k]
  /\ UNCHANGED <<building, protoFile>>

MessageType ==
  /\ building = << >> /\ message # None
  /\ \E k \in DOMAIN message.fields :
       /\ "message" \in DOMAIN message.fields[k].descriptor
       /\ building' = <<Constructor("field", <<message.fields[k].descriptor.message>>)>>
  /\ UNCHANGED <<protoFile, message>>

MessageTypeReturns ==
  /\ MirrorEnds /\ Inner.type = "field"
  /\ message' = Inner.built[1]
  /\ building' = << >>
  /\ UNCHANGED protoFile

Walk == Messages \/ MessageType \/ MessageTypeReturns
=============================================================================
