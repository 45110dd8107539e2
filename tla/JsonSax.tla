------------------------------- MODULE JsonSax -------------------------------
(***************************************************************************)
(* The three consumers of the events of the parser of                      *)
(* lib/include/json.hpp: json_sax_dom_parser, which builds the value       *)
(* through raw pointers into the part of it that is already there;         *)
(* json_sax_dom_callback_parser, which also asks a callback at each event  *)
(* whether to keep what was read; and json_sax_acceptor, which only says   *)
(* that it has no objection.                                               *)
(*                                                                         *)
(* The callback's answers are chosen freely.  It is taken not to change    *)
(* the value it is given.                                                  *)
(***************************************************************************)
EXTENDS Integers, Sequences, FiniteSets

CONSTANTS
  MaxTokens,      \* how many tokens precede the end of the input
  MaxRejected     \* how many events the callback rejects at most

KeyOrder == <<"a", "b">>

VARIABLES
  read,           \* the tokens read so far, the events' occasion
  sax,            \* which of the consumers
  nodes,          \* the memory of the value: a node for each address
  ref_stack,      \* pointers to the enclosing containers
  object_element, \* pointer to the member of the key read last
  addresses,      \* the addresses used so far
  keep_stack,     \* whether to keep what is in each container
  key_keep_stack, \* and whether to keep the members of the keys
  rejected        \* the tokens at which the callback said no

domVars == <<nodes, ref_stack, object_element, addresses>>

callbackVars == <<keep_stack, key_keep_stack, rejected>>

saxVars == <<sax, domVars, callbackVars>>

Root    == 1
NullPtr == 0

Scalar(t)   == [kind |-> "scalar", token |-> t]
EmptyArray  == [kind |-> "array", elements |-> << >>]
EmptyObject == [kind |-> "object", members |-> [name \in {} |-> NullPtr]]
Discarded   == [kind |-> "discarded"]
Null        == Scalar([type |-> "literal_null", value |-> ""])

OnlyRoot(v) == [a \in {Root} |-> v]

Top(stack) == stack[Len(stack)]
Pop(stack) == SubSeq(stack, 1, Len(stack) - 1)

SaxInit ==
  /\ sax \in {"dom_parser", "dom_callback_parser", "acceptor"}
  /\ nodes = OnlyRoot(Null) /\ ref_stack = << >>
  /\ object_element = NullPtr /\ addresses = Root
  /\ keep_stack = <<TRUE>> /\ key_keep_stack = << >> /\ rejected = {}

-----------------------------------------------------------------------------
(***************************************************************************)
(* Memory.  An assignment to an existing value frees what it held; a       *)
(* vector that grows beyond its capacity moves its elements to new         *)
(* addresses, so that pointers to them dangle.                             *)
(***************************************************************************)
Children(memory, a) ==
  CASE memory[a].kind = "array" ->
         {memory[a].elements[k] : k \in DOMAIN memory[a].elements}
    [] memory[a].kind = "object" ->
         {memory[a].members[name] : name \in DOMAIN memory[a].members}
    [] OTHER -> {}

\* What is reached from the root is in each set that has it and is closed.
Wholes(memory) ==
  {set \in SUBSET DOMAIN memory :
     Root \in set /\ \A a \in set : Children(memory, a) \subseteq set}

Owned(memory) == {a \in DOMAIN memory : \A set \in Wholes(memory) : a \in set}

Freed(memory) == [a \in Owned(memory) |-> memory[a]]

Container == nodes[Top(ref_stack)]

Fresh == addresses + 1

SetRoot(v) == nodes' = OnlyRoot(v) /\ UNCHANGED addresses

EmplaceBack(v) ==
  \E moves \in BOOLEAN :
    LET old   == Container.elements
        now   == [k \in DOMAIN old |-> IF moves THEN Fresh + k ELSE old[k]]
        grown == [Container EXCEPT !.elements = Append(now, Fresh)]
        \* the addresses behind Fresh are those the elements moved to
        Was(a) == IF a > Fresh THEN old[a - Fresh] ELSE a
    IN  /\ moves => old # << >>
        /\ nodes' = [a \in ((DOMAIN nodes) \ {old[k] : k \in DOMAIN old})
                            \cup {now[k] : k \in DOMAIN now} \cup {Fresh} |->
                      CASE a = Fresh          -> v
                        [] a = Top(ref_stack) -> grown
                        [] OTHER              -> nodes[Was(a)]]
        /\ addresses' = Fresh + (IF moves THEN Len(old) ELSE 0)

AssignElement(v) ==
  /\ nodes' = Freed([nodes EXCEPT ![object_element] = v])
  /\ UNCHANGED addresses

InArray == Container.kind = "array"

\* Where handle_value of either parser stores a value.
Store(v) ==
  IF ref_stack = << >> THEN SetRoot(v)
  ELSE IF InArray THEN EmplaceBack(v)
  ELSE AssignElement(v)

\* As if the address was that of the last element before it was added.
HandledTooEarly ==
  IF ref_stack = << >> THEN Root
  ELSE IF ~ InArray THEN object_element
  ELSE IF Container.elements = << >> THEN Fresh ELSE Top(Container.elements)

\* What handle_value returns: the address of the value it stored.
Handled ==
  IF ref_stack = << >> THEN Root ELSE IF InArray THEN Fresh ELSE object_element

\* operator[] of the object.
MemberOf(name) ==
  IF name \in DOMAIN Container.members THEN Container.members[name] ELSE Fresh

WithMember(name) ==
  IF name \in DOMAIN Container.members THEN nodes
  ELSE LET members == Container.members
           grown   == [a \in (DOMAIN members) \cup {name} |->
                         IF a = name THEN Fresh ELSE members[a]]
       IN  [a \in (DOMAIN nodes) \cup {Fresh} |->
              CASE a = Fresh          -> Null
                [] a = Top(ref_stack) -> [Container EXCEPT !.members = grown]
                [] OTHER              -> nodes[a]]

Inserted(name) ==
  /\ object_element' = MemberOf(name)
  /\ addresses' = IF MemberOf(name) = Fresh THEN Fresh ELSE addresses

-----------------------------------------------------------------------------
(***************************************************************************)
(* json_sax_dom_parser.                                                    *)
(***************************************************************************)
DomValue(v) == Store(v) /\ UNCHANGED <<ref_stack, object_element>>

DomStart(v) ==
  /\ Store(v)
  /\ ref_stack' = Append(ref_stack, Handled)
  /\ UNCHANGED object_element

DomKey(name) ==
  /\ Inserted(name)
  /\ nodes' = WithMember(name)
  /\ UNCHANGED ref_stack

DomEnd ==
  /\ ref_stack' = Pop(ref_stack)
  /\ UNCHANGED <<nodes, object_element, addresses>>

-----------------------------------------------------------------------------
(***************************************************************************)
(* json_sax_dom_callback_parser.  The pointer to a container that is not   *)
(* kept is null.  What the callback rejects becomes a discarded value: at  *)
(* once in an array, when its object, array or key is read in an object.   *)
(***************************************************************************)
Answer(keep) ==
  /\ rejected' = IF keep THEN rejected ELSE rejected \cup {Len(read)}
  /\ Cardinality(rejected') <= MaxRejected

Kept(pointer) == pointer # NullPtr

InKept == ref_stack = << >> \/ Kept(Top(ref_stack))

InMember == ref_stack # << >> /\ Kept(Top(ref_stack)) /\ ~ InArray

Stores(keep) == keep /\ InKept /\ (InMember => Top(key_keep_stack))

handle_value(v, keep) ==
  /\ IF Stores(keep) THEN Store(v) ELSE UNCHANGED <<nodes, addresses>>
  /\ key_keep_stack' = IF keep /\ InMember THEN Pop(key_keep_stack) ELSE key_keep_stack

CallbackValue(v) ==
  /\ IF Top(keep_stack)
     THEN \E keep \in BOOLEAN : Answer(keep) /\ handle_value(v, keep)
     ELSE UNCHANGED <<rejected, nodes, addresses, key_keep_stack>>
  /\ UNCHANGED <<ref_stack, object_element, keep_stack>>

CallbackStart(v) ==
  \E keep \in BOOLEAN :
    /\ Answer(keep)
    /\ handle_value(v, keep)
    /\ keep_stack' = Append(keep_stack, keep)
    /\ ref_stack' = Append(ref_stack, IF Stores(keep) THEN Handled ELSE NullPtr)
    /\ UNCHANGED object_element

CallbackKey(name) ==
  \E keep \in BOOLEAN :
    /\ Answer(keep)
    /\ key_keep_stack' = Append(key_keep_stack, keep)
    /\ IF keep /\ Kept(Top(ref_stack))
       THEN /\ Inserted(name)
            /\ nodes' = Freed([WithMember(name) EXCEPT ![MemberOf(name)] = Discarded])
       ELSE UNCHANGED <<nodes, object_element, addresses>>
    /\ UNCHANGED <<ref_stack, keep_stack>>

(***************************************************************************)
(* A container ends: one that was kept may still be rejected.  Then the    *)
(* end of an array takes a rejected array out of its array, and the end of *)
(* an object takes one discarded member, the first there is, out of its    *)
(* object.                                                                 *)
(***************************************************************************)
Parent == IF Len(ref_stack) > 1 THEN Top(Pop(ref_stack)) ELSE NullPtr

Closing(keep) ==
  /\ IF Kept(Top(ref_stack)) THEN Answer(keep) ELSE keep /\ UNCHANGED rejected
  /\ ref_stack' = Pop(ref_stack)
  /\ keep_stack' = Pop(keep_stack)
  /\ UNCHANGED <<object_element, addresses, key_keep_stack>>

Closed(keep) == IF keep THEN nodes ELSE [nodes EXCEPT ![Top(ref_stack)] = Discarded]

In(kind) == Kept(Parent) /\ nodes[Parent].kind = kind

DiscardedMembers(memory, members) ==
  SelectSeq(KeyOrder, LAMBDA name : /\ name \in DOMAIN members
                                    /\ memory[members[name]].kind = "discarded")

WithoutDiscarded(memory, members) ==
  LET names == DiscardedMembers(memory, members)
  IN  [name \in (DOMAIN members) \ (IF names = << >> THEN {} ELSE {names[1]}) |->
         members[name]]

CallbackEndObject ==
  \E keep \in BOOLEAN :
    /\ Closing(keep)
    /\ LET memory == Closed(keep)
       IN  nodes' = Freed(IF In("object")
                          THEN [memory EXCEPT ![Parent].members = WithoutDiscarded(memory, @)]
                          ELSE memory)

\* As if the end of an array looked for discarded elements after others, too.
EndsArrayAlways ==
  \E keep \in BOOLEAN :
    /\ Closing(keep)
    /\ nodes' = Freed(IF In("array")
                      THEN [Closed(keep) EXCEPT ![Parent].elements = Pop(@)]
                      ELSE Closed(keep))

CallbackEndArray ==
  \E keep \in BOOLEAN :
    /\ Closing(keep)
    /\ nodes' = Freed(IF ~ keep /\ In("array")
                      THEN [Closed(keep) EXCEPT ![Parent].elements = Pop(@)]
                      ELSE Closed(keep))

-----------------------------------------------------------------------------
(***************************************************************************)
(* The events, for each of the consumers.                                  *)
(***************************************************************************)
Builds   == sax = "dom_parser" /\ UNCHANGED <<sax, callbackVars>>
Asks     == sax = "dom_callback_parser" /\ UNCHANGED sax
Accepts  == sax = "acceptor" /\ UNCHANGED saxVars

value(v) == (Builds /\ DomValue(v)) \/ (Asks /\ CallbackValue(v)) \/ Accepts
start(v) == (Builds /\ DomStart(v)) \/ (Asks /\ CallbackStart(v)) \/ Accepts
key(name) == (Builds /\ DomKey(name)) \/ (Asks /\ CallbackKey(name)) \/ Accepts
end_object == (Builds /\ DomEnd) \/ (Asks /\ CallbackEndObject) \/ Accepts
end_array  == (Builds /\ DomEnd) \/ (Asks /\ CallbackEndArray) \/ Accepts

\* parse_error: the exception leaves parse, and the value is destroyed.
parse_error ==
  /\ nodes' = OnlyRoot(Null) /\ ref_stack' = << >>
  /\ UNCHANGED <<sax, object_element, addresses, callbackVars>>
=============================================================================
