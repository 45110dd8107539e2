----------------------------- MODULE JsonParser -----------------------------
(***************************************************************************)
(* parser::parse of lib/include/json.hpp, which json::parse runs on the    *)
(* document given to serializeMessage: sax_parse_internal, a loop with a   *)
(* stack of its own instead of recursion, reports to json_sax_dom_parser   *)
(* or, if parse was given a callback, to json_sax_dom_callback_parser.     *)
(* accept runs the same loop with json_sax_acceptor; "returned" and        *)
(* "threw" then stand for true and false.                                  *)
(*                                                                         *)
(* The lexer is abstracted to the tokens it returns; a token is a record   *)
(* of its type and its value.  They are chosen one at a time, so that      *)
(* `read' is any sequence of tokens that the parser read.                  *)
(***************************************************************************)
EXTENDS JsonSax

CONSTANTS
  Tokens          \* what get_token may return, end_of_input aside

ScalarTypes == {"literal_null", "literal_true", "literal_false",
                "value_integer", "value_unsigned", "value_float", "value_string"}

TokenTypes == ScalarTypes \cup
  {"begin_object", "end_object", "begin_array", "end_array",
   "name_separator", "value_separator", "parse_error"}

EndOfInput == [type |-> "end_of_input", value |-> ""]

\* A number that strtod turns into infinity.
Infinite == [type |-> "value_float", value |-> "infinity"]

ASSUME TokenAssumption ==
  /\ MaxTokens \in Nat \ {0} /\ MaxRejected \in Nat
  /\ \A t \in Tokens : t.type \in TokenTypes

VARIABLES
  last_token,
  at,             \* where in sax_parse_internal, or "returned", "threw"
  states          \* TRUE for each enclosing array, FALSE for an object

vars == <<read, last_token, at, states, saxVars>>

get_token ==
  \E t \in IF Len(read) < MaxTokens THEN Tokens \cup {EndOfInput} ELSE {EndOfInput} :
    last_token' = t /\ read' = Append(read, t)

NoToken == UNCHANGED <<read, last_token>>

-----------------------------------------------------------------------------
(***************************************************************************)
(* sax_parse_internal.  `at' names the place between two reads of a token: *)
(*   value       the switch over last_token at the head of the loop        *)
(*   opened, opened_array   behind the { or [                              *)
(*   first_colon, colon     behind a key, the first of its object or not   *)
(*   comma_key   behind a comma in an object                               *)
(*   evaluate    a value was parsed: evaluate the state                    *)
(*   in_array, in_object    behind a value there                           *)
(*   end         the value is complete                                     *)
(***************************************************************************)
Places == {"value", "opened", "opened_array", "first_colon", "colon",
           "comma_key", "evaluate", "in_array", "in_object", "end"}

Ended == at \in {"returned", "threw"}

Init ==
  /\ read = << >> /\ last_token = Null.token     \* uninitialized
  /\ at = "start"
  /\ states = << >>
  /\ SaxInit

\* The constructor of the parser reads the first token.
Begin ==
  /\ at = "start" /\ at' = "value"
  /\ get_token
  /\ UNCHANGED <<states, saxVars>>

BeginObject ==
  /\ at = "value" /\ last_token.type = "begin_object"
  /\ start(EmptyObject)
  /\ get_token
  /\ at' = "opened"
  /\ UNCHANGED states

BeginArray ==
  /\ at = "value" /\ last_token.type = "begin_array"
  /\ start(EmptyArray)
  /\ get_token
  /\ at' = "opened_array"
  /\ UNCHANGED states

ScalarValue ==
  /\ at = "value"
  /\ last_token.type \in ScalarTypes /\ last_token # Infinite
  /\ value(Scalar(last_token))
  /\ at' = "evaluate"
  /\ NoToken
  /\ UNCHANGED states

EmptyObjectEnds ==
  /\ at = "opened" /\ last_token.type = "end_object"
  /\ end_object
  /\ at' = "evaluate"
  /\ NoToken
  /\ UNCHANGED states

EmptyArrayEnds ==
  /\ at = "opened_array" /\ last_token.type = "end_array"
  /\ end_array
  /\ at' = "evaluate"
  /\ NoToken
  /\ UNCHANGED states

FirstElement ==
  /\ at = "opened_array" /\ last_token.type # "end_array"
  /\ states' = Append(states, TRUE)
  /\ at' = "value"
  /\ NoToken
  /\ UNCHANGED saxVars

Key ==
  /\ at \in {"opened", "comma_key"} /\ last_token.type = "value_string"
  /\ key(last_token.value)
  /\ get_token
  /\ at' = IF at = "opened" THEN "first_colon" ELSE "colon"
  /\ UNCHANGED states

Colon ==
  /\ at \in {"first_colon", "colon"} /\ last_token.type = "name_separator"
  /\ states' = IF at = "first_colon" THEN Append(states, FALSE) ELSE states
  /\ get_token
  /\ at' = "value"
  /\ UNCHANGED saxVars

Evaluate ==
  /\ at = "evaluate"
  /\ get_token
  /\ at' = IF states = << >> THEN "end"
           ELSE IF Top(states) THEN "in_array" ELSE "in_object"
  /\ UNCHANGED <<states, saxVars>>

Comma ==
  /\ at \in {"in_array", "in_object"} /\ last_token.type = "value_separator"
  /\ get_token
  /\ at' = IF at = "in_array" THEN "value" ELSE "comma_key"
  /\ UNCHANGED <<states, saxVars>>

\* As if the state was not popped at the end of an object.
ContainerEndsUnpopped ==
  /\ \/ at = "in_array" /\ last_token.type = "end_array" /\ end_array
     \/ at = "in_object" /\ last_token.type = "end_object" /\ end_object
  /\ states' = IF at = "in_array" THEN Pop(states) ELSE states
  /\ at' = "evaluate"
  /\ NoToken

ContainerEnds ==
  /\ \/ at = "in_array" /\ last_token.type = "end_array" /\ end_array
     \/ at = "in_object" /\ last_token.type = "end_object" /\ end_object
  /\ states' = Pop(states)
  /\ at' = "evaluate"
  /\ NoToken

\* As if json::parse was not strict.
ReturnAnyway ==
  /\ at = "end"
  /\ at' = "returned"
  /\ NoToken
  /\ UNCHANGED <<states, saxVars>>

Return ==
  /\ at = "end" /\ last_token = EndOfInput
  /\ at' = "returned"
  /\ nodes' = IF nodes[Root] = Discarded THEN OnlyRoot(Null) ELSE nodes
  /\ NoToken
  /\ UNCHANGED <<states, sax, ref_stack, object_element, addresses, callbackVars>>

(***************************************************************************)
(* The tokens that are expected; any other is a parse error.               *)
(***************************************************************************)
Expected ==
  CASE at = "value" -> (ScalarTypes \cup {"begin_object", "begin_array"})
    [] at = "opened" -> {"end_object", "value_string"}
    [] at = "comma_key" -> {"value_string"}
    [] at \in {"first_colon", "colon"} -> {"name_separator"}
    [] at = "in_array" -> {"value_separator", "end_array"}
    [] at = "in_object" -> {"value_separator", "end_object"}
    [] at = "end" -> {"end_of_input"}
    [] OTHER -> TokenTypes \cup {"end_of_input"}

Throw ==
  /\ at \in Places
  /\ \/ last_token.type \notin Expected
     \/ at = "value" /\ last_token = Infinite
  /\ at' = "threw"
  /\ parse_error
  /\ NoToken
  /\ UNCHANGED states

Next ==
  \/ Begin \/ BeginObject \/ BeginArray \/ ScalarValue
  \/ EmptyObjectEnds \/ EmptyArrayEnds \/ FirstElement
  \/ Key \/ Colon \/ Evaluate \/ Comma \/ ContainerEnds
  \/ Return \/ Throw

Spec == Init /\ [][Next]_vars /\ WF_vars(Next)

-----------------------------------------------------------------------------
TypeOK ==
  /\ read \in Seq(Tokens \cup {EndOfInput})
  /\ at \in Places \cup {"start", "returned", "threw"}
  /\ states \in Seq(BOOLEAN)
  /\ Root \in DOMAIN nodes /\ DOMAIN nodes \subseteq 1 .. addresses
  /\ ref_stack \in Seq(0 .. addresses)
  /\ object_element \in 0 .. addresses
  /\ keep_stack \in Seq(BOOLEAN) /\ key_keep_stack \in Seq(BOOLEAN)
  /\ rejected \subseteq DOMAIN read

(***************************************************************************)
(* The parser's stack and those of the consumer that builds the value      *)
(* agree, although each is pushed and popped at places of its own: between *)
(* two values, all have the same containers, and those that are kept are   *)
(* of the same kinds.                                                      *)
(***************************************************************************)
StacksAgree ==
  sax # "acceptor" /\ at \in {"value", "evaluate", "in_array", "in_object",
                              "comma_key", "colon", "end"} =>
    /\ Len(states) = Len(ref_stack)
    /\ sax = "dom_callback_parser" => Len(keep_stack) = Len(ref_stack) + 1
    /\ \A k \in DOMAIN states :
         Kept(ref_stack[k]) => (states[k] <=> nodes[ref_stack[k]].kind = "array")

(***************************************************************************)
(* Every pointer that will be followed points into the value: the          *)
(* enclosing containers stay where they are while their siblings move, and *)
(* the member a value is assigned to still exists, unless the callback has *)
(* rejected the container or the member.  The parser takes the container   *)
(* for what it is, and what is in a rejected container is not kept.        *)
(***************************************************************************)
PointersLive ==
  /\ TypeOK
  /\ StacksAgree
  /\ \A k \in DOMAIN ref_stack :
       Kept(ref_stack[k]) =>
         /\ ref_stack[k] \in DOMAIN nodes
         /\ nodes[ref_stack[k]].kind \in {"array", "object"}
         /\ k > 1 => /\ Kept(ref_stack[k - 1])
                     /\ ref_stack[k] \in Children(nodes, ref_stack[k - 1])
  /\ at = "value" /\ InMember /\ (key_keep_stack # << >> => Top(key_keep_stack)) =>
       object_element \in Children(nodes, Top(ref_stack))
=============================================================================
