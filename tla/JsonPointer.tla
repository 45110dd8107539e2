----------------------------- MODULE JsonPointer -----------------------------
(***************************************************************************)
(* json_pointer of lib/include/json.hpp, with the element access of        *)
(* basic_json that it uses.  A C++ reference into a document is a place:   *)
(* the positions of the elements and members that lead there.  Each loop   *)
(* over the reference tokens is a fold of its body over them, from the     *)
(* place of the document itself; an exception is the number json.hpp       *)
(* gives it, and ends the loop.                                            *)
(*                                                                         *)
(* A reference token is a sequence of octets.  Tokens that std::stoi reads *)
(* although they begin with a space or a sign, and indices of more than    *)
(* nine digits, are not modelled.                                          *)
(***************************************************************************)
EXTENDS JsonComparison

Slash == 47
Tilde == 126
Minus == <<45>>
Zero  == 48
One1  == 49

IsDigit(octet) == octet \in Zero .. Zero + 9

EmptyArray  == Array(<< >>)
EmptyObject == Object(<< >>)

NoError == 0

-----------------------------------------------------------------------------
(***************************************************************************)
(* Documents and places in them.                                           *)
(***************************************************************************)
Child(v, k) == IF IsArray(v) THEN v.elements[k] ELSE v.members[k].value

ValueAt(v, place) == FoldLeft(Child, v, place)

RECURSIVE Assign(_, _, _)

\* The document v with what is at the place replaced.
Assign(v, place, new) ==
  IF place = << >> THEN new
  ELSE LET k     == Head(place)
           child == Assign(Child(v, k), Tail(place), new)
       IN  IF IsArray(v) THEN [v EXCEPT !.elements[k] = child]
           ELSE [v EXCEPT !.members[k].value = child]

Keys(v)      == {v.members[k].key : k \in DOMAIN v.members}
Find(v, key) == CHOOSE k \in DOMAIN v.members : v.members[k].key = key
Get(v, key)  == v.members[Find(v, key)].value

(***************************************************************************)
(* operator[] and erase of an object, operator[] of an array: what is not  *)
(* there is inserted as null, into the order of keys or with all the       *)
(* elements before it.                                                     *)
(***************************************************************************)
WithKey(v, key) ==
  LET m == IF IsObject(v) THEN v.members ELSE << >>
  IN  IF IsObject(v) /\ key \in Keys(v) THEN v
      ELSE Object(InsertAt(m, 1 + Len(SelectSeq(m, LAMBDA n : TextLess(n.key, key))),
                           Member(key, Null)))

SetKey(v, key, new) ==
  LET w == WithKey(v, key) IN [w EXCEPT !.members[Find(w, key)].value = new]

EraseKey(v, key) == Object(SelectSeq(v.members, LAMBDA n : n.key # key))

WithIndex(v, index) ==
  LET e == IF IsArray(v) THEN v.elements ELSE << >>
  IN  Array(e \o [k \in 1 .. (IF index < Len(e) THEN 0 ELSE index + 1 - Len(e)) |-> Null])

-----------------------------------------------------------------------------
(***************************************************************************)
(* Tokens and their text.                                                  *)
(***************************************************************************)
RECURSIVE replace_substring(_, _, _)

replace_substring(s, f, t) ==
  IF Len(s) < Len(f) THEN s
  ELSE IF IsPrefix(f, s)
  THEN t \o replace_substring(SubSeq(s, Len(f) + 1, Len(s)), f, t)
  ELSE <<s[1]>> \o replace_substring(Tail(s), f, t)

\* The other order, which makes ~01 of the key /.
EscapeSlashFirst(s) ==
  replace_substring(replace_substring(s, <<Slash>>, <<Tilde, One1>>),
                    <<Tilde>>, <<Tilde, Zero>>)

escape(s) ==
  replace_substring(replace_substring(s, <<Tilde>>, <<Tilde, Zero>>),
                    <<Slash>>, <<Tilde, One1>>)

unescape(s) ==
  replace_substring(replace_substring(s, <<Tilde, One1>>, <<Slash>>),
                    <<Tilde, Zero>>, <<Tilde>>)

to_string(number) ==
  LET digits == dump_integer(number)
  IN  [k \in DOMAIN digits |-> Zero + ValueOf(digits[k])]

Tokens(s) ==
  LET slashes == SelectSeq([k \in 1 .. Len(s) + 1 |-> k],
                           LAMBDA k : k = Len(s) + 1 \/ s[k] = Slash)
  IN  [n \in 1 .. Len(slashes) - 1 |-> SubSeq(s, slashes[n] + 1, slashes[n + 1] - 1)]

ProperlyEscaped(token) ==
  \A k \in DOMAIN token :
    token[k] = Tilde => k < Len(token) /\ token[k + 1] \in {Zero, One1}

split(s) ==
  LET texts == Tokens(s)
  IN  IF s # << >> /\ s[1] # Slash THEN [error |-> 107]
      ELSE IF \E n \in DOMAIN texts : ~ ProperlyEscaped(texts[n]) THEN [error |-> 108]
      ELSE [error |-> NoError, tokens |-> [n \in DOMAIN texts |-> unescape(texts[n])]]

(***************************************************************************)
(* std::stoi fails without a digit, array_index if it does not read all.   *)
(***************************************************************************)
array_index(token) ==
  IF token = << >> \/ ~ IsDigit(token[1]) THEN [error |-> 109]
  ELSE IF \E k \in DOMAIN token : ~ IsDigit(token[k]) THEN [error |-> 404]
  ELSE [error |-> NoError,
        index |-> FoldLeft(LAMBDA sum, octet : 10 * sum + octet - Zero, 0, token)]

LeadingZero(token) == Len(token) > 1 /\ token[1] = Zero

-----------------------------------------------------------------------------
(***************************************************************************)
(* What a loop over the tokens carries: the document, which some of the    *)
(* loops change, and the place that ptr points to.                         *)
(***************************************************************************)
Start(v)        == [error |-> NoError, document |-> v, place |-> << >>]
Throw(at, e)    == [at EXCEPT !.error = e]
Down(at, k)     == [at EXCEPT !.place = Append(@, k)]
Pointed(at)     == ValueAt(at.document, at.place)
Become(at, new) == [at EXCEPT !.document = Assign(@, at.place, new)]

DownKey(at, v, key) ==
  LET w == WithKey(v, key) IN Down(Become(at, w), Find(w, key))

DownIndex(at, v, index) == Down(Become(at, WithIndex(v, index)), index + 1)

Walk(Step(_, _), v, tokens) ==
  FoldLeft(LAMBDA at, token : IF at.error = NoError THEN Step(at, token) ELSE at,
           Start(v), tokens)

(***************************************************************************)
(* at(): nothing is created.                                               *)
(***************************************************************************)
StepChecked(at, token) ==
  LET v == Pointed(at)
      i == array_index(token)
  IN  CASE IsObject(v) ->
             IF token \in Keys(v) THEN Down(at, Find(v, token)) ELSE Throw(at, 403)
        [] IsArray(v) ->
             IF token = Minus THEN Throw(at, 402)
             ELSE IF LeadingZero(token) THEN Throw(at, 106)
             ELSE IF i.error # NoError THEN Throw(at, i.error)
             ELSE IF i.index >= Len(v.elements) THEN Throw(at, 401)
             ELSE Down(at, i.index + 1)
        [] OTHER -> Throw(at, 404)

get_checked(v, tokens) == Walk(StepChecked, v, tokens)

(***************************************************************************)
(* operator[]: a null becomes an array or an object, a missing member or   *)
(* element is created.                                                     *)
(***************************************************************************)
StepUnchecked(at, token) ==
  LET v    == Pointed(at)
      nums == \A k \in DOMAIN token : IsDigit(token[k])
      w    == IF v # Null THEN v
              ELSE IF nums \/ token = Minus THEN EmptyArray ELSE EmptyObject
      i    == array_index(token)
  IN  CASE IsObject(w) -> DownKey(at, w, token)
        [] IsArray(w) ->
             IF LeadingZero(token) THEN Throw(at, 106)
             ELSE IF token = Minus THEN DownIndex(at, w, Len(w.elements))
             ELSE IF i.error # NoError THEN Throw(at, i.error)
             ELSE DownIndex(at, w, i.index)
        [] OTHER -> Throw(at, 404)

get_unchecked(v, tokens) == Walk(StepUnchecked, v, tokens)

(***************************************************************************)
(* unflatten: 0 below a null makes it an array, any other token an object. *)
(***************************************************************************)
StepCreating(at, token) ==
  LET v == Pointed(at)
      i == array_index(token)
  IN  CASE v = Null /\ token = <<Zero>> -> DownIndex(at, v, 0)
        [] v = Null \/ IsObject(v)      -> DownKey(at, v, token)
        [] IsArray(v) -> IF i.error # NoError THEN Throw(at, i.error)
                         ELSE DownIndex(at, v, i.index)
        [] OTHER -> Throw(at, 313)

get_and_create(v, tokens) == Walk(StepCreating, v, tokens)

(***************************************************************************)
(* contains: the loop ends when it knows that there is nothing; that is no *)
(* error, and 1 stands for it.                                             *)
(***************************************************************************)
Absent == 1

\* As if the index was compared with the size the wrong way.
StepContainsOneMore(at, token) ==
  LET v == Pointed(at)
      i == array_index(token)
  IN  CASE IsObject(v) ->
             IF token \in Keys(v) THEN Down(at, Find(v, token)) ELSE Throw(at, Absent)
        [] IsArray(v) ->
             IF token = Minus THEN Throw(at, Absent)
             ELSE IF LeadingZero(token) THEN Throw(at, 106)
             ELSE IF i.error # NoError THEN Throw(at, i.error)
             ELSE IF i.index + 1 >= Len(v.elements) THEN Throw(at, Absent)
             ELSE Down(at, i.index + 1)
        [] OTHER -> Throw(at, Absent)

StepContains(at, token) ==
  LET v == Pointed(at)
      i == array_index(token)
  IN  CASE IsObject(v) ->
             IF token \in Keys(v) THEN Down(at, Find(v, token)) ELSE Throw(at, Absent)
        [] IsArray(v) ->
             IF token = Minus THEN Throw(at, Absent)
             ELSE IF LeadingZero(token) THEN Throw(at, 106)
             ELSE IF i.error # NoError THEN Throw(at, i.error)
             ELSE IF i.index >= Len(v.elements) THEN Throw(at, Absent)
             ELSE Down(at, i.index + 1)
        [] OTHER -> Throw(at, Absent)

contains(v, tokens) == Walk(StepContains, v, tokens).error

-----------------------------------------------------------------------------
RECURSIVE Flattened(_, _)

\* The members that flatten adds to its result, in the order it does so.
Flattened(reference_string, v) ==
  LET below(token) == reference_string \o <<Slash>> \o token
  IN  CASE IsArray(v) /\ v.elements # << >> ->
             FlattenSeq([k \in DOMAIN v.elements |->
                           Flattened(below(to_string(k - 1)), v.elements[k])])
        [] IsObject(v) /\ v.members # << >> ->
             FlattenSeq([k \in DOMAIN v.members |->
                           Flattened(below(escape(v.members[k].key)),
                                     v.members[k].value)])
        [] IsArray(v) \/ IsObject(v) -> <<Member(reference_string, Null)>>
        [] OTHER -> <<Member(reference_string, v)>>

flatten(v) ==
  FoldLeft(LAMBDA object, m : SetKey(object, m.key, m.value),
           EmptyObject, Flattened(<< >>, v))

UnflattenMember(at, m) ==
  LET ptr  == split(m.key)
      into == get_and_create(at.document, ptr.tokens)
  IN  IF at.error # NoError THEN at
      ELSE IF IsArray(m.value) \/ IsObject(m.value) THEN Throw(at, 315)
      ELSE IF ptr.error # NoError THEN Throw(at, ptr.error)
      ELSE IF into.error # NoError THEN Throw(at, into.error)
      ELSE Start(Assign(into.document, into.place, m.value))

unflatten(v) ==
  IF ~ IsObject(v) THEN Throw(Start(v), 314)
  ELSE FoldLeft(UnflattenMember, Start(Null), v.members)
=============================================================================
