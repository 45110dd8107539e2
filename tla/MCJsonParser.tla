---------------------------- MODULE MCJsonParser ----------------------------
(***************************************************************************)
(* The value that the parser built, read off its memory, the tokens that   *)
(* json::dump writes of it, JSON's grammar as a recursive reference, and   *)
(* tokens for TLC.                                                         *)
(***************************************************************************)
EXTENDS JsonParser, SequencesExt

Tok(type)  == [type |-> type, value |-> ""]
Str(text)  == [type |-> "value_string", value |-> text]

BeginO == Tok("begin_object")
EndO   == Tok("end_object")
BeginA == Tok("begin_array")
EndA   == Tok("end_array")
ColonT == Tok("name_separator")
CommaT == Tok("value_separator")

JScalar(t)  == [kind |-> "scalar", token |-> t]
JArray(seq) == [kind |-> "array", elements |-> seq]
JObject(f)  == [kind |-> "object", members |-> f]
NoMembers   == [name \in {} |-> NullPtr]

(***************************************************************************)
(* The value at an address.                                                *)
(***************************************************************************)
RECURSIVE ValueAt(_)

ValueAt(a) ==
  CASE nodes[a].kind = "scalar" -> JScalar(nodes[a].token)
    [] nodes[a].kind = "array" ->
         JArray([k \in DOMAIN nodes[a].elements |-> ValueAt(nodes[a].elements[k])])
    [] nodes[a].kind = "object" ->
         JObject([k \in DOMAIN nodes[a].members |-> ValueAt(nodes[a].members[k])])
    [] OTHER -> Discarded

-----------------------------------------------------------------------------
(***************************************************************************)
(* serializer::dump without pretty printing: the elements, all but the     *)
(* last followed by a comma, and the members in the order of their keys.   *)
(***************************************************************************)
RECURSIVE Dump(_)

\* As if the comma followed the last element, too.
CommaBehind(k, n) == <<CommaT>>

CommaBetween(k, n) == IF k < n THEN <<CommaT>> ELSE << >>

Dump(v) ==
  CASE v.kind = "scalar" -> <<v.token>>
    [] v.kind = "array" ->
         LET n == Len(v.elements)
         IN  <<BeginA>>
               \o FlattenSeq([k \in 1 .. n |->
                                Dump(v.elements[k]) \o CommaBetween(k, n)])
               \o <<EndA>>
    [] v.kind = "object" ->
         LET keys == SelectSeq(KeyOrder, LAMBDA name : name \in DOMAIN v.members)
             n    == Len(keys)
         IN  <<BeginO>>
               \o FlattenSeq([k \in 1 .. n |->
                                <<Str(keys[k]), ColonT>> \o Dump(v.members[keys[k]])
                                  \o CommaBetween(k, n)])
               \o <<EndO>>

-----------------------------------------------------------------------------
MCTokens == {BeginO, EndO, BeginA, EndA, ColonT, CommaT, Str("a"), Str("b"),
             Tok("literal_true"), Infinite, Tok("parse_error")}

-----------------------------------------------------------------------------
(***************************************************************************)
(* RFC 8259: the values that the tokens ts stand for, none or one.  The    *)
(* last of several members with the same name counts.                      *)
(***************************************************************************)
RECURSIVE Values(_), ElementLists(_), MemberMaps(_)

Inner(ts) == SubSeq(ts, 2, Len(ts) - 1)
First(ts, k) == SubSeq(ts, 1, k)
From(ts, k)  == SubSeq(ts, k, Len(ts))

Commas(ts) == {k \in DOMAIN ts : ts[k] = CommaT}

Values(ts) ==
  IF ts = << >> THEN {}
  ELSE IF Len(ts) = 1
  THEN {JScalar(t) : t \in {u \in {ts[1]} : u.type \in ScalarTypes /\ u # Infinite}}
  ELSE IF ts[1] = BeginA /\ ts[Len(ts)] = EndA
  THEN {JArray(seq) : seq \in IF Len(ts) = 2 THEN {<< >>} ELSE ElementLists(Inner(ts))}
  ELSE IF ts[1] = BeginO /\ ts[Len(ts)] = EndO
  THEN {JObject(f) : f \in IF Len(ts) = 2 THEN {NoMembers}
                           ELSE MemberMaps(Inner(ts))}
  ELSE {}

ElementLists(ts) ==
  {<<v>> : v \in Values(ts)}
    \cup UNION {{Append(seq, v) : seq \in ElementLists(First(ts, k - 1)),
                                  v \in Values(From(ts, k + 1))} : k \in Commas(ts)}

Members(ts) ==
  IF Len(ts) > 2 /\ ts[1].type = "value_string" /\ ts[2] = ColonT
  THEN {ts[1].value :> v : v \in Values(From(ts, 3))} ELSE {}

MemberMaps(ts) ==
  Members(ts)
    \cup UNION {{m @@ f : f \in MemberMaps(First(ts, k - 1)),
                          m \in Members(From(ts, k + 1))} : k \in Commas(ts)}

-----------------------------------------------------------------------------
(***************************************************************************)
(* Whether ts can be continued to a text: by a value, a member or the rest *)
(* of one if need be, and the closing brackets.                            *)
(***************************************************************************)
Closers(ts) ==
  FoldLeft(LAMBDA open, t :
             CASE t = BeginA -> <<EndA>> \o open
               [] t = BeginO -> <<EndO>> \o open
               [] t \in {EndA, EndO} /\ open # << >> -> Tail(open)
               [] OTHER -> open, << >>, ts)

Value == <<Tok("literal_true")>>

CanContinue(ts) ==
  \E rest \in {<< >>, Value, <<ColonT>> \o Value, <<Str("a"), ColonT>> \o Value} :
    Values(ts \o rest \o Closers(ts)) # {}

Text == IF last_token = EndOfInput THEN First(read, Len(read) - 1) ELSE read

(***************************************************************************)
(* The documentation of parser_callback_t: what the callback rejects is    *)
(* skipped, as if it was never read.  `i' and `j' are the first and the    *)
(* last token of a value, of elements or of members.                       *)
(***************************************************************************)
RECURSIVE KeptValues(_, _)

Depth(i, k) ==
  Cardinality({n \in i .. k : Text[n] \in {BeginA, BeginO}})
    - Cardinality({n \in i .. k : Text[n] \in {EndA, EndO}})

\* The first and the last token of each element or member between i and j.
Slices(i, j) ==
  LET commas == SelectSeq([n \in 1 .. j - i + 1 |-> i + n - 1],
                          LAMBDA k : Text[k] = CommaT /\ Depth(i, k) = 0)
      ends   == Append(commas, j + 1)
  IN  IF i > j THEN << >>
      ELSE [n \in DOMAIN ends |->
              <<IF n = 1 THEN i ELSE ends[n - 1] + 1, ends[n] - 1>>]

\* None, or one.
KeptValues(i, j) ==
  LET slices == Slices(i + 1, j - 1)
  IN  IF {i, j} \cap rejected # {} THEN {}
      ELSE IF i = j THEN {JScalar(Text[i])}
      ELSE IF Text[i] = BeginA
      THEN {JArray(FlattenSeq([n \in DOMAIN slices |->
                     SetToSeq(KeptValues(slices[n][1], slices[n][2]))]))}
      ELSE LET keys == {n \in DOMAIN slices : slices[n][1] \notin rejected}
               last == {n \in keys : \A k \in keys :
                          Text[slices[k][1]] = Text[slices[n][1]] => k <= n}
               ValuesOf(n) == KeptValues(slices[n][1] + 2, slices[n][2])
               NameOf(n)   == Text[slices[n][1]].value
               held == {n \in last : ValuesOf(n) # {}}
           IN  {JObject([name \in {NameOf(n) : n \in held} |->
                  CHOOSE v \in ValuesOf(CHOOSE n \in held : NameOf(n) = name) : TRUE])}

\* A value without the discarded values that are left in it.
RECURSIVE WithoutRests(_)

WithoutRests(v) ==
  LET Remains(w) == w.kind # "discarded"
  IN  CASE v.kind = "array" ->
             JArray([k \in DOMAIN SelectSeq(v.elements, Remains) |->
                       WithoutRests(SelectSeq(v.elements, Remains)[k])])
        [] v.kind = "object" ->
             JObject([name \in {n \in DOMAIN v.members : Remains(v.members[n])} |->
                        WithoutRests(v.members[name])])
        [] OTHER -> v

\* What parse returns in place of no value.
OrNull(values) == IF values = {} THEN {JScalar(Tok("literal_null"))} ELSE values

(***************************************************************************)
(* parse returns, and accept accepts, exactly the texts of the grammar.    *)
(* Both give up at the first token with which the text cannot be one.      *)
(* What parse returns is the value the text stands for; with a callback,   *)
(* it is this value without what the callback rejected, but for discarded  *)
(* values that are left in it.                                             *)
(***************************************************************************)
ParsesGrammar ==
  /\ at = "returned" =>
       CASE sax = "dom_parser" -> Values(Text) = {ValueAt(Root)}
         [] sax = "acceptor"   -> Values(Text) # {}
         [] OTHER -> /\ rejected = {} => Values(Text) = {ValueAt(Root)}
                     /\ Values(Text) # {}
                     /\ OrNull(KeptValues(1, Len(Text))) = {WithoutRests(ValueAt(Root))}
  /\ at = "threw" =>
       IF last_token = EndOfInput THEN Values(Text) = {} ELSE ~ CanContinue(Text)

(***************************************************************************)
(* What dump writes of a parsed value is a text for the same value.        *)
(***************************************************************************)
DumpIsInverse ==
  at = "returned" /\ rejected = {} => Values(Dump(ValueAt(Root))) = {ValueAt(Root)}
=============================================================================
