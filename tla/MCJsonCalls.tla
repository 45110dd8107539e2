---------------------------- MODULE MCJsonCalls ----------------------------
(***************************************************************************)
(* Values, pointers and patches for calls, the RFCs' definitions of what   *)
(* the calls do as references, and what may be expected of the calls.      *)
(***************************************************************************)
EXTENDS JsonCalls, FiniteSets

-----------------------------------------------------------------------------
(***************************************************************************)
(* Numbers to scan and to dump.                                            *)
(***************************************************************************)
Characters == {"0", "7", "-", "+", ".", "e", ","}

MCTexts == UNION {[1 .. n -> Characters] : n \in 1 .. 6}

Powers == {10 ^ k : k \in 0 .. 4}

MCNumbers == {0, 65535, 32767, -32768, 12345, -32767, 907}
               \cup UNION {{p, p - 1, p + 1, -p, 1 - p, -p - 1} : p \in Powers}

-----------------------------------------------------------------------------
(***************************************************************************)
(* Values to compare, strings being texts of up to two octets.             *)
(***************************************************************************)
a == <<97>>
b == <<98>>

Scalars ==
  {Null, Truth(TRUE), Truth(FALSE), Text(<< >>), Text(a), Text(a \o b), Text(b)}
    \cup {Integer(n) : n \in {-32768, -1, 0, 1, 32767}}
    \cup {Natural(n) : n \in {0, 1, 32767, 32768, 65535}}
    \cup {Float(n) : n \in {-10, -1, 0, 1, 2, 3, 9, 10, 11, 327670, 655350}}

Some == {Null, Integer(-1), Integer(1), Natural(1), Float(10), Float(11), Float(14),
         Natural(65535), Text(a)}

MCComparable ==
  Scalars \cup {Array(<< >>), Object(<< >>)}
    \cup {Array(<<v>>) : v \in Some} \cup {Array(<<v, w>>) : v, w \in Some}
    \cup {Object(<<Member(a, v)>>) : v \in Some}
    \cup {Object(<<Member(a, v), Member(b, w)>>) : v, w \in Some}
    \cup {Object(<<Member(b, v)>>) : v \in Some}

(***************************************************************************)
(* Documents: with the octets ~ and / in keys, with keys that look like    *)
(* indices, with an index of two digits, and nested.                       *)
(***************************************************************************)
Leaf == {Null, Natural(1), Text(a)}

Odd1 == <<Slash>>
Odd2 == <<Tilde>>
Odd3 == <<Tilde, One1>>
Key1 == <<One1>>

Shallow ==
  {EmptyArray, EmptyObject, Array([k \in 1 .. 11 |-> Natural(k)])}
    \cup {Array(<<v>>) : v \in Leaf} \cup {Array(<<v, w>>) : v, w \in {Natural(1), Text(a)}}
    \cup {Array(<<Natural(2), Natural(1), Text(a), Natural(1)>>)}
    \cup {Object(<<Member(k, Natural(1))>>) : k \in {a, b, << >>, Odd1, Odd2, Odd3, Key1}}
    \cup {Object(<<Member(Odd1, v), Member(Odd2, w)>>) : v, w \in Leaf}

MCDocuments ==
  Leaf \cup Shallow
    \cup {Array(<<Natural(1), v>>) : v \in Shallow}
    \cup {Object(<<Member(a, v)>>) : v \in Shallow}
    \cup {Object(<<Member(a, v), Member(b, Null)>>) : v \in Shallow}
    \cup {Object(<<Member(Odd1, Array(<<v, Natural(1)>>)), Member(Odd3, v)>>) : v \in Shallow}

-----------------------------------------------------------------------------
Path(tokens) == FlattenSeq([k \in DOMAIN tokens |-> <<Slash>> \o tokens[k]])

TokenTexts == {<< >>, a, b, <<Zero>>, <<One1>>, Minus, <<Zero, One1>>, <<One1, 97>>,
               <<Tilde, Zero>>, <<Tilde, One1>>, <<Tilde, Zero, One1>>, <<Tilde>>,
               <<One1, Zero>>, <<One1, One1>>, <<50>>}

MCPointers ==
  {<< >>, a} \cup {Path(<<s>>) : s \in TokenTexts}
    \cup {Path(<<s, t>>) : s, t \in TokenTexts}

Op(name, path) == <<Member(OpKey, Text(name)), Member(PathKey, Text(path))>>

OpWithValue(name, path, v) == WithValue(name, path, v)

OpFrom(name, from, path) ==
  Object(<<Member(FromKey, Text(from))>> \o Op(name, path))

Paths ==
  {<< >>} \cup {Path(<<s>>) : s \in {a, <<Zero>>, <<One1>>, Minus, <<Tilde, One1>>, <<Zero, One1>>}}
    \cup {Path(<<a, s>>) : s \in {a, <<Zero>>, <<One1>>, Minus, <<One1, 97>>}}
    \cup {Path(<<<<One1>>, s>>) : s \in {a, <<Zero>>, <<One1>>}}

\* Operations that are no operations.
Malformed ==
  {Natural(1), EmptyObject, Object(Op(AddName, << >>)), Object(Op(a, << >>)),
   Object(Op(MoveName, Path(<<a>>))), Object(Op(RemoveName, a)),
   Object(Op(RemoveName, Path(<<Odd2>>))), Object(<<Member(OpKey, Natural(1))>>),
   Object(<<Member(OpKey, Text(AddName)), Member(PathKey, Null)>>),
   OpFrom(CopyName, a, << >>)}

Operations ==
  Malformed
    \cup {Object(Op(RemoveName, p)) : p \in Paths}
    \cup {OpWithValue(n, p, v) : n \in {AddName, ReplaceName, TestName}, p \in Paths,
                                 v \in {Natural(1), EmptyArray}}
    \cup {OpFrom(n, q, p) : n \in {MoveName, CopyName}, p \in Paths, q \in Paths}

MCPatchable ==
  {Null, Natural(1), EmptyObject, Array(<<Natural(1), Text(a)>>),
   Array(<<Null, Array(<<Natural(1)>>)>>),
   Object(<<Member(Odd1, Natural(1)), Member(a, Natural(1))>>),
   Object(<<Member(a, Array(<<Text(b), Natural(1)>>))>>),
   Object(<<Member(a, Object(<<Member(a, Null)>>)), Member(b, Natural(1))>>)}

MCPatches ==
  {Natural(1), EmptyArray} \cup {Array(<<o>>) : o \in Operations}
    \cup {Array(<<OpWithValue(AddName, p, EmptyArray), o>>) :
            p \in {Path(<<a>>), Path(<<<<One1>>>>)},
            o \in {OpFrom(n, Path(<<a>>), q) : n \in {MoveName, CopyName}, q \in Paths}}

\* Nulls in a merge patch, which remove, at each depth.
MCMerges ==
  {v \in MCDocuments : v = Natural(1) \/ IsObject(v)}
    \cup {Object(<<Member(a, Object(<<Member(a, v)>>)), Member(b, w)>>) : v, w \in Leaf}

-----------------------------------------------------------------------------
(***************************************************************************)
(* What is written in the binary formats: numbers of 64 bits, with one     *)
(* octet that differs from those behind it, which are 0 or 255, or from    *)
(* those before it, and values with sizes at which the formats count       *)
(* otherwise.                                                              *)
(***************************************************************************)
Times(n, x) == [k \in 1 .. n |-> x]

Edges ==
  {Unsigned(<<x>>) : x \in {0, 1, 23, 24, 31, 32, 33, 126, 127, 128, 200, 255}}
    \cup {Unsigned(<<x>> \o Times(w, fill)) :
            x \in {1, 127, 128, 255}, w \in {1, 2, 3, 4, 7}, fill \in {0, 255}}

Numbers64 == Edges \cup {Complement(n) : n \in Edges}

ScalarsToWrite ==
  {Null, Truth(FALSE), Truth(TRUE), Text(<<0>>), Text(<<255, 78>>)}
    \cup {Text(Times(n, 65)) : n \in {0, 1, 22, 23, 24, 31, 32, 127, 128, 255, 256}}
    \cup {Natural(n) : n \in Numbers64} \cup {Integer(n) : n \in Numbers64}
    \cup {Float(n) : n \in Numbers64}

Few == {Null, Truth(TRUE), Truth(FALSE), Text(a), Text(<< >>), EmptyArray, EmptyObject,
        Natural(Number(1)), Natural(Number(200)), Integer(Number(200)),
        Integer(Number(300)), Integer(Complement(Number(0))), Natural(Number(40000)),
        Natural(Complement(Number(0))), Array(<<Null, Null>>), Array(<<Natural(Number(200))>>),
        Object(<<Member(a, Null)>>), Object(<<Member(a, Integer(Number(200)))>>)}

Pairs == {<<v, w>> : v, w \in Few}

ContainersToWrite ==
  {EmptyArray, EmptyObject, Object(<<Member(<<97, 0>>, Null)>>)}
    \cup {Array(<<v>>) : v \in ScalarsToWrite} \cup {Array(p) : p \in Pairs}
    \cup {Object(<<Member(a, p[1]), Member(b, p[2])>>) : p \in Pairs}
    \cup {Array(Times(n, v)) : n \in {10, 11, 15, 16, 23, 24, 101},
                               v \in {Null, Natural(Number(200)), Text(a)}}
    \cup {Object([k \in 1 .. n |-> Member(<<k>>, v)]) : n \in {15, 16, 23, 24},
                                                       v \in {Null, Natural(Number(200))}}
    \cup {Object(<<Member(Times(n, 65), Null)>>) : n \in {0, 23, 24, 31, 32, 128}}

MCEncodable ==
  ScalarsToWrite \cup ContainersToWrite
    \cup {Object(<<Member(a, v)>>) : v \in ScalarsToWrite \cup ContainersToWrite}

MCReaders == {"cbor", "msgpack", "ubjson", "bson"}

MCBeginnings ==
  [cbor    |-> {<< >>, <<\h82>>, <<\hA2, \h61, 97>>, <<\h9F>>, <<\hBF, \h61>>, <<\h7F>>},
   msgpack |-> {<< >>, <<\h92>>, <<\h82, \hA1, 97>>, <<\hDC, 0>>, <<\hDE, 0, 1>>},
   ubjson  |-> {<< >>, <<Mark.array>>, <<Mark.object>>, <<Mark.array, Mark.size, Mark.i, 2>>,
                <<Mark.array, Mark.type, Mark.U, Mark.size>>, <<Mark.array, Mark.type>>,
                <<Mark.object, Mark.size, Mark.i, 1>>},
   bson    |-> {<< >>, <<0, 0, 0, 0>>, <<9, 0, 0, 0, \h10, 97, 0>>, <<9, 0, 0, 0, 2, 97, 0, 2>>,
                <<9, 0, 0, 0, 4, 97, 0, 5, 0, 0, 0>>}]

MCOctets ==
  [cbor    |-> {0, 2, 24, 25, 33, 56, \h61, \h81, \hA1, \hF6, \hF9, \hFA, 255},
   msgpack |-> {0, 2, \h81, \h91, \hA1, \hC0, \hC1, \hCA, \hCD, \hD0, \hD9, 255},
   ubjson  |-> {1, 200, Mark.Z, Mark.N, Mark.i, Mark.U, Mark.I, Mark.C, Mark.S, Mark.size,
                Mark.type, Mark.arrayEnd, Mark.objectEnd},
   bson    |-> {0, 1, 2, 3, 4, 8, 10, 16, 128, 255}]

-----------------------------------------------------------------------------
(***************************************************************************)
(* What dump writes for a number, parsed again: an integer that is not     *)
(* negative becomes unsigned.                                              *)
(***************************************************************************)
RECURSIVE Reparsed(_)

Reparsed(v) ==
  CASE v.type = "number_integer" /\ v.number >= 0 -> Natural(v.number)
    [] v.type = "array" ->
         Array([k \in DOMAIN v.elements |-> Reparsed(v.elements[k])])
    [] v.type = "object" ->
         Object([k \in DOMAIN v.members |->
                   Member(v.members[k].key, Reparsed(v.members[k].value))])
    [] OTHER -> v

(***************************************************************************)
(* A document is equal to what comes out when it is dumped and parsed      *)
(* again, although its integers change their type on the way; and so is    *)
(* any document that was equal to it.                                      *)
(***************************************************************************)
EqualsItsReparse ==
  \A k \in Returned("compare") :
    LET l == calls[k].lhs
        r == calls[k].rhs
    IN  /\ Equal(l, Reparsed(l))
        /\ results[k].equal <=> Equal(Reparsed(l), Reparsed(r))

RECURSIVE HasFloat(_)

HasFloat(v) ==
  \/ v.type = "number_float"
  \/ v.type = "array" /\ \E k \in DOMAIN v.elements : HasFloat(v.elements[k])
  \/ v.type = "object" /\ \E k \in DOMAIN v.members : HasFloat(v.members[k].value)

(***************************************************************************)
(* Of two documents, if one has no floating-point numbers, which are equal *)
(* when they are close, exactly one of ==, < and > holds, whichever stands *)
(* on the left: the conversions between the types of numbers are the same  *)
(* in operator== and in operator<, and in both directions.                 *)
(***************************************************************************)
Trichotomy ==
  \A k \in Returned("compare") :
    ~ (HasFloat(calls[k].lhs) /\ HasFloat(calls[k].rhs)) =>
      /\ results[k].equal = results[k].converse
      /\ ~ (results[k].less /\ results[k].greater)
      /\ results[k].equal <=> ~ results[k].less /\ ~ results[k].greater

\* Comparison is an order of the documents that dump and parse keep.
ComparesSoundly == EqualsItsReparse /\ Trichotomy

-----------------------------------------------------------------------------
(***************************************************************************)
(* RFC 6901: a pointer's text has the form of a pointer, and its tokens    *)
(* are decoded from left to right; a token names at most one child.        *)
(***************************************************************************)
RECURSIVE Decoded(_), Decodes(_)

Decodes(t) ==
  IF t = << >> THEN TRUE
  ELSE IF t[1] # Tilde THEN Decodes(Tail(t))
  ELSE Len(t) > 1 /\ t[2] \in {Zero, One1} /\ Decodes(SubSeq(t, 3, Len(t)))

Decoded(t) ==
  IF t = << >> THEN << >>
  ELSE IF t[1] # Tilde THEN <<t[1]>> \o Decoded(Tail(t))
  ELSE <<IF t[2] = Zero THEN Tilde ELSE Slash>> \o Decoded(SubSeq(t, 3, Len(t)))

IsPointer(s) == (s # << >> => s[1] = Slash) /\ Decodes(s)

Decimal(v) == [k \in DOMAIN v.elements |-> to_string(k - 1)]

Named(v, t) ==
  CASE IsObject(v) -> {k \in DOMAIN v.members : v.members[k].key = t}
    [] IsArray(v)  -> {k \in DOMAIN v.elements : Decimal(v)[k] = t}
    [] OTHER       -> {}

RECURSIVE Located(_, _)

\* The value that tokens point to, or none.
Located(v, tokens) ==
  IF tokens = << >> THEN {v}
  ELSE UNION {Located(Child(v, k), Tail(tokens)) : k \in Named(v, Head(tokens))}

TokensOf(s) ==
  LET texts == Tokens(s) IN [n \in DOMAIN texts |-> Decoded(texts[n])]

(***************************************************************************)
(* at, contains and operator[] resolve a pointer as RFC 6901 does, and     *)
(* agree: where contains answers yes, at returns what the pointer points   *)
(* to and operator[] the same, with nothing created; where it answers no   *)
(* at throws out_of_range.  The three loops are written three times.       *)
(***************************************************************************)
PointersResolve ==
  \A k \in Returned("resolve") :
    LET v == calls[k].value
        p == calls[k].pointer
        r == results[k]
    IN  IF ~ IsPointer(p) THEN r.error # NoError
        ELSE /\ r.error = NoError
             /\ (r.checked.error = NoError) <=> (Located(v, TokensOf(p)) # {})
             /\ r.checked.error = NoError =>
                  /\ Located(v, TokensOf(p)) = {Pointed(r.checked)}
                  /\ r.unchecked = r.checked
             /\ r.contains = NoError <=> r.checked.error = NoError
             /\ r.contains = Absent => r.checked.error \in OutOfRange
             /\ r.contains \notin {NoError, Absent} => r.checked.error = r.contains

-----------------------------------------------------------------------------
(***************************************************************************)
(* RFC 6902: what becomes of a document by an edit at the end of a         *)
(* pointer, or nothing; and by an operation.                               *)
(***************************************************************************)
EditedHere(v, t, edit) ==
  CASE edit.op = AddName /\ IsObject(v) -> {SetKey(v, t, edit.value)}
    [] edit.op = AddName /\ IsArray(v) ->
         IF t = Minus THEN {Array(Append(v.elements, edit.value))}
         ELSE {Array(InsertAt(v.elements, n + 1, edit.value)) :
                 n \in {m \in 0 .. Len(v.elements) : to_string(m) = t}}
    [] edit.op = RemoveName /\ IsObject(v) ->
         {EraseKey(v, v.members[k].key) : k \in Named(v, t)}
    [] edit.op = RemoveName /\ IsArray(v) ->
         {Array(RemoveAt(v.elements, k)) : k \in Named(v, t)}
    [] edit.op = ReplaceName -> {Assign(v, <<k>>, edit.value) : k \in Named(v, t)}
    [] OTHER -> {}

RECURSIVE Edited(_, _, _)

Edited(v, tokens, edit) ==
  IF tokens = << >> THEN IF edit.op = RemoveName THEN {} ELSE {edit.value}
  ELSE IF Len(tokens) = 1 THEN EditedHere(v, tokens[1], edit)
  ELSE UNION {{Assign(v, <<k>>, w) : w \in Edited(Child(v, k), Tail(tokens), edit)} :
                k \in Named(v, Head(tokens))}

Added(v, tokens, new)    == Edited(v, tokens, [op |-> AddName, value |-> new])
Removed(v, tokens)       == Edited(v, tokens, [op |-> RemoveName])
Replaced(v, tokens, new) == Edited(v, tokens, [op |-> ReplaceName, value |-> new])

HasPointer(o, key) == HasText(o, key) /\ IsPointer(Get(o, key).text)
TokensIn(o, key)   == TokensOf(Get(o, key).text)

Operated(v, o) ==
  IF ~ IsObject(o) THEN {}
  ELSE IF ~ HasText(o, OpKey) \/ ~ HasPointer(o, PathKey) THEN {}
  ELSE LET op   == Get(o, OpKey).text
           path == TokensIn(o, PathKey)
           from == TokensIn(o, FromKey)
           new  == Get(o, ValueKey)
       IN  CASE op = RemoveName -> Removed(v, path)
             [] op = AddName /\ Has(o, ValueKey) -> Added(v, path, new)
             [] op = ReplaceName /\ Has(o, ValueKey) -> Replaced(v, path, new)
             [] op = TestName /\ Has(o, ValueKey) ->
                  {v : w \in {x \in Located(v, path) : Equal(x, new)}}
             [] op = CopyName /\ HasPointer(o, FromKey) ->
                  UNION {Added(v, path, w) : w \in Located(v, from)}
             [] op = MoveName /\ HasPointer(o, FromKey) ->
                  UNION {Added(u, path, w) : w \in Located(v, from), u \in Removed(v, from)}
             [] OTHER -> {}

Patched(v, p) ==
  IF ~ IsArray(p) THEN {}
  ELSE FoldLeft(LAMBDA set, o : UNION {Operated(w, o) : w \in set}, {v}, p.elements)

(***************************************************************************)
(* The departures: the parent of a value to be added or removed is there,  *)
(* but neither array nor object, or it is an array and the index has a     *)
(* leading zero, or an addition has no parent but a first token that       *)
(* exists.                                                                 *)
(***************************************************************************)
Lenient(v, tokens) ==
  /\ tokens # << >>
  /\ ~ \E w \in Located(v, Front(tokens)) :
         IsObject(w) \/ (IsArray(w) /\ ~ LeadingZero(Last(tokens)))

OperationDeparts(v, o) ==
  \/ Lenient(v, TokensIn(o, PathKey))
  \/ HasPointer(o, FromKey) /\
       \/ Lenient(v, TokensIn(o, FromKey))
       \/ \E u \in Removed(v, TokensIn(o, FromKey)) : Lenient(u, TokensIn(o, PathKey))

Departs(v, p) ==
  \E n \in DOMAIN p.elements :
    \E w \in Patched(v, Array(SubSeq(p.elements, 1, n - 1))) :
      Operated(w, p.elements[n]) = {} /\ OperationDeparts(w, p.elements[n])

(***************************************************************************)
(* RFC 7396: the members that the patch does not name stay, those it names *)
(* as null go, those it names otherwise are merged.                        *)
(***************************************************************************)
RECURSIVE Merged(_, _)

Merged(v, p) ==
  IF ~ IsObject(p) THEN p
  ELSE LET w    == IF IsObject(v) THEN v ELSE EmptyObject
           gone == {key \in Keys(p) : Get(p, key) = Null}
           kept == (Keys(w) \cup Keys(p)) \ gone
           new(key) == IF key \notin Keys(p) THEN Get(w, key)
                       ELSE Merged(IF key \in Keys(w) THEN Get(w, key) ELSE Null,
                                   Get(p, key))
       IN  LET keys == SetToSortSeq(kept, TextLess)
           IN  Object([n \in DOMAIN keys |-> Member(keys[n], new(keys[n]))])

\* A patch answers with the patched document, or throws if there is none.
PatchFollows(v, p, r) ==
  IF Patched(v, p) # {} THEN r.error = NoError /\ Patched(v, p) = {r.document}
  ELSE r.error # NoError

(***************************************************************************)
(* patch does what RFC 6902 says, all of it or nothing: it returns the     *)
(* patched document, and where there is none it throws, unless a value is  *)
(* added or removed below something that is no container, or at an index   *)
(* with a leading zero (AsDocumented).  merge_patch does what RFC 7396     *)
(* says, and it is done when it is done: to merge the same patch again     *)
(* changes nothing.                                                        *)
(***************************************************************************)
PatchesApply ==
  /\ \A k \in Returned("patch") :
       LET v == calls[k].value
           p == calls[k].patch
       IN  PatchFollows(v, p, results[k]) \/ (Patched(v, p) = {} /\ Departs(v, p))
  /\ \A k \in Returned("merge") :
       /\ results[k].merged = Merged(calls[k].value, calls[k].patch)
       /\ results[k].again = results[k].merged

(***************************************************************************)
(* As documented: for two values source.patch(diff(source, target)) ==     *)
(* target yields always true; what the patch makes is an RFC 6902 patch.   *)
(***************************************************************************)
DiffPatches ==
  \A k \in Returned("diff") :
    LET r == results[k]
    IN  /\ r.patched.error = NoError
        /\ Equal(r.patched.document, calls[k].rhs)
        /\ Patched(calls[k].lhs, r.diff) = {r.patched.document}

(***************************************************************************)
(* unflatten restores what flatten was given, but for empty arrays and     *)
(* objects, which become null as documented, and for objects whose first   *)
(* key is 0.                                                               *)
(***************************************************************************)
RECURSIVE WithoutEmpty(_), HasZeroFirst(_)

WithoutEmpty(v) ==
  CASE v \in {EmptyArray, EmptyObject} -> Null
    [] IsArray(v) -> Array([k \in DOMAIN v.elements |-> WithoutEmpty(v.elements[k])])
    [] IsObject(v) ->
         Object([k \in DOMAIN v.members |->
                   Member(v.members[k].key, WithoutEmpty(v.members[k].value))])
    [] OTHER -> v

HasZeroFirst(v) ==
  \/ IsArray(v) /\ \E k \in DOMAIN v.elements : HasZeroFirst(v.elements[k])
  \/ IsObject(v) /\ \E k \in DOMAIN v.members :
       HasZeroFirst(v.members[k].value) \/ v.members[1].key = <<Zero>>

Restored(v, r) == r.error = NoError /\ r.document = WithoutEmpty(v)

FlattenRestores ==
  \A k \in Returned("flatten") :
    /\ \A n \in DOMAIN results[k].flat.members :
         LET m == results[k].flat.members[n]
         IN  IsPointer(m.key) /\ Located(WithoutEmpty(calls[k].value), TokensOf(m.key)) = {m.value}
    /\ HasZeroFirst(calls[k].value) \/ Restored(calls[k].value, results[k].restored)

-----------------------------------------------------------------------------
(***************************************************************************)
(* What the formats keep of a number: the value, and not whether it is     *)
(* unsigned.                                                               *)
(***************************************************************************)
RECURSIVE Kept(_, _), Within(_)

KeptNumber(format, n) ==
  CASE format = "bson" -> Integer(n)
    [] format \in {"cbor", "msgpack"} -> IF Negative(n) THEN Integer(n) ELSE Natural(n)
    [] OTHER -> IF FitsUnsigned(n, 1) /\ n[8] >= 128 THEN Natural(n) ELSE Integer(n)

Kept(format, v) ==
  CASE v.type = "number_integer"  -> KeptNumber(format, v.number)
    [] v.type = "number_unsigned" ->
         IF Negative(v.number) THEN v ELSE KeptNumber(format, v.number)
    [] IsArray(v)  -> Array([k \in DOMAIN v.elements |-> Kept(format, v.elements[k])])
    [] IsObject(v) ->
         Object([k \in DOMAIN v.members |->
                   Member(v.members[k].key, Kept(format, v.members[k].value))])
    [] OTHER -> v

\* v and the values in it.
Within(v) ==
  {v} \cup (IF IsArray(v) THEN UNION {Within(v.elements[k]) : k \in DOMAIN v.elements}
           ELSE IF IsObject(v) THEN UNION {Within(v.members[k].value) : k \in DOMAIN v.members}
           ELSE {})

HasZeroInKey(v) == IsObject(v) /\ \E key \in Keys(v) : 0 \in ToSet(key)

TooLarge(v) == v.type = "number_unsigned" /\ Negative(v.number)

(***************************************************************************)
(* Why a value cannot be written, as documented for to_ubjson and to_bson. *)
(***************************************************************************)
WhyNot(format, v) ==
  CASE format = "bson" /\ ~ IsObject(v) -> 317
    [] format = "bson" /\ IsObject(v) /\ \E w \in Within(v) : HasZeroInKey(w) -> 409
    [] OTHER -> IF format \notin {"cbor", "msgpack"} /\ \E w \in Within(v) : TooLarge(w)
                THEN 407 ELSE NoError

(***************************************************************************)
(* As documented, what is written can be parsed: the reader returns the    *)
(* value, whatever the type of its numbers, and there is an exception for  *)
(* exactly the values that the format does not have.  The widths of        *)
(* numbers, the counts and the types of containers are chosen by the       *)
(* writer once for the marker and once for the octets behind it.           *)
(***************************************************************************)
BinaryComesBack ==
  \A k \in Returned("encode") :
    LET format == calls[k].format
        v      == calls[k].value
        r      == results[k]
    IN  /\ r.written.error = WhyNot(format, v)
        /\ r.restored.error = r.written.error
        /\ r.restored.error = NoError => r.restored.value = Kept(format, v)

(***************************************************************************)
(* What is written is never read when its end is missing, wherever it was  *)
(* cut off.                                                                *)
(***************************************************************************)
TruncatedIsRefused ==
  \A k \in Returned("encode") :
    LET written == results[k].written
    IN  written.error = NoError =>
          \A n \in 0 .. Len(written.octets) - 1 :
            ReadAs(calls[k].format, SubSeq(written.octets, 1, n)).error # NoError

(***************************************************************************)
(* What is read at all is a value that is read again when it is written in *)
(* the same format, however it was written first: with lengths wider than  *)
(* needed, in pieces, without sizes, or in other precisions.               *)
(***************************************************************************)
ReadAgain ==
  \A k \in Returned("decode") :
    LET format  == calls[k].format
        r       == results[k]
        written == WrittenAs(format, r.value)
        again   == ReadAs(format, written.octets)
    IN  r.error = NoError =>
          /\ written.error = NoError /\ again.error = NoError
          /\ again.value = Kept(format, r.value)

(***************************************************************************)
(* BSON's specification: a document begins with its size, its own four     *)
(* octets and the 0 at its end included, and an element's end follows from *)
(* its type.                                                               *)
(***************************************************************************)
RECURSIVE Framed(_, _), FramedList(_, _, _)

SizeAt(s, at) == s[at] + 256 * s[at + 1] + 65536 * s[at + 2]

ElementEnd(s, at, type) ==
  CASE type = 1 -> at + 8 [] type = 2 -> at + 4 + SizeAt(s, at)
    [] type = 8 -> at + 1 [] type = 10 -> at
    [] type = 16 -> at + 4 [] type = 18 -> at + 8
    [] type \in {3, 4} -> at + SizeAt(s, at)

FramedList(s, at, last) ==
  \/ at = last
  \/ LET key  == CHOOSE k \in at + 1 .. last : s[k] = 0 /\ \A j \in at + 1 .. k - 1 : s[j] # 0
         next == ElementEnd(s, key + 1, s[at])
     IN  /\ at < last /\ next <= last
         /\ s[at] = 2 => s[next - 1] = 0
         /\ s[at] \in {3, 4} => Framed(SubSeq(s, 1, next - 1), key + 1)
         /\ FramedList(s, next, last)

\* The document at the position ends where s ends.
Framed(s, at) ==
  /\ at + SizeAt(s, at) - 1 = Len(s) /\ s[Len(s)] = 0
  /\ FramedList(s, at + 4, Len(s))

(***************************************************************************)
(* Every document that is written in BSON, nested ones included, is as     *)
(* long as it announces; from_bson does not look at the sizes, but other   *)
(* readers do.                                                             *)
(***************************************************************************)
BsonSizesExact ==
  \A k \in Returned("encode") :
    calls[k].format = "bson" /\ results[k].written.error = NoError =>
      Framed(results[k].written.octets, 1)

-----------------------------------------------------------------------------
(***************************************************************************)
(* Two values to change through iterators: arrays, objects, texts, null.   *)
(***************************************************************************)
Elements12 == Array(<<Natural(1), Natural(2)>>)

MembersAB == Object(<<Member(a, Natural(1)), Member(b, Natural(2))>>)

MCContents ==
  {<<Elements12, EmptyArray>>, <<MembersAB, Object(<<Member(b, Null)>>)>>,
   <<Null, Array(<<Null>>)>>, <<Text(a), Object(<<Member(b, Null)>>)>>}

MCAdditions == {Natural(7)}

MCNewKeys == {b}

(***************************************************************************)
(* What iterators visit: the items of a value, and those from an iterator  *)
(* on, up to it, and in a range.                                           *)
(***************************************************************************)
Items(v) ==
  CASE IsArray(v) -> v.elements [] IsObject(v) -> v.members
    [] OTHER -> IF v = Null THEN << >> ELSE <<v>>

From(i)     == Walked(json[i.in], i.at, end(json[i.in]))
UpTo(i)     == Walked(json[i.in], begin(json[i.in]), i.at)
Between(i, j) == SubSeq(From(i), 1, Len(From(i)) - Len(From(j)))

Visits(v) ==
  /\ Walked(v, begin(v), end(v)) = Items(v)
  /\ WalkedBack(v, end(v)) = Reverse(Items(v))
  /\ size(v) = Len(Items(v))
  /\ ItemKeys(v) = CASE IsArray(v) -> Decimal(v)
                     [] IsObject(v) -> [n \in DOMAIN v.members |-> v.members[n].key]
                     [] OTHER -> [n \in DOMAIN Items(v) |-> << >>]

\* Two iterators that work, into the contents of one value.
InSameContents(m, n) == Works(m) /\ Works(n) /\ held[m].in = held[n].in

Ordered(m, n) ==
  LET i == held[m]
      j == held[n]
      distance == Len(UpTo(i)) - Len(UpTo(j))
  IN  IF i.of # j.of THEN SameIterator(i, j).error = 212 /\ IsBefore(i, j).error = 212
      ELSE InSameContents(m, n) =>
           /\ SameIterator(i, j).result <=> distance = 0
           /\ IsBefore(i, j).error = NoError => (IsBefore(i, j).result <=> distance < 0)
           /\ Difference(i, j).error = NoError => Difference(i, j).result = distance

\* Items take the place of what is between first and rest, and it points to them.
Spliced(d, first, items, rest) ==
  LET v == json'[d]
  IN  /\ Items(v) = UpTo(first) \o items \o rest
      /\ held'["it"].of = d /\ held'["it"].in = d
      /\ Walked(v, held'["it"].at, end(v)) = items \o rest

AsMap(v)       == [key \in IF IsObject(v) THEN Keys(v) ELSE {} |-> Get(v, key)]
MapOf(members) == AsMap(Object(members))

\* v is an object with these members, in the order of keys.
Holds(v, map) ==
  /\ IsObject(v) /\ AsMap(v) = map
  /\ \A n \in DOMAIN v.members : n > 1 => TextLess(v.members[n - 1].key, v.members[n].key)

Succeeds(c) ==
  LET old == json[c.of]
      new == json'[c.of]
  IN  CASE c.call = "swap" -> \A d \in Names : json'[d] = json[Other(d)]
        [] c.call = "erase" ->
             Spliced(c.of, c.first, << >>,
                     IF "last" \in DOMAIN c THEN From(c.last) ELSE Tail(From(c.first)))
        [] c.call = "insert" -> Spliced(c.of, c.pos, c.items, From(c.pos))
        [] c.call = "insert_range" ->
             Spliced(c.of, c.pos,
                     IF IsArray(json[c.first.of]) THEN Between(c.first, c.last) ELSE << >>,
                     From(c.pos))
        [] c.call = "push_back"   -> new = Array(Items(old) \o c.items)
        [] c.call = "erase_index" -> Items(new) = RemoveAt(Items(old), c.index + 1)
        [] c.call = "copy_range"  -> /\ Items(new) = Between(c.first, c.last)
                                     /\ new.type = json[c.first.of].type
        [] c.call = "clear"       -> new.type = old.type /\ (size(new) > 0 => IsPrimitive(old))
        [] c.call = "erase_key" ->
             Holds(new, [key \in Keys(old) \ {c.key} |-> Get(old, key)])
        [] c.call = "update" -> Holds(new, AsMap(json[c.from]) @@ AsMap(old))
        [] c.call = "update_range" ->
             Holds(new, MapOf(Between(c.first, c.last)) @@ AsMap(old))
        [] c.call = "insert_members" ->
             Holds(new, AsMap(old) @@ MapOf(Between(c.first, c.last)))
        [] c.call \in {"emplace", "push_back_member"} ->
             /\ Holds(new, AsMap(old) @@ (c.key :> c.item))
             /\ c.call = "emplace" =>
                  Dereferenced(new, held'["it"].at).item = Member(c.key, Get(new, c.key))

\* What an iterator that stays points to is still what it pointed to.
StillPoints(old, new) ==
  LET rest == Walked(json'[new.in], new.at, end(json'[new.in]))
  IN  /\ json'[new.in].type = json[old.in].type
      /\ IF From(old) = << >> THEN rest = << >>
         ELSE rest # << >> /\ Head(rest) = Head(From(old))

\* An iterator that swap leaves with the value that it names.
StaysByName(c, n) == c.call = "swap" /\ IsPrimitive(Of(n))

Overwrites == {"update", "update_range", "clear"}

\* A range of a container that is empty: there is nothing to erase.
NothingToErase(c) ==
  /\ c.call = "erase" /\ "last" \in DOMAIN c
  /\ c.first.of = c.of /\ c.last.of = c.of
  /\ c.first.at = c.last.at /\ ~ IsPrimitive(json[c.of])

(***************************************************************************)
(* Iterators visit the items of a value from the first to the last and     *)
(* back, with the keys items() gives them, and compare by their order.  A  *)
(* call changes what is between the iterators it is given, and nothing     *)
(* else; the iterator it returns points to what was added, or behind what  *)
(* is gone, whatever the kind of value; one that is not documented as      *)
(* invalid points where it did, in the contents of the other value after   *)
(* swap, although it names the one it was taken from (see AsDocumented),   *)
(* and but for that of a primitive value, which only names the value.  A   *)
(* call that throws changes nothing, but that update makes a null an       *)
(* empty object, and an empty range of a container is erased without an    *)
(* exception; one of a primitive value is not (see AsDocumented).          *)
(***************************************************************************)
IteratorsKeepPlace ==
  [][called' # NotCalled =>
     /\ \A d \in Names : Visits(json'[d])
     /\ \A m, n \in Holders : Valid(m) /\ Valid(n) => Ordered(m, n)
     /\ IF called'.error = NoError
        THEN /\ Succeeds(called')
             /\ Valid("last") /\ held'["last"] # Unset
                  /\ called'.call \notin Overwrites /\ ~ StaysByName(called', "last")
                  => StillPoints(held["last"], held'["last"])
        ELSE /\ ~ NothingToErase(called')
             /\ \A d \in Names :
                  json'[d] = json[d] \/ (json[d] = Null /\ json'[d] = EmptyObject)
    ]_containerVars

-----------------------------------------------------------------------------
(***************************************************************************)
(* Calls that depart from what json.hpp documents.                         *)
(***************************************************************************)
ZeroKey == Object(<<Member(<<Zero>>, Natural(1))>>)

\* A document up to the last octet of its text.
CutOff == <<14, 0, 0, 0, 2, 97, 0, 2, 0, 0, 0, 98>>

Pair == Array(<<Natural(1), Natural(2)>>)

Adding(v, path) ==
  [call |-> "patch", value |-> v,
   patch |-> Array(<<WithValue(AddName, Path(path), Natural(1))>>)]

MCDepartures ==
  {<<[call |-> "compare", lhs |-> Float(10), rhs |-> Float(11)],
     [call |-> "flatten", value |-> ZeroKey],
     Adding(Object(<<Member(a, Text(b))>>), <<a, b>>),
     [call |-> "decode", format |-> "bson", octets |-> CutOff],
     Adding(Pair, <<<<Zero, One1>>>>), Adding(Pair, <<a>>),
     [call |-> "swap", lhs |-> Pair, rhs |-> Text(a)],
     [call |-> "erase", value |-> Text(a), first |-> 0, last |-> 0]>>}

\* Swaps that leave an iterator of use, and a range that is not empty.
MCPrograms ==
  {<<[call |-> "swap", lhs |-> Pair, rhs |-> Array(<<Text(a)>>)]>>,
   <<[call |-> "swap", lhs |-> ZeroKey, rhs |-> EmptyObject]>>,
   <<[call |-> "erase", value |-> Text(a), first |-> 0, last |-> 1]>>}

(***************************************************************************)
(* As documented, floating-point numbers are equal if they are the same,   *)
(* unflatten restores every value but empty containers, a patch with a     *)
(* pointer that leads nowhere throws one of the library's exceptions, and  *)
(* so does one with an index that has a leading zero or is no number, what *)
(* cannot be read throws and is not returned as a discarded value, an      *)
(* iterator stays valid in swap, and erasing an empty range does nothing.  *)
(***************************************************************************)
AsDocumented ==
  Len(results) = Len(calls) =>
    /\ \A k \in Returned("compare") :
         results[k].equal <=> calls[k].lhs.number = calls[k].rhs.number
    /\ \A k \in Returned("flatten") : Restored(calls[k].value, results[k].restored)
    /\ \A k \in Returned("patch") :
         /\ PatchFollows(calls[k].value, calls[k].patch, results[k])
         /\ results[k].error # InvalidArgument
    /\ \A k \in Returned("decode") : results[k].error # Discarded
    /\ \A k \in Returned("swap") \cup Returned("erase") : results[k].error = NoError
=============================================================================
