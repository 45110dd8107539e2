------------------------------ MODULE JsonPatch ------------------------------
(***************************************************************************)
(* patch, diff and merge_patch of basic_json in lib/include/json.hpp.      *)
(*                                                                         *)
(* The document under work is carried through the operations of a patch as *)
(* `at', whose place is that of the document itself between operations.    *)
(***************************************************************************)
EXTENDS JsonPointer

\* The names that occur in patches, as the octets of ASCII.
OpKey      == <<111, 112>>
PathKey    == <<112, 97, 116, 104>>
ValueKey   == <<118, 97, 108, 117, 101>>
FromKey    == <<102, 114, 111, 109>>
AddName    == <<97, 100, 100>>
RemoveName == <<114, 101, 109, 111, 118, 101>>
ReplaceName == <<114, 101, 112, 108, 97, 99, 101>>
MoveName   == <<109, 111, 118, 101>>
CopyName   == <<99, 111, 112, 121>>
TestName   == <<116, 101, 115, 116>>

OpNames == {AddName, RemoveName, ReplaceName, MoveName, CopyName, TestName}

-----------------------------------------------------------------------------
(***************************************************************************)
(* The index of an element to add or remove.  What std::stoi throws if     *)
(* there is no digit is not caught here, as it is in the loops over the    *)
(* tokens, and a leading zero is not looked for; 2 stands for the          *)
(* exception, which has no number.                                         *)
(***************************************************************************)
InvalidArgument == 2

last_index(token) ==
  LET i == array_index(token) IN IF i.error = 109 THEN [error |-> InvalidArgument] ELSE i

(***************************************************************************)
(* operation_add.  The first token must exist unless it is the last.       *)
(* Below it, operator[] creates what is missing on the way to the parent.  *)
(* A parent that is neither null nor a container meets assert(false),      *)
(* which is compiled out in a release build: nothing is added.             *)
(***************************************************************************)
\* Off by one: an index equal to the size is refused.
AddToArrayShort(at, last_path, val) ==
  LET e == Pointed(at).elements
      i == last_index(last_path)
  IN  IF last_path = Minus THEN Become(at, Array(Append(e, val)))
      ELSE IF i.error # NoError THEN Throw(at, i.error)
      ELSE IF i.index >= Len(e) THEN Throw(at, 401)
      ELSE Become(at, Array(InsertAt(e, i.index + 1, val)))

AddToArray(at, last_path, val) ==
  LET e == Pointed(at).elements
      i == last_index(last_path)
  IN  IF last_path = Minus THEN Become(at, Array(Append(e, val)))
      ELSE IF i.error # NoError THEN Throw(at, i.error)
      ELSE IF i.index > Len(e) THEN Throw(at, 401)
      ELSE Become(at, Array(InsertAt(e, i.index + 1, val)))

operation_add(at, tokens, val) ==
  IF tokens = << >> THEN Start(val)
  ELSE LET top    == get_checked(at.document, SubSeq(tokens, 1, 1))
           parent == get_unchecked(at.document, Front(tokens))
           v      == Pointed(parent)
       IN  IF Len(tokens) > 1 /\ top.error # NoError THEN Throw(at, top.error)
           ELSE IF parent.error # NoError THEN Throw(at, parent.error)
           ELSE CASE v = Null \/ IsObject(v) ->
                       Become(parent, SetKey(v, Last(tokens), val))
                  [] IsArray(v) -> AddToArray(parent, Last(tokens), val)
                  [] OTHER -> parent

(***************************************************************************)
(* operation_remove.  Below a parent that is no container there is nothing *)
(* to remove, and nothing is.                                              *)
(***************************************************************************)
operation_remove(at, tokens) ==
  LET parent    == get_checked(at.document, Front(tokens))
      v         == Pointed(parent)
      last_path == Last(tokens)
      i         == last_index(last_path)
  IN  IF tokens = << >> THEN Throw(at, 405)
      ELSE IF parent.error # NoError THEN Throw(at, parent.error)
      ELSE CASE IsObject(v) ->
                  IF last_path \in Keys(v) THEN Become(parent, EraseKey(v, last_path))
                  ELSE Throw(at, 403)
             [] IsArray(v) ->
                  IF i.error # NoError THEN Throw(at, i.error)
                  ELSE IF i.index >= Len(v.elements) THEN Throw(at, 401)
                  ELSE Become(parent, Array(RemoveAt(v.elements, i.index + 1)))
             [] OTHER -> parent

replace(at, tokens, val) ==
  LET found == get_checked(at.document, tokens)
  IN  IF found.error # NoError THEN Throw(at, found.error) ELSE Become(found, val)

copy(at, from, tokens) ==
  LET found == get_checked(at.document, from)
  IN  IF found.error # NoError THEN Throw(at, found.error)
      ELSE operation_add(at, tokens, Pointed(found))

move(at, from, tokens) ==
  LET found   == get_checked(at.document, from)
      removed == operation_remove(at, from)
  IN  IF found.error # NoError THEN Throw(at, found.error)
      ELSE IF removed.error # NoError THEN removed
      ELSE operation_add(removed, tokens, Pointed(found))

\* Of the errors of at() only those of the class out_of_range are caught.
OutOfRange == 401 .. 408

test(at, tokens, val) ==
  LET found == get_checked(at.document, tokens)
  IN  IF found.error \in OutOfRange THEN Throw(at, 501)
      ELSE IF found.error # NoError THEN Throw(at, found.error)
      ELSE IF Equal(Pointed(found), val) THEN at ELSE Throw(at, 501)

-----------------------------------------------------------------------------
(***************************************************************************)
(* get_value: the member a patch operation needs, or error 105.            *)
(***************************************************************************)
Has(val, key)     == key \in Keys(val)
HasText(val, key) == Has(val, key) /\ IsText(Get(val, key))

PatchOperation(at, val) ==
  LET op   == Get(val, OpKey).text
      ptr  == split(Get(val, PathKey).text)
      from == split(Get(val, FromKey).text)
      new  == Get(val, ValueKey)
  IN  IF ~ IsObject(val) THEN Throw(at, 104)
      ELSE IF ~ HasText(val, OpKey) \/ ~ HasText(val, PathKey) THEN Throw(at, 105)
      ELSE IF ptr.error # NoError THEN Throw(at, ptr.error)
      ELSE IF op \notin OpNames THEN Throw(at, 105)
      ELSE CASE op = AddName ->
                  IF ~ Has(val, ValueKey) THEN Throw(at, 105)
                  ELSE operation_add(at, ptr.tokens, new)
             [] op = RemoveName -> operation_remove(at, ptr.tokens)
             [] op = ReplaceName ->
                  IF ~ Has(val, ValueKey) THEN Throw(at, 105)
                  ELSE replace(at, ptr.tokens, new)
             [] op \in {MoveName, CopyName} ->
                  IF ~ HasText(val, FromKey) THEN Throw(at, 105)
                  ELSE IF from.error # NoError THEN Throw(at, from.error)
                  ELSE IF op = MoveName THEN move(at, from.tokens, ptr.tokens)
                  ELSE copy(at, from.tokens, ptr.tokens)
             [] op = TestName ->
                  IF ~ Has(val, ValueKey) THEN Throw(at, 105)
                  ELSE test(at, ptr.tokens, new)

\* Between two operations there is no place but the whole document.
Whole(at) == [at EXCEPT !.place = << >>]

patch(v, json_patch) ==
  IF ~ IsArray(json_patch) THEN Throw(Start(v), 104)
  ELSE FoldLeft(LAMBDA at, val : IF at.error = NoError
                                 THEN Whole(PatchOperation(at, val)) ELSE at,
                Start(v), json_patch.elements)

-----------------------------------------------------------------------------
(***************************************************************************)
(* diff: the sequence of the operations that it puts into the patch.       *)
(***************************************************************************)
RemoveOp(path) ==
  Object(<<Member(OpKey, Text(RemoveName)), Member(PathKey, Text(path))>>)

WithValue(op, path, v) ==
  Object(<<Member(OpKey, Text(op)), Member(PathKey, Text(path)), Member(ValueKey, v)>>)

\* The surplus elements of the source are removed from the last one down.
SurplusAscending(path, common, size) ==
  [k \in 1 .. size - common |-> RemoveOp(path \o <<Slash>> \o to_string(common + k - 1))]

Surplus(path, common, size) ==
  [k \in 1 .. size - common |-> RemoveOp(path \o <<Slash>> \o to_string(size - k))]

RECURSIVE Diff(_, _, _)

DiffArrays(s, t, path) ==
  LET common == IF Len(s) < Len(t) THEN Len(s) ELSE Len(t)
      below(k) == path \o <<Slash>> \o to_string(k - 1)
  IN  FlattenSeq([k \in 1 .. common |-> Diff(s[k], t[k], below(k))])
        \o Surplus(path, common, Len(s))
        \o [k \in 1 .. Len(t) - common |->
              WithValue(AddName, below(common + k), t[common + k])]

DiffObjects(source, target, path) ==
  LET below(key) == path \o <<Slash>> \o escape(key)
      added      == SelectSeq(target.members, LAMBDA m : m.key \notin Keys(source))
      changed(m) == IF m.key \in Keys(target)
                    THEN Diff(m.value, Get(target, m.key), below(m.key))
                    ELSE <<RemoveOp(below(m.key))>>
  IN  FlattenSeq([k \in DOMAIN source.members |-> changed(source.members[k])])
        \o [k \in DOMAIN added |->
              WithValue(AddName, below(added[k].key), added[k].value)]

Diff(source, target, path) ==
  CASE Equal(source, target) -> << >>
    [] source.type = target.type /\ IsArray(source) ->
         DiffArrays(source.elements, target.elements, path)
    [] source.type = target.type /\ IsObject(source) ->
         DiffObjects(source, target, path)
    [] OTHER -> <<WithValue(ReplaceName, path, target)>>

diff(source, target) == Array(Diff(source, target, << >>))

-----------------------------------------------------------------------------
RECURSIVE merge_patch(_, _)

\* As if a null only overwrote the member.
MergeMemberNull(v, m) ==
  SetKey(v, m.key,
         merge_patch(IF Has(v, m.key) THEN Get(v, m.key) ELSE Null, m.value))

MergeMember(v, m) ==
  IF m.value = Null THEN EraseKey(v, m.key)
  ELSE SetKey(v, m.key,
              merge_patch(IF Has(v, m.key) THEN Get(v, m.key) ELSE Null, m.value))

merge_patch(v, apply_patch) ==
  IF ~ IsObject(apply_patch) THEN apply_patch
  ELSE FoldLeft(MergeMember, IF IsObject(v) THEN v ELSE EmptyObject,
                apply_patch.members)
=============================================================================
