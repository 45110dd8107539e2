---------------------------- MODULE JsonIterator ----------------------------
(***************************************************************************)
(* iter_impl of lib/include/json.hpp and the member functions of           *)
(* basic_json that take or return iterators, with the others that change   *)
(* a container: calls on two values, "j" and "k", by a client that keeps   *)
(* two iterators.                                                          *)
(*                                                                         *)
(* An iterator is the value it names, by m_object, and a position: the key *)
(* of a member, if any; the index of an element; or the number that a      *)
(* primitive_iterator_t counts.  The position is in the contents of the    *)
(* same value until swap exchanges the contents; then the iterator is      *)
(* stray.  The client uses no iterator that a call has made invalid,       *)
(* whether by json.hpp's documentation or because the std::vector below it *)
(* may move, and stays within a value's range.                             *)
(***************************************************************************)
EXTENDS JsonPointer

CONSTANTS
  Contents,       \* pairs of what j and k may hold at first
  Additions,      \* values that are added
  NewKeys,        \* keys that are used
  MaxChanges      \* how many calls change a value

VARIABLES
  json,           \* what j and k hold
  held,           \* the iterators that are kept
  called,         \* the last call and what it threw, if anything
  changes

containerVars == <<json, held, called, changes>>

Names == {"j", "k"}

Holders == {"it", "last"}

Other(d) == IF d = "j" THEN "k" ELSE "j"

Unset == [of |-> "none"]

NotCalled == [call |-> "none", error |-> NoError]

-----------------------------------------------------------------------------
(***************************************************************************)
(* size, begin, end and the steps of an iterator.  Members and elements    *)
(* are counted from 0; the begin of a null is its end.                     *)
(***************************************************************************)
size(v) ==
  CASE IsArray(v)  -> Len(v.elements)
    [] IsObject(v) -> Len(v.members)
    [] OTHER       -> IF v = Null THEN 0 ELSE 1

IsPrimitive(v) == ~ IsArray(v) /\ ~ IsObject(v)

Position(v, n) ==
  IF ~ IsObject(v) THEN n
  ELSE IF n < size(v) THEN <<v.members[n + 1].key>> ELSE << >>

Ordinal(v, at) ==
  IF ~ IsObject(v) THEN at ELSE IF at = << >> THEN size(v) ELSE Find(v, at[1]) - 1

begin(v) == Position(v, IF v = Null THEN 1 ELSE 0)

end(v) == Position(v, IF IsPrimitive(v) THEN 1 ELSE size(v))

Advanced(v, at, n) == Position(v, Ordinal(v, at) + n)

find(v, key) == IF IsObject(v) /\ key \in Keys(v) THEN <<key>> ELSE end(v)

\* operator*, and key of an object's iterator.
Dereferenced(v, at) ==
  CASE IsObject(v)         -> [error |-> NoError, item |-> Member(at[1], Get(v, at[1]))]
    [] IsArray(v)          -> [error |-> NoError, item |-> v.elements[at + 1]]
    [] v # Null /\ at = 0  -> [error |-> NoError, item |-> v]
    [] OTHER               -> [error |-> 214]

(***************************************************************************)
(* operator*, by the type of the value that is named, of an iterator into  *)
(* the contents v.  In a primitive value it finds no position of its own.  *)
(* Containers of two kinds are not tried: the iterator of the other kind   *)
(* was never set.                                                          *)
(***************************************************************************)
DereferencedBy(named, v, at) ==
  CASE named.type = v.type -> Dereferenced(v, at)
    [] IsPrimitive(named)  -> [error |-> 214]

\* operator==, operator< and the difference of two iterators.
SameIterator(i, j) ==
  IF i.of # j.of THEN [error |-> 212] ELSE [error |-> NoError, result |-> i.at = j.at]

IsBefore(i, j) ==
  CASE i.of # j.of          -> [error |-> 212]
    [] IsObject(json[i.of]) -> [error |-> 213]
    [] OTHER                -> [error |-> NoError, result |-> i.at < j.at]

Difference(i, j) ==
  IF IsObject(json[i.of]) THEN [error |-> 209]
  ELSE [error |-> NoError, result |-> i.at - j.at]

RECURSIVE Walked(_, _, _), WalkedBack(_, _)

\* for (; at != last; ++at), with *at.
Walked(v, at, last) ==
  IF at = last THEN << >>
  ELSE <<Dereferenced(v, at).item>> \o Walked(v, Advanced(v, at, 1), last)

\* for (r = rbegin(); r != rend(); ++r), with *r; at is r.base().
WalkedBack(v, at) ==
  IF at = begin(v) THEN << >>
  ELSE LET before == Advanced(v, at, -1)
       IN  <<Dereferenced(v, before).item>> \o WalkedBack(v, before)

\* for (auto& el : v.items()), with el.key().
ItemKeys(v) ==
  [n \in 1 .. size(v) |->
     CASE IsObject(v) -> Advanced(v, begin(v), n - 1)[1]
       [] IsArray(v)  -> to_string(n - 1)
       [] OTHER       -> << >>]

-----------------------------------------------------------------------------
(***************************************************************************)
(* The client's steps: it takes an iterator, or moves one.  A stray one    *)
(* works as long as the value it names is of the type of the contents.     *)
(***************************************************************************)
Valid(n) == held[n] # Unset

Place(n) == held[n].at

Of(n) == json[held[n].in]

Iterator(d, at) == [of |-> d, in |-> d, at |-> at]

Stray(n) == held[n].in # held[n].of

Works(n) == Valid(n) /\ json[held[n].of].type = Of(n).type

Keep(n, iterator) ==
  /\ held' = [held EXCEPT ![n] = iterator]
  /\ UNCHANGED <<json, called, changes>>

Take(n, d) ==
  \E at \in {begin(json[d]), end(json[d])} \cup {find(json[d], key) : key \in NewKeys} :
    Keep(n, Iterator(d, at))

Move(n) ==
  /\ Works(n)
  /\ \/ /\ Place(n) # end(Of(n))
        /\ Keep(n, [held[n] EXCEPT !.at = Advanced(Of(n), @, 1)])
     \/ /\ Place(n) # begin(Of(n))
        /\ Keep(n, [held[n] EXCEPT !.at = Advanced(Of(n), @, -1)])

-----------------------------------------------------------------------------
(***************************************************************************)
(* A call ends by an exception, or with the value d changed and some of    *)
(* the iterators left.                                                     *)
(***************************************************************************)
Throws(call, error) ==
  /\ called' = call @@ [error |-> error]
  /\ UNCHANGED <<json, held, changes>>

Changes(call, v, left) ==
  /\ changes < MaxChanges /\ changes' = changes + 1
  /\ json' = [json EXCEPT ![call.of] = v]
  /\ held' = left
  /\ called' = call @@ [error |-> NoError]

In(d) == {n \in Holders : Valid(n) /\ held[n].in = d}

Left(gone) == [n \in Holders |-> IF n \in gone THEN Unset ELSE held[n]]

WithResult(left, d, at) == [left EXCEPT !["it"] = Iterator(d, at)]

\* The iterators that are invalid when elements are added to d.
Moved(d) == IF IsArray(json[d]) \/ json[d] = Null THEN In(d) ELSE {}

(***************************************************************************)
(* The iterators that are given to the value d: a stray one only to a      *)
(* value it does not name, which throws, for the value it names would take *)
(* the position for one of its own.  The calls that take both iterators: a *)
(* range of a value's items, not of stray ones.                            *)
(***************************************************************************)
Passed(n, d) == Valid(n) /\ (held[n].of = d => ~ Stray(n))

BothValid == \A n \in Holders : Valid(n) /\ ~ Stray(n)

InOne == held["it"].of = held["last"].of

WithRange(name, d) ==
  [call |-> name, of |-> d, first |-> held["it"], last |-> held["last"]]

IsRange == Ordinal(Of("it"), Place("it")) <= Ordinal(Of("last"), Place("last"))

RangeItems == Walked(Of("it"), Place("it"), Place("last"))

-----------------------------------------------------------------------------
(***************************************************************************)
(* erase, of a position, a range, a key and an index.                      *)
(***************************************************************************)
SpliceOut(v, first, last) ==
  LET from == Ordinal(v, first)
      to   == Ordinal(v, last)
      rest(s) == SubSeq(s, 1, from) \o SubSeq(s, to + 1, Len(s))
  IN  CASE IsArray(v)  -> Array(rest(v.elements))
        [] IsObject(v) -> Object(rest(v.members))
        [] OTHER       -> Null

\* As if what the map's erase returns was forgotten.
ErasedAtEnd(v, first, last) == IF IsArray(v) THEN first ELSE end(v)

\* The vector's erase returns first, the map's last, a primitive value's end.
ErasedAt(v, first, last) == IF IsArray(v) THEN first ELSE last

InvalidFrom(d, first, last) ==
  LET Ord(at) == Ordinal(json[d], at)
  IN  {n \in In(d) : /\ Ord(Place(n)) >= Ord(first)
                     /\ IsObject(json[d]) => Ord(Place(n)) < Ord(last)}

EraseRangeOf(call, first, last) ==
  LET d == call.of
      v == json[d]
  IN  Changes(call, SpliceOut(v, first, last),
              WithResult(Left(InvalidFrom(d, first, last)), d, ErasedAt(v, first, last)))

Erase(d) ==
  LET v    == json[d]
      call == [call |-> "erase", of |-> d, first |-> held["it"]]
  IN  /\ Passed("it", d)
      /\ CASE held["it"].of # d -> Throws(call, 202)
           [] v = Null          -> Throws(call, 307)
           [] IsPrimitive(v) /\ Place("it") # 0 -> Throws(call, 205)
           [] OTHER -> /\ Place("it") # end(v)
                       /\ EraseRangeOf(call, Place("it"), Advanced(v, Place("it"), 1))

\* A primitive value is erased as a whole or not at all.
EraseError(v, first, last) ==
  CASE v = Null -> 307
    [] IsPrimitive(v) /\ (first # 0 \/ last # 1) -> 204
    [] OTHER -> NoError

EraseRange(d) ==
  LET error == EraseError(json[d], Place("it"), Place("last"))
      call  == WithRange("erase", d)
  IN  /\ \A n \in Holders : Passed(n, d)
      /\ CASE held["it"].of # d \/ held["last"].of # d -> Throws(call, 203)
           [] error # NoError -> Throws(call, error)
           [] OTHER -> /\ IsRange
                       /\ EraseRangeOf(call, Place("it"), Place("last"))

EraseKeyOf(d) ==
  \E key \in NewKeys :
    LET v    == json[d]
        call == [call |-> "erase_key", of |-> d, key |-> key]
    IN  IF IsObject(v)
        THEN Changes(call, EraseKey(v, key), Left({n \in In(d) : Place(n) = <<key>>}))
        ELSE Throws(call, 307)

EraseIndex(d) ==
  \E index \in 0 .. 1 :
    LET v    == json[d]
        call == [call |-> "erase_index", of |-> d, index |-> index]
    IN  CASE ~ IsArray(v)      -> Throws(call, 307)
          [] index >= size(v)  -> Throws(call, 401)
          [] OTHER             -> Changes(call, SpliceOut(v, index, index + 1),
                                          Left(InvalidFrom(d, index, index + 1)))

-----------------------------------------------------------------------------
(***************************************************************************)
(* insert into an array: copies of a value, or a range of another value.   *)
(* The iterator of the result is made of the distance of pos, which is     *)
(* measured before.                                                        *)
(***************************************************************************)
insert_iterator(call, pos, items) ==
  LET d == call.of
      e == json[d].elements
  IN  Changes(call, Array(SubSeq(e, 1, pos) \o items \o SubSeq(e, pos + 1, Len(e))),
              WithResult(Left(In(d)), d, pos))

Insert(d) ==
  \E x \in Additions, count \in 0 .. 2 :
    LET call == [call |-> "insert", of |-> d, pos |-> held["it"],
                 items |-> [n \in 1 .. count |-> x]]
    IN  /\ Passed("it", d)
        /\ CASE ~ IsArray(json[d])   -> Throws(call, 309)
             [] held["it"].of # d    -> Throws(call, 202)
             [] OTHER                -> insert_iterator(call, Place("it"), call.items)

\* The array_iterators of a value that is no array are all the same.
InsertRange(d) ==
  \E p \in Names : \E pos \in {begin(json[p]), end(json[p])} :
    LET call == [call |-> "insert_range", of |-> d, pos |-> Iterator(p, pos),
                 first |-> held["it"], last |-> held["last"]]
    IN  /\ BothValid
        /\ CASE ~ IsArray(json[d])                 -> Throws(call, 309)
             [] p # d                              -> Throws(call, 202)
             [] ~ InOne                            -> Throws(call, 210)
             [] held["it"].of = d                  -> Throws(call, 211)
             [] OTHER ->
                  /\ IsRange
                  /\ insert_iterator(call, pos, IF IsArray(Of("it")) THEN RangeItems ELSE << >>)

-----------------------------------------------------------------------------
(***************************************************************************)
(* insert and update of an object by the members of another.               *)
(***************************************************************************)
\* As if insert overwrote the members that are there.
MembersAddedAlways(v, members, overwrites) ==
  FoldLeft(LAMBDA object, m : SetKey(object, m.key, m.value), v, members)

MembersAdded(v, members, overwrites) ==
  FoldLeft(LAMBDA object, m : IF m.key \in Keys(object) /\ ~ overwrites THEN object
                              ELSE SetKey(object, m.key, m.value), v, members)

InsertMembers(d) ==
  LET call == WithRange("insert_members", d)
  IN  /\ BothValid
      /\ CASE ~ IsObject(json[d])                -> Throws(call, 309)
           [] ~ InOne                            -> Throws(call, 210)
           [] ~ IsObject(Of("it"))               -> Throws(call, 202)
           [] OTHER ->
                /\ held["it"].of # d
                /\ IsRange
                /\ Changes(call, MembersAdded(json[d], RangeItems, FALSE), held)

\* A null becomes an object before anything is looked at.
AsObject(v) == IF v = Null THEN EmptyObject ELSE v

ThrowsAsObject(call, error) ==
  IF json[call.of] # Null THEN Throws(call, error)
  ELSE /\ json' = [json EXCEPT ![call.of] = EmptyObject]
       /\ held' = Left(In(call.of))
       /\ called' = call @@ [error |-> error]
       /\ UNCHANGED changes

Update(d) ==
  \E from \in Names :
    LET call == [call |-> "update", of |-> d, from |-> from]
        v    == AsObject(json[d])
    IN  IF ~ IsObject(v) \/ ~ (IsObject(json[from]) \/ (from = d /\ json[d] = Null))
        THEN ThrowsAsObject(call, 312)
        ELSE Changes(call, MembersAdded(v, AsObject(json[from]).members, TRUE),
                     Left(Moved(d)))

UpdateRange(d) ==
  LET call == WithRange("update_range", d)
      v    == AsObject(json[d])
  IN  /\ BothValid
      /\ CASE ~ IsObject(v)                      -> Throws(call, 312)
           [] ~ InOne                            -> ThrowsAsObject(call, 210)
           [] ~ IsObject(Of("it")) /\ held["it"].of # d -> ThrowsAsObject(call, 202)
           [] OTHER ->
                /\ IsRange
                /\ Changes(call, MembersAdded(v, RangeItems, TRUE), Left(Moved(d)))

-----------------------------------------------------------------------------
(***************************************************************************)
(* push_back, emplace_back, emplace: a null becomes what is needed.        *)
(***************************************************************************)
PushBack(d) ==
  \E x \in Additions :
    LET v    == json[d]
        call == [call |-> "push_back", of |-> d, items |-> <<x>>]
    IN  IF ~ IsArray(v) /\ v # Null THEN Throws(call, 308)
        ELSE Changes(call, Array(Append(IF v = Null THEN << >> ELSE v.elements, x)),
                     Left(In(d)))

Emplace(d) ==
  \E x \in Additions, key \in NewKeys :
    LET v    == AsObject(json[d])
        call == [call |-> "emplace", of |-> d, key |-> key, item |-> x]
    IN  IF ~ IsObject(v) THEN Throws(call, 311)
        ELSE Changes(call, MembersAdded(v, <<Member(key, x)>>, FALSE),
                     WithResult(Left(Moved(d)), d, <<key>>))

\* push_back of a member, which returns nothing.
PushBackMember(d) ==
  \E x \in Additions, key \in NewKeys :
    LET v    == AsObject(json[d])
        call == [call |-> "push_back_member", of |-> d, key |-> key, item |-> x]
    IN  IF ~ IsObject(v) THEN Throws(call, 308)
        ELSE Changes(call, MembersAdded(v, <<Member(key, x)>>, FALSE), Left(Moved(d)))

-----------------------------------------------------------------------------
(***************************************************************************)
(* clear, swap, and the constructor from a range, whose value is assigned. *)
(***************************************************************************)
Cleared(v) ==
  CASE IsArray(v)      -> EmptyArray
    [] IsObject(v)     -> EmptyObject
    [] IsText(v)       -> Text(<< >>)
    [] v.type = "boolean"   -> Truth(FALSE)
    [] v.type \in Numeric   -> [v EXCEPT !.number = 0]
    [] OTHER           -> v

Clear(d) ==
  Changes([call |-> "clear", of |-> d], Cleared(json[d]),
          Left(IF IsPrimitive(json[d]) THEN {} ELSE In(d)))

\* As if swap moved the elements and left the containers where they are.
SwappedByElement(n) == IF Valid(n) /\ Place(n) # end(Of(n)) THEN held[n] ELSE Unset

(***************************************************************************)
(* swap changes no iterator.  One past the end is documented as invalid;   *)
(* another goes with the contents that it points into, but still names the *)
(* value that it was taken from.  That of a primitive value only names     *)
(* it, and is no use when the value becomes a container or null.           *)
(***************************************************************************)
Swapped(n) ==
  LET v   == Of(n)
      new == json[Other(held[n].in)]
  IN  CASE ~ Valid(n) \/ Place(n) = end(v) -> Unset
        [] ~ IsPrimitive(v)               -> [held[n] EXCEPT !.in = Other(@)]
        [] IsPrimitive(new) /\ new # Null -> held[n]
        [] OTHER                          -> Unset

Swap ==
  /\ changes < MaxChanges /\ changes' = changes + 1
  /\ json' = [d \in Names |-> json[Other(d)]]
  /\ held' = [n \in Holders |-> Swapped(n)]
  /\ called' = [call |-> "swap", error |-> NoError]

CopyRange(d) ==
  LET v    == Of("it")
      call == WithRange("copy_range", d)
  IN  /\ BothValid
      /\ CASE ~ InOne -> Throws(call, 201)
           [] v = Null -> Throws(call, 206)
           [] IsPrimitive(v) ->
                IF Place("it") # 0 \/ Place("last") # 1 THEN Throws(call, 204)
                ELSE Changes(call, v, Left(In(d)))
           [] OTHER ->
                /\ IsRange
                /\ Changes(call, IF IsArray(v) THEN Array(RangeItems) ELSE Object(RangeItems),
                           Left(In(d)))

-----------------------------------------------------------------------------
NoContainers ==
  /\ json = [d \in Names |-> Null] /\ changes = MaxChanges + 1
  /\ held = [n \in Holders |-> Unset] /\ called = NotCalled

ContainersInit ==
  /\ \E pair \in Contents : json = [j |-> pair[1], k |-> pair[2]]
  /\ held = [n \in Holders |-> Unset] /\ called = NotCalled /\ changes = 0

\* The client has seen how the call ended.
GoOn ==
  /\ called # NotCalled /\ called' = NotCalled
  /\ UNCHANGED <<json, held, changes>>

ContainerCall ==
  /\ changes <= MaxChanges /\ called = NotCalled
  /\ \/ \E n \in Holders : Move(n)
     \/ \E n \in Holders, d \in Names : Take(n, d)
     \/ \E d \in Names :
          \/ Erase(d) \/ EraseRange(d) \/ EraseKeyOf(d) \/ EraseIndex(d)
          \/ Insert(d) \/ InsertRange(d) \/ InsertMembers(d)
          \/ Update(d) \/ UpdateRange(d) \/ PushBack(d)
          \/ PushBackMember(d) \/ Emplace(d)
          \/ Clear(d) \/ CopyRange(d)
     \/ Swap
=============================================================================
