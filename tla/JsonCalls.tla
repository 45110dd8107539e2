------------------------------ MODULE JsonCalls ------------------------------
(***************************************************************************)
(* Calls of basic_json's operators and member functions, one after the     *)
(* other: each is answered in one step, by what JsonComparison,            *)
(* JsonPointer, JsonPatch and the modules of the binary formats say of it. *)
(* A call is a record of its name and its arguments.  Apart from these     *)
(* calls, numbers are scanned, and a client changes two values through     *)
(* iterators (JsonIterator).                                               *)
(***************************************************************************)
EXTENDS JsonPatch, JsonCbor, JsonMessagePack, JsonUbjson, JsonBson, JsonNumber,
        JsonIterator

CONSTANTS
  Comparable,     \* values to compare
  Documents,      \* values for the calls that take documents
  Pointers,       \* texts of pointers
  Patchable,      \* documents to patch
  Patches,        \* what to patch them with
  Merges,         \* patches for merge_patch
  Encodable,      \* values to write in the binary formats
  Readers,        \* binary formats to read
  Beginnings,     \* how what is read begins, for each of these formats
  Octets,         \* and of what it goes on, for each of them,
  MaxOctets,      \* for so many octets
  Programs        \* sequences of several calls

VARIABLES
  calls,
  results         \* the results of those that have returned

callVars == <<calls, results>>

vars == <<numberVars, callVars, containerVars>>

-----------------------------------------------------------------------------
Pending(name) ==
  Len(results) < Len(calls) /\ calls[Len(results) + 1].call = name

Call == calls[Len(results) + 1]

Return(result) ==
  /\ results' = Append(results, result)
  /\ UNCHANGED <<numberVars, calls, containerVars>>

(***************************************************************************)
(* Two values, by both operators in both directions.                       *)
(***************************************************************************)
Compare ==
  /\ Pending("compare")
  /\ LET l == Call.lhs
         r == Call.rhs
     IN  Return([equal |-> Equal(l, r), converse |-> Equal(r, l),
                 less  |-> Less(l, r),  greater  |-> Less(r, l)])

(***************************************************************************)
(* contains, at and operator[] of a copy, with the pointer of a text.      *)
(***************************************************************************)
Resolve ==
  /\ Pending("resolve")
  /\ LET ptr == split(Call.pointer)
         v   == Call.value
     IN  Return(IF ptr.error # NoError THEN [error |-> ptr.error]
                ELSE [error     |-> NoError,
                      contains  |-> contains(v, ptr.tokens),
                      checked   |-> get_checked(v, ptr.tokens),
                      unchecked |-> get_unchecked(v, ptr.tokens)])

Patch ==
  /\ Pending("patch")
  /\ Return(patch(Call.value, Call.patch))

\* diff, and its patch applied.
DiffAndPatch ==
  /\ Pending("diff")
  /\ LET found == diff(Call.lhs, Call.rhs)
     IN  Return([diff |-> found, patched |-> patch(Call.lhs, found)])

\* merge_patch, twice.
MergePatch ==
  /\ Pending("merge")
  /\ LET merged == merge_patch(Call.value, Call.patch)
     IN  Return([merged |-> merged, again |-> merge_patch(merged, Call.patch)])

\* flatten, and unflatten of what it returned.
Flatten ==
  /\ Pending("flatten")
  /\ LET flat == flatten(Call.value)
     IN  Return([flat |-> flat, restored |-> unflatten(flat)])

(***************************************************************************)
(* to_cbor and the others, with from_cbor and the others of what they      *)
(* wrote, and from_cbor and the others alone.                              *)
(***************************************************************************)
Formats == {"cbor", "msgpack", "ubjson", "ubjson#", "ubjson$", "bson"}

WrittenAs(format, v) ==
  CASE format = "cbor"    -> to_cbor(v)
    [] format = "msgpack" -> to_msgpack(v)
    [] format = "ubjson"  -> to_ubjson(v, Plain)
    [] format = "ubjson#" -> to_ubjson(v, WithCounts)
    [] format = "ubjson$" -> to_ubjson(v, WithTypes)
    [] format = "bson"    -> to_bson(v)

ReadAs(format, octets) ==
  CASE format = "cbor"    -> from_cbor(octets)
    [] format = "msgpack" -> from_msgpack(octets)
    [] format \in {"ubjson", "ubjson#", "ubjson$"} -> from_ubjson(octets)
    [] format = "bson"    -> from_bson(octets)

Encode ==
  /\ Pending("encode")
  /\ LET written == WrittenAs(Call.format, Call.value)
     IN  Return([written |-> written,
                 restored |-> Then(written, LAMBDA w : ReadAs(Call.format, w.octets))])

Decode ==
  /\ Pending("decode")
  /\ Return(ReadAs(Call.format, Call.octets))

(***************************************************************************)
(* What operator* of lhs's begin() throws after swap(lhs, rhs), and erase  *)
(* of a range of a value.                                                  *)
(***************************************************************************)
SwapValues ==
  /\ Pending("swap")
  /\ LET found == DereferencedBy(Call.rhs, Call.lhs, begin(Call.lhs))
     IN  Return([error |-> found.error])

EraseFrom ==
  /\ Pending("erase")
  /\ Return([error |-> EraseError(Call.value, Call.first, Call.last)])

-----------------------------------------------------------------------------
CallsInit ==
  \/ \E v, w \in Comparable : calls = <<[call |-> "compare", lhs |-> v, rhs |-> w]>>
  \/ \E v, w \in Documents : calls = <<[call |-> "diff", lhs |-> v, rhs |-> w]>>
  \/ \E v \in Documents, p \in Pointers :
       calls = <<[call |-> "resolve", value |-> v, pointer |-> p]>>
  \/ \E v \in Patchable, p \in Patches :
       calls = <<[call |-> "patch", value |-> v, patch |-> p]>>
  \/ \E v \in Documents, p \in Merges :
       calls = <<[call |-> "merge", value |-> v, patch |-> p]>>
  \/ \E v \in Documents \cup Comparable : calls = <<[call |-> "flatten", value |-> v]>>
  \/ \E f \in Formats, v \in Encodable :
       calls = <<[call |-> "encode", format |-> f, value |-> v]>>
  \/ \E f \in Readers, n \in 0 .. MaxOctets :
       \E first \in Beginnings[f], octets \in [1 .. n -> Octets[f]] :
         calls = <<[call |-> "decode", format |-> f, octets |-> first \o octets]>>
  \/ calls \in Programs

Init ==
  \/ NumberInit /\ calls = << >> /\ results = << >> /\ NoContainers
  \/ NotScanning /\ CallsInit /\ results = << >> /\ NoContainers
  \/ NotScanning /\ calls = << >> /\ results = << >> /\ ContainersInit

Next ==
  \/ Scan /\ UNCHANGED <<callVars, containerVars>>
  \/ (ContainerCall \/ GoOn) /\ UNCHANGED <<numberVars, callVars>>
  \/ Compare \/ Resolve \/ Patch \/ DiffAndPatch \/ MergePatch \/ Flatten
  \/ Encode \/ Decode \/ SwapValues \/ EraseFrom

Spec == Init /\ [][Next]_vars

Returned(name) ==
  {k \in DOMAIN results : calls[k].call = name}
=============================================================================
