---------------------------- MODULE ProtoImporter ----------------------------
(***************************************************************************)
(* google::protobuf::compiler::Importer and DiskSourceTree, as far as      *)
(* lib/src/protofileloader.cpp relies on them: a file is looked for in the *)
(* mapped directories in the order they were mapped, parsed, and, once its *)
(* imports have been built, built itself and kept for ever.  What goes     *)
(* wrong is reported to the error collector.  Both classes are outside the *)
(* repository.                                                             *)
(*                                                                         *)
(* A name stands for a relative path; an absolute path, which no mapping   *)
(* of the empty prefix matches, is a name no directory holds.              *)
(***************************************************************************)
EXTENDS Naturals, Sequences, FiniteSetsExt, SequencesExt

CONSTANTS
  Dir,       \* directories
  File,      \* the names files are asked for and imported by
  Symbol,    \* the messages they define
  Descriptor,   \* what each message and each message nested in one consists of
  Disk       \* what each directory holds: a function from names to sources

(***************************************************************************)
(* What a file holds: the names it imports, the messages it defines, in    *)
(* order, whether it can be parsed, and whether parsing it gives a         *)
(* warning.                                                                *)
(***************************************************************************)
Source == [imports : Seq(File), messages : Seq(Symbol),
           parses : BOOLEAN, warns : BOOLEAN]

Defines(source) == Range(source.messages)

(***************************************************************************)
(* Each message with those nested in it, and the messages their fields     *)
(* need.                                                                   *)
(***************************************************************************)
NestedIn ==
  LET Of[t \in DOMAIN Descriptor] ==
        {t} \cup UNION {Of[n] : n \in Range(Descriptor[t].nested)}
  IN  [t \in DOMAIN Descriptor |-> Of[t]]

NeededBy ==
  [t \in DOMAIN Descriptor |->
     {f.message : f \in {g \in UNION {Range(Descriptor[n].fields) : n \in NestedIn[t]} :
                           "message" \in DOMAIN g}}]

Scope(types) == UNION {NestedIn[t] : t \in types}

MessagesUsed(source) == UNION {NeededBy[t] : t \in Defines(source)}

ASSUME DescriptorAssumption ==
  /\ IsFiniteSet(DOMAIN Descriptor)
  /\ Symbol \subseteq DOMAIN Descriptor
  /\ \A t \in DOMAIN Descriptor :
       /\ \A f \in Range(Descriptor[t].fields) : f.type \in 1 .. 18 /\ f.label \in 1 .. 3
       /\ Descriptor[t].enums \in Seq(Seq(STRING))
       /\ Descriptor[t].nested \in Seq(DOMAIN Descriptor)
  /\ \A t \in Symbol : NeededBy[t] \subseteq DOMAIN Descriptor

(***************************************************************************)
(* Messages are nested in each other by the text of a file, so not in      *)
(* themselves: of several, one has none of them in it.                     *)
(***************************************************************************)
ASSUME NestingAssumption ==
  \A types \in SUBSET DOMAIN Descriptor :
    types # {} => \E t \in types : Range(Descriptor[t].nested) \cap types = {}

ASSUME DiskAssumption ==
  /\ DOMAIN Disk = Dir
  /\ \A d \in Dir : /\ DOMAIN Disk[d] \subseteq File
                    /\ \A f \in DOMAIN Disk[d] : Disk[d][f] \in Source

VARIABLES
  mappings,   \* the directories mapped, in order
  pool,       \* the files built: a function from their names to sources
  bad,        \* the files that have failed in this import
  stack,      \* the files being built, the innermost last
  errors,     \* the errors collected
  warnings    \* and the warnings

importerVars == <<mappings, pool, bad, stack, errors, warnings>>

-----------------------------------------------------------------------------
(***************************************************************************)
(* The first mapped directory that holds the file has it.                  *)
(***************************************************************************)
Holders(maps, f) == {i \in DOMAIN maps : f \in DOMAIN Disk[maps[i]]}

Found(maps, f) == Disk[maps[Min(Holders(maps, f))]][f]

(***************************************************************************)
(* Import pushes a frame that imports the file asked for.                  *)
(***************************************************************************)
Frame(f, source) == [file |-> f, source |-> source, next |-> 1]

AskedFrame(f) ==
  Frame(f, [imports |-> <<f>>, messages |-> << >>, parses |-> TRUE, warns |-> FALSE])

Top       == stack[Len(stack)]
Advanced  == [stack EXCEPT ![Len(stack)].next = @ + 1]
Importing == stack # << >> /\ Top.next <= Len(Top.source.imports)
Wanted    == Top.source.imports[Top.next]

Pending == {stack[i].file : i \in 2 .. Len(stack)}

\* As if a file that has failed was neither sought nor skipped.
SkipBuilt ==
  /\ Importing
  /\ Wanted \in DOMAIN pool
  /\ stack' = Advanced
  /\ UNCHANGED <<mappings, pool, bad, errors, warnings>>

\* Wanted was built before, or has failed before.
Skip ==
  /\ Importing
  /\ Wanted \in DOMAIN pool \cup bad
  /\ stack' = Advanced
  /\ UNCHANGED <<mappings, pool, bad, errors, warnings>>

Sought == Importing /\ Wanted \notin DOMAIN pool \cup bad

(***************************************************************************)
(* Wanted fails if it does not exist, cannot be parsed, or imports itself. *)
(***************************************************************************)
Opens ==
  /\ Holders(mappings, Wanted) # {}
  /\ Found(mappings, Wanted).parses
  /\ Wanted \notin Pending

Warned ==
  IF Holders(mappings, Wanted) # {} /\ Found(mappings, Wanted).warns
  THEN Append(warnings, Wanted) ELSE warnings

OpenFails ==
  /\ Sought
  /\ ~ Opens
  /\ errors' = Append(errors, [file |-> Wanted, about |-> Wanted])
  /\ warnings' = Warned
  /\ bad' = bad \cup {Wanted}
  /\ stack' = Advanced
  /\ UNCHANGED <<mappings, pool>>

Open ==
  /\ Sought
  /\ Opens
  /\ stack' = Append(Advanced, Frame(Wanted, Found(mappings, Wanted)))
  /\ warnings' = Warned
  /\ UNCHANGED <<mappings, pool, bad, errors>>

(***************************************************************************)
(* After its imports a file is built, unless one of them is missing, a     *)
(* message it defines is defined already, or one it uses is defined        *)
(* neither by it nor by its imports.                                       *)
(***************************************************************************)
Imported == Len(stack) > 1 /\ ~ Importing

Missing == Range(Top.source.imports) \ DOMAIN pool

Defined   == UNION {Defines(pool[f]) : f \in DOMAIN pool}
Conflicts == Defines(Top.source) \cap Defined

Visible ==
  Defines(Top.source)
    \cup UNION {Defines(pool[f]) : f \in Range(Top.source.imports) \cap DOMAIN pool}

Unresolved == MessagesUsed(Top.source) \ Scope(Visible)

Pop == stack' = SubSeq(stack, 1, Len(stack) - 1)

\* As if an import that failed did not matter.
BuildAnyway ==
  /\ Imported
  /\ Conflicts = {}
  /\ pool' = [f \in DOMAIN pool \cup {Top.file} |->
                IF f = Top.file THEN Top.source ELSE pool[f]]
  /\ Pop
  /\ UNCHANGED <<mappings, bad, errors, warnings>>

Build ==
  /\ Imported
  /\ Missing = {}
  /\ Conflicts = {}
  /\ Unresolved = {}
  /\ pool' = [f \in DOMAIN pool \cup {Top.file} |->
                IF f = Top.file THEN Top.source ELSE pool[f]]
  /\ Pop
  /\ UNCHANGED <<mappings, bad, errors, warnings>>

BuildFails ==
  /\ Imported
  /\ Missing \cup Conflicts \cup Unresolved # {}
  /\ errors' = errors \o SetToSeq({[file |-> Top.file, about |-> x] :
                                     x \in Missing \cup Conflicts \cup Unresolved})
  /\ bad' = bad \cup {Top.file}
  /\ Pop
  /\ UNCHANGED <<mappings, pool, warnings>>

ImportStep == Skip \/ OpenFails \/ Open \/ Build \/ BuildFails

ImportEnds == Len(stack) = 1 /\ ~ Importing
=============================================================================
