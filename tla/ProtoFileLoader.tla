--------------------------- MODULE ProtoFileLoader ---------------------------
(***************************************************************************)
(* ProtoFileLoader (lib/src/protofileloader.cpp): a sequence of calls of   *)
(* loadFile on one loader.  The mappings, the files built and the errors   *)
(* collected outlive each call, so what a call answers depends on those    *)
(* before it.  The result of DiskFileToVirtualFile is not used.  What a    *)
(* call returns is a mirror of descriptors that stay in the loader.        *)
(***************************************************************************)
EXTENDS DescriptorMirror

CONSTANTS
  Cwd,            \* the directory "."
  IncludePaths,   \* the include paths a call may be given
  MaxLoads        \* bound on the calls

VARIABLES
  asked,     \* the file of the last call
  paths,     \* its include paths
  before,    \* the files built when it began
  known,     \* how many errors were collected then
  loads,     \* the number of calls
  outcome,   \* "none", "loading", "returned" or "threw"
  thrown     \* the errors in the exception

callVars == <<asked, paths, before, known>>
vars     == <<importerVars, mirrorVars, callVars, loads, outcome, thrown>>

ASSUME LoaderAssumption ==
  /\ Cwd \in Dir
  /\ IncludePaths \subseteq Seq(Dir)
  /\ MaxLoads \in Nat

Init ==
  /\ mappings = <<Cwd>>
  /\ pool = [f \in {} |-> << >>]
  /\ bad = {}
  /\ stack = << >>
  /\ errors = << >>
  /\ warnings = << >>
  /\ asked \in File
  /\ paths = << >>
  /\ before = pool
  /\ known = 0
  /\ loads = 0
  /\ outcome = "none"
  /\ thrown = << >>
  /\ building = << >>
  /\ protoFile = << >>
  /\ message = None

Begin(f, ps) ==
  /\ outcome # "loading"
  /\ building = << >>
  /\ loads < MaxLoads
  /\ loads' = loads + 1
  /\ outcome' = "loading"
  /\ asked' = f
  /\ paths' = ps
  /\ known' = Len(errors)
  /\ bad' = {}
  /\ stack' = <<AskedFrame(f)>>
  /\ UNCHANGED <<errors, warnings, thrown, mirrorVars>>

\* As if only the first call mapped its include paths.
LoadFileMapsOnce ==
  \E f \in File, ps \in IncludePaths :
    /\ Begin(f, ps)
    /\ mappings' = IF loads = 0 THEN mappings \o ps ELSE mappings
    /\ before' = pool
    /\ UNCHANGED pool

\* As if each call made an importer of its own.
LoadFileAnew ==
  \E f \in File, ps \in IncludePaths :
    /\ Begin(f, ps)
    /\ mappings' = mappings \o ps
    /\ pool' = [g \in {} |-> << >>]
    /\ before' = pool'

LoadFile ==
  \E f \in File, ps \in IncludePaths :
    /\ Begin(f, ps)
    /\ mappings' = mappings \o ps
    /\ before' = pool
    /\ UNCHANGED pool

Import ==
  /\ ImportStep
  /\ UNCHANGED <<mirrorVars, callVars, loads, outcome, thrown>>

(***************************************************************************)
(* The ProtoFile that is returned is made from the file's descriptor.      *)
(***************************************************************************)
Mirror ==
  /\ ImportEnds
  /\ asked \in DOMAIN pool
  /\ building = << >>
  /\ building' = <<Constructor("file", pool[asked].messages)>>
  /\ UNCHANGED <<importerVars, callVars, loads, outcome, thrown, protoFile, message>>

Mirrors == MirrorStep /\ UNCHANGED <<importerVars, callVars, loads, outcome, thrown>>

Return ==
  /\ MirrorEnds /\ Inner.type = "file"
  /\ outcome' = "returned"
  /\ protoFile' = Inner.built
  /\ building' = << >>
  /\ stack' = << >>
  /\ UNCHANGED <<mappings, pool, bad, errors, warnings, callVars, loads, thrown, message>>

\* As if the exception was made before the import.
ThrowKnown ==
  /\ ImportEnds
  /\ asked \notin DOMAIN pool
  /\ outcome' = "threw"
  /\ thrown' = SubSeq(errors, 1, known)
  /\ stack' = << >>
  /\ UNCHANGED <<mappings, pool, bad, errors, warnings, callVars, loads, mirrorVars>>

Throw ==
  /\ ImportEnds
  /\ asked \notin DOMAIN pool
  /\ outcome' = "threw"
  /\ thrown' = errors
  /\ stack' = << >>
  /\ UNCHANGED <<mappings, pool, bad, errors, warnings, callVars, loads, mirrorVars>>

(***************************************************************************)
(* The caller of the last load goes through the messages it was given.     *)
(* Nothing it does there changes what a load would answer.                 *)
(***************************************************************************)
WalkOn ==
  /\ outcome # "loading"
  /\ loads = MaxLoads
  /\ Walk
  /\ UNCHANGED <<importerVars, callVars, loads, outcome, thrown>>

Next == LoadFile \/ Import \/ Mirror \/ Mirrors \/ Return \/ Throw \/ WalkOn

Spec ==
  /\ Init /\ [][Next]_vars
  /\ WF_vars(Import \/ Mirror \/ Mirrors \/ Return \/ Throw)

-----------------------------------------------------------------------------
(***************************************************************************)
(* The files a loader needs for f that has built the files in built and    *)
(* has the directories in maps.                                            *)
(***************************************************************************)
Exists(built, maps, f) == f \in DOMAIN built \/ Holders(maps, f) # {}

SourceOf(built, maps, f) == IF f \in DOMAIN built THEN built[f] ELSE Found(maps, f)

ImportsOf(built, maps, files) ==
  UNION {Range(SourceOf(built, maps, f).imports) :
           f \in {g \in files : Exists(built, maps, g)}}

Needed(built, maps, f) ==
  LET closed == {files \in SUBSET File :
                   f \in files /\ ImportsOf(built, maps, files) \subseteq files}
  IN  {g \in File : \A files \in closed : g \in files}

(***************************************************************************)
(* Such a loader can load f: every file needed exists and can be parsed,   *)
(* no import leads back to where it came from, no message is defined       *)
(* twice, and each file finds those it uses.                               *)
(***************************************************************************)
Loadable(built, maps, f) ==
  LET needed == Needed(built, maps, f)
  IN  /\ \A g \in needed : Exists(built, maps, g)
      /\ \A g \in needed : SourceOf(built, maps, g).parses
      /\ \A files \in SUBSET needed :
           files # {} => \E g \in files : ImportsOf(built, maps, {g}) \cap files = {}
      /\ \A g, h \in needed \cup DOMAIN built :
           g # h => Defines(SourceOf(built, maps, g))
                      \cap Defines(SourceOf(built, maps, h)) = {}
      /\ \A g \in needed :
           MessagesUsed(SourceOf(built, maps, g)) \subseteq
             Scope(UNION {Defines(SourceOf(built, maps, h)) :
                            h \in {g} \cup ImportsOf(built, maps, {g})})

Answered == outcome \in {"returned", "threw"} /\ message = None

(***************************************************************************)
(* loadFile answers as the files on the mapped paths demand: it returns    *)
(* the file if it was loaded before or can be loaded with the files that   *)
(* were, and throws otherwise.  What an earlier call left half done has no *)
(* other influence.                                                        *)
(***************************************************************************)
LoadsExactly ==
  Answered =>
    (outcome = "returned"
       <=> asked \in DOMAIN before \/ Loadable(before, mappings, asked))

(***************************************************************************)
(* An earlier call changes the answer only by what it leaves behind: a     *)
(* path that holds a file needed now, a file needed now that was built     *)
(* from another path, or a file that defines one of the same symbols.      *)
(* Otherwise loadFile answers as it does on a new loader.                  *)
(***************************************************************************)
FreshMappings == <<Cwd>> \o paths

LeftBehind ==
  LET needed == Needed([f \in {} |-> << >>], FreshMappings, asked)
  IN  \/ needed \cap DOMAIN before # {}
      \/ \E f \in needed : /\ Holders(mappings, f) # {}
                           /\ \/ Holders(FreshMappings, f) = {}
                              \/ Found(mappings, f) # Found(FreshMappings, f)
      \/ \E f \in needed : /\ Holders(FreshMappings, f) # {}
                           /\ \E g \in DOMAIN before :
                                Defines(before[g]) \cap Defines(Found(FreshMappings, f)) # {}

FreshLoaderAgrees ==
  Answered /\ ~ LeftBehind =>
    (outcome = "returned" <=> Loadable([f \in {} |-> << >>], FreshMappings, asked))

(***************************************************************************)
(* The errors of an exception explain it: after those of earlier calls,    *)
(* which the collector never forgets, there is one of this call about the  *)
(* file asked for.                                                         *)
(***************************************************************************)
FailureIsExplained ==
  outcome = "threw" /\ Answered =>
    \E i \in known + 1 .. Len(thrown) : thrown[i].file = asked

(***************************************************************************)
(* The files built are complete at every moment, also after a failure: the *)
(* descriptors a caller walks through lead to no import that is missing.   *)
(***************************************************************************)
PoolClosed ==
  \A f \in DOMAIN pool : Range(pool[f].imports) \subseteq DOMAIN pool \ {f}

(***************************************************************************)
(* What was built stays: the pointers in the ProtoFile a call returned are *)
(* valid after every later call, and the same file is the same.            *)
(***************************************************************************)
DescriptorsSettle ==
  [][\A f \in DOMAIN pool : f \in DOMAIN pool' /\ pool'[f] = pool[f]]_vars

(***************************************************************************)
(* Every call ends, imports that form a cycle included.                    *)
(***************************************************************************)
LoadsEnd == outcome = "loading" ~> outcome # "loading"

(***************************************************************************)
(* The constructors end although messages refer to themselves and to each  *)
(* other: no message is under construction inside its own mirror.          *)
(***************************************************************************)
MirrorsEnd ==
  \A i, j \in 2 .. Len(building) : i # j => building[i].type # building[j].type

(***************************************************************************)
(* The mirror of each message as its declaration demands it, with what is  *)
(* nested in it at any depth.                                              *)
(***************************************************************************)
TypeNames ==
  <<"DOUBLE", "FLOAT", "INT64", "UINT64", "INT32", "FIXED64", "FIXED32", "BOOL",
    "STRING", "GROUP", "MESSAGE", "BYTES", "UINT32", "ENUM", "SFIXED32",
    "SFIXED64", "SINT32", "SINT64">>

LabelNames == <<"OPTIONAL", "REQUIRED", "REPEATED">>

FieldReference(d) ==
  [name |-> d.name, type |-> TypeNames[d.type], label |-> LabelNames[d.label],
   descriptor |-> d]

Reference ==
  LET Of[t \in DOMAIN Descriptor] ==
        LET d == Descriptor[t]
        IN  [type     |-> t,
             fields   |-> [k \in DOMAIN d.fields |-> FieldReference(d.fields[k])],
             enums    |-> d.enums,
             internal |-> [k \in DOMAIN d.nested |-> Of[d.nested[k]]]]
  IN  Of

(***************************************************************************)
(* A caller may follow the types of fields as far as it likes, also into   *)
(* files that were only imported, and after later loads: it always finds a *)
(* message the loader has built, in its mirror the fields, enumerators and *)
(* nested messages in the order of their declarations.  The constructors   *)
(* of the mirror end, and the files built are complete.                    *)
(***************************************************************************)
WalksAgree ==
  /\ PoolClosed /\ MirrorsEnd
  /\ message # None =>
       message.type \in Scope(Defined) /\ message = Reference[message.type]
=============================================================================
