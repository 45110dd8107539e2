----------------------- MODULE ProtoFileLoaderTheorems -----------------------
(***************************************************************************)
(* Safety of loadFile, for all directories, files and sequences of calls:  *)
(* it returns what the files on the mapped paths demand, explains why if   *)
(* it does not, and what it has built is complete and stays.               *)
(*                                                                         *)
(* The importer is a depth-first search, and so the invariant says for     *)
(* every point of it what has been found out: the files built are sound,   *)
(* those under construction are needed and lead from one to the next, and  *)
(* as soon as one file has failed, the file asked for cannot be loaded.    *)
(***************************************************************************)
EXTENDS ProtoFileLoader, FiniteSetTheorems, SequenceTheorems, TLAPS

FrameSet == [file : File, source : Source, next : Nat]
ErrorSet == [file : File, about : File \cup DOMAIN Descriptor]

Types ==
  /\ mappings \in Seq(Dir) /\ paths \in Seq(Dir)
  /\ DOMAIN pool \subseteq File /\ \A f \in DOMAIN pool : pool[f] \in Source
  /\ bad \subseteq File
  /\ stack \in Seq(FrameSet)
  /\ errors \in Seq(ErrorSet)
  /\ asked \in File
  /\ known \in Nat /\ known <= Len(errors)

(***************************************************************************)
(* The files built.                                                        *)
(***************************************************************************)
Complete == \A f \in DOMAIN pool : Range(pool[f].imports) \subseteq DOMAIN pool

Acyclic ==
  \A files \in SUBSET DOMAIN pool :
    files # {} => \E f \in files : Range(pool[f].imports) \cap files = {}

Resolved ==
  \A f \in DOMAIN pool :
    /\ pool[f].parses
    /\ MessagesUsed(pool[f]) \subseteq
         Scope(UNION {Defines(pool[h]) : h \in {f} \cup Range(pool[f].imports)})

Disjoint ==
  \A f, g \in DOMAIN pool : f # g => Defines(pool[f]) \cap Defines(pool[g]) = {}

(***************************************************************************)
(* Where they come from.                                                   *)
(***************************************************************************)
NeededNow == Needed(before, mappings, asked)

History ==
  /\ \A f \in DOMAIN before : f \in DOMAIN pool /\ before[f] = pool[f]
  /\ \A f \in DOMAIN pool \ DOMAIN before :
       /\ Holders(mappings, f) # {}
       /\ pool[f] = Found(mappings, f)
       /\ f \in NeededNow
  /\ Range(FreshMappings) \subseteq Range(mappings)

(***************************************************************************)
(* The files under construction.                                           *)
(***************************************************************************)
Attended(i) ==
  LET imports == stack[i].source.imports
  IN  /\ stack[i].next \in 1 .. Len(imports) + 1
      /\ \A k \in 1 .. stack[i].next - 1 :
           \/ imports[k] \in DOMAIN pool \cup bad
           \/ i < Len(stack) /\ imports[k] = stack[i + 1].file

Opened(i) ==
  /\ stack[i].file \in NeededNow \ DOMAIN pool
  /\ Holders(mappings, stack[i].file) # {}
  /\ stack[i].source = Found(mappings, stack[i].file)
  /\ stack[i].source.parses
  /\ i > 2 => stack[i].file \in Range(stack[i - 1].source.imports)

Frames ==
  /\ outcome = "loading" <=> stack # << >>
  /\ stack # << >> => stack[1].source.imports = <<asked>>
  /\ \A i \in 1 .. Len(stack) : Attended(i)
  /\ \A i \in 2 .. Len(stack) : Opened(i)
  /\ \A i, j \in 2 .. Len(stack) : i # j => stack[i].file # stack[j].file

(***************************************************************************)
(* What a failure means, and what an answer does.                          *)
(***************************************************************************)
Failed ==
  /\ bad # {} => ~ Loadable(before, mappings, asked)
  /\ \A f \in bad : \E i \in known + 1 .. Len(errors) : errors[i].file = f

Answers ==
  /\ outcome = "threw" => asked \in bad \ DOMAIN pool /\ thrown = errors
  /\ outcome = "returned" => asked \in DOMAIN pool

(***************************************************************************)
(* A ProtoFile is only constructed for a file that was built.              *)
(***************************************************************************)
IsConstructor(c) == c = [type |-> c.type, children |-> c.children, built |-> c.built]

Constructors ==
  /\ building \in Seq({building[i] : i \in 1 .. Len(building)})
  /\ \A i \in 1 .. Len(building) : IsConstructor(building[i])
  /\ building # << >> => IF outcome = "loading" THEN asked \in DOMAIN pool
                                                ELSE building[1].type = "field"

Inv ==
  /\ Types
  /\ Complete /\ Acyclic /\ Resolved /\ Disjoint
  /\ History /\ Frames /\ Failed /\ Answers /\ Constructors

-----------------------------------------------------------------------------
(***************************************************************************)
(* Sequences and sources.                                                  *)
(***************************************************************************)
LEMMA LeastNumber ==
  ASSUME NEW T \in SUBSET Nat, T # {}
  PROVE  Min(T) \in T
<1>1. PICK n \in T : \A m \in T : ~ (<<m, n>> \in OpToRel(<, Nat))
  BY NatLessThanWellFounded, WFMin
<1>2. ASSUME NEW m \in T
      PROVE  ~ (m < n)
  <2>1. m \in Nat /\ n \in Nat
    OBVIOUS
  <2>2. m < n => <<m, n>> \in OpToRel(<, Nat)
    BY <2>1, Zenon DEF OpToRel
  <2> QED BY <1>1, <2>2, Zenon
<1>3. \A m \in T : n <= m
  BY <1>2
<1> QED
  BY <1>3, Zenon DEF Min

LEMMA FiniteRange ==
  ASSUME NEW S, NEW q \in Seq(S)
  PROVE  IsFiniteSet(Range(q))
<1>1. PICK n \in Nat : n = Len(q) /\ DOMAIN q = 1 .. n
  BY LenProperties
<1>2. Range(q) = {q[k] : k \in 1 .. n}
  BY <1>1 DEF Range
<1> DEFINE g == [k \in 1 .. n |-> q[k]]
<1>3. g \in Surjection(1 .. n, {q[k] : k \in 1 .. n})
  BY DEF Surjection
<1>4. IsFiniteSet(1 .. n)
  BY FS_Interval
<1> QED
  BY <1>2, <1>3, <1>4, FS_Surjection

LEMMA Concatenated ==
  ASSUME NEW S, NEW p \in Seq(S), NEW q \in Seq(S), q # << >>
  PROVE  /\ p \o q \in Seq(S)
         /\ Len(p) \in Nat /\ Len(p \o q) \in Nat /\ Len(p) < Len(p \o q)
         /\ \A i \in 1 .. Len(p) : (p \o q)[i] = p[i]
         /\ (p \o q)[Len(p) + 1] = q[1]
<1>1. Len(p) \in Nat /\ Len(q) \in Nat /\ Len(q) # 0
  BY LenProperties, EmptySeq
<1>2. PICK m \in Nat : m = Len(p)
  BY <1>1, Zenon
<1>3. PICK n \in Nat : n = Len(q) /\ n # 0
  BY <1>1, Zenon
<1>4. /\ p \o q \in Seq(S) /\ Len(p \o q) = m + n
      /\ \A i \in 1 .. m + n : (p \o q)[i] = IF i <= m THEN p[i] ELSE q[i - m]
  BY <1>2, <1>3, ConcatProperties
<1>5. \A i \in 1 .. m : (p \o q)[i] = p[i]
  BY <1>4
<1>6. m + 1 \in 1 .. m + n /\ ~ (m + 1 <= m) /\ (m + 1) - m = 1
  BY <1>3
<1>7. (p \o q)[m + 1] = q[1]
  BY <1>4, <1>6
<1>8. m + n \in Nat /\ m < m + n
  BY <1>3
<1> QED
  BY <1>2, <1>4, <1>5, <1>7, <1>8

LEMMA SetAsSequence ==
  ASSUME NEW S, IsFiniteSet(S)
  PROVE  /\ SetToSeq(S) \in Seq(S)
         /\ S # {} => Len(SetToSeq(S)) \in Nat \ {0}
<1>1. Cardinality(S) \in Nat /\ ExistsBijection(1 .. Cardinality(S), S)
  BY FS_CardinalityType
<1>2. \E f \in [1 .. Cardinality(S) -> S] : IsInjective(f)
  BY <1>1 DEF ExistsBijection, Bijection, Injection
<1>3. SetToSeq(S) \in [1 .. Cardinality(S) -> S]
  BY <1>2, Zenon DEF SetToSeq
<1>4. S # {} => Cardinality(S) # 0
  BY FS_EmptySet
<1> QED
  BY <1>1, <1>3, <1>4

LEMMA SourceType ==
  ASSUME NEW s \in Source
  PROVE  /\ s.imports \in Seq(File) /\ s.messages \in Seq(Symbol)
         /\ Range(s.imports) \subseteq File
         /\ Defines(s) \subseteq Symbol
         /\ \A k \in 1 .. Len(s.imports) : s.imports[k] \in Range(s.imports)
<1>1. s.imports \in Seq(File) /\ s.messages \in Seq(Symbol)
  BY DEF Source
<1> QED
  BY <1>1 DEF Range, Defines

LEMMA FoundType ==
  ASSUME NEW maps \in Seq(Dir), NEW f, Holders(maps, f) # {}
  PROVE  f \in File /\ Found(maps, f) \in Source
<1>1. Holders(maps, f) \in SUBSET Nat
  BY DEF Holders
<1>2. Min(Holders(maps, f)) \in Holders(maps, f)
  BY <1>1, LeastNumber
<1> DEFINE d == maps[Min(Holders(maps, f))]
<1>3. d \in Dir /\ f \in DOMAIN Disk[d]
  BY <1>2 DEF Holders
<1>4. Found(maps, f) = Disk[d][f]
  BY DEF Found
<1> HIDE DEF d
<1> QED
  BY <1>3, <1>4, DiskAssumption

(***************************************************************************)
(* The files needed are the least set that is closed under imports.        *)
(***************************************************************************)
LEMMA ImportsOfMember ==
  ASSUME NEW built, NEW maps, NEW files, NEW f
  PROVE  f \in ImportsOf(built, maps, files)
           <=> \E g \in files : /\ Exists(built, maps, g)
                                /\ f \in Range(SourceOf(built, maps, g).imports)
  BY DEF ImportsOf

LEMMA NeededIsClosed ==
  ASSUME NEW built, NEW maps, NEW f \in File,
         ImportsOf(built, maps, File) \subseteq File
  PROVE  /\ f \in Needed(built, maps, f)
         /\ Needed(built, maps, f) \subseteq File
         /\ ImportsOf(built, maps, Needed(built, maps, f)) \subseteq Needed(built, maps, f)
<1> DEFINE N == Needed(built, maps, f)
           closed == {files \in SUBSET File :
                        f \in files /\ ImportsOf(built, maps, files) \subseteq files}
<1>1. N = {g \in File : \A files \in closed : g \in files}
  BY DEF Needed
<1>2. f \in N /\ N \subseteq File
  BY <1>1
<1>3. ASSUME NEW h \in ImportsOf(built, maps, N)
      PROVE  h \in N
  <2>1. PICK g \in N : /\ Exists(built, maps, g)
                       /\ h \in Range(SourceOf(built, maps, g).imports)
    BY <1>3, ImportsOfMember
  <2>2. \A files : g \in files => h \in ImportsOf(built, maps, files)
    BY <2>1, ImportsOfMember
  <2>3. h \in File
    BY <1>2, <2>2
  <2>4. \A files \in closed : h \in files
    BY <1>1, <2>2
  <2> QED BY <1>1, <2>3, <2>4
<1> QED
  BY <1>2, <1>3

LEMMA NeededIsLeast ==
  ASSUME NEW built, NEW maps, NEW f, NEW files \in SUBSET File, f \in files,
         ImportsOf(built, maps, files) \subseteq files
  PROVE  Needed(built, maps, f) \subseteq files
  BY DEF Needed

-----------------------------------------------------------------------------
(***************************************************************************)
(* The stack of the search.                                                *)
(***************************************************************************)
LEMMA Advancing ==
  ASSUME stack \in Seq(FrameSet), stack # << >>
  PROVE  /\ Advanced \in Seq(FrameSet) /\ Len(Advanced) = Len(stack)
         /\ \A i \in 1 .. Len(stack) :
              /\ Advanced[i].file = stack[i].file
              /\ Advanced[i].source = stack[i].source
              /\ i < Len(stack) => Advanced[i].next = stack[i].next
         /\ Advanced[Len(stack)].next = stack[Len(stack)].next + 1
<1> DEFINE n == Len(stack)
           top == stack[n]
           e == [top EXCEPT !.next = @ + 1]
<1>1. n \in Nat /\ n >= 1 /\ n \in 1 .. n /\ top \in FrameSet
  BY EmptySeq
<1> HIDE DEF top
<1>2. /\ e \in FrameSet /\ e.file = top.file /\ e.source = top.source
      /\ e.next = top.next + 1
  BY <1>1 DEF FrameSet
<1>3. Advanced = [stack EXCEPT ![n] = e]
  BY <1>1 DEF Advanced, top
<1> HIDE DEF e, n
<1>4. /\ Advanced \in Seq(FrameSet) /\ Len(Advanced) = n
      /\ \A j \in 1 .. n : Advanced[j] = IF j = n THEN e ELSE stack[j]
  BY <1>1, <1>2, <1>3, ExceptSeq DEF n
<1>5. \A i \in 1 .. n : i < n => i # n
  BY <1>1
<1>6. \A i \in 1 .. n :
        /\ Advanced[i].file = stack[i].file
        /\ Advanced[i].source = stack[i].source
        /\ i < n => Advanced[i].next = stack[i].next
  BY <1>2, <1>4, <1>5, Zenon DEF top
<1>7. Advanced[n].next = stack[n].next + 1
  BY <1>1, <1>2, <1>4, Zenon DEF top
<1> QED
  BY <1>4, <1>6, <1>7 DEF n

LEMMA PoppingFrame ==
  ASSUME stack \in Seq(FrameSet), Len(stack) > 1
  PROVE  \E n \in Nat :
           /\ n >= 1 /\ Len(stack) = n + 1
           /\ SubSeq(stack, 1, Len(stack) - 1) \in Seq(FrameSet)
           /\ Len(SubSeq(stack, 1, Len(stack) - 1)) = n
           /\ \A i \in 1 .. n : SubSeq(stack, 1, Len(stack) - 1)[i] = stack[i]
<1>1. Len(stack) - 1 \in Nat /\ Len(stack) - 1 >= 1 /\ Len(stack) = (Len(stack) - 1) + 1
  BY LenProperties
<1>2. PICK n \in Nat : n = Len(stack) - 1 /\ n >= 1 /\ Len(stack) = n + 1
  BY <1>1, Zenon
<1>3. \A i \in 1 .. n : stack[i] \in FrameSet
  BY <1>2
<1>4. /\ SubSeq(stack, 1, n) \in Seq(FrameSet)
      /\ Len(SubSeq(stack, 1, n)) = n
      /\ \A i \in 1 .. n : SubSeq(stack, 1, n)[i] = stack[i]
  BY <1>2, <1>3, SubSeqProperties
<1> QED
  BY <1>2, <1>4

(***************************************************************************)
(* The sources that the files had for this call.                           *)
(***************************************************************************)
LEMMA SourcesNow ==
  ASSUME Types, History
  PROVE  /\ \A f \in DOMAIN pool : /\ Exists(before, mappings, f)
                                   /\ SourceOf(before, mappings, f) = pool[f]
         /\ \A f : f \notin DOMAIN pool =>
              /\ Exists(before, mappings, f) <=> Holders(mappings, f) # {}
              /\ SourceOf(before, mappings, f) = Found(mappings, f)
         /\ \A f : Exists(before, mappings, f) =>
              f \in File /\ SourceOf(before, mappings, f) \in Source
<1>1. \A f \in DOMAIN before : f \in DOMAIN pool /\ before[f] = pool[f]
  BY DEF History
<1>2. \A f \in DOMAIN pool \ DOMAIN before :
        Holders(mappings, f) # {} /\ pool[f] = Found(mappings, f)
  BY Zenon DEF History
<1>3. \A f \in DOMAIN pool : /\ Exists(before, mappings, f)
                             /\ SourceOf(before, mappings, f) = pool[f]
  BY <1>1, <1>2, Zenon DEF Exists, SourceOf
<1>4. \A f : f \notin DOMAIN pool =>
        /\ Exists(before, mappings, f) <=> Holders(mappings, f) # {}
        /\ SourceOf(before, mappings, f) = Found(mappings, f)
  BY <1>1, Zenon DEF Exists, SourceOf
<1>5. \A f \in DOMAIN pool : f \in File /\ pool[f] \in Source
  BY Zenon DEF Types
<1>6. \A f : Holders(mappings, f) # {} => f \in File /\ Found(mappings, f) \in Source
  BY FoundType DEF Types
<1> QED
  BY <1>3, <1>4, <1>5, <1>6, Zenon

LEMMA NeededFiles ==
  ASSUME Types, History
  PROVE  /\ asked \in NeededNow /\ NeededNow \subseteq File
         /\ \A g \in NeededNow :
              Exists(before, mappings, g) =>
                Range(SourceOf(before, mappings, g).imports) \subseteq NeededNow
<1>1. asked \in File
  BY DEF Types
<1>2. ASSUME NEW f \in ImportsOf(before, mappings, File)
      PROVE  f \in File
  <2>1. PICK g \in File : /\ Exists(before, mappings, g)
                          /\ f \in Range(SourceOf(before, mappings, g).imports)
    BY ImportsOfMember
  <2>2. SourceOf(before, mappings, g) \in Source
    BY <2>1, SourcesNow
  <2> QED BY <2>1, <2>2, SourceType
<1>3. ImportsOf(before, mappings, File) \subseteq File
  BY <1>2
<1>4. /\ asked \in NeededNow /\ NeededNow \subseteq File
      /\ ImportsOf(before, mappings, NeededNow) \subseteq NeededNow
  BY <1>1, <1>3, NeededIsClosed DEF NeededNow
<1>5. ASSUME NEW g \in NeededNow, Exists(before, mappings, g),
             NEW f \in Range(SourceOf(before, mappings, g).imports)
      PROVE  f \in NeededNow
  BY <1>4, <1>5, ImportsOfMember
<1> QED
  BY <1>4, <1>5

(***************************************************************************)
(* What a call is about stays while it imports.                            *)
(***************************************************************************)
LEMMA SameCall ==
  ASSUME before' = before, mappings' = mappings, asked' = asked, paths' = paths
  PROVE  /\ NeededNow' = NeededNow
         /\ (Loadable(before, mappings, asked))' <=> Loadable(before, mappings, asked)
         /\ FreshMappings' = FreshMappings
         /\ Range(FreshMappings)' = Range(FreshMappings)
         /\ \A f : Holders(mappings, f)' = Holders(mappings, f)
         /\ \A f : Found(mappings, f)' = Found(mappings, f)
  BY DEF NeededNow, FreshMappings

LEMMA StackTop ==
  ASSUME Types, stack # << >>
  PROVE  \E n \in Nat :
           /\ n = Len(stack) /\ n >= 1
           /\ stack \in Seq(FrameSet)
           /\ Top = stack[n] /\ Top \in FrameSet
           /\ Top.file \in File /\ Top.source \in Source /\ Top.next \in Nat
           /\ n # 1 => n \in 2 .. n
<1>1. stack \in Seq(FrameSet)
  BY DEF Types
<1>2. Len(stack) \in Nat /\ Len(stack) >= 1
  BY <1>1, EmptySeq
<1>3. PICK n \in Nat : n = Len(stack) /\ n >= 1
  BY <1>2, Zenon
<1>4. n \in 1 .. n /\ (n # 1 => n \in 2 .. n)
  BY <1>3
<1>5. stack[n] \in FrameSet
  BY <1>1, <1>3, <1>4
<1>6. Top = stack[n]
  BY <1>3, Zenon DEF Top
<1>7. \A e \in FrameSet : e.file \in File /\ e.source \in Source /\ e.next \in Nat
  BY DEF FrameSet
<1> QED
  BY <1>1, <1>3, <1>4, <1>5, <1>6, <1>7, Zenon

LEMMA WantedNow ==
  ASSUME Types, History, Frames, Importing
  PROVE  /\ Top.next \in 1 .. Len(Top.source.imports)
         /\ Wanted \in Range(Top.source.imports)
         /\ Wanted \in NeededNow /\ Wanted \in File
         /\ Len(stack) = 1 => Wanted = asked
<1>0. stack # << >> /\ Top.next <= Len(Top.source.imports)
  BY Zenon DEF Importing
<1>1. PICK n \in Nat :
        /\ n = Len(stack) /\ n >= 1 /\ Top = stack[n] /\ Top.source \in Source
        /\ Top.next \in Nat /\ (n # 1 => n \in 2 .. n)
  BY <1>0, StackTop, Zenon
<1>2. n \in 1 .. n
  BY <1>1
<1>3. Attended(n)
  BY <1>1, <1>2, Zenon DEF Frames
<1>4. Top.next \in 1 .. Len(Top.source.imports)
  <2>1. Top.source.imports \in Seq(File)
    BY <1>1, SourceType
  <2>2. Top.next \in 1 .. Len(Top.source.imports) + 1
    BY <1>1, <1>3, Zenon DEF Attended
  <2> QED BY <1>0, <1>1, <2>1, <2>2
<1>5. Wanted \in Range(Top.source.imports)
  BY <1>1, <1>4, SourceType DEF Wanted
<1>6. n = 1 => Wanted = asked
  <2>1. SUFFICES ASSUME n = 1
                 PROVE  Wanted = asked
    BY Zenon
  <2>2. Top.source.imports = <<asked>>
    BY <1>0, <1>1, <2>1, Zenon DEF Frames
  <2> QED BY <1>4, <2>2 DEF Wanted
<1>7. Wanted \in NeededNow
  <2>1. CASE n = 1
    BY <1>6, <2>1, NeededFiles
  <2>2. CASE n # 1
    <3>2. Opened(n)
      BY <1>1, <2>2, Zenon DEF Frames
    <3>3. /\ Top.file \in NeededNow /\ Top.file \notin DOMAIN pool
          /\ Holders(mappings, Top.file) # {} /\ Top.source = Found(mappings, Top.file)
      BY <1>1, <3>2 DEF Opened
    <3>4. /\ Exists(before, mappings, Top.file)
          /\ SourceOf(before, mappings, Top.file) = Top.source
      BY <3>3, SourcesNow
    <3> QED BY <1>5, <3>3, <3>4, NeededFiles
  <2> QED BY <2>1, <2>2
<1>8. Wanted \in File
  BY <1>7, NeededFiles
<1> QED
  BY <1>1, <1>4, <1>5, <1>6, <1>7, <1>8

-----------------------------------------------------------------------------
(***************************************************************************)
(* What a step leaves alone.                                               *)
(***************************************************************************)
LEMMA PoolStays ==
  ASSUME pool' = pool, Complete, Acyclic, Resolved, Disjoint
  PROVE  Complete' /\ Acyclic' /\ Resolved' /\ Disjoint'
<1>1. Complete'
  BY Zenon DEF Complete
<1>2. Acyclic'
  BY Zenon DEF Acyclic
<1>3. Resolved'
  BY Zenon DEF Resolved
<1>4. Disjoint'
  BY Zenon DEF Disjoint
<1> QED
  BY <1>1, <1>2, <1>3, <1>4

LEMMA HistoryStays ==
  ASSUME History, pool' = pool, mappings' = mappings, UNCHANGED callVars
  PROVE  History'
<1>1. before' = before /\ asked' = asked /\ paths' = paths
  BY DEF callVars
<1>2. /\ NeededNow' = NeededNow
      /\ Range(FreshMappings)' = Range(FreshMappings)
  BY <1>1, SameCall
<1>3. Range(FreshMappings)' \subseteq Range(mappings)'
  BY <1>2 DEF History
<1>4. \A f \in DOMAIN before : f \in DOMAIN pool /\ before[f] = pool[f]
  BY Zenon DEF History
<1>5. \A f \in DOMAIN pool \ DOMAIN before :
        /\ Holders(mappings, f) # {}
        /\ pool[f] = Found(mappings, f)
        /\ f \in NeededNow
  BY Zenon DEF History
<1>6. (\A f \in DOMAIN pool \ DOMAIN before :
        /\ Holders(mappings, f) # {}
        /\ pool[f] = Found(mappings, f)
        /\ f \in NeededNow)'
  BY <1>1, <1>2, <1>5
<1>7. (\A f \in DOMAIN before : f \in DOMAIN pool /\ before[f] = pool[f])'
  BY <1>1, <1>4
<1> QED
  BY <1>3, <1>6, <1>7, Zenon DEF History

LEMMA FailedStays ==
  ASSUME Failed, bad' = bad, errors' = errors, mappings' = mappings, UNCHANGED callVars
  PROVE  Failed'
<1>1. before' = before /\ asked' = asked /\ paths' = paths /\ known' = known
  BY DEF callVars
<1>2. (Loadable(before, mappings, asked))' <=> Loadable(before, mappings, asked)
  BY <1>1, SameCall
<1>3. bad' # {} => ~ (Loadable(before, mappings, asked))'
  BY <1>2, Zenon DEF Failed
<1>4. \A f \in bad' : \E i \in known' + 1 .. Len(errors') : errors'[i].file = f
  BY <1>1, Zenon DEF Failed
<1> QED
  BY <1>3, <1>4, Zenon DEF Failed

LEMMA ConstructorsStay ==
  ASSUME Constructors, building' = building, asked' = asked, outcome' = outcome,
         DOMAIN pool \subseteq DOMAIN pool'
  PROVE  Constructors'
<1>1. /\ building' \in Seq({building'[i] : i \in 1 .. Len(building')})
      /\ \A i \in 1 .. Len(building') : IsConstructor(building'[i])
  BY Zenon DEF Constructors
<1>2. building' # << >> => IF outcome' = "loading" THEN asked' \in DOMAIN pool'
                                                   ELSE building'[1].type = "field"
  BY Zenon DEF Constructors
<1> QED
  BY <1>1, <1>2, Zenon DEF Constructors

LEMMA StandingStill ==
  ASSUME Types, Frames, mappings' = mappings, pool' = pool, bad' = bad, stack' = stack,
         errors' = errors, outcome' = outcome, asked' = asked, paths' = paths,
         before' = before, known' = known
  PROVE  Types' /\ Frames'
<1>1. Types'
  BY Zenon DEF Types
<1>2. NeededNow' = NeededNow
  BY SameCall
<1>3. ASSUME NEW i, Attended(i)
      PROVE  Attended(i)'
  BY <1>3, Zenon DEF Attended
<1>4. ASSUME NEW i, Opened(i)
      PROVE  Opened(i)'
  BY <1>2, <1>4 DEF Opened
<1>5. \A i \in 1 .. Len(stack') : Attended(i)'
  BY <1>3, Zenon DEF Frames
<1>6. \A i \in 2 .. Len(stack') : Opened(i)'
  BY <1>4, Zenon DEF Frames
<1>7. /\ outcome' = "loading" <=> stack' # << >>
      /\ stack' # << >> => stack'[1].source.imports = <<asked'>>
      /\ \A i, j \in 2 .. Len(stack') : i # j => stack'[i].file # stack'[j].file
  BY Zenon DEF Frames
<1> QED
  BY <1>1, <1>5, <1>6, <1>7, Zenon DEF Frames

LEMMA AnswersLater ==
  ASSUME outcome' = "loading"
  PROVE  Answers'
  BY DEF Answers

(***************************************************************************)
(* A frame goes on to its next import once the last one has been built or  *)
(* has failed.                                                             *)
(***************************************************************************)
LEMMA FramesAdvance ==
  ASSUME Types, History, Frames, Importing, stack' = Advanced, pool' = pool,
         bad \subseteq bad', Wanted \in DOMAIN pool \cup bad',
         mappings' = mappings, outcome' = outcome, UNCHANGED callVars
  PROVE  stack' \in Seq(FrameSet) /\ Frames'
<1>0. stack # << >>
  BY Zenon DEF Importing
<1>1. before' = before /\ asked' = asked /\ paths' = paths
  BY DEF callVars
<1>2. PICK n \in Nat :
        /\ n = Len(stack) /\ n >= 1 /\ Top = stack[n] /\ stack \in Seq(FrameSet)
        /\ Top.source \in Source /\ Top.next \in Nat
  BY <1>0, StackTop, Zenon
<1>3. /\ stack' \in Seq(FrameSet) /\ Len(stack') = n
      /\ \A i \in 1 .. n :
           /\ stack'[i].file = stack[i].file
           /\ stack'[i].source = stack[i].source
           /\ i < n => stack'[i].next = stack[i].next
      /\ stack'[n].next = stack[n].next + 1
  BY <1>0, <1>2, Advancing
<1>4. n \in 1 .. n /\ 1 \in 1 .. n /\ \A i \in 2 .. n : i \in 1 .. n /\ i - 1 \in 1 .. n
  BY <1>2
<1>5. outcome' = "loading" <=> stack' # << >>
  <2>1. stack' # << >>
    BY <1>2, <1>3
  <2> QED BY <1>0, <2>1, Zenon DEF Frames
<1>6. stack'[1].source.imports = <<asked'>>
  BY <1>0, <1>1, <1>3, <1>4, Zenon DEF Frames
<1>7. ASSUME NEW i \in 1 .. n
      PROVE  Attended(i)'
  <2>1. Attended(i) /\ stack'[i].source = stack[i].source
    BY <1>2, <1>3, Zenon DEF Frames
  <2>2. CASE i < n
    <3>1. stack'[i].next = stack[i].next
      BY <1>3, <2>2
    <3>2. i + 1 \in 1 .. n
      BY <1>2, <2>2
    <3>3. stack'[i + 1].file = stack[i + 1].file
      BY <1>3, <3>2
    <3>4. stack'[i].next \in 1 .. Len(stack'[i].source.imports) + 1
      BY <2>1, <3>1 DEF Attended
    <3>5. ASSUME NEW k \in 1 .. stack[i].next - 1
          PROVE  \/ stack[i].source.imports[k] \in DOMAIN pool \cup bad
                 \/ i < n /\ stack[i].source.imports[k] = stack[i + 1].file
      BY <1>2, <2>1, Zenon DEF Attended
    <3> QED BY <1>3, <2>1, <2>2, <3>1, <3>3, <3>4, <3>5 DEF Attended
  <2>3. CASE ~ (i < n)
    <3>1. i = n
      BY <1>2, <2>3
    <3>2. stack'[n].next = stack[n].next + 1 /\ stack'[n].source = stack[n].source
      BY <1>3, <1>4
    <3>3. Top.next \in 1 .. Len(Top.source.imports)
      BY WantedNow
    <3>4. Top.source.imports \in Seq(File)
      BY <1>2, SourceType
    <3>5. stack[n].next + 1 \in 1 .. Len(stack[n].source.imports) + 1
      BY <1>2, <3>3, <3>4
    <3>6. ASSUME NEW k \in 1 .. (stack[n].next + 1) - 1
          PROVE  stack[n].source.imports[k] \in DOMAIN pool \cup bad'
      <4>1. k \in 1 .. stack[n].next - 1 \/ k = stack[n].next
        BY <1>2, <3>3, <3>4
      <4>2. CASE k = stack[n].next
        BY <1>2, <4>2 DEF Wanted
      <4>3. CASE k \in 1 .. stack[n].next - 1
        <5>1. \/ stack[n].source.imports[k] \in DOMAIN pool \cup bad
              \/ n < n
          BY <1>2, <2>1, <3>1, <4>3, Zenon DEF Attended
        <5>2. ~ (n < n)
          BY <1>2
        <5> QED BY <5>1, <5>2
      <4> QED BY <4>1, <4>2, <4>3
    <3> QED BY <1>2, <3>1, <3>2, <3>5, <3>6 DEF Attended
  <2> QED BY <2>2, <2>3
<1>8. ASSUME NEW i \in 2 .. n
      PROVE  Opened(i)'
  <2>1. Opened(i) /\ i \in 1 .. n /\ i - 1 \in 1 .. n
    BY <1>2, <1>4, Zenon DEF Frames
  <2>2. /\ stack'[i].file = stack[i].file /\ stack'[i].source = stack[i].source
        /\ stack'[i - 1].source = stack[i - 1].source
    BY <1>3, <2>1
  <2>3. NeededNow' = NeededNow
    BY <1>1, SameCall
  <2> QED BY <2>1, <2>2, <2>3 DEF Opened
<1>9. ASSUME NEW i \in 2 .. n, NEW j \in 2 .. n, i # j
      PROVE  stack'[i].file # stack'[j].file
  <2>1. stack[i].file # stack[j].file
    BY <1>2, <1>9, Zenon DEF Frames
  <2> QED BY <1>3, <1>4, <2>1, Zenon
<1> QED
  BY <1>3, <1>5, <1>6, <1>7, <1>8, <1>9, Zenon DEF Frames

LEMMA SkipStep ==
  ASSUME Inv, Skip, UNCHANGED <<mirrorVars, callVars, loads, outcome, thrown>>
  PROVE  Inv'
<1>1. /\ Types /\ Complete /\ Acyclic /\ Resolved /\ Disjoint
      /\ History /\ Frames /\ Failed /\ Answers /\ Constructors
  BY Zenon DEF Inv
<1>2. /\ Importing /\ Wanted \in DOMAIN pool \cup bad /\ stack' = Advanced
      /\ mappings' = mappings /\ pool' = pool /\ bad' = bad /\ errors' = errors
  BY DEF Skip
<1>3. UNCHANGED callVars /\ outcome' = outcome /\ building' = building /\ asked' = asked
  BY DEF mirrorVars, callVars
<1>4. outcome = "loading"
  BY <1>1, <1>2, Zenon DEF Importing, Frames
<1>5. stack' \in Seq(FrameSet) /\ Frames'
  BY <1>1, <1>2, <1>3, FramesAdvance
<1>6. Types'
  BY <1>1, <1>2, <1>3, <1>5 DEF Types, callVars
<1>7. Constructors'
  BY <1>1, <1>2, <1>3, ConstructorsStay
<1> QED
  BY <1>1, <1>2, <1>3, <1>4, <1>5, <1>6, <1>7, PoolStays, HistoryStays, FailedStays,
     AnswersLater, Zenon DEF Inv

-----------------------------------------------------------------------------
(***************************************************************************)
(* A file that fails is one the file asked for cannot be loaded without.   *)
(***************************************************************************)
LEMMA LoadableNow ==
  ASSUME Loadable(before, mappings, asked)
  PROVE  /\ \A g \in NeededNow : Exists(before, mappings, g)
         /\ \A g \in NeededNow : SourceOf(before, mappings, g).parses
         /\ \A files \in SUBSET NeededNow :
              files # {} =>
                \E g \in files : ImportsOf(before, mappings, {g}) \cap files = {}
         /\ \A g, h \in NeededNow \cup DOMAIN before :
              g # h => Defines(SourceOf(before, mappings, g))
                         \cap Defines(SourceOf(before, mappings, h)) = {}
         /\ \A g \in NeededNow :
              MessagesUsed(SourceOf(before, mappings, g)) \subseteq
                Scope(UNION {Defines(SourceOf(before, mappings, h)) :
                               h \in {g} \cup ImportsOf(before, mappings, {g})})
  BY Zenon DEF Loadable, NeededNow

LEMMA FrameFiles ==
  ASSUME Types, History, Frames, NEW i \in 2 .. Len(stack)
  PROVE  /\ stack[i].file \in NeededNow
         /\ ImportsOf(before, mappings, {stack[i].file}) = Range(stack[i].source.imports)
         /\ SourceOf(before, mappings, stack[i].file) = stack[i].source
<1>1. Opened(i)
  BY Zenon DEF Frames
<1>2. /\ stack[i].file \in NeededNow /\ stack[i].file \notin DOMAIN pool
      /\ Holders(mappings, stack[i].file) # {}
      /\ stack[i].source = Found(mappings, stack[i].file)
  BY <1>1 DEF Opened
<1>3. /\ Exists(before, mappings, stack[i].file)
      /\ SourceOf(before, mappings, stack[i].file) = stack[i].source
  BY <1>2, SourcesNow
<1>4. \A f : f \in ImportsOf(before, mappings, {stack[i].file})
               <=> f \in Range(stack[i].source.imports)
  BY <1>3, ImportsOfMember
<1> QED
  BY <1>2, <1>3, <1>4

LEMMA CycleFails ==
  ASSUME Types, History, Frames, Importing, Wanted \in Pending
  PROVE  ~ Loadable(before, mappings, asked)
<1>0. stack # << >>
  BY Zenon DEF Importing
<1>1. PICK n \in Nat : n = Len(stack) /\ n >= 1 /\ Top = stack[n]
  BY <1>0, StackTop, Zenon
<1>2. PICK j \in 2 .. n : Wanted = stack[j].file
  BY <1>1 DEF Pending
<1> DEFINE files == {stack[i].file : i \in j .. n}
<1>3. \A i \in j .. n : i \in 2 .. n
  BY <1>1
<1>4. files \subseteq NeededNow
  BY <1>1, <1>3, FrameFiles
<1>5. files # {} /\ Wanted \in files
  <2>1. j \in j .. n
    BY <1>1
  <2> QED BY <1>2, <2>1
<1>6. ASSUME NEW i \in j .. n
      PROVE  \E f \in files : f \in Range(stack[i].source.imports)
  <2>1. CASE i = n
    BY <1>1, <1>5, <2>1, WantedNow
  <2>2. CASE i # n
    <3>1. i + 1 \in j .. n /\ i + 1 \in 2 .. n /\ i + 1 > 2 /\ (i + 1) - 1 = i
      BY <1>1, <2>2
    <3>2. Opened(i + 1)
      BY <1>1, <3>1, Zenon DEF Frames
    <3>3. stack[i + 1].file \in Range(stack[i].source.imports)
      BY <3>1, <3>2 DEF Opened
    <3> QED BY <3>1, <3>3
  <2> QED BY <2>1, <2>2
<1>7. ASSUME NEW g \in files
      PROVE  ImportsOf(before, mappings, {g}) \cap files # {}
  <2>1. PICK i \in j .. n : g = stack[i].file
    OBVIOUS
  <2>2. ImportsOf(before, mappings, {g}) = Range(stack[i].source.imports)
    BY <1>1, <1>3, <2>1, FrameFiles
  <2> QED BY <1>6, <2>2
<1> HIDE DEF files
<1> QED
  BY <1>4, <1>5, <1>7, LoadableNow

LEMMA CannotOpen ==
  ASSUME Types, History, Frames, Sought, ~ Opens
  PROVE  ~ Loadable(before, mappings, asked)
<1>1. Importing /\ Wanted \notin DOMAIN pool
  BY DEF Sought
<1>2. Wanted \in NeededNow
  BY <1>1, WantedNow
<1>3. /\ Exists(before, mappings, Wanted) <=> Holders(mappings, Wanted) # {}
      /\ SourceOf(before, mappings, Wanted) = Found(mappings, Wanted)
  BY <1>1, SourcesNow
<1>4. CASE Holders(mappings, Wanted) = {}
  BY <1>2, <1>3, <1>4, LoadableNow
<1>5. CASE ~ Found(mappings, Wanted).parses
  <2>1. Loadable(before, mappings, asked) => SourceOf(before, mappings, Wanted).parses
    BY <1>2, LoadableNow, Zenon
  <2>2. Loadable(before, mappings, asked) => Found(mappings, Wanted).parses
    BY <1>3, <2>1, Zenon
  <2> QED BY <1>5, <2>2, Zenon
<1>6. CASE Wanted \in Pending
  BY <1>1, <1>6, CycleFails
<1> QED
  BY <1>4, <1>5, <1>6, Zenon DEF Opens

LEMMA OpenFailsStep ==
  ASSUME Inv, OpenFails, UNCHANGED <<mirrorVars, callVars, loads, outcome, thrown>>
  PROVE  Inv'
<1>1. /\ Types /\ Complete /\ Acyclic /\ Resolved /\ Disjoint
      /\ History /\ Frames /\ Failed /\ Answers /\ Constructors
  BY Zenon DEF Inv
<1>2. /\ Sought /\ ~ Opens /\ Importing /\ stack' = Advanced
      /\ errors' = Append(errors, [file |-> Wanted, about |-> Wanted])
      /\ bad' = bad \cup {Wanted} /\ mappings' = mappings /\ pool' = pool
  BY DEF OpenFails, Sought
<1>3. /\ UNCHANGED callVars /\ outcome' = outcome /\ building' = building
      /\ asked' = asked /\ before' = before /\ known' = known /\ paths' = paths
  BY DEF mirrorVars, callVars
<1>4. outcome = "loading"
  BY <1>1, <1>2, Zenon DEF Importing, Frames
<1>5. stack' \in Seq(FrameSet) /\ Frames'
  BY <1>1, <1>2, <1>3, FramesAdvance
<1>6. /\ errors' \in Seq(ErrorSet) /\ Len(errors') = Len(errors) + 1
      /\ \A i \in 1 .. Len(errors) : errors'[i] = errors[i]
      /\ errors'[Len(errors) + 1].file = Wanted
  <2>1. Wanted \in File
    BY <1>1, <1>2, WantedNow
  <2>2. [file |-> Wanted, about |-> Wanted] \in ErrorSet
    BY <2>1 DEF ErrorSet
  <2> QED BY <1>1, <1>2, <2>2, AppendProperties DEF Types
<1>7. Types'
  <2>1. bad' \subseteq File /\ known' \in Nat /\ known' <= Len(errors')
    BY <1>1, <1>2, <1>3, <1>6, WantedNow, LenProperties DEF Types
  <2> QED BY <1>1, <1>2, <1>3, <1>5, <1>6, <2>1 DEF Types
<1>8. Failed'
  <2>1. ~ (Loadable(before, mappings, asked))'
    BY <1>1, <1>2, <1>3, CannotOpen, SameCall
  <2>2. ASSUME NEW f \in bad'
        PROVE  \E i \in known' + 1 .. Len(errors') : errors'[i].file = f
    <3>1. known \in Nat /\ Len(errors) \in Nat /\ known <= Len(errors)
      BY <1>1, LenProperties DEF Types
    <3>2. CASE f = Wanted
      <4>1. Len(errors) + 1 \in known' + 1 .. Len(errors')
        BY <1>3, <1>6, <3>1
      <4> QED BY <1>6, <3>2, <4>1
    <3>3. CASE f \in bad
      <4>1. PICK i \in known + 1 .. Len(errors) : errors[i].file = f
        BY <1>1, <3>3, Zenon DEF Failed
      <4>2. i \in 1 .. Len(errors) /\ i \in known' + 1 .. Len(errors')
        BY <1>3, <1>6, <3>1, <4>1
      <4> QED BY <1>6, <4>1, <4>2
    <3> QED BY <1>2, <3>2, <3>3
  <2> QED BY <2>1, <2>2, Zenon DEF Failed
<1>9. Constructors'
  BY <1>1, <1>2, <1>3, ConstructorsStay
<1> QED
  BY <1>1, <1>2, <1>3, <1>4, <1>5, <1>7, <1>8, <1>9, PoolStays, HistoryStays,
     AnswersLater, Zenon DEF Inv

-----------------------------------------------------------------------------
(***************************************************************************)
(* A file is opened.                                                       *)
(***************************************************************************)
LEMMA FramesOpen ==
  ASSUME Types, History, Frames, Sought, Opens,
         stack' = Append(Advanced, Frame(Wanted, Found(mappings, Wanted))),
         pool' = pool, bad' = bad,
         mappings' = mappings, outcome' = outcome, UNCHANGED callVars
  PROVE  stack' \in Seq(FrameSet) /\ Frames'
<1>0. Importing /\ Wanted \notin DOMAIN pool /\ stack # << >>
  BY Zenon DEF Sought, Importing
<1>1. before' = before /\ asked' = asked /\ paths' = paths
  BY DEF callVars
<1>2. PICK n \in Nat :
        /\ n = Len(stack) /\ n >= 1 /\ Top = stack[n] /\ stack \in Seq(FrameSet)
        /\ Top.source \in Source /\ Top.next \in Nat
  BY <1>0, StackTop, Zenon
<1>3. /\ Advanced \in Seq(FrameSet) /\ Len(Advanced) = n
      /\ \A i \in 1 .. n :
           /\ Advanced[i].file = stack[i].file
           /\ Advanced[i].source = stack[i].source
           /\ i < n => Advanced[i].next = stack[i].next
      /\ Advanced[n].next = stack[n].next + 1
  BY <1>0, <1>2, Advancing
<1> DEFINE w == Wanted
           new == Frame(w, Found(mappings, w))
<1>4. /\ Holders(mappings, w) # {} /\ Found(mappings, w).parses
      /\ \A i \in 2 .. n : w # stack[i].file
  BY <1>2 DEF Opens, Pending
<1>5. /\ w \in File /\ w \in NeededNow /\ w \in Range(Top.source.imports)
      /\ Found(mappings, w) \in Source
  BY <1>0, <1>4, WantedNow, FoundType DEF Types
<1>6. /\ new \in FrameSet /\ new.file = w /\ new.source = Found(mappings, w)
      /\ new.next = 1
  BY <1>5 DEF Frame, FrameSet
<1>7. stack' = Append(Advanced, new)
  OBVIOUS
<1> HIDE DEF new, w
<1>8. /\ stack' \in Seq(FrameSet) /\ Len(stack') = n + 1 /\ stack'[n + 1] = new
      /\ \A i \in 1 .. n : stack'[i] = Advanced[i]
  BY <1>3, <1>6, <1>7, AppendProperties
<1>9. /\ n \in 1 .. n /\ 1 \in 1 .. n /\ \A i \in 2 .. n : i \in 1 .. n /\ i - 1 \in 1 .. n
      /\ \A i \in 1 .. n + 1 : i \in 1 .. n \/ i = n + 1
      /\ \A i \in 2 .. n + 1 : i \in 2 .. n \/ i = n + 1
      /\ n + 1 \notin 2 .. n /\ (n + 1) - 1 = n /\ n + 1 \in 1 .. n + 1
  BY <1>2
<1>10. outcome' = "loading" <=> stack' # << >>
  <2>1. stack' # << >>
    BY <1>2, <1>8
  <2> QED BY <1>0, <2>1, Zenon DEF Frames
<1>11. stack'[1].source.imports = <<asked'>>
  BY <1>0, <1>1, <1>3, <1>8, <1>9, Zenon DEF Frames
<1>12. ASSUME NEW i \in 1 .. n + 1
       PROVE  Attended(i)'
  <2>1. CASE i = n + 1
    <3>1. stack'[i].next = 1 /\ stack'[i].source.imports \in Seq(File)
      BY <1>5, <1>6, <1>8, <2>1, SourceType
    <3>2. 1 \in 1 .. Len(stack'[i].source.imports) + 1
      BY <3>1, LenProperties
    <3> QED BY <3>1, <3>2 DEF Attended
  <2>2. CASE i \in 1 .. n
    <3>1. /\ Attended(i) /\ stack'[i].source = stack[i].source
          /\ stack'[i].next = Advanced[i].next
      BY <1>2, <1>3, <1>8, <2>2, Zenon DEF Frames
    <3>2. CASE i < n
      <4>1. stack'[i].next = stack[i].next
        BY <1>3, <2>2, <3>1, <3>2
      <4>2. i + 1 \in 1 .. n /\ i < n + 1
        BY <1>2, <3>2
      <4>3. stack'[i + 1].file = stack[i + 1].file
        BY <1>3, <1>8, <4>2
      <4>4. stack'[i].next \in 1 .. Len(stack'[i].source.imports) + 1
        BY <3>1, <4>1 DEF Attended
      <4>5. ASSUME NEW k \in 1 .. stack[i].next - 1
            PROVE  \/ stack[i].source.imports[k] \in DOMAIN pool \cup bad
                   \/ stack[i].source.imports[k] = stack[i + 1].file
        BY <1>2, <3>1, Zenon DEF Attended
      <4> QED BY <1>8, <3>1, <4>1, <4>2, <4>3, <4>4, <4>5 DEF Attended
    <3>3. CASE ~ (i < n)
      <4>1. i = n /\ n < n + 1
        BY <1>2, <2>2, <3>3
      <4>2. stack'[n].next = stack[n].next + 1 /\ stack'[n].source = stack[n].source
        BY <1>3, <1>8, <1>9
      <4>3. Top.next \in 1 .. Len(Top.source.imports)
        BY <1>0, WantedNow
      <4>4. Top.source.imports \in Seq(File)
        BY <1>2, SourceType
      <4>5. stack[n].next + 1 \in 1 .. Len(stack[n].source.imports) + 1
        BY <1>2, <4>3, <4>4
      <4>6. ASSUME NEW k \in 1 .. (stack[n].next + 1) - 1
            PROVE  \/ stack[n].source.imports[k] \in DOMAIN pool \cup bad
                   \/ stack[n].source.imports[k] = w
        <5>1. k \in 1 .. stack[n].next - 1 \/ k = stack[n].next
          BY <1>2, <4>3, <4>4
        <5>2. CASE k = stack[n].next
          BY <1>2, <5>2 DEF Wanted, w
        <5>3. CASE k \in 1 .. stack[n].next - 1
          <6>1. \/ stack[n].source.imports[k] \in DOMAIN pool \cup bad
                \/ n < n
            BY <1>2, <3>1, <4>1, <5>3, Zenon DEF Attended
          <6>2. ~ (n < n)
            BY <1>2
          <6> QED BY <6>1, <6>2
        <5> QED BY <5>1, <5>2, <5>3
      <4>7. stack'[n + 1].file = w
        BY <1>6, <1>8
      <4> QED BY <1>8, <4>1, <4>2, <4>5, <4>6, <4>7 DEF Attended
    <3> QED BY <3>2, <3>3
  <2> QED BY <1>9, <2>1, <2>2
<1>13. NeededNow' = NeededNow
  BY <1>1, SameCall
<1>14. ASSUME NEW i \in 2 .. n + 1
       PROVE  Opened(i)'
  <2>1. CASE i = n + 1
    <3>1. /\ stack'[i].file = w /\ stack'[i].source = Found(mappings, w)
          /\ stack'[i - 1].source = Top.source
      BY <1>2, <1>3, <1>6, <1>8, <1>9, <2>1
    <3>2. w \notin DOMAIN pool
      BY <1>0 DEF w
    <3> QED BY <1>4, <1>5, <1>13, <3>1, <3>2 DEF Opened
  <2>2. CASE i \in 2 .. n
    <3>1. Opened(i) /\ i \in 1 .. n /\ i - 1 \in 1 .. n
      BY <1>2, <1>9, <2>2, Zenon DEF Frames
    <3>2. /\ stack'[i].file = stack[i].file /\ stack'[i].source = stack[i].source
          /\ stack'[i - 1].source = stack[i - 1].source
      BY <1>3, <1>8, <3>1
    <3> QED BY <1>13, <3>1, <3>2 DEF Opened
  <2> QED BY <1>9, <2>1, <2>2
<1>15. ASSUME NEW i \in 2 .. n + 1, NEW j \in 2 .. n + 1, i # j
       PROVE  stack'[i].file # stack'[j].file
  <2>1. \A k \in 2 .. n : stack'[k].file = stack[k].file /\ w # stack[k].file
    BY <1>3, <1>4, <1>8, <1>9, Zenon
  <2>2. stack'[n + 1].file = w
    BY <1>6, <1>8
  <2>3. CASE i \in 2 .. n /\ j \in 2 .. n
    <3>1. stack[i].file # stack[j].file
      BY <1>2, <1>15, <2>3, Zenon DEF Frames
    <3> QED BY <2>1, <2>3, <3>1, Zenon
  <2> QED BY <1>9, <1>15, <2>1, <2>2, <2>3, Zenon
<1> QED
  BY <1>8, <1>10, <1>11, <1>12, <1>14, <1>15, Zenon DEF Frames

LEMMA OpenStep ==
  ASSUME Inv, Open, UNCHANGED <<mirrorVars, callVars, loads, outcome, thrown>>
  PROVE  Inv'
<1>1. /\ Types /\ Complete /\ Acyclic /\ Resolved /\ Disjoint
      /\ History /\ Frames /\ Failed /\ Answers /\ Constructors
  BY Zenon DEF Inv
<1>2. /\ Sought /\ Opens /\ Importing
      /\ stack' = Append(Advanced, Frame(Wanted, Found(mappings, Wanted)))
      /\ mappings' = mappings /\ pool' = pool /\ bad' = bad /\ errors' = errors
  BY Zenon DEF Open, Sought
<1>3. UNCHANGED callVars /\ outcome' = outcome /\ building' = building /\ asked' = asked
  BY DEF mirrorVars, callVars
<1>4. outcome = "loading"
  BY <1>1, <1>2, Zenon DEF Importing, Frames
<1>5. stack' \in Seq(FrameSet) /\ Frames'
  BY <1>1, <1>2, <1>3, FramesOpen
<1>6. Types'
  BY <1>1, <1>2, <1>3, <1>5 DEF Types, callVars
<1>7. Constructors'
  BY <1>1, <1>2, <1>3, ConstructorsStay
<1> QED
  BY <1>1, <1>2, <1>3, <1>4, <1>5, <1>6, <1>7, PoolStays, HistoryStays, FailedStays,
     AnswersLater, Zenon DEF Inv

-----------------------------------------------------------------------------
(***************************************************************************)
(* A file is done with: it is built, or it fails.                          *)
(***************************************************************************)
LEMMA FramesPop ==
  ASSUME Types, History, Frames, Imported, Pop,
         DOMAIN pool \subseteq DOMAIN pool', DOMAIN pool' \subseteq DOMAIN pool \cup {Top.file},
         bad \subseteq bad', Top.file \in DOMAIN pool' \cup bad',
         mappings' = mappings, outcome' = outcome, UNCHANGED callVars
  PROVE  stack' \in Seq(FrameSet) /\ Frames'
<1>0. Len(stack) > 1 /\ stack # << >> /\ stack \in Seq(FrameSet)
  BY DEF Imported, Types
<1>1. before' = before /\ asked' = asked /\ paths' = paths
  BY DEF callVars
<1>2. PICK n \in Nat :
        /\ n >= 1 /\ Len(stack) = n + 1
        /\ SubSeq(stack, 1, Len(stack) - 1) \in Seq(FrameSet)
        /\ Len(SubSeq(stack, 1, Len(stack) - 1)) = n
        /\ \A i \in 1 .. n : SubSeq(stack, 1, Len(stack) - 1)[i] = stack[i]
  BY <1>0, PoppingFrame
<1>3. /\ stack' \in Seq(FrameSet) /\ Len(stack') = n
      /\ \A i \in 1 .. n : stack'[i] = stack[i]
  BY <1>2, Zenon DEF Pop
<1>4. Top = stack[n + 1]
  BY <1>2, Zenon DEF Top
<1>5. /\ 1 \in 1 .. n /\ \A i \in 1 .. n : i \in 1 .. n + 1 /\ i < n + 1
      /\ \A i \in 2 .. n : i \in 1 .. n /\ i - 1 \in 1 .. n /\ i \in 2 .. n + 1 /\ i # n + 1
      /\ n + 1 \in 2 .. n + 1
  BY <1>2
<1>6. outcome' = "loading" <=> stack' # << >>
  <2>1. stack' # << >>
    BY <1>2, <1>3
  <2> QED BY <1>0, <2>1, Zenon DEF Frames
<1>7. stack'[1].source.imports = <<asked'>>
  BY <1>0, <1>1, <1>3, <1>5, Zenon DEF Frames
<1>8. ASSUME NEW i \in 1 .. n
      PROVE  Attended(i)'
  <2>1. Attended(i) /\ stack'[i] = stack[i]
    BY <1>2, <1>3, <1>5, Zenon DEF Frames
  <2>2. stack'[i].next \in 1 .. Len(stack'[i].source.imports) + 1
    BY <2>1 DEF Attended
  <2>3. ASSUME NEW k \in 1 .. stack[i].next - 1
        PROVE  \/ stack[i].source.imports[k] \in DOMAIN pool' \cup bad'
               \/ i < n /\ stack[i].source.imports[k] = stack'[i + 1].file
    <3>1. \/ stack[i].source.imports[k] \in DOMAIN pool \cup bad
          \/ stack[i].source.imports[k] = stack[i + 1].file
      BY <2>1, Zenon DEF Attended
    <3>2. CASE i < n
      <4>1. i + 1 \in 1 .. n
        BY <1>2, <3>2
      <4>2. stack'[i + 1] = stack[i + 1]
        BY <1>3, <4>1
      <4> QED BY <3>1, <3>2, <4>2
    <3>3. CASE i = n
      BY <1>4, <3>1, <3>3
    <3> QED BY <1>2, <3>2, <3>3
  <2> QED BY <1>3, <2>1, <2>2, <2>3 DEF Attended
<1>9. NeededNow' = NeededNow
  BY <1>1, SameCall
<1>10. ASSUME NEW i \in 2 .. n
       PROVE  Opened(i)'
  <2>1. /\ Opened(i) /\ i \in 1 .. n /\ i - 1 \in 1 .. n
        /\ stack[i].file # stack[n + 1].file
    BY <1>2, <1>5, Zenon DEF Frames
  <2>2. stack'[i] = stack[i] /\ stack'[i - 1] = stack[i - 1]
    BY <1>3, <2>1
  <2>3. stack[i].file \notin DOMAIN pool'
    BY <1>4, <2>1 DEF Opened
  <2> QED BY <1>9, <2>1, <2>2, <2>3 DEF Opened
<1>11. ASSUME NEW i \in 2 .. n, NEW j \in 2 .. n, i # j
       PROVE  stack'[i].file # stack'[j].file
  <2>1. stack[i].file # stack[j].file
    BY <1>2, <1>5, <1>11, Zenon DEF Frames
  <2> QED BY <1>3, <1>5, <2>1, Zenon
<1> QED
  BY <1>3, <1>6, <1>7, <1>8, <1>10, <1>11, Zenon DEF Frames

(***************************************************************************)
(* All imports of such a file have been built or have failed.              *)
(***************************************************************************)
LEMMA ImportedNow ==
  ASSUME Types, History, Frames, Imported
  PROVE  /\ Top.file \in File /\ Top.source \in Source
         /\ Top.file \in NeededNow /\ Top.file \notin DOMAIN pool
         /\ Holders(mappings, Top.file) # {} /\ Top.source = Found(mappings, Top.file)
         /\ Top.source.parses
         /\ SourceOf(before, mappings, Top.file) = Top.source
         /\ ImportsOf(before, mappings, {Top.file}) = Range(Top.source.imports)
         /\ Range(Top.source.imports) \subseteq NeededNow
         /\ Range(Top.source.imports) \subseteq DOMAIN pool \cup bad
<1>0. Len(stack) > 1 /\ stack # << >> /\ ~ (Top.next <= Len(Top.source.imports))
  BY DEF Imported, Importing
<1>1. PICK n \in Nat :
        /\ n = Len(stack) /\ n >= 1 /\ Top = stack[n] /\ Top.source \in Source
        /\ Top.file \in File /\ Top.next \in Nat /\ (n # 1 => n \in 2 .. n)
  BY <1>0, StackTop, Zenon
<1>2. n \in 1 .. n /\ n \in 2 .. n /\ ~ (n < n)
  BY <1>0, <1>1
<1>3. Attended(n) /\ Opened(n)
  BY <1>1, <1>2, Zenon DEF Frames
<1>4. /\ Top.file \in NeededNow /\ Top.file \notin DOMAIN pool
      /\ Holders(mappings, Top.file) # {} /\ Top.source = Found(mappings, Top.file)
      /\ Top.source.parses
  BY <1>1, <1>3 DEF Opened
<1>5. /\ SourceOf(before, mappings, Top.file) = Top.source
      /\ ImportsOf(before, mappings, {Top.file}) = Range(Top.source.imports)
  BY <1>1, <1>2, FrameFiles
<1>6. Exists(before, mappings, Top.file)
  BY <1>4, SourcesNow
<1>7. Range(Top.source.imports) \subseteq NeededNow
  BY <1>4, <1>5, <1>6, NeededFiles
<1>8. ASSUME NEW f \in Range(Top.source.imports)
      PROVE  f \in DOMAIN pool \cup bad
  <2>1. Top.source.imports \in Seq(File)
    BY <1>1, SourceType
  <2>2. PICK k \in 1 .. Len(Top.source.imports) : f = Top.source.imports[k]
    BY <2>1 DEF Range
  <2>3. k \in 1 .. Top.next - 1
    BY <1>0, <1>1, <2>1
  <2> QED BY <1>1, <1>2, <1>3, <2>2, <2>3, Zenon DEF Attended
<1> QED
  BY <1>1, <1>4, <1>5, <1>7, <1>8

LEMMA PoolGrows ==
  ASSUME Types, Complete, Acyclic, Resolved, Disjoint, History, Frames, Build
  PROVE  /\ DOMAIN pool' = DOMAIN pool \cup {Top.file}
         /\ pool'[Top.file] = Top.source
         /\ \A f \in DOMAIN pool : pool'[f] = pool[f]
         /\ Complete' /\ Acyclic' /\ Resolved' /\ Disjoint'
<1> DEFINE t == Top.file
           s == Top.source
           I == Range(s.imports)
<1>1. /\ Imported /\ Missing = {} /\ Conflicts = {} /\ Unresolved = {}
      /\ pool' = [f \in DOMAIN pool \cup {t} |-> IF f = t THEN s ELSE pool[f]]
  BY DEF Build
<1>2. t \notin DOMAIN pool /\ s.parses
  BY <1>1, ImportedNow
<1>3. I \subseteq DOMAIN pool /\ t \notin I
  BY <1>1, <1>2 DEF Missing
<1>4. /\ \A f \in DOMAIN pool : Defines(s) \cap Defines(pool[f]) = {}
  BY <1>1 DEF Conflicts, Defined
<1>5. MessagesUsed(s) \subseteq
        Scope(Defines(s) \cup UNION {Defines(pool[f]) : f \in I \cap DOMAIN pool})
  BY <1>1 DEF Unresolved, Visible
<1> HIDE DEF t, s, I
<1>6. /\ DOMAIN pool' = DOMAIN pool \cup {t} /\ pool'[t] = s
      /\ \A f \in DOMAIN pool : pool'[f] = pool[f]
  BY <1>1, <1>2
<1>7. \A f \in DOMAIN pool : Range(pool[f].imports) \subseteq DOMAIN pool
  BY Zenon DEF Complete
<1>8. Complete'
  <2>1. \A f \in DOMAIN pool' : Range(pool'[f].imports) \subseteq DOMAIN pool'
    BY <1>3, <1>6, <1>7 DEF I
  <2> QED BY <2>1, Zenon DEF Complete
<1>9. ASSUME NEW files \in SUBSET DOMAIN pool', files # {}
      PROVE  \E f \in files : Range(pool'[f].imports) \cap files = {}
  <2> DEFINE rest == files \ {t}
  <2>1. CASE rest = {}
    <3>1. t \in files /\ I \cap files = {}
      BY <1>3, <1>9, <2>1
    <3> QED BY <1>6, <3>1 DEF I
  <2>2. CASE rest # {}
    <3>1. rest \in SUBSET DOMAIN pool
      BY <1>6
    <3>2. PICK f \in rest : Range(pool[f].imports) \cap rest = {}
      BY <2>2, <3>1, Zenon DEF Acyclic
    <3>3. f \in DOMAIN pool /\ Range(pool[f].imports) \subseteq DOMAIN pool
      BY <1>7, <3>1
    <3>4. Range(pool'[f].imports) \cap files = {}
      BY <1>2, <1>6, <3>2, <3>3
    <3> QED BY <3>4
  <2> QED BY <2>1, <2>2
<1>10. Acyclic'
  BY <1>9, Zenon DEF Acyclic
<1>11. ASSUME NEW f \in DOMAIN pool'
       PROVE  /\ pool'[f].parses
              /\ MessagesUsed(pool'[f]) \subseteq
                   Scope(UNION {Defines(pool'[h]) : h \in {f} \cup Range(pool'[f].imports)})
  <2>1. CASE f = t
    <3>1. UNION {Defines(pool'[h]) : h \in {t} \cup I}
            = Defines(s) \cup UNION {Defines(pool[h]) : h \in I \cap DOMAIN pool}
      BY <1>3, <1>6
    <3> QED BY <1>2, <1>5, <1>6, <2>1, <3>1 DEF I
  <2>2. CASE f \in DOMAIN pool
    <3> DEFINE J == Range(pool[f].imports)
    <3>1. pool'[f] = pool[f] /\ J \subseteq DOMAIN pool
      BY <1>6, <1>7, <2>2
    <3>2. /\ pool[f].parses
          /\ MessagesUsed(pool[f]) \subseteq Scope(UNION {Defines(pool[h]) : h \in {f} \cup J})
      BY <2>2, Zenon DEF Resolved
    <3> HIDE DEF J
    <3>3. UNION {Defines(pool'[h]) : h \in {f} \cup J}
            = UNION {Defines(pool[h]) : h \in {f} \cup J}
      BY <1>6, <2>2, <3>1
    <3> QED BY <3>1, <3>2, <3>3, Zenon DEF J
  <2> QED BY <1>6, <2>1, <2>2
<1>12. Resolved'
  BY <1>11, Zenon DEF Resolved
<1>13. \A f, g \in DOMAIN pool : f # g => Defines(pool[f]) \cap Defines(pool[g]) = {}
  BY Zenon DEF Disjoint
<1>14. \A f, g \in DOMAIN pool' : f # g => Defines(pool'[f]) \cap Defines(pool'[g]) = {}
  BY <1>4, <1>6, <1>13
<1>15. Disjoint'
  BY <1>14, Zenon DEF Disjoint
<1> QED
  BY <1>6, <1>8, <1>10, <1>12, <1>15 DEF t, s

LEMMA BuildStep ==
  ASSUME Inv, Build, UNCHANGED <<mirrorVars, callVars, loads, outcome, thrown>>
  PROVE  /\ Inv'
         /\ \A f \in DOMAIN pool : f \in DOMAIN pool' /\ pool'[f] = pool[f]
<1>1. /\ Types /\ Complete /\ Acyclic /\ Resolved /\ Disjoint
      /\ History /\ Frames /\ Failed /\ Answers /\ Constructors
  BY Zenon DEF Inv
<1>2. /\ Imported /\ Pop
      /\ mappings' = mappings /\ bad' = bad /\ errors' = errors
  BY DEF Build
<1>3. /\ UNCHANGED callVars /\ outcome' = outcome /\ building' = building
      /\ asked' = asked /\ before' = before /\ known' = known /\ paths' = paths
  BY DEF mirrorVars, callVars
<1>4. stack # << >> /\ outcome = "loading"
  BY <1>1, <1>2 DEF Imported, Frames
<1>5. /\ DOMAIN pool' = DOMAIN pool \cup {Top.file}
      /\ pool'[Top.file] = Top.source
      /\ \A f \in DOMAIN pool : pool'[f] = pool[f]
      /\ Complete' /\ Acyclic' /\ Resolved' /\ Disjoint'
  BY <1>1, PoolGrows
<1>6. stack' \in Seq(FrameSet) /\ Frames'
  BY <1>1, <1>2, <1>3, <1>5, FramesPop
<1>7. /\ Top.file \in File /\ Top.source \in Source /\ Top.file \in NeededNow
      /\ Holders(mappings, Top.file) # {} /\ Top.source = Found(mappings, Top.file)
  BY <1>1, <1>2, ImportedNow
<1>8. Types'
  <2>1. DOMAIN pool' \subseteq File /\ \A f \in DOMAIN pool' : pool'[f] \in Source
    BY <1>1, <1>5, <1>7 DEF Types
  <2> QED BY <1>1, <1>2, <1>3, <1>6, <2>1 DEF Types
<1>9. History'
  <2>1. /\ NeededNow' = NeededNow
        /\ Range(FreshMappings)' = Range(FreshMappings)
    BY <1>2, <1>3, SameCall
  <2>2. \A f \in DOMAIN before' : f \in DOMAIN pool' /\ before'[f] = pool'[f]
    BY <1>1, <1>3, <1>5 DEF History
  <2>3. \A f \in DOMAIN pool \ DOMAIN before :
          Holders(mappings, f) # {} /\ pool[f] = Found(mappings, f) /\ f \in NeededNow
    BY <1>1, Zenon DEF History
  <2>4. ASSUME NEW f \in DOMAIN pool' \ DOMAIN before'
        PROVE  /\ Holders(mappings', f) # {} /\ pool'[f] = Found(mappings', f)
               /\ f \in NeededNow'
    BY <1>2, <1>3, <1>5, <1>7, <2>1, <2>3
  <2>5. Range(FreshMappings)' \subseteq Range(mappings)'
    BY <1>1, <1>2, <2>1 DEF History
  <2> QED BY <2>2, <2>4, <2>5, Zenon DEF History
<1>10. Failed'
  BY <1>1, <1>2, <1>3, FailedStays
<1>11. Constructors'
  BY <1>1, <1>3, <1>5, ConstructorsStay
<1>12. Answers'
  BY <1>3, <1>4, AnswersLater
<1>13. Inv'
  BY <1>5, <1>6, <1>8, <1>9, <1>10, <1>11, <1>12, Zenon DEF Inv
<1> QED
  BY <1>5, <1>13

LEMMA CannotBuild ==
  ASSUME Types, History, Frames, Failed, Imported,
         Missing \cup Conflicts \cup Unresolved # {}
  PROVE  ~ Loadable(before, mappings, asked)
<1> DEFINE t == Top.file
           s == Top.source
           I == Range(s.imports)
<1>1. /\ t \in NeededNow /\ t \notin DOMAIN pool
      /\ SourceOf(before, mappings, t) = s /\ ImportsOf(before, mappings, {t}) = I
      /\ I \subseteq NeededNow /\ I \subseteq DOMAIN pool \cup bad
  BY ImportedNow
<1>2. \A f \in DOMAIN pool : SourceOf(before, mappings, f) = pool[f]
  BY SourcesNow
<1>3. CASE Missing # {}
  <2>1. bad # {}
    BY <1>1, <1>3 DEF Missing
  <2> QED BY <2>1, Zenon DEF Failed
<1>4. CASE Conflicts # {}
  <2>1. PICK x \in Defines(s), f \in DOMAIN pool : x \in Defines(pool[f])
    BY <1>4 DEF Conflicts, Defined
  <2>2. f \in NeededNow \cup DOMAIN before
    BY Zenon DEF History
  <2>3. Defines(SourceOf(before, mappings, t))
          \cap Defines(SourceOf(before, mappings, f)) # {}
    BY <1>1, <1>2, <2>1
  <2>4. t # f
    BY <1>1
  <2> QED BY <1>1, <2>2, <2>3, <2>4, LoadableNow
<1>5. CASE Missing = {} /\ Unresolved # {}
  <2>1. I \subseteq DOMAIN pool
    BY <1>5 DEF Missing
  <2>2. UNION {Defines(SourceOf(before, mappings, h)) : h \in {t} \cup I}
          = Defines(s) \cup UNION {Defines(pool[h]) : h \in I \cap DOMAIN pool}
    BY <1>1, <1>2, <2>1
  <2>3. UNION {Defines(SourceOf(before, mappings, h)) : h \in {t} \cup I} = Visible
    BY <2>2 DEF Visible
  <2>4. SUFFICES ASSUME Loadable(before, mappings, asked)
                 PROVE  FALSE
    BY Zenon
  <2>5. MessagesUsed(SourceOf(before, mappings, t)) \subseteq
          Scope(UNION {Defines(SourceOf(before, mappings, h)) :
                         h \in {t} \cup ImportsOf(before, mappings, {t})})
    BY <1>1, <2>4, LoadableNow, Zenon
  <2>6. MessagesUsed(s) \subseteq Scope(Visible)
    BY <1>1, <2>3, <2>5, Zenon
  <2> QED BY <1>5, <2>6 DEF Unresolved
<1> QED
  BY <1>3, <1>4, <1>5

LEMMA ErrorsOfBuild ==
  ASSUME Types, History, Frames, Imported,
         Missing \cup Conflicts \cup Unresolved # {},
         errors' = errors \o SetToSeq({[file |-> Top.file, about |-> x] :
                                         x \in Missing \cup Conflicts \cup Unresolved})
  PROVE  /\ errors' \in Seq(ErrorSet)
         /\ Len(errors') \in Nat /\ Len(errors) < Len(errors')
         /\ \A i \in 1 .. Len(errors) : errors'[i] = errors[i]
         /\ errors'[Len(errors) + 1].file = Top.file
<1> DEFINE t == Top.file
           P == Missing \cup Conflicts \cup Unresolved
           E == {[file |-> t, about |-> x] : x \in P}
<1>1. t \in File /\ Top.source \in Source
  BY ImportedNow
<1>2. /\ Top.source.imports \in Seq(File) /\ Range(Top.source.imports) \subseteq File
      /\ Defines(Top.source) \subseteq Symbol
  BY <1>1, SourceType
<1>3. Missing \subseteq File /\ IsFiniteSet(Missing)
  <2>1. IsFiniteSet(Range(Top.source.imports))
    BY <1>2, FiniteRange
  <2>2. Missing \subseteq Range(Top.source.imports)
    BY DEF Missing
  <2> QED BY <1>2, <2>1, <2>2, FS_Subset
<1>4. Conflicts \subseteq DOMAIN Descriptor
  BY <1>2, DescriptorAssumption DEF Conflicts
<1>5. Unresolved \subseteq DOMAIN Descriptor
  BY <1>2, DescriptorAssumption DEF Unresolved, MessagesUsed
<1>6. IsFiniteSet(Conflicts) /\ IsFiniteSet(Unresolved)
  BY <1>4, <1>5, DescriptorAssumption, FS_Subset
<1>7. IsFiniteSet(P) /\ P \subseteq File \cup DOMAIN Descriptor /\ P # {}
  <2>1. IsFiniteSet(Missing \cup Conflicts)
    BY <1>3, <1>6, FS_Union
  <2>2. IsFiniteSet(P)
    BY <1>6, <2>1, FS_Union
  <2> QED BY <1>3, <1>4, <1>5, <2>2
<1>8. errors' = errors \o SetToSeq(E)
  OBVIOUS
<1> HIDE DEF P
<1>9. IsFiniteSet(E) /\ E # {} /\ E \subseteq ErrorSet /\ \A e \in E : e.file = t
  <2> DEFINE g == [x \in P |-> [file |-> t, about |-> x]]
  <2>1. g \in Surjection(P, E)
    BY DEF Surjection
  <2>2. IsFiniteSet(E)
    BY <1>7, <2>1, FS_Surjection
  <2>3. E \subseteq ErrorSet
    BY <1>1, <1>7 DEF ErrorSet
  <2>4. E # {} /\ \A e \in E : e.file = t
    <3>1. PICK x : x \in P
      BY <1>7
    <3>2. [file |-> t, about |-> x] \in E
      BY <3>1
    <3>3. ASSUME NEW e \in E
          PROVE  e.file = t
      <4>1. PICK y \in P : e = [file |-> t, about |-> y]
        OBVIOUS
      <4> QED BY <4>1
    <3> QED BY <3>2, <3>3
  <2> HIDE DEF E
  <2> QED BY <2>2, <2>3, <2>4
<1> HIDE DEF E
<1>10. SetToSeq(E) \in Seq(E) /\ Len(SetToSeq(E)) \in Nat \ {0}
  BY <1>9, SetAsSequence
<1>11. SetToSeq(E) \in Seq(ErrorSet) /\ SetToSeq(E) # << >> /\ SetToSeq(E)[1] \in E
  <2>1. PICK n \in Nat \ {0} : n = Len(SetToSeq(E))
    BY <1>10, Zenon
  <2>2. SetToSeq(E) # << >> /\ SetToSeq(E)[1] \in E
    BY <1>10, <2>1, EmptySeq
  <2>3. \A q : q \in Seq(E) => q \in Seq(ErrorSet)
    BY <1>9
  <2> QED BY <1>10, <2>2, <2>3, Zenon
<1>12. errors \in Seq(ErrorSet)
  BY DEF Types
<1>13. /\ errors' \in Seq(ErrorSet)
       /\ Len(errors') \in Nat /\ Len(errors) < Len(errors')
       /\ \A i \in 1 .. Len(errors) : errors'[i] = errors[i]
       /\ errors'[Len(errors) + 1] = SetToSeq(E)[1]
  <2> DEFINE q == SetToSeq(E)
  <2>1. q \in Seq(ErrorSet) /\ q # << >>
    BY <1>11
  <2> HIDE DEF q
  <2>2. /\ errors \o q \in Seq(ErrorSet)
        /\ Len(errors \o q) \in Nat /\ Len(errors) < Len(errors \o q)
        /\ \A i \in 1 .. Len(errors) : (errors \o q)[i] = errors[i]
        /\ (errors \o q)[Len(errors) + 1] = q[1]
    BY <1>12, <2>1, Concatenated
  <2> QED BY <1>8, <2>2, Zenon DEF q
<1> QED
  BY <1>9, <1>11, <1>13, Zenon DEF t

LEMMA BuildFailsStep ==
  ASSUME Inv, BuildFails, UNCHANGED <<mirrorVars, callVars, loads, outcome, thrown>>
  PROVE  Inv'
<1>1. /\ Types /\ Complete /\ Acyclic /\ Resolved /\ Disjoint
      /\ History /\ Frames /\ Failed /\ Answers /\ Constructors
  BY Zenon DEF Inv
<1>2. /\ Imported /\ Pop /\ Missing \cup Conflicts \cup Unresolved # {}
      /\ errors' = errors \o SetToSeq({[file |-> Top.file, about |-> x] :
                                         x \in Missing \cup Conflicts \cup Unresolved})
      /\ bad' = bad \cup {Top.file} /\ mappings' = mappings /\ pool' = pool
  BY Zenon DEF BuildFails
<1>3. /\ UNCHANGED callVars /\ outcome' = outcome /\ building' = building
      /\ asked' = asked /\ before' = before /\ known' = known /\ paths' = paths
  BY DEF mirrorVars, callVars
<1>4. stack # << >> /\ outcome = "loading"
  BY <1>1, <1>2 DEF Imported, Frames
<1>5. stack' \in Seq(FrameSet) /\ Frames'
  BY <1>1, <1>2, <1>3, FramesPop
<1>6. /\ errors' \in Seq(ErrorSet)
      /\ Len(errors') \in Nat /\ Len(errors) < Len(errors')
      /\ \A i \in 1 .. Len(errors) : errors'[i] = errors[i]
      /\ errors'[Len(errors) + 1].file = Top.file
  BY <1>1, <1>2, ErrorsOfBuild
<1>7. known \in Nat /\ Len(errors) \in Nat /\ known <= Len(errors)
  BY <1>1, LenProperties DEF Types
<1>8. Types'
  <2>1. bad' \subseteq File /\ known' \in Nat /\ known' <= Len(errors')
    BY <1>1, <1>2, <1>3, <1>6, <1>7, ImportedNow DEF Types
  <2> QED BY <1>1, <1>2, <1>3, <1>5, <1>6, <2>1 DEF Types
<1>9. Failed'
  <2>1. ~ (Loadable(before, mappings, asked))'
    BY <1>1, <1>2, <1>3, CannotBuild, SameCall
  <2>2. ASSUME NEW f \in bad'
        PROVE  \E i \in known' + 1 .. Len(errors') : errors'[i].file = f
    <3>1. CASE f = Top.file
      <4>1. Len(errors) + 1 \in known' + 1 .. Len(errors')
        BY <1>3, <1>6, <1>7
      <4> QED BY <1>6, <3>1, <4>1
    <3>2. CASE f \in bad
      <4>1. PICK i \in known + 1 .. Len(errors) : errors[i].file = f
        BY <1>1, <3>2, Zenon DEF Failed
      <4>2. i \in 1 .. Len(errors) /\ i \in known' + 1 .. Len(errors')
        BY <1>3, <1>6, <1>7, <4>1
      <4> QED BY <1>6, <4>1, <4>2
    <3> QED BY <1>2, <3>1, <3>2
  <2> QED BY <2>1, <2>2, Zenon DEF Failed
<1>10. Constructors'
  BY <1>1, <1>2, <1>3, ConstructorsStay
<1> QED
  BY <1>1, <1>2, <1>3, <1>4, <1>5, <1>8, <1>9, <1>10, PoolStays, HistoryStays,
     AnswersLater, Zenon DEF Inv

-----------------------------------------------------------------------------
(***************************************************************************)
(* The steps of a call outside the importer.                               *)
(***************************************************************************)
LEMMA FreshRange ==
  ASSUME NEW ps \in Seq(Dir)
  PROVE  Range(<<Cwd>> \o ps) = {Cwd} \cup Range(ps)
<1> DEFINE fresh == <<Cwd>> \o ps
<1>1. Cwd \in Dir
  BY LoaderAssumption
<1>2. PICK n \in Nat : n = Len(ps) /\ DOMAIN ps = 1 .. n
  BY LenProperties
<1>3. <<Cwd>> \in Seq(Dir) /\ Len(<<Cwd>>) = 1
  BY <1>1
<1>4. /\ fresh \in Seq(Dir) /\ Len(fresh) = 1 + n
      /\ \A i \in 1 .. 1 + n : fresh[i] = IF i <= 1 THEN <<Cwd>>[i] ELSE ps[i - 1]
  BY <1>2, <1>3, ConcatProperties
<1> HIDE DEF fresh
<1>5. DOMAIN fresh = 1 .. 1 + n
  BY <1>4, LenProperties
<1>6. 1 \in 1 .. 1 + n /\ fresh[1] = Cwd
  BY <1>4
<1>7. \A i \in 1 .. n : 1 + i \in 1 .. 1 + n /\ fresh[1 + i] = ps[i]
  BY <1>4
<1>8. \A i \in 1 .. 1 + n : i = 1 \/ (i - 1 \in 1 .. n /\ fresh[i] = ps[i - 1])
  BY <1>4
<1>9. Range(fresh) = {fresh[i] : i \in 1 .. 1 + n} /\ Range(ps) = {ps[i] : i \in 1 .. n}
  BY <1>2, <1>5, Zenon DEF Range
<1>10. ASSUME NEW d \in Range(fresh)
       PROVE  d \in {Cwd} \cup Range(ps)
  <2>1. PICK i \in 1 .. 1 + n : d = fresh[i]
    BY <1>9, Zenon
  <2> QED BY <1>6, <1>8, <1>9, <2>1
<1>11. ASSUME NEW d \in Range(ps)
       PROVE  d \in Range(fresh)
  <2>1. PICK i \in 1 .. n : d = ps[i]
    BY <1>9, Zenon
  <2> QED BY <1>7, <1>9, <2>1
<1>12. Cwd \in Range(fresh)
  BY <1>6, <1>9
<1> QED
  BY <1>10, <1>11, <1>12 DEF fresh

LEMMA LoadFileStep ==
  ASSUME Inv, LoadFile
  PROVE  Inv' /\ pool' = pool
<1>1. /\ Types /\ Complete /\ Acyclic /\ Resolved /\ Disjoint
      /\ History /\ Frames /\ Failed /\ Answers /\ Constructors
  BY Zenon DEF Inv
<1>2. PICK f \in File, ps \in IncludePaths :
        /\ Begin(f, ps) /\ mappings' = mappings \o ps /\ before' = pool /\ pool' = pool
  BY Zenon DEF LoadFile
<1>3. /\ outcome' = "loading" /\ asked' = f /\ paths' = ps /\ known' = Len(errors)
      /\ bad' = {} /\ stack' = <<AskedFrame(f)>> /\ errors' = errors
      /\ building' = building /\ building = << >>
  BY <1>2 DEF Begin, mirrorVars
<1>4. ps \in Seq(Dir) /\ Cwd \in Dir
  BY LoaderAssumption
<1> DEFINE a == AskedFrame(f)
<1>5. /\ a \in FrameSet /\ a.source.imports = <<f>> /\ a.next = 1
  BY DEF AskedFrame, Frame, FrameSet, Source
<1>6. stack' = <<a>>
  BY <1>3
<1> HIDE DEF a
<1>7. stack' \in Seq(FrameSet) /\ Len(stack') = 1 /\ stack'[1] = a /\ stack' # << >>
  BY <1>5, <1>6
<1>8. /\ mappings' \in Seq(Dir)
      /\ Range(mappings) \subseteq Range(mappings') /\ Range(ps) \subseteq Range(mappings')
  <2>1. mappings \in Seq(Dir)
    BY <1>1 DEF Types
  <2>2. PICK m \in Nat : m = Len(mappings) /\ DOMAIN mappings = 1 .. m
    BY <2>1, LenProperties
  <2>3. PICK n \in Nat : n = Len(ps) /\ DOMAIN ps = 1 .. n
    BY <1>4, LenProperties
  <2>4. /\ mappings' \in Seq(Dir) /\ Len(mappings') = m + n
        /\ \A i \in 1 .. m + n :
             mappings'[i] = IF i <= m THEN mappings[i] ELSE ps[i - m]
    BY <1>2, <1>4, <2>1, <2>2, <2>3, ConcatProperties
  <2>5. DOMAIN mappings' = 1 .. m + n
    BY <2>4, LenProperties
  <2>6. \A i \in 1 .. m : i \in 1 .. m + n /\ mappings'[i] = mappings[i]
    BY <2>4
  <2>7. \A i \in 1 .. n : m + i \in 1 .. m + n /\ mappings'[m + i] = ps[i]
    BY <2>4
  <2> QED BY <2>2, <2>3, <2>4, <2>5, <2>6, <2>7 DEF Range
<1>9. Types'
  <2>1. known' \in Nat /\ known' <= Len(errors')
    BY <1>1, <1>3, LenProperties DEF Types
  <2> QED BY <1>1, <1>2, <1>3, <1>4, <1>7, <1>8, <2>1 DEF Types
<1>10. History'
  <2>1. Range(FreshMappings)' = {Cwd} \cup Range(ps)
    <3>1. FreshMappings' = <<Cwd>> \o ps
      BY <1>3 DEF FreshMappings
    <3>2. Range(FreshMappings') = {Cwd} \cup Range(ps)
      BY <1>4, <3>1, FreshRange, Zenon
    <3> QED BY <3>2, Zenon
  <2>2. Cwd \in Range(mappings)
    <3>1. Range(FreshMappings) = {Cwd} \cup Range(paths)
      BY <1>1, FreshRange DEF Types, FreshMappings
    <3>2. Range(FreshMappings) \subseteq Range(mappings)
      BY <1>1, Zenon DEF History
    <3> QED BY <3>1, <3>2
  <2> QED BY <1>2, <1>8, <2>1, <2>2 DEF History
<1>11. Frames'
  <2>1. stack'[1].source.imports = <<asked'>>
    BY <1>3, <1>5, <1>7
  <2>2. Attended(1)'
    BY <1>5, <1>7 DEF Attended
  <2> QED BY <1>3, <1>7, <2>1, <2>2 DEF Frames
<1>12. Failed'
  BY <1>3 DEF Failed
<1>13. Constructors'
  BY <1>1, <1>3 DEF Constructors
<1> QED
  BY <1>1, <1>2, <1>3, <1>9, <1>10, <1>11, <1>12, <1>13, PoolStays, AnswersLater,
     Zenon DEF Inv

LEMMA ThrowStep ==
  ASSUME Inv, Throw
  PROVE  Inv' /\ pool' = pool
<1>1. /\ Types /\ Complete /\ Acyclic /\ Resolved /\ Disjoint
      /\ History /\ Frames /\ Failed /\ Answers /\ Constructors
  BY Zenon DEF Inv
<1>2. /\ ImportEnds /\ asked \notin DOMAIN pool /\ outcome' = "threw" /\ thrown' = errors
      /\ stack' = << >> /\ mappings' = mappings /\ pool' = pool /\ bad' = bad
      /\ errors' = errors /\ UNCHANGED callVars /\ UNCHANGED mirrorVars
  BY Zenon DEF Throw
<1>3. /\ building' = building /\ asked' = asked /\ before' = before /\ known' = known
      /\ paths' = paths
  BY <1>2 DEF mirrorVars, callVars
<1>4. Len(stack) = 1 /\ stack # << >> /\ ~ (Top.next <= Len(Top.source.imports))
  BY <1>2 DEF ImportEnds, Importing
<1>5. outcome = "loading"
  BY <1>1, <1>4, Zenon DEF Frames
<1>6. asked \in bad
  <2>1. stack[1].source.imports = <<asked>> /\ Attended(1)
    <3>1. 1 \in 1 .. 1
      OBVIOUS
    <3> QED BY <1>1, <1>4, <3>1, Zenon DEF Frames
  <2>2. Top = stack[1] /\ Top.next \in Nat
    <3>1. PICK n \in Nat : n = Len(stack) /\ Top = stack[n] /\ Top.next \in Nat
      BY <1>1, <1>4, StackTop, Zenon
    <3> QED BY <1>4, <3>1, Zenon
  <2>3. 1 \in 1 .. stack[1].next - 1
    <3>1. PICK m \in Nat : m = stack[1].next
      BY <2>2, Zenon
    <3>2. Len(stack[1].source.imports) = 1
      BY <2>1
    <3>3. ~ (m <= 1)
      BY <1>4, <2>2, <3>1, <3>2, Zenon
    <3>4. 1 \in 1 .. m - 1
      BY <3>3
    <3> QED BY <3>1, <3>4, Zenon
  <2>4. stack[1].source.imports[1] = asked
    BY <2>1
  <2>5. \/ stack[1].source.imports[1] \in DOMAIN pool \cup bad
        \/ 1 < Len(stack)
    BY <2>1, <2>3, Zenon DEF Attended
  <2>6. ~ (1 < 1)
    OBVIOUS
  <2> QED BY <1>2, <1>4, <2>4, <2>5, <2>6
<1>7. building = << >>
  BY <1>1, <1>2, <1>5, Zenon DEF Constructors
<1>8. Constructors'
  BY <1>1, <1>3, <1>7 DEF Constructors
<1>9. Types'
  BY <1>1, <1>2, <1>3 DEF Types
<1>10. Frames'
  BY <1>2 DEF Frames
<1>11. Answers'
  BY <1>2, <1>3, <1>6 DEF Answers
<1> QED
  BY <1>1, <1>2, <1>8, <1>9, <1>10, <1>11, PoolStays, HistoryStays, FailedStays, Zenon DEF Inv

(***************************************************************************)
(* The constructors that run keep the type of the outermost.               *)
(***************************************************************************)
LEMMA OneConstructor ==
  ASSUME NEW type, NEW children, building' = <<Constructor(type, children)>>
  PROVE  /\ building' \in Seq({building'[i] : i \in 1 .. Len(building')})
         /\ \A i \in 1 .. Len(building') : IsConstructor(building'[i])
         /\ building'[1].type = type
<1> DEFINE c == Constructor(type, children)
<1>1. IsConstructor(c) /\ c.type = type
  BY DEF Constructor, IsConstructor
<1>2. building' = <<c>>
  OBVIOUS
<1> HIDE DEF c
<1>3. Len(building') = 1 /\ building'[1] = c
  BY <1>2
<1>4. building' \in Seq({building'[i] : i \in 1 .. Len(building')})
  BY <1>2, <1>3
<1>5. \A i \in 1 .. Len(building') : building'[i] = c
  BY <1>3
<1> QED
  BY <1>1, <1>3, <1>4, <1>5

LEMMA MirrorStarts ==
  ASSUME Inv, Mirror
  PROVE  Inv' /\ pool' = pool
<1>1. /\ Types /\ Complete /\ Acyclic /\ Resolved /\ Disjoint
      /\ History /\ Frames /\ Failed /\ Answers /\ Constructors
  BY Zenon DEF Inv
<1>2. /\ ImportEnds /\ asked \in DOMAIN pool
      /\ building' = <<Constructor("file", pool[asked].messages)>>
      /\ UNCHANGED <<importerVars, callVars, outcome>>
  BY DEF Mirror
<1>3. /\ mappings' = mappings /\ pool' = pool /\ bad' = bad /\ stack' = stack
      /\ errors' = errors /\ asked' = asked /\ paths' = paths /\ before' = before
      /\ known' = known /\ outcome' = outcome
  BY <1>2 DEF importerVars, callVars
<1>4. outcome = "loading"
  BY <1>1, <1>2 DEF ImportEnds, Frames
<1>5. Constructors'
  <2>1. /\ building' \in Seq({building'[i] : i \in 1 .. Len(building')})
        /\ \A i \in 1 .. Len(building') : IsConstructor(building'[i])
    BY <1>2, OneConstructor
  <2> QED BY <1>2, <1>3, <1>4, <2>1, Zenon DEF Constructors
<1>6. Types' /\ Frames'
  BY <1>1, <1>3, StandingStill, Zenon
<1> QED
  BY <1>1, <1>2, <1>3, <1>4, <1>5, <1>6, PoolStays, HistoryStays, FailedStays, AnswersLater,
     Zenon DEF Inv

LEMMA ItsOwnElements ==
  ASSUME NEW S, NEW q \in Seq(S)
  PROVE  q \in Seq({q[i] : i \in 1 .. Len(q)})
  OBVIOUS

LEMMA ConstructKeeps ==
  ASSUME Constructors, Construct
  PROVE  /\ building' \in Seq({building'[i] : i \in 1 .. Len(building')})
         /\ \A i \in 1 .. Len(building') : IsConstructor(building'[i])
         /\ building # << >> /\ building'[1].type = building[1].type
<1> DEFINE S == {building[i] : i \in 1 .. Len(building)}
           c == Constructor(Child, Children(Descriptor[Child]))
<1>1. /\ building \in Seq(S)
      /\ \A i \in 1 .. Len(building) : IsConstructor(building[i])
  BY DEF Constructors
<1>2. building # << >> /\ building' = Append(building, c)
  BY DEF Construct, Constructing
<1>3. IsConstructor(c)
  BY DEF Constructor, IsConstructor
<1> DEFINE T == S \cup {c}
<1>4. building \in Seq(T) /\ c \in T
  BY <1>1
<1> HIDE DEF S, c, T
<1>5. PICK n \in Nat : n = Len(building) /\ n >= 1
  <2>1. Len(building) \in Nat /\ Len(building) >= 1
    BY <1>1, <1>2, EmptySeq
  <2> QED BY <2>1, Zenon
<1>6. /\ building' \in Seq(T) /\ Len(building') = n + 1 /\ building'[n + 1] = c
      /\ \A i \in 1 .. n : building'[i] = building[i]
  BY <1>2, <1>4, <1>5, AppendProperties
<1>7. 1 \in 1 .. n /\ \A i \in 1 .. n + 1 : i \in 1 .. n \/ i = n + 1
  BY <1>5
<1>8. \A i \in 1 .. n + 1 : IsConstructor(building'[i])
  BY <1>1, <1>3, <1>5, <1>6, <1>7, Zenon
<1>9. building' \in Seq({building'[i] : i \in 1 .. Len(building')})
  BY <1>6, ItsOwnElements
<1> QED
  BY <1>2, <1>6, <1>7, <1>8, <1>9, Zenon

LEMMA ConstructedMakes ==
  ASSUME Constructors, Constructed
  PROVE  \E n \in Nat :
           /\ n >= 1 /\ Len(building) = n + 1 /\ Len(building') = n
           /\ building' \in Seq({building'[i] : i \in 1 .. Len(building')})
           /\ \A i \in 1 .. n : i # n => building'[i] = building[i]
           /\ building'[n] =
                [type     |-> building[n].type,
                 children |-> building[n].children,
                 built    |-> Append(building[n].built,
                                     ProtoMessage(Inner.type, Inner.built))]
<1> DEFINE S == {building[i] : i \in 1 .. Len(building)}
           outer == SubSeq(building, 1, Len(building) - 1)
           m == ProtoMessage(Inner.type, Inner.built)
<1>1. /\ building \in Seq(S)
      /\ \A i \in 1 .. Len(building) : IsConstructor(building[i])
  BY DEF Constructors
<1>2. /\ Len(building) > 1
      /\ building' = [outer EXCEPT ![Len(outer)].built = Append(@, m)]
  BY DEF Constructed
<1> HIDE DEF S, m
<1>3. PICK n \in Nat : Len(building) = n + 1 /\ n >= 1 /\ Len(building) - 1 = n
  <2>1. Len(building) - 1 \in Nat /\ Len(building) = (Len(building) - 1) + 1
        /\ Len(building) - 1 >= 1
    BY <1>1, <1>2, LenProperties
  <2> QED BY <2>1, Zenon
<1>4. \A i \in 1 .. n : building[i] \in S /\ i \in 1 .. Len(building)
  BY <1>1, <1>3
<1>5. /\ outer \in Seq(S) /\ Len(outer) = n
      /\ \A i \in 1 .. n : outer[i] = building[i]
  BY <1>1, <1>3, <1>4, SubSeqProperties
<1> HIDE DEF outer
<1>6. 1 \in 1 .. n /\ n \in 1 .. n
  BY <1>3
<1>7. IsConstructor(outer[n])
  BY <1>1, <1>4, <1>5, <1>6, Zenon
<1> DEFINE c == outer[n]
           e == [c EXCEPT !.built = Append(@, m)]
<1>8. building' = [outer EXCEPT ![n] = e]
  BY <1>2, <1>5
<1>9. e = [type |-> building[n].type, children |-> building[n].children,
           built |-> Append(building[n].built, m)]
  <2>1. c = building[n]
    BY <1>5, <1>6
  <2> HIDE DEF c
  <2>2. c = [type |-> c.type, children |-> c.children, built |-> c.built]
    BY <1>7, Zenon DEF c, IsConstructor
  <2>3. e = [type |-> c.type, children |-> c.children, built |-> Append(c.built, m)]
    BY <2>2
  <2> QED BY <2>1, <2>3, Zenon
<1> DEFINE T == S \cup {e}
<1>10. outer \in Seq(T) /\ e \in T
  BY <1>5
<1> HIDE DEF e, T
<1>11. /\ building' \in Seq(T) /\ Len(building') = n
       /\ \A j \in 1 .. n : building'[j] = IF j = n THEN e ELSE outer[j]
  BY <1>5, <1>6, <1>8, <1>10, ExceptSeq
<1>12. building'[n] = e /\ \A i \in 1 .. n : i # n => building'[i] = building[i]
  BY <1>5, <1>6, <1>11, Zenon
<1>13. building' \in Seq({building'[i] : i \in 1 .. Len(building')})
  BY <1>11, ItsOwnElements
<1> QED
  BY <1>3, <1>9, <1>11, <1>12, <1>13, Zenon DEF m

LEMMA ConstructedKeeps ==
  ASSUME Constructors, Constructed
  PROVE  /\ building' \in Seq({building'[i] : i \in 1 .. Len(building')})
         /\ \A i \in 1 .. Len(building') : IsConstructor(building'[i])
         /\ building # << >> /\ building'[1].type = building[1].type
<1>1. PICK n \in Nat :
        /\ n >= 1 /\ Len(building) = n + 1 /\ Len(building') = n
        /\ building' \in Seq({building'[i] : i \in 1 .. Len(building')})
        /\ \A i \in 1 .. n : i # n => building'[i] = building[i]
        /\ building'[n] =
             [type     |-> building[n].type,
              children |-> building[n].children,
              built    |-> Append(building[n].built, ProtoMessage(Inner.type, Inner.built))]
  BY ConstructedMakes
<1> DEFINE b == Append(building[n].built, ProtoMessage(Inner.type, Inner.built))
<1>2. building'[n].type = building[n].type /\ IsConstructor(building'[n])
  <2>1. building'[n] = [type |-> building[n].type, children |-> building[n].children, built |-> b]
    BY <1>1
  <2> HIDE DEF b
  <2> QED BY <2>1 DEF IsConstructor
<1>3. 1 \in 1 .. n /\ n \in 1 .. n
  BY <1>1
<1>4. \A i \in 1 .. n : i \in 1 .. Len(building)
  BY <1>1
<1>5. \A i \in 1 .. n : IsConstructor(building'[i])
  <2>1. \A i \in 1 .. n : IsConstructor(building[i])
    BY <1>4, Zenon DEF Constructors
  <2> QED BY <1>1, <1>2, <2>1, Zenon
<1>6. building'[1].type = building[1].type
  <2>1. CASE n = 1
    BY <1>2, <2>1
  <2>2. CASE n # 1
    <3>1. building'[1] = building[1]
      BY <1>1, <1>3, <2>2, Zenon
    <3> QED BY <3>1
  <2> QED BY <2>1, <2>2
<1>7. building # << >>
  BY DEF Constructed
<1> QED
  BY <1>1, <1>5, <1>6, <1>7, Zenon

LEMMA MirrorsStep ==
  ASSUME Inv, Mirrors
  PROVE  Inv' /\ pool' = pool
<1>1. /\ Types /\ Complete /\ Acyclic /\ Resolved /\ Disjoint
      /\ History /\ Frames /\ Failed /\ Answers /\ Constructors
  BY Zenon DEF Inv
<1>2. (Construct \/ Constructed) /\ UNCHANGED <<importerVars, callVars, outcome, thrown>>
  BY DEF Mirrors, MirrorStep
<1>3. /\ mappings' = mappings /\ pool' = pool /\ bad' = bad /\ stack' = stack
      /\ errors' = errors /\ asked' = asked /\ paths' = paths /\ before' = before
      /\ known' = known /\ outcome' = outcome /\ thrown' = thrown
  BY <1>2 DEF importerVars, callVars
<1>4. /\ building' \in Seq({building'[i] : i \in 1 .. Len(building')})
      /\ \A i \in 1 .. Len(building') : IsConstructor(building'[i])
      /\ building # << >> /\ building'[1].type = building[1].type
  BY <1>1, <1>2, ConstructKeeps, ConstructedKeeps, Zenon
<1>5. Constructors'
  BY <1>1, <1>3, <1>4, Zenon DEF Constructors
<1>6. Types' /\ Frames'
  BY <1>1, <1>3, StandingStill, Zenon
<1>7. Answers'
  BY <1>1, <1>3, Zenon DEF Answers
<1> QED
  BY <1>1, <1>2, <1>3, <1>5, <1>6, <1>7, PoolStays, HistoryStays, FailedStays, Zenon DEF Inv

LEMMA ReturnStep ==
  ASSUME Inv, Return
  PROVE  Inv' /\ pool' = pool
<1>1. /\ Types /\ Complete /\ Acyclic /\ Resolved /\ Disjoint
      /\ History /\ Frames /\ Failed /\ Answers /\ Constructors
  BY Zenon DEF Inv
<1>2. /\ Len(building) = 1 /\ Inner.type = "file" /\ outcome' = "returned"
      /\ building' = << >> /\ stack' = << >> /\ mappings' = mappings /\ pool' = pool
      /\ bad' = bad /\ errors' = errors /\ UNCHANGED callVars
  BY Zenon DEF Return, MirrorEnds
<1>3. asked' = asked /\ before' = before /\ known' = known /\ paths' = paths
  BY <1>2 DEF callVars
<1>4. asked \in DOMAIN pool
  <2>1. Inner = building[1]
    BY <1>2, Zenon DEF Inner
  <2>2. building[1].type # "field"
    BY <1>2, <2>1
  <2>3. building # << >>
    BY <1>2
  <2> QED BY <1>1, <2>2, <2>3, Zenon DEF Constructors
<1>5. Constructors'
  BY <1>2 DEF Constructors
<1>6. Types' /\ Frames' /\ Answers'
  BY <1>1, <1>2, <1>3, <1>4 DEF Types, Frames, Answers
<1> QED
  BY <1>1, <1>2, <1>5, <1>6, PoolStays, HistoryStays, FailedStays, Zenon DEF Inv

LEMMA WalkOnStep ==
  ASSUME Inv, WalkOn
  PROVE  Inv' /\ pool' = pool
<1>1. /\ Types /\ Complete /\ Acyclic /\ Resolved /\ Disjoint
      /\ History /\ Frames /\ Failed /\ Answers /\ Constructors
  BY Zenon DEF Inv
<1>2. outcome # "loading" /\ Walk /\ UNCHANGED <<importerVars, callVars, outcome, thrown>>
  BY DEF WalkOn
<1>3. /\ mappings' = mappings /\ pool' = pool /\ bad' = bad /\ stack' = stack
      /\ errors' = errors /\ asked' = asked /\ paths' = paths /\ before' = before
      /\ known' = known /\ outcome' = outcome /\ thrown' = thrown
  BY <1>2 DEF importerVars, callVars
<1>4. Constructors'
  <2>1. CASE Messages
    BY <1>1, <1>3, <2>1, ConstructorsStay DEF Messages
  <2>2. CASE MessageType
    <3>1. PICK type : building' = <<Constructor("field", <<type>>)>>
      BY <2>2, Zenon DEF MessageType
    <3>2. /\ building' \in Seq({building'[i] : i \in 1 .. Len(building')})
          /\ \A i \in 1 .. Len(building') : IsConstructor(building'[i])
          /\ building'[1].type = "field"
      BY <3>1, OneConstructor
    <3> QED BY <1>2, <1>3, <3>2, Zenon DEF Constructors
  <2>3. CASE MessageTypeReturns
    BY <2>3 DEF MessageTypeReturns, Constructors
  <2> QED BY <1>2, <2>1, <2>2, <2>3, Zenon DEF Walk
<1>5. Types' /\ Frames'
  BY <1>1, <1>3, StandingStill, Zenon
<1>6. Answers'
  BY <1>1, <1>3, Zenon DEF Answers
<1> QED
  BY <1>1, <1>2, <1>3, <1>4, <1>5, <1>6, PoolStays, HistoryStays, FailedStays, Zenon DEF Inv

-----------------------------------------------------------------------------
(***************************************************************************)
(* The invariant holds at the beginning and is kept by every step.         *)
(***************************************************************************)
LEMMA InvInit == Init => Inv
<1> SUFFICES ASSUME Init
             PROVE  Inv
  OBVIOUS
<1>1. /\ mappings = <<Cwd>> /\ DOMAIN pool = {} /\ bad = {} /\ stack = << >>
      /\ errors = << >> /\ asked \in File /\ paths = << >> /\ before = pool /\ known = 0
      /\ outcome = "none" /\ building = << >>
  BY DEF Init
<1>2. Types
  <2>1. Cwd \in Dir
    BY LoaderAssumption
  <2> QED BY <1>1, <2>1 DEF Types
<1>3. Complete /\ Acyclic /\ Resolved /\ Disjoint
  BY <1>1 DEF Complete, Acyclic, Resolved, Disjoint
<1>4. History
  <2>1. Range(FreshMappings) = {Cwd} \cup Range(paths)
    <3>1. paths \in Seq(Dir)
      BY <1>1
    <3> QED BY <3>1, FreshRange DEF FreshMappings
  <2>2. Range(paths) = {}
    BY <1>1 DEF Range
  <2>3. Cwd \in Range(mappings)
    <3>1. DOMAIN mappings = {1} /\ mappings[1] = Cwd
      BY <1>1
    <3> QED BY <3>1 DEF Range
  <2> QED BY <1>1, <2>1, <2>2, <2>3 DEF History
<1>5. Frames /\ Failed /\ Answers /\ Constructors
  BY <1>1 DEF Frames, Failed, Answers, Constructors
<1> QED
  BY <1>2, <1>3, <1>4, <1>5, Zenon DEF Inv

LEMMA InvStep ==
  ASSUME Inv, Next
  PROVE  /\ Inv'
         /\ \A f \in DOMAIN pool : f \in DOMAIN pool' /\ pool'[f] = pool[f]
<1>1. CASE LoadFile
  BY <1>1, LoadFileStep
<1>2. CASE Import
  <2>1. ImportStep /\ UNCHANGED <<mirrorVars, callVars, loads, outcome, thrown>>
    BY <1>2, Zenon DEF Import
  <2>2. CASE Skip
    <3>1. pool' = pool
      BY <2>2 DEF Skip
    <3> QED BY <2>1, <2>2, <3>1, SkipStep, Zenon
  <2>3. CASE OpenFails
    <3>1. pool' = pool
      BY <2>3 DEF OpenFails
    <3> QED BY <2>1, <2>3, <3>1, OpenFailsStep, Zenon
  <2>4. CASE Open
    <3>1. pool' = pool
      BY <2>4 DEF Open
    <3> QED BY <2>1, <2>4, <3>1, OpenStep, Zenon
  <2>5. CASE Build
    BY <2>1, <2>5, BuildStep, Zenon
  <2>6. CASE BuildFails
    <3>1. pool' = pool
      BY <2>6 DEF BuildFails
    <3> QED BY <2>1, <2>6, <3>1, BuildFailsStep, Zenon
  <2> QED BY <2>1, <2>2, <2>3, <2>4, <2>5, <2>6, Zenon DEF ImportStep
<1>3. CASE Mirror
  BY <1>3, MirrorStarts
<1>4. CASE Mirrors
  BY <1>4, MirrorsStep
<1>5. CASE Return
  BY <1>5, ReturnStep
<1>6. CASE Throw
  BY <1>6, ThrowStep
<1>7. CASE WalkOn
  BY <1>7, WalkOnStep
<1> QED
  BY <1>1, <1>2, <1>3, <1>4, <1>5, <1>6, <1>7, Zenon DEF Next

LEMMA InvStutter ==
  ASSUME Inv, UNCHANGED vars
  PROVE  Inv'
<1>1. /\ Types /\ Complete /\ Acyclic /\ Resolved /\ Disjoint
      /\ History /\ Frames /\ Failed /\ Answers /\ Constructors
  BY Zenon DEF Inv
<1>2. /\ UNCHANGED callVars
      /\ mappings' = mappings /\ pool' = pool /\ bad' = bad /\ stack' = stack
      /\ errors' = errors /\ asked' = asked /\ paths' = paths /\ before' = before
      /\ known' = known /\ outcome' = outcome /\ thrown' = thrown /\ building' = building
  BY DEF vars, importerVars, callVars, mirrorVars
<1>3. Types' /\ Frames'
  BY <1>1, <1>2, StandingStill, Zenon
<1>4. Constructors'
  BY <1>1, <1>2, ConstructorsStay
<1>5. Answers'
  BY <1>1, <1>2, Zenon DEF Answers
<1> QED
  BY <1>1, <1>2, <1>3, <1>4, <1>5, PoolStays, HistoryStays, FailedStays, Zenon DEF Inv

LEMMA Invariance == Spec => []Inv
<1>1. Inv /\ [Next]_vars => Inv'
  BY InvStep, InvStutter
<1> QED
  BY InvInit, <1>1, PTL DEF Spec

-----------------------------------------------------------------------------
(***************************************************************************)
(* What a call answers.                                                    *)
(***************************************************************************)
LEMMA BuiltIsLoadable ==
  ASSUME Inv, asked \in DOMAIN pool
  PROVE  Loadable(before, mappings, asked)
<1>1. Types /\ Complete /\ Acyclic /\ Resolved /\ Disjoint /\ History
  BY Zenon DEF Inv
<1>2. \A f \in DOMAIN pool : /\ Exists(before, mappings, f)
                             /\ SourceOf(before, mappings, f) = pool[f]
  BY <1>1, SourcesNow
<1>3. \A f \in DOMAIN pool : Range(pool[f].imports) \subseteq DOMAIN pool
  BY <1>1, Zenon DEF Complete
<1>4. NeededNow \subseteq DOMAIN pool
  <2>1. ImportsOf(before, mappings, DOMAIN pool) \subseteq DOMAIN pool
    BY <1>2, <1>3, ImportsOfMember
  <2>2. DOMAIN pool \in SUBSET File
    BY <1>1 DEF Types
  <2> QED BY <2>1, <2>2, NeededIsLeast DEF NeededNow
<1>5. \A g \in DOMAIN pool : ImportsOf(before, mappings, {g}) = Range(pool[g].imports)
  <2>1. ASSUME NEW g \in DOMAIN pool
        PROVE  \A f : f \in ImportsOf(before, mappings, {g}) <=> f \in Range(pool[g].imports)
    BY <1>2, ImportsOfMember
  <2> QED BY <2>1
<1>6. DOMAIN before \subseteq DOMAIN pool
  BY <1>1 DEF History
<1>7. \A g \in NeededNow : Exists(before, mappings, g)
  BY <1>2, <1>4
<1>8. \A g \in NeededNow : SourceOf(before, mappings, g).parses
  <2>1. \A g \in DOMAIN pool : pool[g].parses
    BY <1>1, Zenon DEF Resolved
  <2> QED BY <1>2, <1>4, <2>1
<1>9. ASSUME NEW files \in SUBSET NeededNow, files # {}
      PROVE  \E g \in files : ImportsOf(before, mappings, {g}) \cap files = {}
  <2>1. files \in SUBSET DOMAIN pool
    BY <1>4
  <2>2. PICK g \in files : Range(pool[g].imports) \cap files = {}
    BY <1>1, <1>9, <2>1, Zenon DEF Acyclic
  <2> QED BY <1>5, <2>1, <2>2
<1>10. ASSUME NEW g \in NeededNow \cup DOMAIN before, NEW h \in NeededNow \cup DOMAIN before,
              g # h
       PROVE  Defines(SourceOf(before, mappings, g))
                \cap Defines(SourceOf(before, mappings, h)) = {}
  <2>1. g \in DOMAIN pool /\ h \in DOMAIN pool
    BY <1>4, <1>6
  <2>2. Defines(pool[g]) \cap Defines(pool[h]) = {}
    BY <1>1, <1>10, <2>1, Zenon DEF Disjoint
  <2> QED BY <1>2, <2>1, <2>2
<1>11. ASSUME NEW g \in NeededNow
       PROVE  MessagesUsed(SourceOf(before, mappings, g)) \subseteq
                Scope(UNION {Defines(SourceOf(before, mappings, h)) :
                               h \in {g} \cup ImportsOf(before, mappings, {g})})
  <2>1. g \in DOMAIN pool
    BY <1>4
  <2> DEFINE J == {g} \cup Range(pool[g].imports)
  <2>2. MessagesUsed(pool[g]) \subseteq Scope(UNION {Defines(pool[h]) : h \in J})
    BY <1>1, <2>1, Zenon DEF Resolved
  <2>3. J \subseteq DOMAIN pool /\ {g} \cup ImportsOf(before, mappings, {g}) = J
    BY <1>3, <1>5, <2>1
  <2> HIDE DEF J
  <2>4. UNION {Defines(SourceOf(before, mappings, h)) : h \in J}
          = UNION {Defines(pool[h]) : h \in J}
    BY <1>2, <2>3
  <2> QED BY <1>2, <2>1, <2>2, <2>3, <2>4, Zenon
<1> QED
  BY <1>7, <1>8, <1>9, <1>10, <1>11, Zenon DEF Loadable, NeededNow

(***************************************************************************)
(* loadFile returns exactly if the file asked for was loaded before or can *)
(* be loaded, whatever the calls before it have left half done.            *)
(***************************************************************************)
LEMMA AnswersExactly ==
  ASSUME Inv
  PROVE  LoadsExactly
<1>1. Types /\ History /\ Failed /\ Answers
  BY Zenon DEF Inv
<1>2. CASE outcome = "returned"
  <2>1. asked \in DOMAIN pool
    BY <1>1, <1>2, Zenon DEF Answers
  <2> QED BY <1>2, <2>1, BuiltIsLoadable, Zenon DEF LoadsExactly
<1>3. CASE outcome = "threw"
  <2>1. asked \in bad /\ asked \notin DOMAIN pool
    BY <1>1, <1>3 DEF Answers
  <2>2. asked \notin DOMAIN before
    BY <1>1, <2>1, Zenon DEF History
  <2>3. ~ Loadable(before, mappings, asked)
    BY <1>1, <2>1 DEF Failed
  <2>4. outcome # "returned"
    BY <1>3
  <2> QED BY <2>2, <2>3, <2>4, Zenon DEF LoadsExactly
<1> QED
  BY <1>2, <1>3 DEF LoadsExactly, Answered

THEOREM AnswersAsDemanded == Spec => []LoadsExactly
  BY Invariance, AnswersExactly, PTL

(***************************************************************************)
(* An exception holds an error of this call about the file asked for.      *)
(***************************************************************************)
LEMMA BadIsExplained ==
  ASSUME Inv
  PROVE  FailureIsExplained
<1>1. Failed /\ Answers
  BY Zenon DEF Inv
<1>2. SUFFICES ASSUME outcome = "threw"
               PROVE  \E i \in known + 1 .. Len(thrown) : thrown[i].file = asked
  BY Zenon DEF FailureIsExplained
<1>3. asked \in bad /\ thrown = errors
  BY <1>1, <1>2, Zenon DEF Answers
<1> QED
  BY <1>1, <1>3, Zenon DEF Failed

THEOREM FailuresExplained == Spec => []FailureIsExplained
  BY Invariance, BadIsExplained, PTL

(***************************************************************************)
(* The files built are complete at every moment, and none imports itself.  *)
(***************************************************************************)
LEMMA BuiltIsClosed ==
  ASSUME Inv
  PROVE  PoolClosed
<1>1. Complete /\ Acyclic
  BY Zenon DEF Inv
<1>2. SUFFICES ASSUME NEW f \in DOMAIN pool
               PROVE  Range(pool[f].imports) \subseteq DOMAIN pool \ {f}
  BY Zenon DEF PoolClosed
<1>3. \E g \in {f} : Range(pool[g].imports) \cap {f} = {}
  BY <1>1 DEF Acyclic
<1>4. Range(pool[f].imports) \subseteq DOMAIN pool
  BY <1>1, Zenon DEF Complete
<1> QED
  BY <1>3, <1>4

THEOREM PoolIsClosed == Spec => []PoolClosed
  BY Invariance, BuiltIsClosed, PTL

(***************************************************************************)
(* What was built stays as it is, in this call and in every later one.     *)
(***************************************************************************)
THEOREM BuiltIsKept == Spec => DescriptorsSettle
<1>1. Inv /\ [Next]_vars =>
        [\A f \in DOMAIN pool : f \in DOMAIN pool' /\ pool'[f] = pool[f]]_vars
  BY InvStep, Zenon
<1> QED
  BY Invariance, <1>1, PTL DEF Spec, DescriptorsSettle

-----------------------------------------------------------------------------
(***************************************************************************)
(* A loader whose earlier calls left nothing behind answers as a new one:  *)
(* the two find the same files, and so need the same.                      *)
(***************************************************************************)
LEMMA ContextsAgree ==
  ASSUME Inv, NEW new, DOMAIN new = {},
         NEW files \in SUBSET File, files \cap DOMAIN before = {},
         \A f \in files :
           Holders(mappings, f) # {} =>
             /\ Holders(FreshMappings, f) # {}
             /\ Found(mappings, f) = Found(FreshMappings, f)
  PROVE  /\ \A f \in files : /\ Exists(new, FreshMappings, f)
                                  <=> Holders(FreshMappings, f) # {}
                             /\ Exists(before, mappings, f)
                                  <=> Exists(new, FreshMappings, f)
                             /\ Exists(new, FreshMappings, f) =>
                                  SourceOf(before, mappings, f)
                                    = SourceOf(new, FreshMappings, f)
                             /\ SourceOf(new, FreshMappings, f) = Found(FreshMappings, f)
         /\ \A some \in SUBSET files :
              ImportsOf(new, FreshMappings, some) = ImportsOf(before, mappings, some)
<1>1. History
  BY Zenon DEF Inv
<1>2. \A f : Holders(FreshMappings, f) # {} => Holders(mappings, f) # {}
  <2>1. SUFFICES ASSUME NEW f, NEW i \in Holders(FreshMappings, f)
                 PROVE  Holders(mappings, f) # {}
    OBVIOUS
  <2>2. i \in DOMAIN FreshMappings /\ f \in DOMAIN Disk[FreshMappings[i]]
    BY <2>1 DEF Holders
  <2>3. FreshMappings[i] \in Range(mappings)
    <3>1. FreshMappings[i] \in Range(FreshMappings)
      BY <2>2, Zenon DEF Range
    <3> QED BY <1>1, <3>1 DEF History
  <2>4. PICK j \in DOMAIN mappings : FreshMappings[i] = mappings[j]
    BY <2>3 DEF Range
  <2> QED BY <2>2, <2>4 DEF Holders
<1>3. ASSUME NEW f \in files
      PROVE  /\ Exists(new, FreshMappings, f) <=> Holders(FreshMappings, f) # {}
             /\ Exists(before, mappings, f) <=> Exists(new, FreshMappings, f)
             /\ Exists(new, FreshMappings, f) =>
                  SourceOf(before, mappings, f) = SourceOf(new, FreshMappings, f)
             /\ SourceOf(new, FreshMappings, f) = Found(FreshMappings, f)
  <2>1. f \notin DOMAIN before /\ f \notin DOMAIN new
    OBVIOUS
  <2>2. /\ Exists(new, FreshMappings, f) <=> Holders(FreshMappings, f) # {}
        /\ Exists(before, mappings, f) <=> Holders(mappings, f) # {}
        /\ SourceOf(new, FreshMappings, f) = Found(FreshMappings, f)
        /\ SourceOf(before, mappings, f) = Found(mappings, f)
    BY <2>1, Zenon DEF Exists, SourceOf
  <2> QED BY <1>2, <2>2, Zenon
<1>4. ASSUME NEW some \in SUBSET files
      PROVE  ImportsOf(new, FreshMappings, some) = ImportsOf(before, mappings, some)
  <2>1. \A g \in some : /\ Exists(before, mappings, g) <=> Exists(new, FreshMappings, g)
                        /\ Exists(new, FreshMappings, g) =>
                             SourceOf(before, mappings, g) = SourceOf(new, FreshMappings, g)
    BY <1>3
  <2>2. \A h : h \in ImportsOf(new, FreshMappings, some)
                 <=> h \in ImportsOf(before, mappings, some)
    BY <2>1, ImportsOfMember
  <2> QED BY <2>2
<1> QED
  BY <1>3, <1>4

LEMMA FreshTypes ==
  ASSUME Inv, NEW new, DOMAIN new = {}
  PROVE  /\ asked \in Needed(new, FreshMappings, asked)
         /\ Needed(new, FreshMappings, asked) \subseteq File
         /\ ImportsOf(new, FreshMappings, Needed(new, FreshMappings, asked))
              \subseteq Needed(new, FreshMappings, asked)
<1>1. Types
  BY Zenon DEF Inv
<1>2. FreshMappings \in Seq(Dir)
  <2>1. <<Cwd>> \in Seq(Dir) /\ paths \in Seq(Dir)
    BY <1>1, LoaderAssumption DEF Types
  <2> QED BY <2>1, ConcatProperties DEF FreshMappings
<1>3. ImportsOf(new, FreshMappings, File) \subseteq File
  <2>1. SUFFICES ASSUME NEW h \in ImportsOf(new, FreshMappings, File)
                 PROVE  h \in File
    OBVIOUS
  <2>2. PICK g \in File : /\ Exists(new, FreshMappings, g)
                          /\ h \in Range(SourceOf(new, FreshMappings, g).imports)
    BY <2>1, ImportsOfMember
  <2>3. /\ Holders(FreshMappings, g) # {}
        /\ SourceOf(new, FreshMappings, g) = Found(FreshMappings, g)
    BY <2>2 DEF Exists, SourceOf
  <2>4. Found(FreshMappings, g) \in Source
    BY <1>2, <2>3, FoundType
  <2> QED BY <2>2, <2>3, <2>4, SourceType
<1>4. asked \in File
  BY <1>1 DEF Types
<1> QED
  BY <1>3, <1>4, NeededIsClosed

LEMMA SameFilesNeeded ==
  ASSUME Inv, NEW new, DOMAIN new = {},
         Needed(new, FreshMappings, asked) \cap DOMAIN before = {},
         \A f \in Needed(new, FreshMappings, asked) :
           Holders(mappings, f) # {} =>
             /\ Holders(FreshMappings, f) # {}
             /\ Found(mappings, f) = Found(FreshMappings, f)
  PROVE  NeededNow = Needed(new, FreshMappings, asked)
<1> DEFINE N == Needed(new, FreshMappings, asked)
<1>1. Types /\ History
  BY Zenon DEF Inv
<1>2. asked \in N /\ N \in SUBSET File /\ ImportsOf(new, FreshMappings, N) \subseteq N
  BY FreshTypes
<1>3. \A some \in SUBSET N :
        ImportsOf(new, FreshMappings, some) = ImportsOf(before, mappings, some)
  BY <1>2, ContextsAgree
<1>4. NeededNow \subseteq N
  <2>1. ImportsOf(before, mappings, N) \subseteq N
    BY <1>2, <1>3
  <2> HIDE DEF N
  <2> QED BY <1>2, <2>1, NeededIsLeast DEF NeededNow
<1>5. N \subseteq NeededNow
  <2>1. asked \in NeededNow /\ NeededNow \in SUBSET File
    BY <1>1, NeededFiles
  <2>2. ImportsOf(before, mappings, NeededNow) \subseteq NeededNow
    <3>1. SUFFICES ASSUME NEW h \in ImportsOf(before, mappings, NeededNow)
                   PROVE  h \in NeededNow
      OBVIOUS
    <3>2. PICK g \in NeededNow : /\ Exists(before, mappings, g)
                                 /\ h \in Range(SourceOf(before, mappings, g).imports)
      BY <3>1, ImportsOfMember
    <3> QED BY <1>1, <3>2, NeededFiles
  <2>3. ImportsOf(new, FreshMappings, NeededNow) \subseteq NeededNow
    BY <1>3, <1>4, <2>2
  <2> QED BY <2>1, <2>3, NeededIsLeast
<1> QED
  BY <1>4, <1>5

LEMMA SameAnswer ==
  ASSUME Inv, NEW new, DOMAIN new = {},
         Needed(new, FreshMappings, asked) \cap DOMAIN before = {},
         \A f \in Needed(new, FreshMappings, asked) :
           Holders(mappings, f) # {} =>
             /\ Holders(FreshMappings, f) # {}
             /\ Found(mappings, f) = Found(FreshMappings, f),
         \A f \in Needed(new, FreshMappings, asked) :
           Holders(FreshMappings, f) # {} =>
             \A g \in DOMAIN before :
               Defines(before[g]) \cap Defines(Found(FreshMappings, f)) = {}
  PROVE  Loadable(new, FreshMappings, asked) <=> Loadable(before, mappings, asked)
<1> DEFINE N == Needed(new, FreshMappings, asked)
<1>1. History /\ Disjoint
  BY Zenon DEF Inv
<1>2. N \in SUBSET File
  BY FreshTypes
<1>3. NeededNow = N
  BY SameFilesNeeded
<1>4. \A f \in N : /\ Exists(new, FreshMappings, f) <=> Holders(FreshMappings, f) # {}
                   /\ Exists(before, mappings, f) <=> Exists(new, FreshMappings, f)
                   /\ Exists(new, FreshMappings, f) =>
                        SourceOf(before, mappings, f) = SourceOf(new, FreshMappings, f)
                   /\ SourceOf(new, FreshMappings, f) = Found(FreshMappings, f)
  BY <1>2, ContextsAgree
<1>5. \A some \in SUBSET N :
        ImportsOf(new, FreshMappings, some) = ImportsOf(before, mappings, some)
  BY <1>2, ContextsAgree
<1>6. \A f \in N : Holders(FreshMappings, f) # {} =>
        \A g \in DOMAIN before :
          Defines(before[g]) \cap Defines(Found(FreshMappings, f)) = {}
  OBVIOUS
<1>7. (Loadable(new, FreshMappings, asked) <=>
         /\ \A g \in N : Exists(new, FreshMappings, g)
         /\ \A g \in N : SourceOf(new, FreshMappings, g).parses
         /\ \A files \in SUBSET N :
              files # {} => \E g \in files : ImportsOf(new, FreshMappings, {g}) \cap files = {}
         /\ \A g, h \in N \cup DOMAIN new :
              g # h => Defines(SourceOf(new, FreshMappings, g))
                         \cap Defines(SourceOf(new, FreshMappings, h)) = {}
         /\ \A g \in N :
              MessagesUsed(SourceOf(new, FreshMappings, g)) \subseteq
                Scope(UNION {Defines(SourceOf(new, FreshMappings, h)) :
                               h \in {g} \cup ImportsOf(new, FreshMappings, {g})}))
  BY Zenon DEF Loadable
<1>8. (Loadable(before, mappings, asked) <=>
         /\ \A g \in N : Exists(before, mappings, g)
         /\ \A g \in N : SourceOf(before, mappings, g).parses
         /\ \A files \in SUBSET N :
              files # {} => \E g \in files : ImportsOf(before, mappings, {g}) \cap files = {}
         /\ \A g, h \in N \cup DOMAIN before :
              g # h => Defines(SourceOf(before, mappings, g))
                         \cap Defines(SourceOf(before, mappings, h)) = {}
         /\ \A g \in N :
              MessagesUsed(SourceOf(before, mappings, g)) \subseteq
                Scope(UNION {Defines(SourceOf(before, mappings, h)) :
                               h \in {g} \cup ImportsOf(before, mappings, {g})}))
  BY <1>3, Zenon DEF Loadable, NeededNow
<1>9. (\A g \in N : Exists(new, FreshMappings, g))
        <=> (\A g \in N : Exists(before, mappings, g))
  BY <1>4, Zenon
<1>10. ASSUME \A g \in N : Exists(new, FreshMappings, g)
       PROVE  Loadable(new, FreshMappings, asked) <=> Loadable(before, mappings, asked)
  <2>1. \A g \in N : SourceOf(before, mappings, g) = SourceOf(new, FreshMappings, g)
    BY <1>4, <1>10, Zenon
  <2> HIDE DEF N
  <2>2. (\A g \in N : SourceOf(new, FreshMappings, g).parses)
          <=> (\A g \in N : SourceOf(before, mappings, g).parses)
    BY <2>1, Zenon
  <2>3. \A g \in N :
          ImportsOf(new, FreshMappings, {g}) = ImportsOf(before, mappings, {g})
    BY <1>5
  <2>4. (\A files \in SUBSET N :
           files # {} => \E g \in files : ImportsOf(new, FreshMappings, {g}) \cap files = {})
          <=> (\A files \in SUBSET N :
                 files # {} =>
                   \E g \in files : ImportsOf(before, mappings, {g}) \cap files = {})
    BY <2>3
  <2>5. (\A g, h \in N \cup DOMAIN new :
           g # h => Defines(SourceOf(new, FreshMappings, g))
                      \cap Defines(SourceOf(new, FreshMappings, h)) = {})
          <=> (\A g, h \in N \cup DOMAIN before :
                 g # h => Defines(SourceOf(before, mappings, g))
                            \cap Defines(SourceOf(before, mappings, h)) = {})
    <3>1. \A h \in DOMAIN before : SourceOf(before, mappings, h) = before[h]
      BY DEF SourceOf
    <3>2. \A g, h \in DOMAIN before : g # h => Defines(before[g]) \cap Defines(before[h]) = {}
      <4>1. \A g \in DOMAIN before : g \in DOMAIN pool /\ before[g] = pool[g]
        BY <1>1, Zenon DEF History
      <4>2. \A g, h \in DOMAIN pool : g # h => Defines(pool[g]) \cap Defines(pool[h]) = {}
        BY <1>1, Zenon DEF Disjoint
      <4> QED BY <4>1, <4>2
    <3>3. \A g \in N, h \in DOMAIN before :
            Defines(SourceOf(before, mappings, g)) \cap Defines(before[h]) = {}
      BY <1>4, <1>6, <1>10, <2>1
    <3>4. \A g, h \in N : SourceOf(before, mappings, g) = SourceOf(new, FreshMappings, g)
                          /\ SourceOf(before, mappings, h) = SourceOf(new, FreshMappings, h)
      BY <2>1
    <3> QED BY <2>1, <3>1, <3>2, <3>3
  <2>6. \A g \in N : {g} \cup ImportsOf(before, mappings, {g}) \subseteq N
    <3>1. ImportsOf(new, FreshMappings, N) \subseteq N
      BY FreshTypes DEF N
    <3>2. ASSUME NEW g \in N, NEW h \in ImportsOf(new, FreshMappings, {g})
          PROVE  h \in N
      BY <3>1, <3>2, ImportsOfMember
    <3> QED BY <2>3, <3>2
  <2>7. \A g \in N :
          UNION {Defines(SourceOf(new, FreshMappings, h)) :
                   h \in {g} \cup ImportsOf(new, FreshMappings, {g})}
            = UNION {Defines(SourceOf(before, mappings, h)) :
                       h \in {g} \cup ImportsOf(before, mappings, {g})}
    BY <2>1, <2>3, <2>6
  <2>8. (\A g \in N :
           MessagesUsed(SourceOf(new, FreshMappings, g)) \subseteq
             Scope(UNION {Defines(SourceOf(new, FreshMappings, h)) :
                            h \in {g} \cup ImportsOf(new, FreshMappings, {g})}))
          <=> (\A g \in N :
                 MessagesUsed(SourceOf(before, mappings, g)) \subseteq
                   Scope(UNION {Defines(SourceOf(before, mappings, h)) :
                                  h \in {g} \cup ImportsOf(before, mappings, {g})}))
    BY <2>1, <2>7, Zenon
  <2> QED BY <1>7, <1>8, <1>9, <2>2, <2>4, <2>5, <2>8, Zenon
<1> HIDE DEF N
<1> QED
  BY <1>7, <1>8, <1>9, <1>10, Zenon

(***************************************************************************)
(* Calls that have left nothing behind that matters to the file asked for  *)
(* do not change what loadFile answers.                                    *)
(***************************************************************************)
LEMMA AnswersAsNew ==
  ASSUME Inv
  PROVE  FreshLoaderAgrees
<1>1. SUFFICES ASSUME Answered, ~ LeftBehind
               PROVE  outcome = "returned" <=>
                        Loadable([f \in {} |-> << >>], FreshMappings, asked)
  BY Zenon DEF FreshLoaderAgrees
<1>2. PICK new : new = [f \in {} |-> << >>]
  OBVIOUS
<1>3. DOMAIN new = {}
  BY <1>2
<1>4. /\ Needed(new, FreshMappings, asked) \cap DOMAIN before = {}
      /\ \A f \in Needed(new, FreshMappings, asked) :
           Holders(mappings, f) # {} =>
             /\ Holders(FreshMappings, f) # {}
             /\ Found(mappings, f) = Found(FreshMappings, f)
      /\ \A f \in Needed(new, FreshMappings, asked) :
           Holders(FreshMappings, f) # {} =>
             \A g \in DOMAIN before :
               Defines(before[g]) \cap Defines(Found(FreshMappings, f)) = {}
  BY <1>1, <1>2, Zenon DEF LeftBehind
<1>5. Loadable(new, FreshMappings, asked) <=> Loadable(before, mappings, asked)
  BY <1>3, <1>4, SameAnswer
<1>6. asked \notin DOMAIN before
  BY <1>3, <1>4, FreshTypes
<1>7. outcome = "returned" <=> asked \in DOMAIN before \/ Loadable(before, mappings, asked)
  BY <1>1, AnswersExactly, Zenon DEF LoadsExactly
<1> QED
  BY <1>2, <1>5, <1>6, <1>7, Zenon

THEOREM AnswersLikeANewLoader == Spec => []FreshLoaderAgrees
  BY Invariance, AnswersAsNew, PTL

-----------------------------------------------------------------------------
(***************************************************************************)
(* What follows is about the mirrors.  Nesting has no cycles, so that the  *)
(* definitions that follow it have a solution: a set of messages, closed   *)
(* under nesting, that has one and is as large as possible has all.        *)
(***************************************************************************)
NestingClosed(types) == \A t \in types : Range(Descriptor[t].nested) \subseteq types

LEMMA NextToNest ==
  ASSUME NEW types \in SUBSET DOMAIN Descriptor, types # DOMAIN Descriptor,
         NestingClosed(types)
  PROVE  \E t \in DOMAIN Descriptor :
           /\ t \notin types
           /\ Range(Descriptor[t].nested) \subseteq types
           /\ NestingClosed(types \cup {t})
<1> DEFINE D == DOMAIN Descriptor
<1>1. (D \ types) # {} /\ (D \ types) \in SUBSET D
  OBVIOUS
<1>2. PICK t \in D \ types : Range(Descriptor[t].nested) \cap (D \ types) = {}
  BY <1>1, NestingAssumption, Zenon
<1>3. Range(Descriptor[t].nested) \subseteq D
  BY <1>2, DescriptorAssumption DEF Range
<1> QED
  BY <1>2, <1>3 DEF NestingClosed

LEMMA GrowToAll ==
  ASSUME NEW C \in SUBSET SUBSET DOMAIN Descriptor, {} \in C,
         \A types \in C : NestingClosed(types),
         \A types \in C, t \in DOMAIN Descriptor :
           t \notin types /\ Range(Descriptor[t].nested) \subseteq types
             => types \cup {t} \in C
  PROVE  DOMAIN Descriptor \in C
<1> DEFINE D == DOMAIN Descriptor
           Left == {Cardinality(D \ types) : types \in C}
<1>1. \A types \in C : IsFiniteSet(D \ types) /\ Cardinality(D \ types) \in Nat
  BY DescriptorAssumption, FS_Subset, FS_CardinalityType
<1>2. Left \in SUBSET Nat /\ Left # {}
  BY <1>1
<1>3. PICK n \in Left : \A m \in Left : n <= m
  <2>1. PICK n \in Left : \A m \in Left : ~ (<<m, n>> \in OpToRel(<, Nat))
    <3> HIDE DEF Left
    <3> QED BY <1>2, NatLessThanWellFounded, WFMin
  <2>2. ASSUME NEW m \in Left
        PROVE  n <= m
    <3>1. m \in Nat /\ n \in Nat
      BY <1>2
    <3>2. m < n => <<m, n>> \in OpToRel(<, Nat)
      BY <3>1, Zenon DEF OpToRel
    <3>3. ~ (m < n)
      BY <2>1, <3>2, Zenon
    <3> HIDE DEF Left
    <3> QED BY <3>1, <3>3, SMT
  <2> QED BY <2>2, Zenon
<1>4. PICK types \in C : n = Cardinality(D \ types)
  OBVIOUS
<1>5. SUFFICES ASSUME types # D
               PROVE  FALSE
  BY <1>4, Zenon
<1>6. PICK t \in D : t \notin types /\ Range(Descriptor[t].nested) \subseteq types
  BY <1>4, <1>5, NextToNest, Zenon
<1>7. types \cup {t} \in C
  BY <1>4, <1>6, Zenon
<1>8. Cardinality(D \ (types \cup {t})) = n - 1
  <2> DEFINE rest == D \ types
  <2>1. D \ (types \cup {t}) = rest \ {t} /\ t \in rest
    BY <1>6
  <2>2. IsFiniteSet(rest) /\ Cardinality(rest) = n
    BY <1>1, <1>4
  <2> HIDE DEF rest
  <2>3. Cardinality(rest \ {t}) = n - 1
    BY <2>1, <2>2, FS_RemoveElement, Zenon
  <2> QED BY <2>1, <2>3
<1>9. n <= n - 1
  BY <1>3, <1>7, <1>8, Zenon
<1>10. n \in Nat
  BY <1>2, <1>3
<1> QED
  BY <1>9, <1>10

(***************************************************************************)
(* The mirror demanded of a message holds those of the messages nested in  *)
(* it.                                                                     *)
(***************************************************************************)
MirrorOf(t, mirrors) ==
  [type     |-> t,
   fields   |-> [k \in DOMAIN Descriptor[t].fields |->
                   FieldReference(Descriptor[t].fields[k])],
   enums    |-> Descriptor[t].enums,
   internal |-> [k \in DOMAIN Descriptor[t].nested |-> mirrors[Descriptor[t].nested[k]]]]

LEMMA MirrorOfNested ==
  ASSUME NEW t \in DOMAIN Descriptor, NEW f, NEW g,
         \A n \in Range(Descriptor[t].nested) : f[n] = g[n]
  PROVE  MirrorOf(t, f) = MirrorOf(t, g)
<1>1. \A k \in DOMAIN Descriptor[t].nested :
        f[Descriptor[t].nested[k]] = g[Descriptor[t].nested[k]]
  BY DEF Range
<1>2. [k \in DOMAIN Descriptor[t].nested |-> f[Descriptor[t].nested[k]]]
        = [k \in DOMAIN Descriptor[t].nested |-> g[Descriptor[t].nested[k]]]
  BY <1>1
<1> QED
  BY <1>2, Zenon DEF MirrorOf

LEMMA ReferenceIs ==
  Reference = [t \in DOMAIN Descriptor |-> MirrorOf(t, Reference)]
<1> DEFINE D == DOMAIN Descriptor
           C == {types \in SUBSET D :
                   /\ NestingClosed(types)
                   /\ \E f : f = [t \in types |-> MirrorOf(t, f)]}
<1>1. C \in SUBSET SUBSET D /\ \A types \in C : NestingClosed(types)
  OBVIOUS
<1>2. {} \in C
  <2>1. \E f : f = [t \in {} |-> MirrorOf(t, f)]
    <3>1. [t \in {} |-> 0] = [t \in {} |-> MirrorOf(t, [s \in {} |-> 0])]
      OBVIOUS
    <3> QED BY <3>1
  <2>2. NestingClosed({})
    BY DEF NestingClosed
  <2> QED BY <2>1, <2>2
<1>3. ASSUME NEW types \in C, NEW t \in D,
             t \notin types, Range(Descriptor[t].nested) \subseteq types
      PROVE  types \cup {t} \in C
  <2>1. PICK f : f = [s \in types |-> MirrorOf(s, f)]
    OBVIOUS
  <2> DEFINE g == [s \in types \cup {t} |-> IF s = t THEN MirrorOf(t, f) ELSE f[s]]
  <2>2. \A s \in types : g[s] = f[s]
    BY <1>3
  <2>3. NestingClosed(types)
    OBVIOUS
  <2>4. ASSUME NEW s \in types
        PROVE  g[s] = MirrorOf(s, g)
    <3>1. Range(Descriptor[s].nested) \subseteq types /\ s \in D
      BY <2>3 DEF NestingClosed
    <3>2. \A n \in Range(Descriptor[s].nested) : f[n] = g[n]
      BY <2>2, <3>1
    <3> HIDE DEF g
    <3>3. MirrorOf(s, f) = MirrorOf(s, g)
      BY <3>1, <3>2, MirrorOfNested, Zenon
    <3>4. f[s] = MirrorOf(s, f)
      BY <2>1
    <3> QED BY <2>2, <3>3, <3>4
  <2>5. g[t] = MirrorOf(t, g)
    <3>1. \A n \in Range(Descriptor[t].nested) : f[n] = g[n]
      BY <1>3, <2>2
    <3>2. g[t] = MirrorOf(t, f)
      OBVIOUS
    <3> HIDE DEF g
    <3>3. MirrorOf(t, f) = MirrorOf(t, g)
      BY <3>1, MirrorOfNested, Zenon
    <3> QED BY <3>2, <3>3
  <2>6. g = [s \in types \cup {t} |-> g[s]]
    OBVIOUS
  <2>7. g = [s \in types \cup {t} |-> MirrorOf(s, g)]
    <3> HIDE DEF g
    <3> QED BY <2>4, <2>5, <2>6
  <2>8. NestingClosed(types \cup {t})
    BY <1>3, <2>3 DEF NestingClosed
  <2> HIDE DEF g
  <2> QED BY <2>7, <2>8
<1> HIDE DEF C
<1>4. D \in C
  BY <1>1, <1>2, <1>3, GrowToAll, Zenon
<1>5. PICK f : f = [t \in D |-> MirrorOf(t, f)]
  BY <1>4 DEF C
<1>6. Reference = CHOOSE g : g = [t \in D |-> MirrorOf(t, g)]
  BY DEF Reference, MirrorOf
<1> QED
  BY <1>5, <1>6, Zenon

LEMMA NestedInIs ==
  ASSUME NEW t \in DOMAIN Descriptor
  PROVE  NestedIn[t] = {t} \cup UNION {NestedIn[n] : n \in Range(Descriptor[t].nested)}
<1> DEFINE D == DOMAIN Descriptor
           With(s, f) == {s} \cup UNION {f[n] : n \in Range(Descriptor[s].nested)}
           C == {types \in SUBSET D :
                   /\ NestingClosed(types)
                   /\ \E f : f = [s \in types |-> With(s, f)]}
<1>1. C \in SUBSET SUBSET D /\ \A types \in C : NestingClosed(types)
  OBVIOUS
<1>2. {} \in C
  <2>1. \E f : f = [s \in {} |-> With(s, f)]
    <3>1. [s \in {} |-> 0] = [s \in {} |-> With(s, [n \in {} |-> 0])]
      OBVIOUS
    <3> QED BY <3>1
  <2>2. NestingClosed({})
    BY DEF NestingClosed
  <2> QED BY <2>1, <2>2
<1>3. ASSUME NEW types \in C, NEW n \in D,
             n \notin types, Range(Descriptor[n].nested) \subseteq types
      PROVE  types \cup {n} \in C
  <2>1. PICK f : f = [s \in types |-> With(s, f)]
    OBVIOUS
  <2> DEFINE g == [s \in types \cup {n} |-> IF s = n THEN With(n, f) ELSE f[s]]
  <2>2. \A s \in types : g[s] = f[s]
    BY <1>3
  <2>3. NestingClosed(types)
    OBVIOUS
  <2>4. ASSUME NEW s \in types
        PROVE  g[s] = With(s, g)
    <3>1. Range(Descriptor[s].nested) \subseteq types
      BY <2>3 DEF NestingClosed
    <3>2. f[s] = With(s, f)
      BY <2>1
    <3> HIDE DEF g
    <3>3. With(s, f) = With(s, g)
      BY <2>2, <3>1
    <3> QED BY <2>2, <3>2, <3>3
  <2>5. g[n] = With(n, g)
    <3>1. g[n] = With(n, f)
      OBVIOUS
    <3> HIDE DEF g
    <3>2. With(n, f) = With(n, g)
      BY <1>3, <2>2
    <3> QED BY <3>1, <3>2
  <2>6. g = [s \in types \cup {n} |-> g[s]]
    OBVIOUS
  <2>7. g = [s \in types \cup {n} |-> With(s, g)]
    <3> HIDE DEF g, With
    <3> QED BY <2>4, <2>5, <2>6
  <2>8. NestingClosed(types \cup {n})
    BY <1>3, <2>3 DEF NestingClosed
  <2> HIDE DEF g
  <2> QED BY <2>7, <2>8
<1> HIDE DEF C
<1>4. D \in C
  BY <1>1, <1>2, <1>3, GrowToAll, Zenon
<1>5. PICK f : f = [s \in D |-> With(s, f)]
  BY <1>4 DEF C
<1> DEFINE Of == CHOOSE g : g = [s \in D |-> With(s, g)]
<1>6. Of = [s \in D |-> With(s, Of)]
  <2> HIDE DEF With
  <2> QED BY <1>5, Zenon
<1>7. NestedIn = [s \in D |-> Of[s]]
  BY DEF NestedIn
<1> HIDE DEF Of
<1>8. \A s \in D : NestedIn[s] = With(s, Of)
  BY <1>6, <1>7
<1>9. \A s \in D : NestedIn[s] = Of[s]
  BY <1>7
<1>10. Range(Descriptor[t].nested) \subseteq D
  BY DescriptorAssumption DEF Range
<1> QED
  BY <1>8, <1>9, <1>10

(***************************************************************************)
(* The messages nested in one, with all nested in them.                    *)
(***************************************************************************)
LEMMA NestedInTypes ==
  ASSUME NEW t \in DOMAIN Descriptor
  PROVE  t \in NestedIn[t] /\ NestedIn[t] \subseteq DOMAIN Descriptor
<1> DEFINE D == DOMAIN Descriptor
           wrong == {s \in D : ~ (NestedIn[s] \subseteq D)}
<1>1. wrong = {}
  <2>1. SUFFICES ASSUME wrong # {}
                 PROVE  FALSE
    OBVIOUS
  <2>2. PICK s \in wrong : Range(Descriptor[s].nested) \cap wrong = {}
    BY <2>1, NestingAssumption
  <2>3. Range(Descriptor[s].nested) \subseteq D
    BY DescriptorAssumption DEF Range
  <2>4. \A n \in Range(Descriptor[s].nested) : NestedIn[n] \subseteq D
    BY <2>2, <2>3
  <2>5. NestedIn[s] \subseteq D
    BY <2>4, NestedInIs
  <2> QED BY <2>5
<1>2. t \in NestedIn[t]
  BY NestedInIs
<1> QED
  BY <1>1, <1>2

LEMMA NestedInTwice ==
  ASSUME NEW s \in DOMAIN Descriptor, NEW t \in NestedIn[s]
  PROVE  Range(Descriptor[t].nested) \subseteq NestedIn[s]
<1> DEFINE D == DOMAIN Descriptor
           Holds(r) == \A m \in NestedIn[r] : Range(Descriptor[m].nested) \subseteq NestedIn[r]
           wrong == {r \in D : ~ Holds(r)}
<1>1. wrong = {}
  <2>1. SUFFICES ASSUME wrong # {}
                 PROVE  FALSE
    OBVIOUS
  <2>2. PICK r \in wrong : Range(Descriptor[r].nested) \cap wrong = {}
    <3> HIDE DEF Holds
    <3> QED BY <2>1, NestingAssumption
  <2>3. Range(Descriptor[r].nested) \subseteq D
    BY DescriptorAssumption DEF Range
  <2>4. \A n \in Range(Descriptor[r].nested) : Holds(n) /\ n \in NestedIn[n]
    <3> HIDE DEF Holds
    <3> QED BY <2>2, <2>3, NestedInTypes
  <2>5. NestedIn[r] = {r} \cup UNION {NestedIn[n] : n \in Range(Descriptor[r].nested)}
    BY NestedInIs
  <2>6. ASSUME NEW m \in NestedIn[r]
        PROVE  Range(Descriptor[m].nested) \subseteq NestedIn[r]
    <3>1. CASE m = r
      BY <2>4, <2>5, <3>1
    <3>2. CASE m # r
      <4>1. PICK n \in Range(Descriptor[r].nested) : m \in NestedIn[n]
        BY <2>5, <3>2
      <4>2. Range(Descriptor[m].nested) \subseteq NestedIn[n]
        BY <2>4, <4>1
      <4> QED BY <2>5, <4>2
    <3> QED BY <3>1, <3>2
  <2> QED BY <2>6
<1> QED
  BY <1>1

(***************************************************************************)
(* From a message of the files built, nesting and the types of fields lead *)
(* to messages of the files built.                                         *)
(***************************************************************************)
LEMMA ScopeIsClosed ==
  ASSUME Types, Complete, Resolved, NEW t \in Scope(Defined)
  PROVE  /\ t \in DOMAIN Descriptor
         /\ Range(Descriptor[t].nested) \subseteq Scope(Defined)
         /\ \A f \in Range(Descriptor[t].fields) :
              "message" \in DOMAIN f => f.message \in Scope(Defined)
<1>1. PICK f \in DOMAIN pool : \E s \in Defines(pool[f]) : t \in NestedIn[s]
  BY DEF Scope, Defined
<1>2. PICK s \in Defines(pool[f]) : t \in NestedIn[s]
  BY <1>1
<1>3. s \in Symbol /\ s \in DOMAIN Descriptor
  BY DescriptorAssumption DEF Types, Source, Defines, Range
<1>4. t \in DOMAIN Descriptor
  BY <1>2, <1>3, NestedInTypes
<1>5. NestedIn[s] \subseteq Scope(Defined)
  BY DEF Scope, Defined
<1>6. Range(Descriptor[t].nested) \subseteq Scope(Defined)
  BY <1>2, <1>3, <1>5, NestedInTwice
<1>7. ASSUME NEW g \in Range(Descriptor[t].fields), "message" \in DOMAIN g
      PROVE  g.message \in Scope(Defined)
  <2>1. g.message \in NeededBy[s]
    BY <1>2, <1>3, <1>7 DEF NeededBy
  <2>2. g.message \in MessagesUsed(pool[f])
    BY <2>1 DEF MessagesUsed
  <2> DEFINE seen == UNION {Defines(pool[h]) : h \in {f} \cup Range(pool[f].imports)}
  <2>3. g.message \in Scope(seen)
    BY <2>2 DEF Resolved
  <2>4. seen \subseteq Defined
    BY DEF Complete, Defined
  <2> HIDE DEF seen
  <2>5. Scope(seen) \subseteq Scope(Defined)
    BY <2>4 DEF Scope
  <2> QED BY <2>3, <2>5
<1> QED
  BY <1>4, <1>6, <1>7

(***************************************************************************)
(* The cast of a number gives the name it stands for.                      *)
(***************************************************************************)
LEMMA CastsAgree ==
  /\ \A n \in 1 .. 18 : Cast(n, Type) = TypeNames[n]
  /\ \A n \in 1 .. 3 : Cast(n, Label) = LabelNames[n]
<1>1. ASSUME NEW n \in 1 .. 3
      PROVE  Cast(n, Label) = LabelNames[n]
  <2>1. LabelNames[n] \in DOMAIN Label /\ Label[LabelNames[n]] = n
    BY DEF Label, LabelNames
  <2>2. \A name \in DOMAIN Label : Label[name] = n => name = LabelNames[n]
    BY DEF Label, LabelNames
  <2> QED BY <2>1, <2>2 DEF Cast
<1>2. ASSUME NEW n \in 1 .. 18
      PROVE  Cast(n, Type) = TypeNames[n]
  <2>1. TypeNames[n] \in DOMAIN Type /\ Type[TypeNames[n]] = n
    BY DEF Type, TypeNames
  <2>2. \A name \in DOMAIN Type : Type[name] = n => name = TypeNames[n]
    BY DEF Type, TypeNames
  <2> QED BY <2>1, <2>2 DEF Cast
<1> QED
  BY <1>1, <1>2

LEMMA MirrorMade ==
  ASSUME NEW t \in DOMAIN Descriptor, NEW internal,
         internal = [k \in DOMAIN Descriptor[t].nested |-> Reference[Descriptor[t].nested[k]]]
  PROVE  ProtoMessage(t, internal) = Reference[t]
<1> DEFINE fields == Descriptor[t].fields
           enums  == Descriptor[t].enums
<1>1. ASSUME NEW k \in DOMAIN fields
      PROVE  MessageField(fields[k]) = FieldReference(fields[k])
  <2>1. fields[k].type \in 1 .. 18 /\ fields[k].label \in 1 .. 3
    BY DescriptorAssumption DEF Range
  <2>2. /\ Cast(fields[k].type, Type) = TypeNames[fields[k].type]
        /\ Cast(fields[k].label, Label) = LabelNames[fields[k].label]
    BY <2>1, CastsAgree
  <2> QED BY <2>2, Zenon DEF MessageField, FieldReference
<1>2. [k \in DOMAIN fields |-> MessageField(fields[k])]
        = [k \in DOMAIN fields |-> FieldReference(fields[k])]
  BY <1>1
<1>3. [k \in DOMAIN enums |-> ProtoEnum(enums[k])] = enums
  <2>1. enums \in Seq(Seq(STRING))
    BY DescriptorAssumption
  <2>2. \A k \in DOMAIN enums : ProtoEnum(enums[k]) = enums[k]
    BY <2>1 DEF ProtoEnum
  <2> QED BY <2>1, <2>2
<1>4. Reference[t] = MirrorOf(t, Reference)
  BY ReferenceIs
<1> QED
  BY <1>2, <1>3, <1>4, Zenon DEF ProtoMessage, MirrorOf

(***************************************************************************)
(* The constructors that run: each has made the mirrors of its first       *)
(* children, and the one inside it works on the next.  A ProtoFile is made *)
(* of the messages of a file that was built, a mirror that messageType     *)
(* asks for of a field of one, and so all are messages the loader has      *)
(* built.                                                                  *)
(***************************************************************************)
IsMirror(m) == m.type \in Scope(Defined) /\ m = Reference[m.type]

Working(c) ==
  /\ c.children \in Seq(Scope(Defined))
  /\ \E n \in 0 .. Len(c.children) : c.built = [k \in 1 .. n |-> Reference[c.children[k]]]

NestedNext(i) ==
  /\ building[i].type \in Scope(Defined)
  /\ building[i].children = Descriptor[building[i].type].nested
  /\ Len(building[i - 1].built) < Len(building[i - 1].children)
  /\ building[i].type = building[i - 1].children[Len(building[i - 1].built) + 1]

Underway ==
  /\ \A i \in 1 .. Len(building) : Working(building[i])
  /\ \A i \in 2 .. Len(building) : NestedNext(i)
  /\ building # << >> /\ building[1].type = "field" => Len(building[1].children) = 1
  /\ \A k \in DOMAIN protoFile : IsMirror(protoFile[k])
  /\ message # None => IsMirror(message)

LEMMA MirrorIs ==
  ASSUME NEW t \in Scope(Defined), t \in DOMAIN Descriptor
  PROVE  IsMirror(Reference[t])
<1>1. Reference[t] = MirrorOf(t, Reference)
  BY ReferenceIs
<1>2. Reference[t].type = t
  BY <1>1 DEF MirrorOf
<1> QED
  BY <1>2, Zenon DEF IsMirror

LEMMA MirrorsBuilt ==
  ASSUME NEW c, Working(c)
  PROVE  /\ Len(c.built) \in 0 .. Len(c.children) /\ Len(c.children) \in Nat
         /\ c.built = [k \in 1 .. Len(c.built) |-> Reference[c.children[k]]]
         /\ DOMAIN c.built = 1 .. Len(c.built)
         /\ \A k \in 1 .. Len(c.children) : c.children[k] \in Scope(Defined)
<1>1. c.children \in Seq(Scope(Defined)) /\ Len(c.children) \in Nat
  BY DEF Working
<1>2. PICK n \in 0 .. Len(c.children) : c.built = [k \in 1 .. n |-> Reference[c.children[k]]]
  BY DEF Working
<1> DEFINE S == {Reference[c.children[k]] : k \in 1 .. n}
<1>3. n \in Nat
  BY <1>1, <1>2
<1>4. c.built \in [1 .. n -> S]
  BY <1>2
<1> HIDE DEF S
<1>5. c.built \in Seq(S) /\ Len(c.built) = n
  BY <1>3, <1>4
<1>6. \A k \in 1 .. Len(c.children) : c.children[k] \in Scope(Defined)
  BY <1>1
<1> QED
  BY <1>1, <1>2, <1>5, <1>6

LEMMA WorkBegins ==
  ASSUME NEW type, NEW children \in Seq(Scope(Defined))
  PROVE  Working(Constructor(type, children))
<1>1. [k \in 1 .. 0 |-> Reference[children[k]]] = << >>
  OBVIOUS
<1>2. 0 \in 0 .. Len(children)
  OBVIOUS
<1>3. /\ Constructor(type, children).children = children
      /\ Constructor(type, children).built = << >>
  BY DEF Constructor
<1> QED
  BY <1>1, <1>2, <1>3, Zenon DEF Working

LEMMA WorkGoesOn ==
  ASSUME NEW c, Working(c), Len(c.built) < Len(c.children), NEW d,
         d.children = c.children,
         d.built = Append(c.built, Reference[c.children[Len(c.built) + 1]])
  PROVE  Working(d)
<1> DEFINE n == Len(c.built)
           S == {Reference[c.children[k]] : k \in 1 .. n}
           r == Reference[c.children[n + 1]]
<1>1. /\ n \in Nat /\ n + 1 \in 0 .. Len(c.children)
      /\ c.built = [k \in 1 .. n |-> Reference[c.children[k]]]
  BY MirrorsBuilt
<1>2. c.built \in Seq(S \cup {r})
  BY <1>1
<1> DEFINE e == [k \in 1 .. n + 1 |-> Reference[c.children[k]]]
<1>3. \A k \in 1 .. n : c.built[k] = e[k]
  BY <1>1
<1>4. e[n + 1] = r
  BY <1>1
<1>5. e \in Seq({Reference[c.children[k]] : k \in 1 .. n + 1}) /\ Len(e) = n + 1
  BY <1>1
<1>6. d.built = Append(c.built, r)
  OBVIOUS
<1>7. n = Len(c.built)
  OBVIOUS
<1>8. d.children \in Seq(Scope(Defined))
  BY DEF Working
<1> HIDE DEF e, r, S, n
<1>9. /\ d.built \in Seq(S \cup {r}) /\ Len(d.built) = n + 1 /\ d.built[n + 1] = r
      /\ \A k \in 1 .. n : d.built[k] = c.built[k]
  <2>1. r \in S \cup {r}
    OBVIOUS
  <2> QED BY <1>2, <1>6, <1>7, <2>1, AppendProperties
<1>10. \A k \in 1 .. n + 1 : k \in 1 .. n \/ k = n + 1
  BY <1>1
<1>11. \A k \in 1 .. n + 1 : d.built[k] = e[k]
  BY <1>3, <1>4, <1>9, <1>10, Zenon
<1>12. d.built = e
  BY <1>5, <1>9, <1>11, SeqEqual
<1> QED
  BY <1>1, <1>8, <1>12 DEF Working, e

(***************************************************************************)
(* What is built stays, and so do the mirrors of it.                       *)
(***************************************************************************)
LEMMA ScopeGrows ==
  ASSUME \A f \in DOMAIN pool : f \in DOMAIN pool' /\ pool'[f] = pool[f]
  PROVE  /\ Scope(Defined) \subseteq Scope(Defined')
         /\ \A c : Working(c) => Working(c)'
         /\ \A m : IsMirror(m) => IsMirror(m)'
<1>1. Defined \subseteq Defined'
  BY DEF Defined
<1>2. Scope(Defined) \subseteq Scope(Defined')
  BY <1>1 DEF Scope
<1>3. ASSUME NEW c, Working(c)
      PROVE  Working(c)'
  <2>1. c.children \in Seq(Scope(Defined')) /\ c.children \in Seq(Scope(Defined))
    BY <1>2, <1>3 DEF Working
  <2> QED BY <1>3, <2>1 DEF Working
<1>4. \A m : IsMirror(m) => IsMirror(m)'
  BY <1>2 DEF IsMirror
<1> QED
  BY <1>2, <1>3, <1>4

LEMMA UnderwayStays ==
  ASSUME Underway, UNCHANGED mirrorVars,
         \A f \in DOMAIN pool : f \in DOMAIN pool' /\ pool'[f] = pool[f]
  PROVE  Underway'
<1>1. building' = building /\ protoFile' = protoFile /\ message' = message
  BY DEF mirrorVars
<1>2. /\ Scope(Defined) \subseteq Scope(Defined')
      /\ \A c : Working(c) => Working(c)'
      /\ \A m : IsMirror(m) => IsMirror(m)'
  BY ScopeGrows
<1>3. ASSUME NEW i \in 1 .. Len(building)
      PROVE  (Working(building[i]))'
  <2>1. Working(building[i])
    BY DEF Underway
  <2> DEFINE c == building[i]
  <2>2. c.children \in Seq(Scope(Defined))
    BY <2>1 DEF Working
  <2> HIDE DEF c
  <2>3. c.children \in Seq(Scope(Defined'))
    BY <1>2, <2>2
  <2>4. building'[i] = c
    BY <1>1 DEF c
  <2>5. \E n \in 0 .. Len(c.children) : c.built = [k \in 1 .. n |-> Reference[c.children[k]]]
    BY <2>1 DEF Working, c
  <2> QED BY <2>3, <2>4, <2>5 DEF Working
<1>4. \A i \in 1 .. Len(building') : (Working(building[i]))'
  BY <1>1, <1>3
<1>5. \A i \in 2 .. Len(building) : NestedNext(i)'
  BY <1>1, <1>2 DEF Underway, NestedNext
<1>6. \A k \in DOMAIN protoFile : IsMirror(protoFile[k])'
  BY <1>1, <1>2 DEF Underway, IsMirror
<1>7. message # None => IsMirror(message)'
  BY <1>1, <1>2 DEF Underway, IsMirror
<1> QED
  BY <1>1, <1>4, <1>5, <1>6, <1>7 DEF Underway

(***************************************************************************)
(* The constructor of a ProtoMessage takes the messages nested in it, and  *)
(* gives its mirror to the constructor that called it.                     *)
(***************************************************************************)
LEMMA ConstructStep ==
  ASSUME Types, Complete, Resolved, Constructors, Underway, Construct, pool' = pool
  PROVE  Underway'
<1> DEFINE c == Constructor(Child, Children(Descriptor[Child]))
<1>1. /\ building # << >> /\ Len(Inner.built) < Len(Inner.children)
      /\ building' = Append(building, c) /\ protoFile' = protoFile /\ message' = message
  BY DEF Construct, Constructing
<1>2. building \in Seq({building[i] : i \in 1 .. Len(building)})
  BY DEF Constructors
<1>3. PICK n \in Nat : n = Len(building) /\ n >= 1
  <2>1. Len(building) \in Nat /\ Len(building) >= 1
    BY <1>1, <1>2, EmptySeq
  <2> QED BY <2>1, Zenon
<1>4. Inner = building[n] /\ n \in 1 .. n /\ 1 \in 1 .. n
  BY <1>3 DEF Inner
<1>5. Working(building[n])
  BY <1>3, <1>4 DEF Underway
<1>6. Child \in Scope(Defined) /\ Child = building[n].children[Len(building[n].built) + 1]
  <2>1. /\ Len(Inner.built) \in 0 .. Len(Inner.children) /\ Len(Inner.children) \in Nat
        /\ \A k \in 1 .. Len(Inner.children) : Inner.children[k] \in Scope(Defined)
    BY <1>4, <1>5, MirrorsBuilt
  <2>2. Len(Inner.built) + 1 \in 1 .. Len(Inner.children)
    BY <1>1, <2>1
  <2> QED BY <1>4, <2>1, <2>2 DEF Child
<1>7. /\ Descriptor[Child].nested \in Seq(Scope(Defined))
      /\ Child \in DOMAIN Descriptor
  <2>1. Child \in DOMAIN Descriptor /\ Range(Descriptor[Child].nested) \subseteq Scope(Defined)
    BY <1>6, ScopeIsClosed
  <2>2. Descriptor[Child].nested \in Seq(DOMAIN Descriptor)
    BY <2>1, DescriptorAssumption
  <2> DEFINE q == Descriptor[Child].nested
  <2>3. \A k \in 1 .. Len(q) : q[k] \in Range(q)
    BY <2>2 DEF Range
  <2> HIDE DEF q
  <2>4. q \in Seq(Scope(Defined))
    BY <2>1, <2>2, <2>3 DEF q
  <2> QED BY <2>1, <2>4 DEF q
<1>8. Working(c) /\ c.type = Child /\ c.children = Descriptor[Child].nested
  <2>1. Working(c)
    BY <1>7, WorkBegins DEF Children
  <2> QED BY <2>1 DEF Constructor, Children
<1> HIDE DEF c
<1> DEFINE S == {building[i] : i \in 1 .. Len(building)} \cup {c}
<1>9. building \in Seq(S) /\ c \in S
  BY <1>2
<1> HIDE DEF S
<1>10. /\ Len(building') = n + 1 /\ building'[n + 1] = c
       /\ \A i \in 1 .. n : building'[i] = building[i]
  BY <1>1, <1>3, <1>9, AppendProperties
<1>11. Defined' = Defined
  BY DEF Defined
<1>12. \A i \in 1 .. n + 1 : i \in 1 .. n \/ i = n + 1
  BY <1>3
<1>13. \A i \in 1 .. n + 1 : Working(building'[i])
  <2>1. \A i \in 1 .. n : Working(building[i])
    BY <1>3 DEF Underway
  <2> QED BY <1>8, <1>10, <1>12, <2>1, Zenon
<1>14. ASSUME NEW i \in 2 .. n + 1
       PROVE  NestedNext(i)'
  <2>1. CASE i \in 2 .. n
    <3>1. i \in 1 .. n /\ i - 1 \in 1 .. n
      BY <1>3, <2>1
    <3>2. NestedNext(i)
      BY <1>3, <2>1 DEF Underway
    <3>3. building'[i] = building[i] /\ building'[i - 1] = building[i - 1]
      BY <1>10, <3>1
    <3> QED BY <1>11, <3>2, <3>3 DEF NestedNext
  <2>2. CASE i = n + 1
    <3>1. (n + 1) - 1 = n
      BY <1>3
    <3>2. building'[n] = building[n]
      BY <1>4, <1>10
    <3>3. Len(building[n].built) < Len(building[n].children)
      BY <1>1, <1>4
    <3> QED BY <1>6, <1>8, <1>10, <1>11, <2>2, <3>1, <3>2, <3>3 DEF NestedNext
  <2> QED BY <1>3, <2>1, <2>2
<1>15. building'[1] = building[1]
  BY <1>4, <1>10
<1>16. \A i \in 1 .. Len(building') : (Working(building[i]))'
  BY <1>10, <1>11, <1>13 DEF Working
<1>17. \A i \in 2 .. Len(building') : (NestedNext(i))'
  BY <1>10, <1>14
<1>18. /\ \A k \in DOMAIN protoFile' : (IsMirror(protoFile[k]))'
       /\ message' # None => (IsMirror(message))'
  BY <1>1, <1>11 DEF Underway, IsMirror
<1>19. building' # << >> /\ building'[1].type = "field" => Len(building'[1].children) = 1
  BY <1>1, <1>15 DEF Underway
<1> QED
  BY <1>16, <1>17, <1>18, <1>19, Zenon DEF Underway

LEMMA InnerMirror ==
  ASSUME Types, Complete, Resolved, Constructors, Underway, ~ Constructing,
         NEW n \in 2 .. Len(building), n = Len(building)
  PROVE  /\ building[n].type \in Scope(Defined) /\ building[n].type \in DOMAIN Descriptor
         /\ ProtoMessage(Inner.type, Inner.built) = Reference[building[n].type]
<1> DEFINE c == building[n]
<1>1. Inner = c /\ building # << >> /\ n \in 1 .. Len(building)
  BY DEF Inner
<1>2. Working(c) /\ NestedNext(n)
  BY <1>1 DEF Underway
<1>3. /\ c.type \in Scope(Defined) /\ c.children = Descriptor[c.type].nested
  BY <1>2 DEF NestedNext
<1>4. c.type \in DOMAIN Descriptor
  BY <1>3, ScopeIsClosed
<1>5. /\ Len(c.built) \in 0 .. Len(c.children) /\ Len(c.children) \in Nat
      /\ c.built = [k \in 1 .. Len(c.built) |-> Reference[c.children[k]]]
  BY <1>2, MirrorsBuilt
<1> HIDE DEF c
<1>6. Len(c.built) = Len(c.children)
  BY <1>1, <1>5 DEF Constructing
<1>7. DOMAIN Descriptor[c.type].nested = 1 .. Len(c.children)
  BY <1>3, <1>4, DescriptorAssumption
<1>8. c.built = [k \in DOMAIN Descriptor[c.type].nested |-> Reference[Descriptor[c.type].nested[k]]]
  BY <1>3, <1>5, <1>6, <1>7
<1>9. ProtoMessage(c.type, c.built) = Reference[c.type]
  BY <1>4, <1>8, MirrorMade, Zenon
<1> QED
  BY <1>1, <1>3, <1>4, <1>9 DEF c

LEMMA ConstructedStep ==
  ASSUME Types, Complete, Resolved, Constructors, Underway, Constructed, pool' = pool
  PROVE  Underway'
<1> DEFINE m == ProtoMessage(Inner.type, Inner.built)
<1>1. PICK n \in Nat :
        /\ n >= 1 /\ Len(building) = n + 1 /\ Len(building') = n
        /\ \A i \in 1 .. n : i # n => building'[i] = building[i]
        /\ building'[n] = [type     |-> building[n].type,
                           children |-> building[n].children,
                           built    |-> Append(building[n].built, m)]
  BY ConstructedMakes
<1>2. ~ Constructing /\ protoFile' = protoFile /\ message' = message
  BY DEF Constructed
<1>3. n + 1 \in 2 .. Len(building) /\ n + 1 = Len(building)
  BY <1>1
<1>4. m = Reference[building[n + 1].type]
  BY <1>2, <1>3, InnerMirror
<1> HIDE DEF m
<1>5. /\ Working(building[n]) /\ n \in 1 .. n /\ 1 \in 1 .. n
      /\ \A i \in 1 .. n : i \in 1 .. Len(building)
  <2>1. n \in 1 .. n /\ 1 \in 1 .. n /\ \A i \in 1 .. n : i \in 1 .. Len(building)
    BY <1>1
  <2> QED BY <2>1 DEF Underway
<1>6. /\ Len(building[n].built) < Len(building[n].children)
      /\ building[n + 1].type = building[n].children[Len(building[n].built) + 1]
  <2>1. NestedNext(n + 1) /\ (n + 1) - 1 = n
    BY <1>1, <1>3 DEF Underway
  <2> QED BY <2>1 DEF NestedNext
<1>7. /\ building'[n].type = building[n].type
      /\ building'[n].children = building[n].children
      /\ building'[n].built
           = Append(building[n].built,
                    Reference[building[n].children[Len(building[n].built) + 1]])
  BY <1>1, <1>4, <1>6
<1>8. Working(building'[n])
  BY <1>5, <1>6, <1>7, WorkGoesOn
<1>9. Defined' = Defined
  BY DEF Defined
<1>10. \A i \in 1 .. n : Working(building'[i])
  <2>1. \A i \in 1 .. n : Working(building[i])
    BY <1>5 DEF Underway
  <2> QED BY <1>1, <1>8, <2>1, Zenon
<1>11. ASSUME NEW i \in 2 .. n
       PROVE  NestedNext(i)'
  <2>1. i \in 1 .. n /\ i - 1 \in 1 .. n /\ i - 1 # n /\ i \in 2 .. Len(building)
    BY <1>1
  <2>2. NestedNext(i)
    BY <2>1 DEF Underway
  <2>3. building'[i - 1] = building[i - 1]
    BY <1>1, <2>1, Zenon
  <2>4. building'[i].type = building[i].type /\ building'[i].children = building[i].children
    <3>1. CASE i = n
      BY <1>7, <3>1
    <3>2. CASE i # n
      <4>1. building'[i] = building[i]
        BY <1>1, <2>1, <3>2, Zenon
      <4> QED BY <4>1
    <3> QED BY <3>1, <3>2
  <2> QED BY <1>9, <2>2, <2>3, <2>4 DEF NestedNext
<1>12. \A i \in 1 .. Len(building') : (Working(building[i]))'
  BY <1>1, <1>9, <1>10 DEF Working
<1>13. \A i \in 2 .. Len(building') : (NestedNext(i))'
  BY <1>1, <1>11
<1>14. /\ \A k \in DOMAIN protoFile' : (IsMirror(protoFile[k]))'
       /\ message' # None => (IsMirror(message))'
  BY <1>2, <1>9 DEF Underway, IsMirror
<1>15. building'[1].type = building[1].type /\ building'[1].children = building[1].children
  <2>1. CASE n = 1
    BY <1>7, <2>1
  <2>2. CASE n # 1
    <3>1. building'[1] = building[1]
      BY <1>1, <1>5, <2>2, Zenon
    <3> QED BY <3>1
  <2> QED BY <2>1, <2>2
<1>16. building # << >>
  BY DEF Constructed
<1>17. building' # << >> /\ building'[1].type = "field" => Len(building'[1].children) = 1
  BY <1>15, <1>16 DEF Underway
<1> QED
  BY <1>12, <1>13, <1>14, <1>17, Zenon DEF Underway

(***************************************************************************)
(* A mirror is asked for, and is there.                                    *)
(***************************************************************************)
LEMMA OneWorks ==
  ASSUME Underway, NEW type, NEW children \in Seq(Scope(Defined)),
         type = "field" => Len(children) = 1,
         building' = <<Constructor(type, children)>>, pool' = pool,
         protoFile' = protoFile, message' = message
  PROVE  Underway'
<1> DEFINE c == Constructor(type, children)
<1>1. Working(c) /\ c.type = type /\ c.children = children
  <2>1. Working(c)
    BY WorkBegins
  <2> QED BY <2>1 DEF Constructor
<1> HIDE DEF c
<1>2. Len(building') = 1 /\ building'[1] = c
  BY DEF c
<1>3. Defined' = Defined
  BY DEF Defined
<1>4. \A i \in 1 .. Len(building') : (Working(building[i]))'
  BY <1>1, <1>2, <1>3 DEF Working
<1>5. \A i \in 2 .. Len(building') : (NestedNext(i))'
  BY <1>2
<1>6. /\ \A k \in DOMAIN protoFile' : (IsMirror(protoFile[k]))'
      /\ message' # None => (IsMirror(message))'
  BY <1>3 DEF Underway, IsMirror
<1> QED
  BY <1>1, <1>2, <1>4, <1>5, <1>6 DEF Underway

LEMMA NoneWorks ==
  ASSUME Underway, building' = << >>, pool' = pool,
         \A k \in DOMAIN protoFile' : IsMirror(protoFile'[k]),
         message' # None => IsMirror(message')
  PROVE  Underway'
<1>1. Defined' = Defined
  BY DEF Defined
<1>2. Len(building') = 0
  OBVIOUS
<1>3. /\ \A k \in DOMAIN protoFile' : (IsMirror(protoFile[k]))'
      /\ message' # None => (IsMirror(message))'
  BY <1>1 DEF IsMirror
<1> QED
  BY <1>2, <1>3 DEF Underway

LEMMA MirrorsFinished ==
  ASSUME Types, Complete, Resolved, Constructors, Underway, MirrorEnds
  PROVE  /\ Inner = building[1] /\ building # << >>
         /\ DOMAIN Inner.built = 1 .. Len(Inner.children)
         /\ \A k \in DOMAIN Inner.built : IsMirror(Inner.built[k])
<1>1. Len(building) = 1 /\ ~ Constructing
  BY DEF MirrorEnds
<1>2. Inner = building[1] /\ building # << >> /\ 1 \in 1 .. Len(building)
  BY <1>1 DEF Inner
<1>3. Working(Inner)
  BY <1>2 DEF Underway
<1> DEFINE c == Inner
<1>4. /\ Len(c.built) \in 0 .. Len(c.children) /\ Len(c.children) \in Nat
      /\ c.built = [k \in 1 .. Len(c.built) |-> Reference[c.children[k]]]
      /\ DOMAIN c.built = 1 .. Len(c.built)
      /\ \A k \in 1 .. Len(c.children) : c.children[k] \in Scope(Defined)
  BY <1>3, MirrorsBuilt
<1>5. Len(c.built) = Len(c.children)
  BY <1>1, <1>2, <1>4 DEF Constructing
<1>6. \A k \in 1 .. Len(c.children) :
        c.built[k] = Reference[c.children[k]] /\ c.children[k] \in DOMAIN Descriptor
  BY <1>4, <1>5, ScopeIsClosed
<1>7. \A k \in 1 .. Len(c.children) : IsMirror(c.built[k])
  BY <1>4, <1>6, MirrorIs
<1> QED
  BY <1>2, <1>4, <1>5, <1>7

LEMMA MirrorUnderway ==
  ASSUME Inv, Underway, Mirror
  PROVE  Underway'
<1>1. Types
  BY Zenon DEF Inv
<1>2. /\ asked \in DOMAIN pool /\ pool' = pool /\ protoFile' = protoFile /\ message' = message
      /\ building' = <<Constructor("file", pool[asked].messages)>>
  BY DEF Mirror, importerVars
<1> DEFINE children == pool[asked].messages
<1>3. children \in Seq(Symbol) /\ pool[asked] \in Source
  BY <1>1, <1>2, SourceType DEF Types
<1>4. \A k \in 1 .. Len(children) : children[k] \in Scope(Defined)
  <2>1. SUFFICES ASSUME NEW k \in 1 .. Len(children)
                 PROVE  children[k] \in Scope(Defined)
    OBVIOUS
  <2>2. children[k] \in Defined
    BY <1>2, <1>3 DEF Defined, Defines, Range
  <2>3. children[k] \in DOMAIN Descriptor
    BY <1>3, DescriptorAssumption
  <2> HIDE DEF children
  <2> QED BY <2>2, <2>3, NestedInTypes DEF Scope
<1> HIDE DEF children
<1>5. children \in Seq(Scope(Defined))
  BY <1>3, <1>4
<1> QED
  BY <1>2, <1>5, OneWorks DEF children

LEMMA ReturnUnderway ==
  ASSUME Inv, Underway, Return
  PROVE  Underway'
<1>1. Types /\ Complete /\ Resolved /\ Constructors
  BY Zenon DEF Inv
<1>2. /\ MirrorEnds /\ protoFile' = Inner.built /\ building' = << >>
      /\ pool' = pool /\ message' = message
  BY DEF Return
<1>3. \A k \in DOMAIN Inner.built : IsMirror(Inner.built[k])
  BY <1>1, <1>2, MirrorsFinished
<1>4. message' # None => IsMirror(message')
  BY <1>2 DEF Underway
<1> QED
  BY <1>2, <1>3, <1>4, NoneWorks

LEMMA WalkUnderway ==
  ASSUME Inv, Underway, WalkOn
  PROVE  Underway'
<1>1. Types /\ Complete /\ Resolved /\ Constructors
  BY Zenon DEF Inv
<1>2. Walk /\ pool' = pool
  BY DEF WalkOn, importerVars
<1>3. CASE Messages
  <2>1. building' = << >> /\ protoFile' = protoFile
    BY <1>3 DEF Messages
  <2>2. PICK k \in DOMAIN protoFile : message' = protoFile[k]
    BY <1>3 DEF Messages
  <2>3. IsMirror(message')
    BY <2>2 DEF Underway
  <2>4. \A j \in DOMAIN protoFile' : IsMirror(protoFile'[j])
    BY <2>1 DEF Underway
  <2> QED BY <1>2, <2>1, <2>3, <2>4, NoneWorks
<1>4. CASE MessageType
  <2>1. message # None /\ protoFile' = protoFile /\ message' = message
    BY <1>4 DEF MessageType
  <2>2. PICK k \in DOMAIN message.fields :
          /\ "message" \in DOMAIN message.fields[k].descriptor
          /\ building' = <<Constructor("field", <<message.fields[k].descriptor.message>>)>>
    BY <1>4 DEF MessageType
  <2>3. PICK t \in Scope(Defined) : message = Reference[t]
    BY <2>1 DEF Underway, IsMirror
  <2>4. /\ t \in DOMAIN Descriptor
        /\ \A f \in Range(Descriptor[t].fields) :
             "message" \in DOMAIN f => f.message \in Scope(Defined)
    BY <1>1, ScopeIsClosed
  <2>5. message = MirrorOf(t, Reference)
    BY <2>3, <2>4, ReferenceIs
  <2>6. message.fields = [j \in DOMAIN Descriptor[t].fields |-> FieldReference(Descriptor[t].fields[j])]
    BY <2>5 DEF MirrorOf
  <2>7. /\ message.fields[k].descriptor = Descriptor[t].fields[k]
        /\ Descriptor[t].fields[k] \in Range(Descriptor[t].fields)
    <3>1. k \in DOMAIN Descriptor[t].fields
      BY <2>6
    <3>2. message.fields[k] = FieldReference(Descriptor[t].fields[k])
      BY <2>6, <3>1
    <3> QED BY <3>1, <3>2 DEF FieldReference, Range
  <2> DEFINE type == message.fields[k].descriptor.message
  <2>8. type \in Scope(Defined)
    BY <2>2, <2>4, <2>7
  <2> HIDE DEF type
  <2>9. <<type>> \in Seq(Scope(Defined)) /\ Len(<<type>>) = 1
    BY <2>8
  <2>10. building' = <<Constructor("field", <<type>>)>>
    BY <2>2 DEF type
  <2> QED BY <1>2, <2>1, <2>9, <2>10, OneWorks
<1>5. CASE MessageTypeReturns
  <2>1. /\ MirrorEnds /\ Inner.type = "field" /\ message' = Inner.built[1]
        /\ building' = << >> /\ protoFile' = protoFile
    BY <1>5 DEF MessageTypeReturns
  <2>2. /\ Inner = building[1] /\ building # << >>
        /\ DOMAIN Inner.built = 1 .. Len(Inner.children)
        /\ \A k \in DOMAIN Inner.built : IsMirror(Inner.built[k])
    BY <1>1, <2>1, MirrorsFinished
  <2>3. Len(Inner.children) = 1
    BY <2>1, <2>2 DEF Underway
  <2>4. IsMirror(message')
    BY <2>1, <2>2, <2>3
  <2>5. \A j \in DOMAIN protoFile' : IsMirror(protoFile'[j])
    BY <2>1 DEF Underway
  <2> QED BY <1>2, <2>1, <2>4, <2>5, NoneWorks
<1> QED
  BY <1>2, <1>3, <1>4, <1>5 DEF Walk

LEMMA UnderwayStep ==
  ASSUME Inv, Underway, [Next]_vars
  PROVE  Underway'
<1>1. Types /\ Complete /\ Resolved /\ Constructors
  BY Zenon DEF Inv
<1>2. ASSUME UNCHANGED mirrorVars
      PROVE  Underway'
  <2>1. \A f \in DOMAIN pool : f \in DOMAIN pool' /\ pool'[f] = pool[f]
    <3>1. CASE Next
      BY <3>1, InvStep
    <3>2. CASE UNCHANGED vars
      BY <3>2 DEF vars, importerVars
    <3> QED BY <3>1, <3>2
  <2> QED BY <1>2, <2>1, UnderwayStays
<1>3. CASE LoadFile \/ Import \/ Throw \/ UNCHANGED vars
  <2>1. UNCHANGED mirrorVars
    BY <1>3 DEF LoadFile, Begin, Import, Throw, vars
  <2> QED BY <1>2, <2>1
<1>4. CASE Mirrors
  <2>1. (Construct \/ Constructed) /\ pool' = pool
    BY <1>4 DEF Mirrors, MirrorStep, importerVars
  <2> QED BY <1>1, <2>1, ConstructStep, ConstructedStep
<1> QED
  BY <1>3, <1>4, MirrorUnderway, ReturnUnderway, WalkUnderway DEF Next

(***************************************************************************)
(* A message under construction inside its own mirror would be nested in   *)
(* itself.                                                                 *)
(***************************************************************************)
LEMMA NoneInItself ==
  ASSUME Types, Complete, Resolved, Underway, NEW i \in 2 .. Len(building),
         NEW j \in 2 .. Len(building), i < j
  PROVE  building[i].type # building[j].type
<1> DEFINE S == {building[k].type : k \in i .. j - 1}
<1>1. SUFFICES ASSUME building[i].type = building[j].type
               PROVE  FALSE
  OBVIOUS
<1>2. ASSUME NEW k \in i .. j - 1
      PROVE  /\ building[k].type \in DOMAIN Descriptor
             /\ Range(Descriptor[building[k].type].nested) \cap S # {}
  <2>1. /\ k \in 2 .. Len(building) /\ k + 1 \in 2 .. Len(building) /\ (k + 1) - 1 = k
        /\ k \in 1 .. Len(building)
    OBVIOUS
  <2>2. NestedNext(k) /\ NestedNext(k + 1) /\ Working(building[k])
    BY <2>1 DEF Underway
  <2>3. building[k].type \in DOMAIN Descriptor
    BY <2>2, ScopeIsClosed DEF NestedNext
  <2>4. building[k + 1].type \in Range(Descriptor[building[k].type].nested)
    <3> DEFINE c == building[k]
               n == Len(c.built) + 1
    <3>1. c.children = Descriptor[c.type].nested /\ Len(c.built) < Len(c.children)
      BY <2>1, <2>2 DEF NestedNext
    <3>2. building[k + 1].type = c.children[n]
      BY <2>1, <2>2 DEF NestedNext
    <3>3. Len(c.built) \in 0 .. Len(c.children) /\ Len(c.children) \in Nat
      BY <2>2, MirrorsBuilt
    <3>4. n \in 1 .. Len(c.children)
      BY <3>1, <3>3
    <3>5. DOMAIN Descriptor[c.type].nested = 1 .. Len(c.children)
      BY <2>3, <3>1, DescriptorAssumption
    <3> HIDE DEF c, n
    <3>6. Descriptor[c.type].nested[n] \in Range(Descriptor[c.type].nested)
      BY <3>4, <3>5, Zenon DEF Range
    <3> QED BY <3>1, <3>2, <3>6 DEF c
  <2>5. building[k + 1].type \in S
    <3>1. CASE k + 1 = j
      BY <1>1, <3>1
    <3>2. CASE k + 1 # j
      <4>1. k + 1 \in i .. j - 1
        BY <3>2
      <4> QED BY <4>1
    <3> QED BY <3>1, <3>2
  <2> QED BY <2>3, <2>4, <2>5
<1>3. S \in SUBSET DOMAIN Descriptor /\ S # {}
  BY <1>2
<1>4. PICK t \in S : Range(Descriptor[t].nested) \cap S = {}
  <2> HIDE DEF S
  <2> QED BY <1>3, NestingAssumption
<1> QED
  BY <1>2, <1>4

(***************************************************************************)
(* A caller that follows the types of fields, as far as it likes and after *)
(* any calls, finds messages the loader has built, in their mirrors what   *)
(* their declarations say at every depth, and no constructor works on a    *)
(* message inside its own mirror.                                          *)
(***************************************************************************)
THEOREM WalksFindMirrors == Spec => []WalksAgree
<1>1. Init => Underway
  <2>1. SUFFICES ASSUME Init
                 PROVE  Underway
    OBVIOUS
  <2>2. building = << >> /\ protoFile = << >> /\ message = None
    BY <2>1 DEF Init
  <2> QED BY <2>2 DEF Underway
<1>2. Inv /\ [Next]_vars => Inv'
  BY InvStep, InvStutter
<1>3. Inv /\ Underway /\ [Next]_vars => Underway'
  BY UnderwayStep
<1>4. Inv /\ Underway => WalksAgree
  <2>1. SUFFICES ASSUME Inv, Underway
                 PROVE  WalksAgree
    OBVIOUS
  <2>2. Types /\ Complete /\ Resolved
    BY <2>1, Zenon DEF Inv
  <2>3. ASSUME NEW i \in 2 .. Len(building), NEW j \in 2 .. Len(building), i # j
        PROVE  building[i].type # building[j].type
    <3>1. i < j \/ j < i
      BY <2>3
    <3> QED BY <2>1, <2>2, <3>1, NoneInItself
  <2>4. message # None => message.type \in Scope(Defined) /\ message = Reference[message.type]
    BY <2>1 DEF Underway, IsMirror
  <2> QED BY <2>1, <2>3, <2>4, BuiltIsClosed DEF WalksAgree, MirrorsEnd
<1> QED
  BY InvInit, <1>1, <1>2, <1>3, <1>4, PTL DEF Spec
=============================================================================
