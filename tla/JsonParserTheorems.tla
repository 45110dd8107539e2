------------------------ MODULE JsonParserTheorems ------------------------
(***************************************************************************)
(* The pointers of the parser's consumers stay valid, whatever the tokens, *)
(* the bounds and the callback's answers are.  The nodes are a tree, and   *)
(* the enclosing containers a path in it, from the root to the container   *)
(* that is being filled.  Only this one grows, so what moves are its       *)
(* children, and what is freed hangs below one of them; neither is on the  *)
(* path.                                                                   *)
(***************************************************************************)
EXTENDS JsonParser, SequenceTheorems, WellFoundedInduction, TLAPS

NodeOver(A, n) ==
  \/ n.kind \in {"scalar", "discarded"}
  \/ /\ n.kind = "array"
     /\ n = [kind |-> "array", elements |-> n.elements]
     /\ n.elements \in Seq(A)
     /\ \A i, j \in DOMAIN n.elements : n.elements[i] = n.elements[j] => i = j
  \/ /\ n.kind = "object"
     /\ n = [kind |-> "object", members |-> n.members]
     /\ n.members \in [DOMAIN n.members -> A]

(***************************************************************************)
(* Each node but the root has at most one place at which it is held.       *)
(***************************************************************************)
Tree(memory) ==
  /\ Root \in DOMAIN memory
  /\ memory = [a \in DOMAIN memory |-> memory[a]]
  /\ \A a \in DOMAIN memory : NodeOver((DOMAIN memory) \ {Root}, memory[a])
  /\ \A a, b \in DOMAIN memory :
       \A c \in Children(memory, a) : c \in Children(memory, b) => a = b

\* The stack is a path of containers from the root, as far as they are kept.
Encloses(memory, stack, k) ==
  /\ stack[k] \in DOMAIN memory
  /\ memory[stack[k]].kind \in {"array", "object"}
  /\ k = 1 => stack[k] = Root
  /\ k > 1 => Kept(stack[k - 1]) /\ stack[k] \in Children(memory, stack[k - 1])

Path(memory, stack) ==
  /\ \A k \in DOMAIN stack : Kept(stack[k]) => Encloses(memory, stack, k)
  /\ \A j, k \in DOMAIN stack : Kept(stack[j]) /\ stack[j] = stack[k] => j = k

Built(memory, stack, used) ==
  /\ Tree(memory)
  /\ used \in Nat /\ DOMAIN memory \subseteq 1 .. used
  /\ stack \in Seq(0 .. used)
  /\ Path(memory, stack)

SameKinds(memory, later, stack) ==
  \A k \in DOMAIN stack : Kept(stack[k]) => later[stack[k]].kind = memory[stack[k]].kind

-----------------------------------------------------------------------------
\* What the place in the parser says of its stack.
AtAgrees ==
  /\ at \in Places \cup {"start", "returned", "threw"}
  /\ at # "start" => read # << >>
  /\ at = "in_array" => states # << >> /\ Top(states)
  /\ at \in {"in_object", "comma_key", "colon"} => states # << >> /\ ~ Top(states)
  /\ at \in {"start", "end", "returned"} => states = << >>

\* A container was opened that is not on the parser's stack yet.
Opened == at \in {"opened", "opened_array", "first_colon"}

Depths ==
  /\ Len(ref_stack) = Len(states) + (IF Opened THEN 1 ELSE 0)
  /\ sax = "dom_callback_parser" => Len(keep_stack) = Len(ref_stack) + 1

Kinds ==
  /\ \A k \in DOMAIN states :
       Kept(ref_stack[k]) => (states[k] <=> nodes[ref_stack[k]].kind = "array")
  /\ Opened /\ Kept(Top(ref_stack)) =>
       (at = "opened_array" <=> nodes[Top(ref_stack)].kind = "array")

\* The next value is that of a member.
BeforeMember ==
  \/ at \in {"first_colon", "colon"}
  \/ at = "value" /\ states # << >> /\ ~ Top(states)

MemberReady ==
  /\ sax = "dom_callback_parser" => key_keep_stack # << >>
  /\ Kept(Top(ref_stack)) /\ (key_keep_stack # << >> => Top(key_keep_stack)) =>
       object_element \in Children(nodes, Top(ref_stack))

Typed ==
  /\ sax \in {"dom_parser", "dom_callback_parser", "acceptor"}
  /\ Built(nodes, ref_stack, addresses)
  /\ object_element \in 0 .. addresses
  /\ keep_stack \in Seq(BOOLEAN) /\ key_keep_stack \in Seq(BOOLEAN)
  /\ sax = "dom_parser" =>
       key_keep_stack = << >> /\ \A k \in DOMAIN ref_stack : Kept(ref_stack[k])

IndInv ==
  /\ read \in Seq(Tokens \cup {EndOfInput})
  /\ states \in Seq(BOOLEAN)
  /\ rejected \subseteq DOMAIN read
  /\ Typed
  /\ AtAgrees
  /\ sax = "acceptor" \/ at = "threw" => ref_stack = << >>
  /\ sax # "acceptor" /\ at # "threw" => Depths /\ Kinds /\ (BeforeMember => MemberReady)

-----------------------------------------------------------------------------
(***************************************************************************)
(* A set of positions that is not empty has a first one.                   *)
(***************************************************************************)
LEMMA FirstPosition ==
  ASSUME NEW S \in SUBSET Nat, S # {}
  PROVE  \E n \in S : \A m \in S : ~ (m < n)
<1>1. PICK n \in S : \A m \in S : ~ (<<m, n>> \in OpToRel(<, Nat))
  BY NatLessThanWellFounded, WFMin
<1>2. QED
  BY <1>1 DEF OpToRel

(***************************************************************************)
(* The children of a node of a tree are nodes, and not the root.           *)
(***************************************************************************)
LEMMA ChildrenAreNodes ==
  ASSUME NEW memory, Tree(memory), NEW a \in DOMAIN memory
  PROVE  Children(memory, a) \subseteq (DOMAIN memory) \ {Root}
<1> DEFINE A == (DOMAIN memory) \ {Root}
<1>1. NodeOver(A, memory[a])
  BY DEF Tree
<1> HIDE DEF A
<1>2. CASE memory[a].kind \in {"scalar", "discarded"}
  BY <1>2 DEF Children, A
<1>3. CASE memory[a].kind = "array"
  <2>1. memory[a].elements \in Seq(A)
    BY <1>1, <1>3 DEF NodeOver
  <2>2. \A k \in DOMAIN memory[a].elements : memory[a].elements[k] \in A
    BY <2>1
  <2>3. QED
    BY <1>3, <2>2 DEF Children, A
<1>4. CASE memory[a].kind = "object"
  <2>1. memory[a].members \in [DOMAIN memory[a].members -> A]
    BY <1>1, <1>4 DEF NodeOver
  <2>2. \A name \in DOMAIN memory[a].members : memory[a].members[name] \in A
    BY <2>1
  <2>3. QED
    BY <1>4, <2>2 DEF Children, A
<1>5. QED
  BY <1>1, <1>2, <1>3, <1>4 DEF NodeOver

LEMMA NodeNarrows ==
  ASSUME NEW A, NEW B, NEW memory, NEW a, NodeOver(A, memory[a]),
         Children(memory, a) \subseteq B
  PROVE  NodeOver(B, memory[a])
<1>1. CASE memory[a].kind \in {"scalar", "discarded"}
  BY <1>1 DEF NodeOver
<1>2. CASE memory[a].kind = "array"
  <2> DEFINE s == memory[a].elements
  <2>1. s \in Seq(A) /\ memory[a] = [kind |-> "array", elements |-> s]
    BY <1>2 DEF NodeOver
  <2>2. \A k \in 1 .. Len(s) : s[k] \in B
    BY <1>2, <2>1 DEF Children
  <2>3. s \in Seq(B)
    BY <2>1, <2>2, IsASeq
  <2>4. QED
    BY <1>2, <2>1, <2>3 DEF NodeOver
<1>3. CASE memory[a].kind = "object"
  BY <1>3 DEF NodeOver, Children
<1>4. QED
  BY <1>1, <1>2, <1>3 DEF NodeOver

(***************************************************************************)
(* What is not reached from the root can go, and the rest is a tree.       *)
(***************************************************************************)
LEMMA OwnedIsWhole ==
  ASSUME NEW memory, Tree(memory)
  PROVE  Owned(memory) \in Wholes(memory)
<1>1. ASSUME NEW a \in Owned(memory), NEW c \in Children(memory, a)
      PROVE  c \in Owned(memory)
  <2>1. a \in DOMAIN memory
    BY DEF Owned
  <2>2. c \in DOMAIN memory
    BY <1>1, <2>1, ChildrenAreNodes
  <2>3. ASSUME NEW set \in Wholes(memory) PROVE c \in set
    <3>1. a \in set
      BY DEF Owned
    <3>2. QED
      BY <1>1, <3>1 DEF Wholes
  <2>4. QED
    BY <2>2, <2>3 DEF Owned
<1>2. Root \in Owned(memory)
  BY DEF Owned, Wholes, Tree
<1>3. QED
  BY <1>1, <1>2 DEF Wholes, Owned

LEMMA FreedChildren ==
  ASSUME NEW memory, NEW a \in Owned(memory)
  PROVE  Children(Freed(memory), a) = Children(memory, a)
  BY DEF Children, Freed

LEMMA FreedIsTree ==
  ASSUME NEW memory, Tree(memory)
  PROVE  Tree(Freed(memory))
<1> DEFINE f == Freed(memory)
<1>1. DOMAIN f = Owned(memory) /\ f = [a \in DOMAIN f |-> f[a]]
  BY DEF Freed
<1>2. /\ Root \in Owned(memory)
      /\ \A a \in Owned(memory) : Children(memory, a) \subseteq Owned(memory)
      /\ Owned(memory) \subseteq DOMAIN memory
  BY OwnedIsWhole DEF Wholes
<1>3. ASSUME NEW a \in Owned(memory)
      PROVE  NodeOver(Owned(memory) \ {Root}, f[a])
  <2>1. f[a] = memory[a]
    BY DEF Freed
  <2>2. NodeOver((DOMAIN memory) \ {Root}, memory[a])
    BY <1>2 DEF Tree
  <2>3. Children(memory, a) \subseteq Owned(memory) \ {Root}
    BY <1>2, ChildrenAreNodes
  <2>4. QED
    BY <2>1, <2>2, <2>3, NodeNarrows
<1>4. ASSUME NEW a \in Owned(memory), NEW b \in Owned(memory),
             NEW c \in Children(f, a), c \in Children(f, b)
      PROVE  a = b
  BY <1>2, <1>4, FreedChildren DEF Tree
<1>5. QED
  BY <1>1, <1>2, <1>3, <1>4 DEF Tree

-----------------------------------------------------------------------------
(***************************************************************************)
(* The path of the enclosing containers.  All of it is reached from the    *)
(* root.                                                                   *)
(***************************************************************************)
LEMMA PathIsOwned ==
  ASSUME NEW memory, NEW s \in Seq(Nat), Tree(memory), Path(memory, s),
         NEW k \in DOMAIN s, Kept(s[k])
  PROVE  s[k] \in Owned(memory)
<1> DEFINE Lost == {j \in 1 .. Len(s) : Kept(s[j]) /\ s[j] \notin Owned(memory)}
<1>1. SUFFICES ASSUME s[k] \notin Owned(memory)
               PROVE  FALSE
  OBVIOUS
<1>2. k \in Lost /\ Lost \in SUBSET Nat
  BY <1>1
<1>3. PICK j \in Lost : \A m \in Lost : ~ (m < j)
  BY <1>2, FirstPosition
<1>4. j \in 1 .. Len(s) /\ Kept(s[j]) /\ s[j] \notin Owned(memory)
  OBVIOUS
<1>5. Encloses(memory, s, j)
  BY <1>4 DEF Path
<1>6. /\ Root \in Owned(memory)
      /\ \A a \in Owned(memory) : Children(memory, a) \subseteq Owned(memory)
  BY OwnedIsWhole DEF Wholes
<1>7. j > 1 /\ Kept(s[j - 1]) /\ s[j] \in Children(memory, s[j - 1])
  BY <1>4, <1>5, <1>6 DEF Encloses
<1>8. j - 1 \in 1 .. Len(s) /\ j - 1 < j
  BY <1>4, <1>7
<1>9. j - 1 \notin Lost
  BY <1>3, <1>8
<1>10. s[j - 1] \in Owned(memory)
  BY <1>7, <1>8, <1>9
<1>11. QED
  BY <1>4, <1>6, <1>7, <1>10

(***************************************************************************)
(* A path stays one if its nodes stay, and all but the last keep their     *)
(* children.                                                               *)
(***************************************************************************)
Spares(memory, later, s) ==
  \A k \in DOMAIN s :
    Kept(s[k]) => /\ s[k] \in DOMAIN later
                  /\ later[s[k]].kind = memory[s[k]].kind
                  /\ k < Len(s) => Children(memory, s[k]) \subseteq Children(later, s[k])

LEMMA PathStays ==
  ASSUME NEW memory, NEW later, NEW s \in Seq(Nat), Path(memory, s), Spares(memory, later, s)
  PROVE  Path(later, s) /\ SameKinds(memory, later, s)
<1>1. ASSUME NEW k \in DOMAIN s, Kept(s[k])
      PROVE  Encloses(later, s, k)
  <2>1. Encloses(memory, s, k)
    BY <1>1 DEF Path
  <2>2. s[k] \in DOMAIN later /\ later[s[k]].kind = memory[s[k]].kind
    BY <1>1 DEF Spares
  <2>3. ASSUME k > 1 PROVE s[k] \in Children(later, s[k - 1])
    <3>1. k - 1 \in DOMAIN s /\ k - 1 < Len(s)
      BY <2>3
    <3>2. Kept(s[k - 1]) /\ s[k] \in Children(memory, s[k - 1])
      BY <2>1, <2>3 DEF Encloses
    <3>3. QED
      BY <3>1, <3>2 DEF Spares
  <2>4. QED
    BY <2>1, <2>2, <2>3 DEF Encloses
<1>2. QED
  BY <1>1 DEF Path, Spares, SameKinds

LEMMA PopDrops ==
  ASSUME NEW S, NEW s \in Seq(S), s # << >>
  PROVE  /\ Pop(s) \in Seq(S) /\ Len(Pop(s)) = Len(s) - 1
         /\ \A k \in 1 .. Len(s) - 1 : Pop(s)[k] = s[k]
<1>1. PICK n \in Nat : n = Len(s)
  BY LenProperties
<1>2. n > 0
  BY <1>1, EmptySeq
<1>3. /\ 1 \in 1 .. Len(s) + 1 /\ n - 1 \in 0 .. Len(s) /\ 1 <= n - 1 + 1
  BY <1>1, <1>2
<1>4. SubSeq(s, 1, n - 1) \in Seq(S)
  BY <1>1, <1>2, SubSeqProperties
<1>5. Len(SubSeq(s, 1, n - 1)) = n - 1
  BY <1>1, <1>2, <1>3, SubSeqProperties
<1>6. ASSUME NEW k \in 1 .. n - 1 PROVE SubSeq(s, 1, n - 1)[k] = s[k]
  BY <1>1, <1>2, <1>3, SubSeqProperties
<1>7. QED
  BY <1>1, <1>4, <1>5, <1>6 DEF Pop

LEMMA PathPops ==
  ASSUME NEW memory, NEW s \in Seq(Nat), s # << >>, Path(memory, s)
  PROVE  Path(memory, Pop(s))
<1> DEFINE t == Pop(s)
<1>1. Len(s) \in Nat /\ Len(s) > 0 /\ DOMAIN s = 1 .. Len(s)
  OBVIOUS
<1>2. /\ t \in Seq(Nat) /\ Len(t) = Len(s) - 1
      /\ \A k \in 1 .. Len(s) - 1 : t[k] = s[k]
  BY PopDrops
<1>3. DOMAIN t = 1 .. Len(s) - 1
  BY <1>2
<1> HIDE DEF t
<1>4. ASSUME NEW k \in 1 .. Len(s) - 1, Kept(s[k])
      PROVE  Encloses(memory, t, k)
  <2>1. Encloses(memory, s, k)
    BY <1>1, <1>4 DEF Path
  <2>2. t[k] = s[k] /\ (k > 1 => t[k - 1] = s[k - 1])
    BY <1>1, <1>2
  <2>3. QED
    BY <2>1, <2>2 DEF Encloses
<1>5. ASSUME NEW k \in DOMAIN t, Kept(t[k])
      PROVE  Encloses(memory, t, k)
  BY <1>2, <1>3, <1>4, <1>5
<1>6. ASSUME NEW j \in DOMAIN t, NEW k \in DOMAIN t, Kept(t[j]), t[j] = t[k]
      PROVE  j = k
  <2>1. j \in 1 .. Len(s) - 1 /\ k \in 1 .. Len(s) - 1
    BY <1>3
  <2>2. t[j] = s[j] /\ t[k] = s[k]
    BY <1>2, <2>1
  <2>3. j \in DOMAIN s /\ k \in DOMAIN s
    BY <1>1, <2>1
  <2>4. QED
    BY <1>6, <2>2, <2>3 DEF Path
<1>7. Path(memory, t)
  BY <1>5, <1>6 DEF Path
<1>8. QED
  BY <1>7 DEF t

(***************************************************************************)
(* A container is entered: one that was stored in the last one of the      *)
(* path, or one that is not kept.                                          *)
(***************************************************************************)
LEMMA PathPushes ==
  ASSUME NEW memory, NEW s \in Seq(Nat), Path(memory, s), NEW c \in Nat,
         Kept(c) => /\ c \in DOMAIN memory /\ memory[c].kind \in {"array", "object"}
                    /\ s = << >> => c = Root
                    /\ s # << >> => Kept(Top(s)) /\ c \in Children(memory, Top(s))
                    /\ \A k \in DOMAIN s : s[k] # c
  PROVE  Path(memory, Append(s, c))
<1> DEFINE t == Append(s, c)
<1>1. /\ DOMAIN s = 1 .. Len(s) /\ DOMAIN t = 1 .. Len(s) + 1 /\ Len(s) \in Nat
      /\ t[Len(s) + 1] = c /\ \A k \in 1 .. Len(s) : t[k] = s[k]
  OBVIOUS
<1> HIDE DEF t
<1>2. ASSUME NEW k \in 1 .. Len(s), Kept(t[k])
      PROVE  Encloses(memory, t, k)
  <2>1. Encloses(memory, s, k)
    BY <1>1, <1>2 DEF Path
  <2>2. t[k] = s[k] /\ (k > 1 => t[k - 1] = s[k - 1])
    BY <1>1
  <2>3. QED
    BY <2>1, <2>2 DEF Encloses
<1>3. ASSUME Kept(c)
      PROVE  Encloses(memory, t, Len(s) + 1)
  <2>1. CASE s = << >>
    BY <1>1, <1>3, <2>1 DEF Encloses
  <2>2. CASE s # << >>
    <3>1. Len(s) > 0 /\ Len(s) + 1 - 1 = Len(s) /\ t[Len(s)] = Top(s)
      BY <1>1, <2>2 DEF Top
    <3>2. QED
      BY <1>1, <1>3, <2>2, <3>1 DEF Encloses
  <2>3. QED
    BY <2>1, <2>2
<1>4. ASSUME NEW k \in DOMAIN t, Kept(t[k])
      PROVE  Encloses(memory, t, k)
  <2>1. k \in 1 .. Len(s) \/ k = Len(s) + 1
    BY <1>1
  <2>2. QED
    BY <1>1, <1>2, <1>3, <1>4, <2>1
<1>5. ASSUME NEW j \in DOMAIN t, NEW k \in DOMAIN t, Kept(t[j]), t[j] = t[k]
      PROVE  j = k
  BY <1>1, <1>5 DEF Path
<1>6. Path(memory, t)
  BY <1>4, <1>5 DEF Path
<1>7. QED
  BY <1>6 DEF t

(***************************************************************************)
(* What the last container of a path holds is not on the path.             *)
(***************************************************************************)
LEMMA ChildrenOffPath ==
  ASSUME NEW memory, NEW s \in Seq(Nat), Tree(memory), Path(memory, s),
         s # << >>, Kept(Top(s)), NEW c \in Children(memory, Top(s)), Kept(c),
         NEW k \in DOMAIN s
  PROVE  s[k] # c
<1>1. SUFFICES ASSUME s[k] = c
               PROVE  FALSE
  OBVIOUS
<1>2. Len(s) \in DOMAIN s /\ DOMAIN s = 1 .. Len(s) /\ Len(s) \in Nat
  OBVIOUS
<1>3. Top(s) \in DOMAIN memory
  BY <1>2 DEF Path, Encloses, Top
<1>4. c \in DOMAIN memory /\ c # Root
  BY <1>3, ChildrenAreNodes
<1>5. Encloses(memory, s, k)
  BY <1>1 DEF Path
<1>6. k > 1 /\ Kept(s[k - 1]) /\ c \in Children(memory, s[k - 1])
  BY <1>1, <1>2, <1>4, <1>5 DEF Encloses
<1>7. k - 1 \in DOMAIN s
  BY <1>2, <1>6
<1>8. s[k - 1] \in DOMAIN memory
  BY <1>6, <1>7 DEF Path, Encloses
<1>9. s[k - 1] = s[Len(s)]
  BY <1>3, <1>6, <1>8 DEF Tree, Top
<1>10. k - 1 = Len(s)
  BY <1>2, <1>6, <1>7, <1>9 DEF Path
<1>11. QED
  BY <1>2, <1>10

(***************************************************************************)
(* Freeing what is not reached leaves the path as it is.                   *)
(***************************************************************************)
LEMMA FreedSpares ==
  ASSUME NEW memory, NEW s \in Seq(Nat), Tree(memory), Path(memory, s)
  PROVE  Spares(memory, Freed(memory), s)
<1>1. ASSUME NEW k \in DOMAIN s, Kept(s[k])
      PROVE  s[k] \in Owned(memory)
  BY <1>1, PathIsOwned
<1>2. \A a \in Owned(memory) : Freed(memory)[a] = memory[a]
  BY DEF Freed
<1>3. DOMAIN Freed(memory) = Owned(memory)
  BY DEF Freed
<1>4. QED
  BY <1>1, <1>2, <1>3, FreedChildren DEF Spares

-----------------------------------------------------------------------------
(***************************************************************************)
(* An assignment: a node becomes a value that holds no others.             *)
(***************************************************************************)
Childless(v) == v.kind \in {"scalar", "discarded"} \/ v \in {EmptyArray, EmptyObject}

LEMMA KindsOfValues ==
  /\ \A t : Scalar(t).kind = "scalar" /\ Childless(Scalar(t))
  /\ Null.kind = "scalar" /\ Childless(Null)
  /\ Discarded.kind = "discarded" /\ Childless(Discarded)
  /\ EmptyArray.kind = "array" /\ Childless(EmptyArray)
  /\ EmptyObject.kind = "object" /\ Childless(EmptyObject)
<1>1. \A t : Scalar(t).kind = "scalar"
  BY DEF Scalar
<1>2. Null.kind = "scalar"
  BY <1>1 DEF Null
<1>3. /\ Discarded.kind = "discarded"
      /\ EmptyArray.kind = "array" /\ EmptyObject.kind = "object"
  BY DEF Discarded, EmptyArray, EmptyObject
<1>4. QED
  BY <1>1, <1>2, <1>3, Zenon DEF Childless

LEMMA ChildlessNode ==
  ASSUME NEW v, Childless(v), NEW A, NEW memory, NEW a, memory[a] = v
  PROVE  NodeOver(A, v) /\ Children(memory, a) = {}
<1>1. CASE v.kind \in {"scalar", "discarded"}
  BY <1>1 DEF NodeOver, Children
<1>2. CASE v = EmptyArray
  <2>1. v.kind = "array" /\ v.elements = << >> /\ v = [kind |-> "array", elements |-> v.elements]
    BY <1>2 DEF EmptyArray
  <2>2. << >> \in Seq(A) /\ DOMAIN << >> = {}
    OBVIOUS
  <2>3. NodeOver(A, v)
    BY <2>1, <2>2 DEF NodeOver
  <2>4. QED
    BY <2>1, <2>2, <2>3 DEF Children
<1>3. CASE v = EmptyObject
  <2>1. /\ v.kind = "object" /\ v = [kind |-> "object", members |-> v.members]
        /\ v.members = [name \in {} |-> NullPtr]
    BY <1>3 DEF EmptyObject
  <2>2. v.members \in [DOMAIN v.members -> A] /\ DOMAIN v.members = {}
    BY <2>1
  <2>3. NodeOver(A, v)
    BY <2>1, <2>2 DEF NodeOver
  <2>4. QED
    BY <2>1, <2>2, <2>3 DEF Children
<1>4. QED
  BY <1>1, <1>2, <1>3 DEF Childless

LEMMA AssignedTree ==
  ASSUME NEW memory, Tree(memory), NEW a \in DOMAIN memory, NEW v, Childless(v)
  PROVE  Tree([memory EXCEPT ![a] = v])
<1> DEFINE m == [memory EXCEPT ![a] = v]
<1>1. DOMAIN m = DOMAIN memory /\ m = [b \in DOMAIN m |-> m[b]]
  BY DEF Tree
<1>2. m[a] = v /\ \A b \in DOMAIN memory : b # a => m[b] = memory[b]
  OBVIOUS
<1> HIDE DEF m
<1>3. Children(m, a) = {}
  BY <1>2, ChildlessNode
<1>4. \A b \in DOMAIN memory : b # a => Children(m, b) = Children(memory, b)
  BY <1>2 DEF Children
<1>5. ASSUME NEW b \in DOMAIN memory
      PROVE  NodeOver((DOMAIN memory) \ {Root}, m[b])
  BY <1>2, ChildlessNode DEF Tree
<1>6. ASSUME NEW b \in DOMAIN memory, NEW d \in DOMAIN memory,
             NEW c \in Children(m, b), c \in Children(m, d)
      PROVE  b = d
  BY <1>3, <1>4, <1>6 DEF Tree
<1>7. Tree(m)
  BY <1>1, <1>5, <1>6 DEF Tree
<1>8. QED
  BY <1>7 DEF m

\* What is not on the path may be assigned to.
LEMMA AssignedSpares ==
  ASSUME NEW memory, NEW s \in Seq(Nat), Path(memory, s), NEW a, NEW v,
         \A k \in DOMAIN s : Kept(s[k]) => s[k] # a
  PROVE  Spares(memory, [memory EXCEPT ![a] = v], s)
<1> DEFINE m == [memory EXCEPT ![a] = v]
<1>1. DOMAIN m = DOMAIN memory /\ \A b \in DOMAIN memory : b # a => m[b] = memory[b]
  OBVIOUS
<1> HIDE DEF m
<1>2. \A b \in DOMAIN memory : b # a => Children(m, b) = Children(memory, b)
  BY <1>1 DEF Children
<1>3. \A k \in DOMAIN s : Kept(s[k]) => s[k] \in DOMAIN memory /\ s[k] # a
  BY DEF Path, Encloses
<1>4. Spares(memory, m, s)
  BY <1>1, <1>2, <1>3 DEF Spares
<1>5. QED
  BY <1>4 DEF m

(***************************************************************************)
(* A child is dropped: an object without some of its members, and an array *)
(* without the last of its elements.                                       *)
(***************************************************************************)
LEMMA NarrowedTree ==
  ASSUME NEW memory, Tree(memory), NEW a \in DOMAIN memory, NEW n,
         NEW later, later = [memory EXCEPT ![a] = n],
         NodeOver((DOMAIN memory) \ {Root}, n),
         Children(later, a) \subseteq Children(memory, a)
  PROVE  Tree(later)
<1>1. DOMAIN later = DOMAIN memory /\ later = [b \in DOMAIN later |-> later[b]]
  BY DEF Tree
<1>2. later[a] = n /\ \A b \in DOMAIN memory : b # a => later[b] = memory[b]
  OBVIOUS
<1>3. \A b \in DOMAIN memory : Children(later, b) \subseteq Children(memory, b)
  BY <1>2 DEF Children
<1>4. ASSUME NEW b \in DOMAIN memory
      PROVE  NodeOver((DOMAIN memory) \ {Root}, later[b])
  BY <1>2 DEF Tree
<1>5. ASSUME NEW b \in DOMAIN memory, NEW d \in DOMAIN memory,
             NEW c \in Children(later, b), c \in Children(later, d)
      PROVE  b = d
  BY <1>3, <1>5 DEF Tree
<1>6. QED
  BY <1>1, <1>4, <1>5 DEF Tree

-----------------------------------------------------------------------------
(***************************************************************************)
(* A container `top' changes and a node `fresh' is new; the other nodes    *)
(* are those there were, each at the address it `was' at or at another.    *)
(***************************************************************************)
LEMMA ChangedTree ==
  ASSUME NEW memory, Tree(memory), NEW later, NEW top \in DOMAIN memory, NEW fresh, NEW was,
         {Root, top, fresh} \subseteq DOMAIN later,
         later = [a \in DOMAIN later |-> later[a]],
         Childless(later[fresh]),
         NodeOver((DOMAIN later) \ {Root}, later[top]),
         \A a \in (DOMAIN later) \ {fresh, top} :
           /\ was[a] \in (DOMAIN memory) \ {top} /\ later[a] = memory[was[a]]
           /\ Children(memory, was[a]) \subseteq (DOMAIN later) \ {Root},
         \A a, b \in (DOMAIN later) \ {fresh, top} : was[a] = was[b] => a = b,
         \A b \in (DOMAIN memory) \ {top} :
           \A c \in Children(later, top) : c \notin Children(memory, b)
  PROVE  Tree(later)
<1> DEFINE Others == (DOMAIN later) \ {fresh, top}
<1>1. Children(later, fresh) = {}
  BY ChildlessNode
<1>2. ASSUME NEW a \in Others
      PROVE  Children(later, a) = Children(memory, was[a])
  <2>1. later[a] = memory[was[a]]
    OBVIOUS
  <2>2. QED
    BY <2>1 DEF Children
<1>3. ASSUME NEW a \in DOMAIN later
      PROVE  NodeOver((DOMAIN later) \ {Root}, later[a])
  <2>1. CASE a = fresh
    BY <2>1, ChildlessNode
  <2>2. CASE a \in Others
    <3>1. NodeOver((DOMAIN memory) \ {Root}, memory[was[a]])
      BY <2>2 DEF Tree
    <3>2. NodeOver((DOMAIN later) \ {Root}, memory[was[a]])
      BY <2>2, <3>1, NodeNarrows
    <3>3. QED
      BY <2>2, <3>2
  <2>3. QED
    BY <2>1, <2>2
<1>4. ASSUME NEW a \in Others, NEW b \in Others,
             NEW c \in Children(later, a), c \in Children(later, b)
      PROVE  a = b
  <2>1. was[a] \in DOMAIN memory /\ was[b] \in DOMAIN memory
    OBVIOUS
  <2>2. c \in Children(memory, was[a]) /\ c \in Children(memory, was[b])
    BY <1>2, <1>4
  <2>3. was[a] = was[b]
    BY <2>1, <2>2 DEF Tree
  <2>4. QED
    BY <2>3
<1>5. ASSUME NEW a \in Others, NEW c \in Children(later, a)
      PROVE  c \notin Children(later, top)
  BY <1>2, <1>5
<1>6. ASSUME NEW a \in DOMAIN later, NEW b \in DOMAIN later,
             NEW c \in Children(later, a), c \in Children(later, b)
      PROVE  a = b
  BY <1>1, <1>4, <1>5, <1>6
<1>7. QED
  BY <1>3, <1>6 DEF Tree

(***************************************************************************)
(* emplace_back: the array grows, and its elements move or do not.         *)
(***************************************************************************)
Grows(memory, used, later, laterUsed, s, added, v) ==
  /\ Tree(later)
  /\ laterUsed \in Nat /\ used <= laterUsed /\ DOMAIN later \subseteq 1 .. laterUsed
  /\ Spares(memory, later, s)
  /\ added \in DOMAIN later /\ later[added] = v /\ added \in Children(later, Top(s))

LEMMA TopIsNode ==
  ASSUME NEW memory, NEW s, NEW used, Built(memory, s, used), s # << >>, Kept(Top(s))
  PROVE  /\ s \in Seq(Nat) /\ Len(s) \in DOMAIN s /\ Top(s) = s[Len(s)]
         /\ Top(s) \in DOMAIN memory /\ memory[Top(s)].kind \in {"array", "object"}
         /\ Top(s) \notin Children(memory, Top(s))
         /\ \A a \in DOMAIN memory : a \in Nat /\ 1 <= a /\ a <= used
<1>1. s \in Seq(0 .. used) /\ used \in Nat /\ DOMAIN memory \subseteq 1 .. used
  BY DEF Built
<1>2. s \in Seq(Nat) /\ Len(s) \in DOMAIN s
  BY <1>1
<1>3. Top(s) \in DOMAIN memory /\ memory[Top(s)].kind \in {"array", "object"}
  BY <1>2 DEF Built, Path, Encloses, Top
<1>4. Top(s) \notin Children(memory, Top(s))
  BY <1>2, <1>3, ChildrenOffPath DEF Built, Top
<1>5. QED
  BY <1>1, <1>2, <1>3, <1>4 DEF Top

LEMMA EmplacedBack ==
  ASSUME Built(nodes, ref_stack, addresses), ref_stack # << >>, Kept(Top(ref_stack)),
         InArray, NEW v, Childless(v), EmplaceBack(v)
  PROVE  Grows(nodes, addresses, nodes', addresses', ref_stack, Fresh, v)
<1> DEFINE top == Top(ref_stack)
           old == nodes[top].elements
           n   == Len(old)
<1>1. PICK moves \in BOOLEAN :
        LET now   == [k \in DOMAIN old |-> IF moves THEN Fresh + k ELSE old[k]]
            Was(a) == IF a > Fresh THEN old[a - Fresh] ELSE a
        IN  /\ nodes' = [a \in ((DOMAIN nodes) \ {old[k] : k \in DOMAIN old})
                                \cup {now[k] : k \in DOMAIN now} \cup {Fresh} |->
                          CASE a = Fresh -> v
                            [] a = top   -> [nodes[top] EXCEPT !.elements = Append(now, Fresh)]
                            [] OTHER     -> nodes[Was(a)]]
            /\ addresses' = Fresh + (IF moves THEN n ELSE 0)
  BY DEF EmplaceBack, Container
<1> DEFINE now    == [k \in DOMAIN old |-> IF moves THEN Fresh + k ELSE old[k]]
           R      == {now[k] : k \in DOMAIN now}
           C      == {old[k] : k \in DOMAIN old}
           D      == ((DOMAIN nodes) \ C) \cup R \cup {Fresh}
           grown  == [nodes[top] EXCEPT !.elements = Append(now, Fresh)]
           Was(a) == IF a > Fresh THEN old[a - Fresh] ELSE a
<1>2. /\ ref_stack \in Seq(Nat) /\ Len(ref_stack) \in DOMAIN ref_stack
      /\ top = ref_stack[Len(ref_stack)]
      /\ top \in DOMAIN nodes /\ top \notin Children(nodes, top)
      /\ \A a \in DOMAIN nodes : a \in Nat /\ 1 <= a /\ a <= addresses
  BY TopIsNode
<1>3. Tree(nodes) /\ addresses \in Nat /\ Path(nodes, ref_stack)
  BY DEF Built
<1>4. Fresh = addresses + 1 /\ Fresh \in Nat /\ Fresh \notin DOMAIN nodes
  BY <1>2, <1>3 DEF Fresh
<1>5. nodes[top].kind = "array" /\ Children(nodes, top) = C
  BY DEF InArray, Container, Children
<1>6. NodeOver((DOMAIN nodes) \ {Root}, nodes[top])
  BY <1>2, <1>3 DEF Tree
<1>7. /\ nodes[top] = [kind |-> "array", elements |-> old]
      /\ old \in Seq((DOMAIN nodes) \ {Root})
      /\ \A i, j \in DOMAIN old : old[i] = old[j] => i = j
  BY <1>5, <1>6 DEF NodeOver
<1>8. n \in Nat /\ DOMAIN old = 1 .. n /\ \A k \in 1 .. n : old[k] \in (DOMAIN nodes) \ {Root}
  BY <1>7
<1>9. /\ DOMAIN now = 1 .. n /\ now \in Seq(R) /\ Len(now) = n
      /\ \A k \in 1 .. n : now[k] = IF moves THEN Fresh + k ELSE old[k]
  <2>1. DOMAIN now = 1 .. n /\ \A k \in 1 .. n : now[k] = IF moves THEN Fresh + k ELSE old[k]
    BY <1>8
  <2>2. now \in [1 .. n -> R]
    BY <2>1
  <2>3. now \in Seq(R) /\ Len(now) = n
    BY <1>8, <2>2
  <2>4. QED
    BY <2>1, <2>3
<1>10. ASSUME moves, NEW a \in R
       PROVE  a \in Nat /\ a > Fresh /\ a <= Fresh + n /\ a - Fresh \in 1 .. n
  <2>1. PICK k \in 1 .. n : a = Fresh + k
    BY <1>9, <1>10
  <2>2. QED
    BY <1>4, <1>8, <2>1
<1>11. ~ moves => R = C
  BY <1>8, <1>9
<1>12. C \subseteq (DOMAIN nodes) \ {Root}
  BY <1>8
<1>13. nodes' = [a \in D |-> CASE a = Fresh -> v
                                [] a = top   -> grown
                                [] OTHER     -> nodes[Was(a)]]
  BY <1>1
<1>14. addresses' = Fresh + (IF moves THEN n ELSE 0)
  BY <1>1
<1> HIDE DEF now, top, old, n
<1>15. grown = [kind |-> "array", elements |-> Append(now, Fresh)]
  BY <1>7
<1> HIDE DEF grown
<1>16. \A a : Was(a) = IF a > Fresh THEN old[a - Fresh] ELSE a
  OBVIOUS
<1>17. \A a : a \in D <=> a \in (DOMAIN nodes) \ C \/ a \in R \/ a = Fresh
  OBVIOUS
<1> HIDE DEF D, C, R, Was
<1>18. /\ DOMAIN nodes' = D /\ nodes' = [a \in DOMAIN nodes' |-> nodes'[a]]
       /\ Fresh \in D => nodes'[Fresh] = v
       /\ top \in D => nodes'[top] = grown
       /\ \A a \in D \ {Fresh, top} : nodes'[a] = nodes[Was(a)]
  <2>1. DOMAIN nodes' = D /\ nodes' = [a \in DOMAIN nodes' |-> nodes'[a]]
    BY <1>13
  <2>2. ASSUME NEW a \in D
        PROVE  nodes'[a] = CASE a = Fresh -> v
                             [] a = top   -> grown
                             [] OTHER     -> nodes[Was(a)]
    BY <1>13
  <2>3. top # Fresh
    BY <1>2, <1>4
  <2>4. (Fresh \in D => nodes'[Fresh] = v) /\ (top \in D => nodes'[top] = grown)
    BY <2>2, <2>3
  <2>5. ASSUME NEW a \in D \ {Fresh, top}
        PROVE  nodes'[a] = nodes[Was(a)]
    BY <2>2
  <2>6. QED
    BY <2>1, <2>3, <2>4, <2>5
<1>19. top \notin R
  <2>1. CASE moves
    BY <1>2, <1>3, <1>4, <1>10, <2>1
  <2>2. CASE ~ moves
    BY <1>2, <1>5, <1>11, <2>2
  <2>3. QED
    BY <2>1, <2>2
<1>20. top \in D /\ Root \in D /\ Fresh \in D /\ top # Fresh
  BY <1>2, <1>3, <1>4, <1>5, <1>12, <1>17 DEF Tree
<1> DEFINE Others == D \ {Fresh, top}
<1>21. ASSUME NEW a \in Others
       PROVE  \/ moves /\ a \in R /\ a > Fresh /\ Was(a) = old[a - Fresh] /\ a - Fresh \in 1 .. n
              \/ a \in DOMAIN nodes /\ Was(a) = a /\ (moves => a \notin C)
  <2>1. CASE moves /\ a \in R
    BY <1>10, <1>16, <2>1
  <2>2. CASE a \in DOMAIN nodes /\ (moves => a \notin C)
    <3>1. a \in Nat /\ a <= addresses
      BY <1>2, <2>2
    <3>2. ~ (a > Fresh)
      BY <1>3, <1>4, <3>1
    <3>3. QED
      BY <1>16, <2>2, <3>2
  <2>3. QED
    BY <1>11, <1>12, <1>17, <2>1, <2>2
<1>22. ASSUME NEW a \in Others
       PROVE  /\ Was(a) \in (DOMAIN nodes) \ {top}
              /\ Children(nodes, Was(a)) \subseteq D \ {Root}
  <2>1. Was(a) \in (DOMAIN nodes) \ {top}
    <3>1. CASE moves /\ Was(a) = old[a - Fresh] /\ a - Fresh \in 1 .. n
      <4>1. Was(a) \in C
        BY <1>8, <3>1 DEF C
      <4>2. QED
        BY <1>2, <1>5, <1>12, <4>1
    <3>2. CASE a \in DOMAIN nodes /\ Was(a) = a
      BY <3>2
    <3>3. QED
      BY <1>21, <3>1, <3>2
  <2>2. Children(nodes, Was(a)) \subseteq (DOMAIN nodes) \ {Root}
    BY <1>3, <2>1, ChildrenAreNodes
  <2>3. \A c \in Children(nodes, Was(a)) : c \notin C
    BY <1>2, <1>3, <1>5, <2>1 DEF Tree
  <2>4. QED
    BY <1>17, <2>1, <2>2, <2>3
<1>23. ASSUME NEW a \in Others, NEW b \in Others, Was(a) = Was(b)
       PROVE  a = b
  <2>1. \A k \in 1 .. n : old[k] \in C
    BY <1>8 DEF C
  <2>2. CASE /\ a > Fresh /\ Was(a) = old[a - Fresh] /\ a - Fresh \in 1 .. n /\ a \in R
             /\ b > Fresh /\ Was(b) = old[b - Fresh] /\ b - Fresh \in 1 .. n /\ b \in R
             /\ moves
    <3>1. a - Fresh = b - Fresh
      BY <1>7, <1>8, <1>23, <2>2
    <3>2. a \in Nat /\ b \in Nat
      BY <1>10, <2>2
    <3>3. QED
      BY <1>4, <3>1, <3>2
  <2>3. QED
    BY <1>21, <1>23, <2>1, <2>2
<1>24. \A i, j \in 1 .. n : now[i] = now[j] => i = j
  <2>1. ASSUME NEW i \in 1 .. n, NEW j \in 1 .. n, now[i] = now[j]
        PROVE  i = j
    <3>1. CASE moves
      BY <1>4, <1>9, <2>1, <3>1
    <3>2. CASE ~ moves
      BY <1>7, <1>8, <1>9, <2>1, <3>2
    <3>3. QED
      BY <3>1, <3>2
  <2>2. QED
    BY <2>1
<1>25. Fresh \notin R /\ R \cup {Fresh} \subseteq D \ {Root}
  <2>1. Root \in Nat /\ Root < Fresh
    BY <1>2, <1>3, <1>4 DEF Tree
  <2>2. CASE moves
    BY <1>4, <1>10, <1>17, <2>1, <2>2
  <2>3. CASE ~ moves
    BY <1>4, <1>11, <1>12, <1>17, <2>1, <2>3
  <2>4. QED
    BY <2>2, <2>3
<1>26. NodeOver(D \ {Root}, grown) /\ Children(nodes', top) = R \cup {Fresh}
  <2> DEFINE e == Append(now, Fresh)
  <2>1. grown.kind = "array" /\ grown.elements = e
    BY <1>15
  <2>2. grown = [kind |-> "array", elements |-> grown.elements]
    BY <1>15
  <2>3. e \in Seq(R \cup {Fresh}) /\ DOMAIN e = 1 .. n + 1 /\ e[n + 1] = Fresh
    BY <1>8, <1>9
  <2>4. \A k \in 1 .. n : e[k] = now[k]
    BY <1>8, <1>9
  <2>5. e \in Seq(D \ {Root})
    BY <1>25, <2>3
  <2>6. \A k \in 1 .. n : now[k] \in R
    BY <1>9
  <2> HIDE DEF e
  <2>7. ASSUME NEW i \in 1 .. n + 1, NEW j \in 1 .. n + 1, e[i] = e[j]
        PROVE  i = j
    <3>1. (i \in 1 .. n \/ i = n + 1) /\ (j \in 1 .. n \/ j = n + 1)
      BY <1>8
    <3>2. QED
      BY <1>24, <1>25, <2>3, <2>4, <2>6, <2>7, <3>1
  <2>8. NodeOver(D \ {Root}, grown)
    BY <2>1, <2>2, <2>3, <2>5, <2>7 DEF NodeOver
  <2>9. {e[k] : k \in DOMAIN e} = R \cup {Fresh}
    <3>1. R = {now[k] : k \in 1 .. n}
      BY <1>9 DEF R
    <3>2. DOMAIN e = (1 .. n) \cup {n + 1}
      BY <1>8, <2>3
    <3>3. QED
      BY <2>3, <2>4, <3>1, <3>2
  <2>10. Children(nodes', top) = {e[k] : k \in DOMAIN e}
    BY <1>18, <1>20, <2>1 DEF Children
  <2>11. QED
    BY <2>8, <2>9, <2>10
<1>27. ASSUME NEW b \in (DOMAIN nodes) \ {top}, NEW c \in Children(nodes', top)
       PROVE  c \notin Children(nodes, b)
  <2>1. Children(nodes, b) \subseteq DOMAIN nodes /\ \A d \in C : d \notin Children(nodes, b)
    BY <1>2, <1>3, <1>5, ChildrenAreNodes DEF Tree
  <2>2. CASE moves /\ c \in R
    BY <1>2, <1>3, <1>4, <1>10, <2>1, <2>2
  <2>3. QED
    BY <1>4, <1>11, <1>26, <1>27, <2>1, <2>2
<1>28. Tree(nodes')
  <2> DEFINE was == [a \in Others |-> Was(a)]
  <2>1. \A a \in Others : was[a] = Was(a)
    OBVIOUS
  <2> HIDE DEF was
  <2>2. \A a \in (DOMAIN nodes') \ {Fresh, top} :
          /\ was[a] \in (DOMAIN nodes) \ {top} /\ nodes'[a] = nodes[was[a]]
          /\ Children(nodes, was[a]) \subseteq (DOMAIN nodes') \ {Root}
    BY <1>18, <1>22, <2>1
  <2>3. \A a, b \in (DOMAIN nodes') \ {Fresh, top} : was[a] = was[b] => a = b
    BY <1>18, <1>23, <2>1
  <2>4. Childless(nodes'[Fresh]) /\ NodeOver((DOMAIN nodes') \ {Root}, nodes'[top])
    BY <1>18, <1>20, <1>26
  <2>5. {Root, top, Fresh} \subseteq DOMAIN nodes'
    BY <1>18, <1>20
  <2>6. QED
    BY <1>2, <1>3, <1>18, <1>27, <2>2, <2>3, <2>4, <2>5, ChangedTree
<1>29. /\ addresses' \in Nat /\ addresses <= addresses'
       /\ DOMAIN nodes' \subseteq 1 .. addresses'
  <2>1. addresses' \in Nat /\ addresses <= addresses' /\ Fresh <= addresses'
    BY <1>3, <1>4, <1>8, <1>14
  <2>2. ASSUME NEW a \in D
        PROVE  a \in 1 .. addresses'
    <3>1. CASE a \in DOMAIN nodes
      BY <1>2, <1>3, <2>1, <3>1
    <3>2. CASE moves /\ a \in R
      BY <1>4, <1>8, <1>10, <1>14, <3>2
    <3>3. QED
      BY <1>3, <1>4, <1>11, <1>12, <1>17, <2>1, <3>1, <3>2
  <2>3. QED
    BY <1>18, <2>1, <2>2
<1>30. Spares(nodes, nodes', ref_stack)
  <2>1. ASSUME NEW k \in DOMAIN ref_stack, Kept(ref_stack[k])
        PROVE  /\ ref_stack[k] \in D
               /\ nodes'[ref_stack[k]].kind = nodes[ref_stack[k]].kind
               /\ k < Len(ref_stack) =>
                    Children(nodes, ref_stack[k]) \subseteq Children(nodes', ref_stack[k])
    <3> DEFINE p == ref_stack[k]
    <3>1. p \in DOMAIN nodes /\ (k = Len(ref_stack) <=> p = top)
      BY <1>2, <1>3, <2>1 DEF Path, Encloses
    <3>2. p \notin C
      BY <1>2, <1>3, <1>5, <2>1, ChildrenOffPath DEF top
    <3> HIDE DEF p
    <3>3. p \in D /\ p # Fresh
      BY <1>4, <1>17, <3>1, <3>2
    <3>4. CASE p = top
      <4>1. nodes'[p].kind = "array"
        BY <1>15, <1>18, <1>20, <3>4
      <4>2. QED
        BY <1>5, <3>1, <3>3, <3>4, <4>1 DEF p
    <3>5. CASE p # top
      <4>1. ~ (p > Fresh)
        BY <1>2, <1>3, <1>4, <3>1
      <4>2. nodes'[p] = nodes[p]
        BY <1>16, <1>18, <3>3, <3>5, <4>1
      <4>3. Children(nodes', p) = Children(nodes, p)
        BY <4>2 DEF Children
      <4>4. QED
        BY <3>3, <4>2, <4>3 DEF p
    <3>6. QED
      BY <3>4, <3>5
  <2>2. QED
    BY <1>18, <2>1 DEF Spares
<1>31. QED
  BY <1>18, <1>20, <1>26, <1>28, <1>29, <1>30 DEF Grows, top

(***************************************************************************)
(* operator[]: the object has the member, or it is added.                  *)
(***************************************************************************)
Used(name) == IF MemberOf(name) = Fresh THEN Fresh ELSE addresses

LEMMA MemberInserted ==
  ASSUME Built(nodes, ref_stack, addresses), ref_stack # << >>, Kept(Top(ref_stack)),
         ~ InArray, NEW name
  PROVE  Grows(nodes, addresses, WithMember(name), Used(name), ref_stack,
               MemberOf(name), WithMember(name)[MemberOf(name)])
<1> DEFINE top == Top(ref_stack)
           members == nodes[top].members
<1>1. /\ ref_stack \in Seq(Nat) /\ Len(ref_stack) \in DOMAIN ref_stack
      /\ top = ref_stack[Len(ref_stack)]
      /\ top \in DOMAIN nodes /\ nodes[top].kind \in {"array", "object"}
      /\ \A a \in DOMAIN nodes : a \in Nat /\ 1 <= a /\ a <= addresses
  BY TopIsNode
<1>2. Tree(nodes) /\ addresses \in Nat /\ Path(nodes, ref_stack)
      /\ DOMAIN nodes \subseteq 1 .. addresses
  BY DEF Built
<1>3. Fresh = addresses + 1 /\ Fresh \in Nat /\ Fresh \notin DOMAIN nodes
  BY <1>1, <1>2 DEF Fresh
<1>4. nodes[top].kind = "object"
  BY <1>1 DEF InArray, Container
<1>5. NodeOver((DOMAIN nodes) \ {Root}, nodes[top])
  BY <1>1, <1>2 DEF Tree
<1>6. /\ nodes[top] = [kind |-> "object", members |-> members]
      /\ members \in [DOMAIN members -> (DOMAIN nodes) \ {Root}]
  BY <1>4, <1>5 DEF NodeOver
<1>7. CASE name \in DOMAIN members
  <2>1. MemberOf(name) = members[name] /\ WithMember(name) = nodes
    BY <1>7 DEF MemberOf, WithMember, Container
  <2>2. MemberOf(name) \in DOMAIN nodes /\ MemberOf(name) \in Children(nodes, top)
    BY <1>4, <1>6, <1>7, <2>1 DEF Children
  <2>3. Used(name) = addresses
    BY <1>3, <2>2 DEF Used
  <2>4. Spares(nodes, nodes, ref_stack)
    BY <1>2 DEF Spares, Path, Encloses
  <2>5. QED
    BY <1>2, <2>1, <2>2, <2>3, <2>4 DEF Grows
<1>8. CASE name \notin DOMAIN members
  <2> DEFINE grown == [a \in (DOMAIN members) \cup {name} |->
                         IF a = name THEN Fresh ELSE members[a]]
             D     == (DOMAIN nodes) \cup {Fresh}
             m     == [a \in D |->
                         CASE a = Fresh -> Null
                           [] a = top   -> [nodes[top] EXCEPT !.members = grown]
                           [] OTHER     -> nodes[a]]
  <2>1. MemberOf(name) = Fresh /\ WithMember(name) = m
    BY <1>8 DEF MemberOf, WithMember, Container
  <2>2. Used(name) = Fresh
    BY <2>1 DEF Used
  <2>3. [nodes[top] EXCEPT !.members = grown] = [kind |-> "object", members |-> grown]
    BY <1>6
  <2>4. grown \in [DOMAIN grown -> D \ {Root}]
    BY <1>1, <1>2, <1>3, <1>6 DEF Tree
  <2>5. top # Fresh /\ top \in D /\ Fresh \in D /\ DOMAIN m = D
    BY <1>1, <1>3
  <2>6. m[Fresh] = Null
    BY <2>5
  <2>7. m[top] = [kind |-> "object", members |-> grown]
    BY <2>3, <2>5
  <2>8. \A a \in D \ {Fresh, top} : m[a] = nodes[a]
    OBVIOUS
  <2>9. {grown[a] : a \in DOMAIN grown} = Children(nodes, top) \cup {Fresh}
    BY <1>4, <1>8 DEF Children
  <2>10. m = [a \in DOMAIN m |-> m[a]]
    OBVIOUS
  <2> HIDE DEF grown, m
  <2>11. Children(m, top) = Children(nodes, top) \cup {Fresh}
    BY <2>7, <2>9 DEF Children
  <2>12. NodeOver(D \ {Root}, m[top])
    BY <2>4, <2>7 DEF NodeOver
  <2>13. Childless(m[Fresh])
    BY <2>6, KindsOfValues
  <2>14. ASSUME NEW b \in (DOMAIN nodes) \ {top}, NEW c \in Children(m, top)
         PROVE  c \notin Children(nodes, b)
    <3>1. Children(nodes, b) \subseteq DOMAIN nodes
      BY <1>2, ChildrenAreNodes
    <3>2. QED
      BY <1>1, <1>2, <1>3, <2>11, <2>14, <3>1 DEF Tree
  <2>15. Tree(m)
    <3> DEFINE was == [a \in D |-> a]
    <3>1. \A a \in D : was[a] = a
      OBVIOUS
    <3> HIDE DEF was
    <3>2. \A a \in (DOMAIN m) \ {Fresh, top} :
            /\ was[a] \in (DOMAIN nodes) \ {top} /\ m[a] = nodes[was[a]]
            /\ Children(nodes, was[a]) \subseteq (DOMAIN m) \ {Root}
      BY <1>2, <2>5, <2>8, <3>1, ChildrenAreNodes
    <3>3. \A a, b \in (DOMAIN m) \ {Fresh, top} : was[a] = was[b] => a = b
      BY <2>5, <3>1
    <3>4. {Root, top, Fresh} \subseteq DOMAIN m
      BY <1>2, <2>5 DEF Tree
    <3>5. NodeOver((DOMAIN m) \ {Root}, m[top])
      BY <2>5, <2>12
    <3>6. QED
      BY <1>1, <1>2, <2>10, <2>13, <2>14, <3>2, <3>3, <3>4, <3>5, ChangedTree
  <2>16. \A a \in DOMAIN nodes : /\ a \in D /\ m[a].kind = nodes[a].kind
                                 /\ Children(nodes, a) \subseteq Children(m, a)
    <3>1. ASSUME NEW a \in DOMAIN nodes, a # top
          PROVE  m[a] = nodes[a] /\ Children(m, a) = Children(nodes, a)
      <4>1. m[a] = nodes[a]
        BY <1>3, <2>8, <3>1
      <4>2. QED
        BY <4>1 DEF Children
    <3>2. QED
      BY <1>4, <2>7, <2>11, <3>1
  <2>17. Spares(nodes, m, ref_stack)
    BY <1>2, <2>5, <2>16 DEF Spares, Path, Encloses
  <2>18. DOMAIN m \subseteq 1 .. Fresh /\ addresses <= Fresh
    BY <1>1, <1>2, <1>3, <2>5
  <2>19. QED
    BY <1>3, <2>1, <2>2, <2>5, <2>11, <2>15, <2>17, <2>18 DEF Grows
<1>9. QED
  BY <1>7, <1>8

-----------------------------------------------------------------------------
(***************************************************************************)
(* The events.                                                             *)
(***************************************************************************)
LEMMA BuiltStays ==
  ASSUME NEW memory, NEW used, NEW s, Built(memory, s, used),
         NEW later, NEW laterUsed \in Nat, used <= laterUsed,
         Tree(later), DOMAIN later \subseteq 1 .. laterUsed, Spares(memory, later, s)
  PROVE  Built(later, s, laterUsed) /\ SameKinds(memory, later, s)
<1>1. s \in Seq(0 .. used) /\ used \in Nat
  BY DEF Built
<1>2. s \in Seq(0 .. laterUsed) /\ s \in Seq(Nat)
  BY <1>1
<1>3. QED
  BY <1>2, PathStays DEF Built

LEMMA BuiltFreed ==
  ASSUME NEW memory, NEW used, NEW s, Built(memory, s, used)
  PROVE  Built(Freed(memory), s, used) /\ SameKinds(memory, Freed(memory), s)
<1>1. s \in Seq(Nat) /\ used \in Nat /\ DOMAIN memory \subseteq 1 .. used
  BY DEF Built
<1>2. Tree(Freed(memory)) /\ Spares(memory, Freed(memory), s)
  BY <1>1, FreedIsTree, FreedSpares DEF Built
<1>3. DOMAIN Freed(memory) \subseteq 1 .. used
  BY <1>1 DEF Freed, Owned
<1>4. QED
  BY <1>1, <1>2, <1>3, BuiltStays

\* A node that is not on the path is assigned to.
LEMMA BuiltAssigned ==
  ASSUME NEW memory, NEW used, NEW s, Built(memory, s, used), s # << >>, Kept(Top(s)),
         NEW a \in Children(memory, Top(s)), NEW v, Childless(v)
  PROVE  LET later == Freed([memory EXCEPT ![a] = v])
         IN  /\ Built(later, s, used) /\ SameKinds(memory, later, s)
             /\ a \in DOMAIN later /\ later[a] = v /\ a \in Children(later, Top(s))
             /\ \A k \in DOMAIN s : s[k] # a
<1> DEFINE m == [memory EXCEPT ![a] = v]
<1>1. /\ s \in Seq(Nat) /\ used \in Nat /\ DOMAIN memory \subseteq 1 .. used
      /\ Tree(memory) /\ Path(memory, s) /\ Len(s) \in DOMAIN s
  BY DEF Built
<1>2. Top(s) \in DOMAIN memory /\ Top(s) # a /\ Top(s) = s[Len(s)]
  BY TopIsNode
<1>3. a \in DOMAIN memory
  BY <1>1, <1>2, ChildrenAreNodes
<1>4. Kept(a)
  BY <1>1, <1>3 DEF Kept, NullPtr
<1>5. \A k \in DOMAIN s : s[k] # a
  BY <1>1, <1>4, ChildrenOffPath
<1>6. Tree(m) /\ Spares(memory, m, s)
  BY <1>1, <1>3, <1>5, AssignedTree, AssignedSpares
<1>7. DOMAIN m = DOMAIN memory /\ m[a] = v /\ m[Top(s)] = memory[Top(s)]
  BY <1>2, <1>3
<1> HIDE DEF m
<1>8. Built(m, s, used) /\ SameKinds(memory, m, s)
  <2>1. used <= used /\ DOMAIN m \subseteq 1 .. used
    BY <1>1, <1>7
  <2>2. QED
    BY <1>1, <1>6, <2>1, BuiltStays
<1>9. Built(Freed(m), s, used) /\ SameKinds(m, Freed(m), s)
  BY <1>8, BuiltFreed
<1>10. SameKinds(memory, Freed(m), s)
  BY <1>8, <1>9 DEF SameKinds
<1>11. Children(m, Top(s)) = Children(memory, Top(s))
  BY <1>7 DEF Children
<1>12. Top(s) \in Owned(m)
  BY <1>1, <1>2, <1>6, <1>8, PathIsOwned DEF Built
<1>13. a \in Owned(m)
  BY <1>6, <1>11, <1>12, OwnedIsWhole DEF Wholes
<1>14. a \in DOMAIN Freed(m) /\ Freed(m)[a] = v /\ a \in Children(Freed(m), Top(s))
  <2>1. DOMAIN Freed(m) = Owned(m) /\ Freed(m)[a] = m[a]
    BY <1>13 DEF Freed
  <2>2. QED
    BY <1>7, <1>11, <1>12, <1>13, <2>1, FreedChildren
<1>15. QED
  BY <1>5, <1>9, <1>10, <1>14 DEF m

LEMMA OnlyRootBuilt ==
  ASSUME NEW v, Childless(v), NEW used \in Nat, 1 <= used
  PROVE  Built(OnlyRoot(v), << >>, used)
<1> DEFINE m == OnlyRoot(v)
<1>1. DOMAIN m = {Root} /\ m[Root] = v /\ m = [a \in DOMAIN m |-> m[a]] /\ Root = 1
  BY DEF OnlyRoot, Root
<1>2. Children(m, Root) = {} /\ NodeOver((DOMAIN m) \ {Root}, m[Root])
  BY <1>1, ChildlessNode
<1> HIDE DEF m
<1>3. Tree(m)
  BY <1>1, <1>2 DEF Tree
<1>4. << >> \in Seq(0 .. used) /\ Path(m, << >>)
  BY DEF Path
<1>5. DOMAIN m \subseteq 1 .. used
  BY <1>1
<1>6. Built(m, << >>, used)
  BY <1>3, <1>4, <1>5 DEF Built
<1>7. QED
  BY <1>6 DEF m

LEMMA BuiltPushes ==
  ASSUME NEW memory, NEW s, NEW used, Built(memory, s, used), NEW c \in 0 .. used,
         Kept(c) => /\ c \in DOMAIN memory /\ memory[c].kind \in {"array", "object"}
                    /\ s = << >> => c = Root
                    /\ s # << >> => Kept(Top(s)) /\ c \in Children(memory, Top(s))
                    /\ \A k \in DOMAIN s : s[k] # c
  PROVE  Built(memory, Append(s, c), used)
<1>1. s \in Seq(0 .. used) /\ used \in Nat /\ s \in Seq(Nat) /\ c \in Nat
  BY DEF Built
<1>2. Append(s, c) \in Seq(0 .. used)
  BY <1>1
<1>3. Path(memory, Append(s, c))
  BY <1>1, PathPushes DEF Built
<1>4. QED
  BY <1>2, <1>3 DEF Built

LEMMA BuiltPops ==
  ASSUME NEW memory, NEW s, NEW used, Built(memory, s, used), s # << >>
  PROVE  Built(memory, Pop(s), used)
<1>1. s \in Seq(0 .. used) /\ used \in Nat /\ s \in Seq(Nat)
  BY DEF Built
<1>2. Pop(s) \in Seq(0 .. used)
  BY <1>1, PopDrops
<1>3. Path(memory, Pop(s))
  BY <1>1, PathPops DEF Built
<1>4. QED
  BY <1>2, <1>3 DEF Built

(***************************************************************************)
(* A value is stored, and its address is where it is.                      *)
(***************************************************************************)
StoredAt(v, a) ==
  /\ Built(nodes', ref_stack, addresses') /\ SameKinds(nodes, nodes', ref_stack)
  /\ addresses <= addresses'
  /\ v \in {EmptyArray, EmptyObject} =>
       Built(nodes', Append(ref_stack, a), addresses') /\ (Kept(a) => nodes'[a] = v)

LEMMA Stored ==
  ASSUME Built(nodes, ref_stack, addresses), NEW v, Childless(v),
         ref_stack # << >> => Kept(Top(ref_stack)),
         ref_stack # << >> /\ ~ InArray => object_element \in Children(nodes, Top(ref_stack)),
         Store(v)
  PROVE  StoredAt(v, Handled)
<1>1. /\ addresses \in Nat /\ Tree(nodes) /\ DOMAIN nodes \subseteq 1 .. addresses
      /\ ref_stack \in Seq(0 .. addresses) /\ ref_stack \in Seq(Nat) /\ Path(nodes, ref_stack)
  BY DEF Built
<1>2. v \in {EmptyArray, EmptyObject} => v.kind \in {"array", "object"}
  BY KindsOfValues
<1>3. CASE ref_stack = << >>
  <2>1. nodes' = OnlyRoot(v) /\ addresses' = addresses /\ Handled = Root
    BY <1>3 DEF Store, SetRoot, Handled
  <2>2. 1 <= addresses
    BY <1>1 DEF Tree, Root
  <2>3. Built(nodes', ref_stack, addresses')
    BY <1>1, <1>3, <2>1, <2>2, OnlyRootBuilt
  <2>4. SameKinds(nodes, nodes', ref_stack)
    BY <1>3 DEF SameKinds
  <2>5. Root \in DOMAIN nodes' /\ nodes'[Root] = v /\ Root \in 0 .. addresses'
    BY <1>1, <2>1, <2>2 DEF OnlyRoot, Root
  <2>6. \A k \in DOMAIN ref_stack : ref_stack[k] # Root
    BY <1>3
  <2>7. v \in {EmptyArray, EmptyObject} => Built(nodes', Append(ref_stack, Root), addresses')
    BY <1>2, <1>3, <2>3, <2>5, <2>6, BuiltPushes
  <2>8. addresses <= addresses'
    BY <1>1, <2>1
  <2>9. QED
    BY <2>1, <2>3, <2>4, <2>5, <2>7, <2>8 DEF StoredAt
<1>4. CASE ref_stack # << >> /\ InArray
  <2>1. EmplaceBack(v) /\ Handled = Fresh
    BY <1>4 DEF Store, Handled
  <2>2. Grows(nodes, addresses, nodes', addresses', ref_stack, Fresh, v)
    BY <1>4, <2>1, EmplacedBack
  <2>3. /\ addresses' \in Nat /\ addresses <= addresses' /\ DOMAIN nodes' \subseteq 1 .. addresses'
        /\ Tree(nodes') /\ Spares(nodes, nodes', ref_stack)
        /\ Fresh \in DOMAIN nodes' /\ nodes'[Fresh] = v /\ Fresh \in Children(nodes', Top(ref_stack))
    BY <2>2 DEF Grows
  <2>4. Built(nodes', ref_stack, addresses') /\ SameKinds(nodes, nodes', ref_stack)
    BY <2>3, BuiltStays
  <2>5. \A k \in DOMAIN ref_stack : ref_stack[k] # Fresh
    BY <1>1 DEF Fresh
  <2>6. Fresh \in 0 .. addresses'
    BY <2>3
  <2>7. v \in {EmptyArray, EmptyObject} => Built(nodes', Append(ref_stack, Fresh), addresses')
    BY <1>2, <1>4, <2>3, <2>4, <2>5, <2>6, BuiltPushes
  <2>8. QED
    BY <2>1, <2>3, <2>4, <2>7 DEF StoredAt
<1>5. CASE ref_stack # << >> /\ ~ InArray
  <2> DEFINE e == object_element
  <2>1. nodes' = Freed([nodes EXCEPT ![e] = v]) /\ addresses' = addresses /\ Handled = e
    BY <1>5 DEF Store, AssignElement, Handled
  <2>2. /\ Built(nodes', ref_stack, addresses) /\ SameKinds(nodes, nodes', ref_stack)
        /\ e \in DOMAIN nodes' /\ nodes'[e] = v /\ e \in Children(nodes', Top(ref_stack))
        /\ \A k \in DOMAIN ref_stack : ref_stack[k] # e
    BY <1>5, <2>1, BuiltAssigned
  <2>3. e \in 0 .. addresses
    BY <2>2 DEF Built
  <2>4. v \in {EmptyArray, EmptyObject} => Built(nodes', Append(ref_stack, e), addresses)
    BY <1>2, <1>5, <2>2, <2>3, BuiltPushes
  <2>5. addresses <= addresses'
    BY <1>1, <2>1
  <2>6. QED
    BY <2>1, <2>2, <2>4, <2>5 DEF StoredAt
<1>6. QED
  BY <1>3, <1>4, <1>5

(***************************************************************************)
(* The last container of the path loses one of its children.               *)
(***************************************************************************)
LEMMA BuiltNarrowed ==
  ASSUME NEW memory, NEW s, NEW used, Built(memory, s, used), s # << >>, Kept(Top(s)),
         NEW n, NEW later, later = [memory EXCEPT ![Top(s)] = n],
         n.kind = memory[Top(s)].kind, NodeOver((DOMAIN memory) \ {Root}, n),
         Children(later, Top(s)) \subseteq Children(memory, Top(s))
  PROVE  Built(later, s, used) /\ SameKinds(memory, later, s)
<1>1. /\ s \in Seq(Nat) /\ used \in Nat /\ DOMAIN memory \subseteq 1 .. used
      /\ Tree(memory) /\ Path(memory, s) /\ DOMAIN s = 1 .. Len(s)
  BY DEF Built
<1>2. Top(s) \in DOMAIN memory /\ Top(s) = s[Len(s)] /\ Len(s) \in DOMAIN s
  BY TopIsNode
<1>3. Tree(later)
  BY <1>1, <1>2, NarrowedTree
<1>4. /\ DOMAIN later = DOMAIN memory /\ later[Top(s)] = n
      /\ \A a \in DOMAIN memory : a # Top(s) => later[a] = memory[a]
  BY <1>2
<1>5. ASSUME NEW k \in DOMAIN s, Kept(s[k])
      PROVE  /\ s[k] \in DOMAIN later /\ later[s[k]].kind = memory[s[k]].kind
             /\ k < Len(s) => Children(memory, s[k]) \subseteq Children(later, s[k])
  <2>1. s[k] \in DOMAIN memory
    BY <1>1, <1>5 DEF Path, Encloses
  <2>2. CASE k = Len(s)
    BY <1>1, <1>2, <1>4, <2>1, <2>2
  <2>3. CASE k # Len(s)
    <3>1. s[k] # Top(s)
      BY <1>1, <1>2, <1>5, <2>3 DEF Path
    <3>2. later[s[k]] = memory[s[k]]
      BY <1>4, <2>1, <3>1
    <3>3. Children(later, s[k]) = Children(memory, s[k])
      BY <3>2 DEF Children
    <3>4. QED
      BY <1>4, <2>1, <3>2, <3>3
  <2>4. QED
    BY <2>2, <2>3
<1>6. Spares(memory, later, s)
  BY <1>5 DEF Spares
<1>7. used <= used /\ DOMAIN later \subseteq 1 .. used
  BY <1>1, <1>4
<1>8. QED
  BY <1>1, <1>3, <1>6, <1>7, BuiltStays

LEMMA PopNarrows ==
  ASSUME NEW A, NEW s \in Seq(A)
  PROVE  Pop(s) \in Seq(A) /\ DOMAIN Pop(s) \subseteq DOMAIN s
         /\ \A k \in DOMAIN Pop(s) : Pop(s)[k] = s[k]
<1>1. CASE s = << >>
  <2>1. Len(s) - 1 \in Int /\ Len(s) - 1 < 1
    BY <1>1
  <2>2. Pop(s) = << >>
    BY <2>1, SubSeqEmpty DEF Pop
  <2>3. QED
    BY <2>2
<1>2. CASE s # << >>
  <2> DEFINE t == Pop(s)
  <2>1. /\ t \in Seq(A) /\ Len(t) = Len(s) - 1
        /\ \A k \in 1 .. Len(s) - 1 : t[k] = s[k]
    BY <1>2, PopDrops
  <2> HIDE DEF t
  <2>2. Len(s) \in Nat /\ DOMAIN s = 1 .. Len(s) /\ DOMAIN t = 1 .. Len(s) - 1
    BY <2>1
  <2>3. t \in Seq(A) /\ DOMAIN t \subseteq DOMAIN s /\ \A k \in DOMAIN t : t[k] = s[k]
    BY <2>1, <2>2
  <2>4. QED
    BY <2>3 DEF t
<1>3. QED
  BY <1>1, <1>2

LEMMA ElementDropped ==
  ASSUME NEW memory, NEW s, NEW used, Built(memory, s, used), s # << >>, Kept(Top(s)),
         memory[Top(s)].kind = "array"
  PROVE  LET later == [memory EXCEPT ![Top(s)].elements = Pop(@)]
         IN  Built(later, s, used) /\ SameKinds(memory, later, s)
<1> DEFINE p == Top(s)
           old == memory[p].elements
           n == [kind |-> "array", elements |-> Pop(old)]
           later == [memory EXCEPT ![p] = n]
<1>1. p \in DOMAIN memory /\ Tree(memory)
  BY TopIsNode DEF Built
<1>2. NodeOver((DOMAIN memory) \ {Root}, memory[p])
  BY <1>1 DEF Tree
<1>3. /\ memory[p] = [kind |-> "array", elements |-> old]
      /\ old \in Seq((DOMAIN memory) \ {Root})
      /\ \A i, j \in DOMAIN old : old[i] = old[j] => i = j
  BY <1>2 DEF NodeOver
<1>4. [memory EXCEPT ![p].elements = Pop(@)] = later
  <2>1. [memory[p] EXCEPT !.elements = Pop(old)] = n
    BY <1>3
  <2>2. QED
    BY <2>1, Zenon
<1>5. /\ Pop(old) \in Seq((DOMAIN memory) \ {Root}) /\ DOMAIN Pop(old) \subseteq DOMAIN old
      /\ \A k \in DOMAIN Pop(old) : Pop(old)[k] = old[k]
  BY <1>3, PopNarrows
<1>6. n.kind = "array" /\ n.elements = Pop(old) /\ n = [kind |-> "array", elements |-> n.elements]
  OBVIOUS
<1>7. later[p] = n
  BY <1>1
<1> HIDE DEF n, later
<1>8. NodeOver((DOMAIN memory) \ {Root}, n)
  BY <1>3, <1>5, <1>6 DEF NodeOver
<1>9. Children(later, p) \subseteq Children(memory, p)
  BY <1>5, <1>6, <1>7 DEF Children
<1>10. Built(later, s, used) /\ SameKinds(memory, later, s)
  BY <1>6, <1>8, <1>9, BuiltNarrowed DEF later
<1>11. QED
  BY <1>4, <1>10

LEMMA MemberDropped ==
  ASSUME NEW memory, NEW s, NEW used, Built(memory, s, used), s # << >>, Kept(Top(s)),
         memory[Top(s)].kind = "object"
  PROVE  LET later == [memory EXCEPT ![Top(s)].members = WithoutDiscarded(memory, @)]
         IN  Built(later, s, used) /\ SameKinds(memory, later, s)
<1> DEFINE p == Top(s)
           old == memory[p].members
           now == WithoutDiscarded(memory, old)
           n == [kind |-> "object", members |-> now]
           later == [memory EXCEPT ![p] = n]
<1>1. p \in DOMAIN memory /\ Tree(memory)
  BY TopIsNode DEF Built
<1>2. NodeOver((DOMAIN memory) \ {Root}, memory[p])
  BY <1>1 DEF Tree
<1>3. /\ memory[p] = [kind |-> "object", members |-> old]
      /\ old \in [DOMAIN old -> (DOMAIN memory) \ {Root}]
  BY <1>2 DEF NodeOver
<1>4. [memory EXCEPT ![p].members = WithoutDiscarded(memory, @)] = later
  <2>1. [memory[p] EXCEPT !.members = now] = n
    BY <1>3
  <2>2. QED
    BY <2>1, Zenon
<1>5. /\ DOMAIN now \subseteq DOMAIN old /\ now = [name \in DOMAIN now |-> now[name]]
      /\ \A name \in DOMAIN now : now[name] = old[name]
  BY DEF WithoutDiscarded
<1> HIDE DEF now
<1>6. n.kind = "object" /\ n.members = now /\ n = [kind |-> "object", members |-> n.members]
  OBVIOUS
<1>7. later[p] = n
  BY <1>1
<1> HIDE DEF n, later
<1>8. NodeOver((DOMAIN memory) \ {Root}, n)
  BY <1>3, <1>5, <1>6 DEF NodeOver
<1>9. Children(later, p) \subseteq Children(memory, p)
  BY <1>5, <1>6, <1>7 DEF Children
<1>10. Built(later, s, used) /\ SameKinds(memory, later, s)
  BY <1>6, <1>8, <1>9, BuiltNarrowed DEF later
<1>11. QED
  BY <1>4, <1>10 DEF now

(***************************************************************************)
(* A container ends that the callback may reject.                          *)
(***************************************************************************)
LEMMA ContainerClosed ==
  ASSUME Built(nodes, ref_stack, addresses), ref_stack # << >>, NEW keep \in BOOLEAN,
         Kept(Top(ref_stack)) \/ keep
  PROVE  /\ Built(Closed(keep), Pop(ref_stack), addresses)
         /\ SameKinds(nodes, Closed(keep), Pop(ref_stack))
<1> DEFINE s == Pop(ref_stack)
<1>1. /\ ref_stack \in Seq(Nat) /\ addresses \in Nat /\ DOMAIN nodes \subseteq 1 .. addresses
      /\ Tree(nodes) /\ Path(nodes, ref_stack)
  BY DEF Built
<1>2. Built(nodes, s, addresses)
  BY BuiltPops
<1>3. CASE keep
  <2>1. Closed(keep) = nodes
    BY <1>3 DEF Closed
  <2>2. QED
    BY <1>2, <2>1 DEF SameKinds
<1>4. CASE ~ keep
  <2> DEFINE m == [nodes EXCEPT ![Top(ref_stack)] = Discarded]
  <2>1. Closed(keep) = m
    BY <1>4 DEF Closed
  <2>2. Top(ref_stack) \in DOMAIN nodes /\ Top(ref_stack) = ref_stack[Len(ref_stack)]
        /\ Len(ref_stack) \in DOMAIN ref_stack /\ DOMAIN ref_stack = 1 .. Len(ref_stack)
    BY <1>1, <1>4, TopIsNode
  <2>3. /\ s \in Seq(Nat) /\ Len(s) = Len(ref_stack) - 1
        /\ \A k \in 1 .. Len(ref_stack) - 1 : s[k] = ref_stack[k]
    BY <1>1, PopDrops
  <2> HIDE DEF s
  <2>4. ASSUME NEW k \in DOMAIN s, Kept(s[k])
        PROVE  s[k] # Top(ref_stack)
    <3>1. k \in 1 .. Len(ref_stack) - 1
      BY <2>3, <2>4
    <3>2. k \in DOMAIN ref_stack /\ k # Len(ref_stack) /\ s[k] = ref_stack[k]
      BY <1>1, <2>2, <2>3, <3>1
    <3>3. QED
      BY <1>1, <2>2, <2>4, <3>2 DEF Path
  <2>5. Tree(m)
    BY <1>1, <2>2, AssignedTree, KindsOfValues
  <2>6. Spares(nodes, m, s)
    BY <1>2, <2>3, <2>4, AssignedSpares DEF Built
  <2>7. addresses <= addresses /\ DOMAIN m \subseteq 1 .. addresses
    BY <1>1
  <2>8. Built(m, s, addresses) /\ SameKinds(nodes, m, s)
    BY <1>1, <1>2, <2>5, <2>6, <2>7, BuiltStays
  <2>9. QED
    BY <2>1, <2>8 DEF s
<1>5. QED
  BY <1>3, <1>4

EndsWell ==
  /\ ref_stack' = Pop(ref_stack) /\ keep_stack' = Pop(keep_stack)
  /\ UNCHANGED <<object_element, addresses, key_keep_stack>>
  /\ rejected' \subseteq rejected \cup {Len(read)}
  /\ Built(nodes', ref_stack', addresses') /\ SameKinds(nodes, nodes', ref_stack')

LEMMA CallbackEnds ==
  ASSUME Built(nodes, ref_stack, addresses), ref_stack # << >>,
         CallbackEndObject \/ CallbackEndArray
  PROVE  EndsWell
<1> DEFINE s == Pop(ref_stack)
           WithoutMember(m)  == [m EXCEPT ![Parent].members = WithoutDiscarded(m, @)]
           WithoutElement(m) == [m EXCEPT ![Parent].elements = Pop(@)]
<1>1. PICK keep \in BOOLEAN :
        /\ Closing(keep)
        /\ \/ In("object") /\ nodes' = Freed(WithoutMember(Closed(keep)))
           \/ In("array") /\ nodes' = Freed(WithoutElement(Closed(keep)))
           \/ nodes' = Freed(Closed(keep))
  <2>1. CASE CallbackEndObject
    BY <2>1 DEF CallbackEndObject
  <2>2. CASE CallbackEndArray
    BY <2>2 DEF CallbackEndArray
  <2>3. QED
    BY <2>1, <2>2
<1>2. /\ ref_stack' = Pop(ref_stack) /\ keep_stack' = Pop(keep_stack)
      /\ UNCHANGED <<object_element, addresses, key_keep_stack>>
      /\ rejected' \subseteq rejected \cup {Len(read)}
      /\ Kept(Top(ref_stack)) \/ keep
  BY <1>1 DEF Closing, Answer
<1> DEFINE m == Closed(keep)
<1>3. Built(m, s, addresses) /\ SameKinds(nodes, m, s)
  BY <1>2, ContainerClosed
<1>4. ASSUME NEW kind, In(kind)
      PROVE  s # << >> /\ Kept(Top(s)) /\ Parent = Top(s) /\ m[Top(s)].kind = kind
  <2>1. Kept(Parent) /\ nodes[Parent].kind = kind
    BY <1>4 DEF In
  <2>2. Len(ref_stack) > 1 /\ Parent = Top(s)
    BY <2>1 DEF Parent, Kept
  <2>3. /\ s \in Seq(Nat) /\ Len(s) = Len(ref_stack) - 1 /\ ref_stack \in Seq(Nat)
    BY PopDrops DEF Built
  <2> HIDE DEF s, m
  <2>4. Len(s) \in DOMAIN s /\ s # << >>
    BY <2>2, <2>3
  <2>5. Kept(s[Len(s)])
    BY <2>1, <2>2 DEF Top
  <2>6. m[Top(s)].kind = nodes[Top(s)].kind
    BY <1>3, <2>4, <2>5 DEF SameKinds, Top
  <2>7. QED
    BY <2>1, <2>2, <2>4, <2>6
<1> HIDE DEF s, m
<1>5. SUFFICES Built(nodes', s, addresses) /\ SameKinds(nodes, nodes', s)
  BY <1>2 DEF EndsWell, s
<1>6. ASSUME NEW later, Built(later, s, addresses), SameKinds(m, later, s),
             nodes' = Freed(later)
      PROVE  Built(nodes', s, addresses) /\ SameKinds(nodes, nodes', s)
  <2>1. Built(nodes', s, addresses) /\ SameKinds(later, nodes', s)
    BY <1>6, BuiltFreed
  <2>2. QED
    BY <1>3, <1>6, <2>1 DEF SameKinds
<1>7. CASE In("object") /\ nodes' = Freed(WithoutMember(m))
  <2>1. s # << >> /\ Kept(Top(s)) /\ Parent = Top(s) /\ m[Top(s)].kind = "object"
    BY <1>4, <1>7
  <2>2. WithoutMember(m) = [m EXCEPT ![Top(s)].members = WithoutDiscarded(m, @)]
    BY <2>1
  <2>3. Built(WithoutMember(m), s, addresses) /\ SameKinds(m, WithoutMember(m), s)
    BY <1>3, <2>1, <2>2, MemberDropped
  <2>4. QED
    BY <1>6, <1>7, <2>3
<1>8. CASE In("array") /\ nodes' = Freed(WithoutElement(m))
  <2>1. s # << >> /\ Kept(Top(s)) /\ Parent = Top(s) /\ m[Top(s)].kind = "array"
    BY <1>4, <1>8
  <2>2. WithoutElement(m) = [m EXCEPT ![Top(s)].elements = Pop(@)]
    BY <2>1
  <2>3. Built(WithoutElement(m), s, addresses) /\ SameKinds(m, WithoutElement(m), s)
    BY <1>3, <2>1, <2>2, ElementDropped
  <2>4. QED
    BY <1>6, <1>8, <2>3
<1>9. CASE nodes' = Freed(m)
  <2>1. SameKinds(m, m, s)
    BY DEF SameKinds
  <2>2. QED
    BY <1>3, <1>6, <1>9, <2>1
<1>10. QED
  BY <1>1, <1>7, <1>8, <1>9 DEF m

(***************************************************************************)
(* A key is read: its member is there for the value, unless it or its      *)
(* object is not kept.                                                     *)
(***************************************************************************)
KeyedWell ==
  /\ UNCHANGED <<ref_stack, keep_stack>>
  /\ rejected' \subseteq rejected \cup {Len(read)}
  /\ Built(nodes', ref_stack, addresses') /\ SameKinds(nodes, nodes', ref_stack)
  /\ addresses <= addresses'
  /\ object_element' \in 0 .. addresses'

LEMMA InsertedFacts ==
  ASSUME Built(nodes, ref_stack, addresses), ref_stack # << >>, Kept(Top(ref_stack)),
         ~ InArray, NEW name
  PROVE  /\ Built(WithMember(name), ref_stack, Used(name))
         /\ SameKinds(nodes, WithMember(name), ref_stack)
         /\ MemberOf(name) \in Children(WithMember(name), Top(ref_stack))
         /\ addresses <= Used(name) /\ MemberOf(name) \in 0 .. Used(name)
<1>1. Grows(nodes, addresses, WithMember(name), Used(name), ref_stack,
            MemberOf(name), WithMember(name)[MemberOf(name)])
  BY MemberInserted
<1>2. /\ Tree(WithMember(name)) /\ Used(name) \in Nat /\ addresses <= Used(name)
      /\ DOMAIN WithMember(name) \subseteq 1 .. Used(name)
      /\ Spares(nodes, WithMember(name), ref_stack)
      /\ MemberOf(name) \in DOMAIN WithMember(name)
      /\ MemberOf(name) \in Children(WithMember(name), Top(ref_stack))
  BY <1>1 DEF Grows
<1>3. MemberOf(name) \in 0 .. Used(name)
  BY <1>2
<1>4. QED
  BY <1>2, <1>3, BuiltStays

LEMMA DomKeyed ==
  ASSUME Built(nodes, ref_stack, addresses), ref_stack # << >>, Kept(Top(ref_stack)),
         ~ InArray, NEW name, DomKey(name), UNCHANGED callbackVars
  PROVE  KeyedWell /\ object_element' \in Children(nodes', Top(ref_stack))
<1>1. /\ nodes' = WithMember(name) /\ object_element' = MemberOf(name)
      /\ addresses' = Used(name) /\ ref_stack' = ref_stack
  BY DEF DomKey, Inserted, Used
<1>2. keep_stack' = keep_stack /\ rejected' = rejected
  BY DEF callbackVars
<1>3. QED
  BY <1>1, <1>2, InsertedFacts DEF KeyedWell

LEMMA CallbackKeyed ==
  ASSUME Built(nodes, ref_stack, addresses), object_element \in 0 .. addresses,
         ref_stack # << >>, Kept(Top(ref_stack)) => ~ InArray, NEW name, CallbackKey(name)
  PROVE  /\ KeyedWell
         /\ \E keep \in BOOLEAN :
              /\ key_keep_stack' = Append(key_keep_stack, keep)
              /\ keep /\ Kept(Top(ref_stack)) =>
                   object_element' \in Children(nodes', Top(ref_stack))
<1>1. PICK keep \in BOOLEAN :
        /\ Answer(keep)
        /\ key_keep_stack' = Append(key_keep_stack, keep)
        /\ IF keep /\ Kept(Top(ref_stack))
           THEN /\ Inserted(name)
                /\ nodes' = Freed([WithMember(name) EXCEPT ![MemberOf(name)] = Discarded])
           ELSE UNCHANGED <<nodes, object_element, addresses>>
        /\ UNCHANGED <<ref_stack, keep_stack>>
  BY DEF CallbackKey
<1>2. rejected' \subseteq rejected \cup {Len(read)}
  BY <1>1 DEF Answer
<1>3. addresses \in Nat
  BY DEF Built
<1>4. CASE keep /\ Kept(Top(ref_stack))
  <2> DEFINE m == WithMember(name)
             e == MemberOf(name)
             u == Used(name)
  <2>1. object_element' = e /\ addresses' = u /\ nodes' = Freed([m EXCEPT ![e] = Discarded])
    BY <1>1, <1>4 DEF Inserted, Used
  <2>2. /\ Built(m, ref_stack, u) /\ SameKinds(nodes, m, ref_stack)
        /\ e \in Children(m, Top(ref_stack)) /\ addresses <= u /\ e \in 0 .. u
    BY <1>4, InsertedFacts
  <2> HIDE DEF m, e, u
  <2>3. /\ Built(nodes', ref_stack, u) /\ SameKinds(m, nodes', ref_stack)
        /\ e \in Children(nodes', Top(ref_stack))
    BY <1>4, <2>1, <2>2, BuiltAssigned, KindsOfValues
  <2>4. SameKinds(nodes, nodes', ref_stack)
    BY <2>2, <2>3 DEF SameKinds
  <2>5. KeyedWell
    BY <1>1, <1>2, <2>1, <2>2, <2>3, <2>4 DEF KeyedWell
  <2>6. QED
    BY <1>1, <2>1, <2>3, <2>5
<1>5. CASE ~ (keep /\ Kept(Top(ref_stack)))
  <2>1. nodes' = nodes /\ object_element' = object_element /\ addresses' = addresses
    BY <1>1, <1>5
  <2>2. SameKinds(nodes, nodes', ref_stack)
    BY <2>1 DEF SameKinds
  <2>3. KeyedWell
    BY <1>1, <1>2, <1>3, <2>1, <2>2 DEF KeyedWell
  <2>4. QED
    BY <1>1, <1>5, <2>3
<1>6. QED
  BY <1>4, <1>5

(***************************************************************************)
(* handle_value of the parser with a callback.                             *)
(***************************************************************************)
LEMMA CallbackHandles ==
  ASSUME Built(nodes, ref_stack, addresses), key_keep_stack \in Seq(BOOLEAN),
         InMember /\ Top(key_keep_stack) => object_element \in Children(nodes, Top(ref_stack)),
         NEW v, Childless(v), NEW keep \in BOOLEAN, handle_value(v, keep)
  PROVE  /\ StoredAt(v, IF Stores(keep) THEN Handled ELSE NullPtr)
         /\ key_keep_stack' \in Seq(BOOLEAN)
<1>1. key_keep_stack' \in Seq(BOOLEAN)
  BY PopNarrows DEF handle_value
<1>2. CASE Stores(keep)
  <2>1. Store(v) /\ InKept /\ (InMember => Top(key_keep_stack))
    BY <1>2 DEF handle_value, Stores
  <2>2. ref_stack # << >> => Kept(Top(ref_stack))
    BY <2>1 DEF InKept
  <2>3. ref_stack # << >> /\ ~ InArray => object_element \in Children(nodes, Top(ref_stack))
    BY <2>1, <2>2 DEF InMember
  <2>4. StoredAt(v, Handled)
    BY <2>1, <2>2, <2>3, Stored
  <2>5. QED
    BY <1>1, <1>2, <2>4
<1>3. CASE ~ Stores(keep)
  <2>1. nodes' = nodes /\ addresses' = addresses
    BY <1>3 DEF handle_value
  <2>2. addresses \in Nat
    BY DEF Built
  <2>3. Built(nodes, Append(ref_stack, NullPtr), addresses)
    BY <2>2, BuiltPushes DEF NullPtr, Kept
  <2>4. SameKinds(nodes, nodes', ref_stack) /\ addresses <= addresses'
    BY <2>1, <2>2 DEF SameKinds
  <2>5. StoredAt(v, NullPtr)
    BY <2>1, <2>3, <2>4 DEF StoredAt, Kept
  <2>6. QED
    BY <1>1, <1>3, <2>5
<1>4. QED
  BY <1>2, <1>3

(***************************************************************************)
(* What an event leaves, whoever the consumer is.                          *)
(***************************************************************************)
Leaves(stack) ==
  /\ sax' = sax /\ ref_stack' = stack
  /\ Built(nodes', stack, addresses')
  /\ object_element' \in 0 .. addresses'
  /\ keep_stack' \in Seq(BOOLEAN) /\ key_keep_stack' \in Seq(BOOLEAN)
  /\ sax = "dom_parser" => key_keep_stack' = << >>
  /\ rejected' \subseteq rejected \cup {Len(read)}

\* The container a value is stored in is ready for it.
ValueReady ==
  InMember => /\ sax = "dom_callback_parser" => key_keep_stack # << >>
              /\ (key_keep_stack # << >> => Top(key_keep_stack)) =>
                   object_element \in Children(nodes, Top(ref_stack))

LEMMA AcceptorLeaves ==
  ASSUME Typed, Accepts
  PROVE  /\ Leaves(ref_stack) /\ SameKinds(nodes, nodes', ref_stack)
         /\ sax = "acceptor" /\ UNCHANGED saxVars
<1>1. UNCHANGED <<sax, nodes, ref_stack, object_element, addresses, keep_stack,
                  key_keep_stack, rejected>>
  BY DEF Accepts, saxVars, domVars, callbackVars
<1>2. QED
  BY <1>1 DEF Typed, Leaves, SameKinds, Accepts

LEMMA ElementTyped ==
  ASSUME Typed, addresses <= addresses', addresses' \in Nat, object_element' = object_element
  PROVE  object_element' \in 0 .. addresses'
<1>1. addresses \in Nat /\ object_element \in 0 .. addresses
  BY DEF Typed, Built
<1>2. QED
  BY <1>1

LEMMA DomReady ==
  ASSUME Typed, ValueReady, sax = "dom_parser"
  PROVE  /\ ref_stack # << >> => Kept(Top(ref_stack))
         /\ ref_stack # << >> /\ ~ InArray => object_element \in Children(nodes, Top(ref_stack))
<1>1. key_keep_stack = << >> /\ \A k \in DOMAIN ref_stack : Kept(ref_stack[k])
  BY DEF Typed
<1>2. ref_stack # << >> => Kept(Top(ref_stack))
  <2>1. ref_stack # << >> => Len(ref_stack) \in DOMAIN ref_stack
    BY DEF Typed, Built
  <2>2. QED
    BY <1>1, <2>1 DEF Top
<1>3. QED
  BY <1>1, <1>2 DEF ValueReady, InMember

LEMMA ValueLeaves ==
  ASSUME Typed, ValueReady, NEW v, Childless(v), value(v)
  PROVE  /\ Leaves(ref_stack) /\ SameKinds(nodes, nodes', ref_stack)
         /\ keep_stack' = keep_stack
<1>1. CASE Builds /\ DomValue(v)
  <2>1. /\ sax = "dom_parser" /\ sax' = sax /\ UNCHANGED <<keep_stack, key_keep_stack, rejected>>
        /\ Store(v) /\ ref_stack' = ref_stack /\ object_element' = object_element
    BY <1>1 DEF Builds, DomValue, callbackVars
  <2>2. StoredAt(v, Handled)
    BY <2>1, DomReady, Stored DEF Typed
  <2>3. addresses <= addresses' /\ addresses' \in Nat
    BY <2>2 DEF StoredAt, Built
  <2>4. object_element' \in 0 .. addresses'
    BY <2>1, <2>3, ElementTyped
  <2>5. QED
    BY <2>1, <2>2, <2>4 DEF Typed, Leaves, StoredAt
<1>2. CASE Asks /\ CallbackValue(v)
  <2>1. /\ sax = "dom_callback_parser" /\ sax' = sax
        /\ UNCHANGED <<ref_stack, object_element, keep_stack>>
    BY <1>2 DEF Asks, CallbackValue
  <2>2. /\ Built(nodes', ref_stack, addresses') /\ SameKinds(nodes, nodes', ref_stack)
        /\ addresses <= addresses' /\ key_keep_stack' \in Seq(BOOLEAN)
        /\ rejected' \subseteq rejected \cup {Len(read)}
    <3>1. CASE \E keep \in BOOLEAN : Answer(keep) /\ handle_value(v, keep)
      <4>1. PICK keep \in BOOLEAN : Answer(keep) /\ handle_value(v, keep)
        BY <3>1
      <4>2. InMember /\ Top(key_keep_stack) => object_element \in Children(nodes, Top(ref_stack))
        BY DEF ValueReady
      <4>3. StoredAt(v, IF Stores(keep) THEN Handled ELSE NullPtr) /\ key_keep_stack' \in Seq(BOOLEAN)
        BY <4>1, <4>2, CallbackHandles DEF Typed
      <4>4. QED
        BY <4>1, <4>3 DEF StoredAt, Answer
    <3>2. CASE UNCHANGED <<rejected, nodes, addresses, key_keep_stack>>
      <4>1. addresses \in Nat /\ SameKinds(nodes, nodes', ref_stack)
        BY <3>2 DEF Typed, Built, SameKinds
      <4>2. QED
        BY <3>2, <4>1 DEF Typed
    <3>3. QED
      BY <1>2, <3>1, <3>2 DEF CallbackValue
  <2>3. object_element' \in 0 .. addresses'
    BY <2>1, <2>2, ElementTyped DEF Built
  <2>4. QED
    BY <2>1, <2>2, <2>3 DEF Typed, Leaves
<1>3. CASE Accepts
  BY <1>3, AcceptorLeaves DEF saxVars, callbackVars
<1>4. QED
  BY <1>1, <1>2, <1>3 DEF value

LEMMA HandledKept ==
  ASSUME Built(nodes, ref_stack, addresses),
         ref_stack # << >> => Kept(Top(ref_stack)),
         ref_stack # << >> /\ ~ InArray => object_element \in Children(nodes, Top(ref_stack))
  PROVE  Kept(Handled)
<1>1. addresses \in Nat /\ Tree(nodes) /\ DOMAIN nodes \subseteq 1 .. addresses
  BY DEF Built
<1>2. CASE ref_stack = << >>
  BY <1>2 DEF Handled, Kept, Root, NullPtr
<1>3. CASE ref_stack # << >> /\ InArray
  BY <1>1, <1>3 DEF Handled, Kept, Fresh, NullPtr
<1>4. CASE ref_stack # << >> /\ ~ InArray
  <2>1. Top(ref_stack) \in DOMAIN nodes
    BY <1>4, TopIsNode
  <2>2. object_element \in DOMAIN nodes
    BY <1>1, <1>4, <2>1, ChildrenAreNodes
  <2>3. Handled = object_element
    BY <1>4 DEF Handled
  <2>4. QED
    BY <1>1, <2>2, <2>3 DEF Kept, NullPtr
<1>5. QED
  BY <1>2, <1>3, <1>4

LEMMA StartLeaves ==
  ASSUME Typed, ValueReady, NEW v \in {EmptyArray, EmptyObject}, start(v)
  PROVE  \/ sax = "acceptor" /\ Leaves(ref_stack)
         \/ /\ sax # "acceptor"
            /\ \E c \in Nat : /\ Leaves(Append(ref_stack, c))
                              /\ Kept(c) => nodes'[c] = v
                              /\ sax = "dom_parser" => Kept(c)
            /\ SameKinds(nodes, nodes', ref_stack)
            /\ sax = "dom_callback_parser" => Len(keep_stack') = Len(keep_stack) + 1
<1>1. Childless(v)
  BY KindsOfValues
<1>2. CASE Builds /\ DomStart(v)
  <2>1. /\ sax = "dom_parser" /\ sax' = sax /\ UNCHANGED <<keep_stack, key_keep_stack, rejected>>
        /\ Store(v) /\ ref_stack' = Append(ref_stack, Handled) /\ object_element' = object_element
    BY <1>2 DEF Builds, DomStart, callbackVars
  <2>2. StoredAt(v, Handled) /\ Kept(Handled)
    BY <1>1, <2>1, DomReady, Stored, HandledKept DEF Typed
  <2>3. /\ addresses <= addresses' /\ addresses' \in Nat /\ SameKinds(nodes, nodes', ref_stack)
        /\ Built(nodes', Append(ref_stack, Handled), addresses') /\ nodes'[Handled] = v
    BY <2>2 DEF StoredAt, Built
  <2>4. object_element' \in 0 .. addresses'
    BY <2>1, <2>3, ElementTyped
  <2>5. Leaves(Append(ref_stack, Handled))
    BY <2>1, <2>3, <2>4 DEF Typed, Leaves
  <2>6. Handled \in Nat
    <3>1. addresses \in Nat /\ object_element \in 0 .. addresses
      BY DEF Typed, Built
    <3>2. QED
      BY <3>1 DEF Handled, Root, Fresh
  <2>7. QED
    BY <2>1, <2>2, <2>3, <2>5, <2>6
<1>3. CASE Asks /\ CallbackStart(v)
  <2>1. sax = "dom_callback_parser" /\ sax' = sax
    BY <1>3 DEF Asks
  <2>2. PICK keep \in BOOLEAN :
          /\ Answer(keep)
          /\ handle_value(v, keep)
          /\ keep_stack' = Append(keep_stack, keep)
          /\ ref_stack' = Append(ref_stack, IF Stores(keep) THEN Handled ELSE NullPtr)
          /\ UNCHANGED object_element
    BY <1>3 DEF CallbackStart
  <2> DEFINE c == IF Stores(keep) THEN Handled ELSE NullPtr
  <2>3. InMember /\ Top(key_keep_stack) => object_element \in Children(nodes, Top(ref_stack))
    BY DEF ValueReady
  <2>4. StoredAt(v, c) /\ key_keep_stack' \in Seq(BOOLEAN)
    BY <1>1, <2>2, <2>3, CallbackHandles DEF Typed
  <2>5. /\ addresses <= addresses' /\ addresses' \in Nat /\ SameKinds(nodes, nodes', ref_stack)
        /\ Built(nodes', Append(ref_stack, c), addresses') /\ (Kept(c) => nodes'[c] = v)
    BY <2>4 DEF StoredAt, Built
  <2>6. object_element' \in 0 .. addresses'
    BY <2>2, <2>5, ElementTyped
  <2>7. /\ keep_stack' \in Seq(BOOLEAN) /\ Len(keep_stack') = Len(keep_stack) + 1
        /\ rejected' \subseteq rejected \cup {Len(read)}
    BY <2>2 DEF Typed, Answer
  <2>8. c \in Nat
    <3>1. addresses \in Nat /\ object_element \in 0 .. addresses
      BY DEF Typed, Built
    <3>2. QED
      BY <3>1 DEF Handled, Root, Fresh, NullPtr
  <2>9. ref_stack' = Append(ref_stack, c)
    BY <2>2
  <2> HIDE DEF c
  <2>10. Leaves(Append(ref_stack, c))
    BY <2>1, <2>4, <2>5, <2>6, <2>7, <2>9 DEF Leaves
  <2>11. QED
    BY <2>1, <2>5, <2>7, <2>8, <2>10
<1>4. CASE Accepts
  BY <1>4, AcceptorLeaves
<1>5. QED
  BY <1>2, <1>3, <1>4 DEF start

LEMMA KeyLeaves ==
  ASSUME Typed, sax # "acceptor" => ref_stack # << >> /\ (Kept(Top(ref_stack)) => ~ InArray),
         NEW name, key(name)
  PROVE  /\ Leaves(ref_stack) /\ SameKinds(nodes, nodes', ref_stack)
         /\ keep_stack' = keep_stack
         /\ sax # "acceptor" => MemberReady'
<1>1. CASE Builds /\ DomKey(name)
  <2>1. /\ sax = "dom_parser" /\ sax' = sax /\ UNCHANGED callbackVars
        /\ UNCHANGED <<keep_stack, key_keep_stack, rejected>>
    BY <1>1 DEF Builds, callbackVars
  <2>2. Len(ref_stack) \in DOMAIN ref_stack
    BY <2>1 DEF Typed, Built
  <2>3. Kept(Top(ref_stack))
    BY <2>1, <2>2 DEF Typed, Top
  <2>4. KeyedWell /\ object_element' \in Children(nodes', Top(ref_stack))
    BY <1>1, <2>1, <2>3, DomKeyed DEF Typed
  <2>5. QED
    BY <2>1, <2>4 DEF KeyedWell, Typed, Leaves, MemberReady
<1>2. CASE Asks /\ CallbackKey(name)
  <2>1. sax = "dom_callback_parser" /\ sax' = sax
    BY <1>2 DEF Asks
  <2>2. /\ KeyedWell
        /\ \E keep \in BOOLEAN :
             /\ key_keep_stack' = Append(key_keep_stack, keep)
             /\ keep /\ Kept(Top(ref_stack)) =>
                  object_element' \in Children(nodes', Top(ref_stack))
    BY <1>2, <2>1, CallbackKeyed DEF Typed
  <2>3. PICK keep \in BOOLEAN :
          /\ key_keep_stack' = Append(key_keep_stack, keep)
          /\ keep /\ Kept(Top(ref_stack)) =>
               object_element' \in Children(nodes', Top(ref_stack))
    BY <2>2
  <2>4. key_keep_stack' \in Seq(BOOLEAN) /\ key_keep_stack' # << >> /\ Top(key_keep_stack') = keep
    BY <2>3 DEF Typed, Top
  <2>5. ref_stack' = ref_stack /\ keep_stack' = keep_stack
    BY <2>2 DEF KeyedWell
  <2>6. MemberReady'
    BY <2>3, <2>4, <2>5 DEF MemberReady
  <2>7. QED
    BY <2>1, <2>2, <2>4, <2>5, <2>6 DEF KeyedWell, Typed, Leaves
<1>3. CASE Accepts
  BY <1>3, AcceptorLeaves DEF saxVars, callbackVars
<1>4. QED
  BY <1>1, <1>2, <1>3 DEF key

LEMMA EndLeaves ==
  ASSUME Typed, sax # "acceptor" => ref_stack # << >>, end_object \/ end_array
  PROVE  \/ sax = "acceptor" /\ Leaves(ref_stack)
         \/ /\ sax # "acceptor"
            /\ Leaves(Pop(ref_stack)) /\ SameKinds(nodes, nodes', Pop(ref_stack))
            /\ sax = "dom_callback_parser" => keep_stack' = Pop(keep_stack)
<1>1. CASE Builds /\ DomEnd
  <2>1. /\ sax = "dom_parser" /\ sax' = sax /\ UNCHANGED <<keep_stack, key_keep_stack, rejected>>
        /\ ref_stack' = Pop(ref_stack) /\ UNCHANGED <<nodes, object_element, addresses>>
    BY <1>1 DEF Builds, DomEnd, callbackVars
  <2>2. Built(nodes', Pop(ref_stack), addresses')
    BY <2>1, BuiltPops DEF Typed
  <2>3. SameKinds(nodes, nodes', Pop(ref_stack))
    BY <2>1 DEF SameKinds
  <2>4. QED
    BY <2>1, <2>2, <2>3 DEF Typed, Leaves
<1>2. CASE Asks /\ (CallbackEndObject \/ CallbackEndArray)
  <2>1. sax = "dom_callback_parser" /\ sax' = sax
    BY <1>2 DEF Asks
  <2>2. EndsWell
    BY <1>2, <2>1, CallbackEnds DEF Typed
  <2>3. keep_stack' \in Seq(BOOLEAN)
    BY <2>2, PopNarrows DEF EndsWell, Typed
  <2>4. QED
    BY <2>1, <2>2, <2>3 DEF EndsWell, Typed, Leaves
<1>3. CASE Accepts
  BY <1>3, AcceptorLeaves
<1>4. QED
  BY <1>1, <1>2, <1>3 DEF end_object, end_array

-----------------------------------------------------------------------------
(***************************************************************************)
(* The steps of the parser.                                                *)
(***************************************************************************)
ReadsOn ==
  /\ read' \in Seq(Tokens \cup {EndOfInput}) /\ read' # << >>
  /\ rejected' \subseteq DOMAIN read'

LEMMA TokenRead ==
  ASSUME read \in Seq(Tokens \cup {EndOfInput}), rejected \subseteq DOMAIN read,
         \/ read # << >> /\ rejected' \subseteq rejected \cup {Len(read)}
         \/ rejected' = rejected,
         get_token \/ (NoToken /\ read # << >>)
  PROVE  ReadsOn
<1>1. CASE get_token
  <2>1. PICK t \in Tokens \cup {EndOfInput} : read' = Append(read, t)
    BY <1>1 DEF get_token
  <2>2. /\ read' \in Seq(Tokens \cup {EndOfInput}) /\ DOMAIN read \subseteq DOMAIN read'
        /\ read' # << >>
    BY <2>1
  <2>3. read # << >> => Len(read) \in DOMAIN read
    OBVIOUS
  <2>4. QED
    BY <2>2, <2>3 DEF ReadsOn
<1>2. CASE NoToken /\ read # << >>
  <2>1. read' = read /\ Len(read) \in DOMAIN read
    BY <1>2 DEF NoToken
  <2>2. QED
    BY <1>2, <2>1 DEF ReadsOn
<1>3. QED
  BY <1>1, <1>2

LEMMA LeavesTyped ==
  ASSUME Typed, NEW s, Leaves(s),
         sax = "dom_parser" => \A k \in DOMAIN s : Kept(s[k])
  PROVE  Typed'
  BY DEF Typed, Leaves

LEMMA UnchangedTyped ==
  ASSUME Typed, UNCHANGED saxVars
  PROVE  Typed' /\ rejected' = rejected
  BY DEF Typed, saxVars, domVars, callbackVars

LEMMA ReadyForValue ==
  ASSUME IndInv, at = "value"
  PROVE  ValueReady
<1>1. SUFFICES ASSUME InMember
               PROVE  /\ sax = "dom_callback_parser" => key_keep_stack # << >>
                      /\ (key_keep_stack # << >> => Top(key_keep_stack)) =>
                           object_element \in Children(nodes, Top(ref_stack))
  BY DEF ValueReady
<1>2. ref_stack # << >> /\ Kept(Top(ref_stack)) /\ nodes[Top(ref_stack)].kind # "array"
  BY <1>1 DEF InMember, InArray, Container
<1>3. sax # "acceptor" /\ Depths /\ Kinds /\ (BeforeMember => MemberReady)
  BY <1>2 DEF IndInv
<1>4. ref_stack \in Seq(0 .. addresses) /\ states \in Seq(BOOLEAN)
  BY DEF IndInv, Typed, Built
<1>5. Len(states) = Len(ref_stack) /\ Len(ref_stack) \in DOMAIN ref_stack
  BY <1>2, <1>3, <1>4 DEF Depths, Opened
<1>6. Len(states) \in DOMAIN states
  BY <1>4, <1>5
<1>7. ~ Top(states) /\ states # << >>
  BY <1>2, <1>3, <1>5, <1>6 DEF Kinds, Top
<1>8. QED
  BY <1>2, <1>3, <1>7 DEF BeforeMember, MemberReady

LEMMA BeginKeeps ==
  ASSUME IndInv, Begin
  PROVE  IndInv'
<1>1. ReadsOn
  BY TokenRead, UnchangedTyped DEF IndInv, Begin
<1>2. Typed'
  BY UnchangedTyped DEF IndInv, Begin
<1>3. UNCHANGED <<sax, nodes, ref_stack, keep_stack>>
  BY DEF Begin, saxVars, domVars, callbackVars
<1>4. states' = << >> /\ states = << >> /\ at = "start" /\ at' = "value"
  BY DEF IndInv, AtAgrees, Begin
<1>5. AtAgrees'
  BY <1>1, <1>4 DEF AtAgrees, Places, ReadsOn
<1>6. sax # "acceptor" => Depths /\ ~ Opened /\ ~ Opened'
  BY <1>4 DEF IndInv, Opened
<1>7. sax # "acceptor" => Depths'
  BY <1>3, <1>4, <1>6 DEF Depths
<1>8. sax # "acceptor" => Kinds' /\ ~ BeforeMember'
  BY <1>4, <1>6 DEF Kinds, BeforeMember
<1>9. sax = "acceptor" => ref_stack' = << >>
  BY <1>3 DEF IndInv
<1>10. QED
  BY <1>1, <1>2, <1>3, <1>4, <1>5, <1>7, <1>8, <1>9 DEF IndInv, ReadsOn

(***************************************************************************)
(* A scalar value.                                                         *)
(***************************************************************************)
LEMMA KindsKept ==
  ASSUME IndInv, sax # "acceptor", at # "threw", ~ Opened, UNCHANGED <<states, ref_stack>>,
         SameKinds(nodes, nodes', ref_stack)
  PROVE  \A k \in DOMAIN states' :
           Kept(ref_stack'[k]) => (states'[k] <=> nodes'[ref_stack'[k]].kind = "array")
<1>1. Depths /\ Kinds /\ states \in Seq(BOOLEAN) /\ ref_stack \in Seq(0 .. addresses)
  BY DEF IndInv, Typed, Built
<1>2. DOMAIN states = DOMAIN ref_stack
  BY <1>1 DEF Depths
<1>3. QED
  BY <1>1, <1>2 DEF Kinds, SameKinds

LEMMA ScalarKeeps ==
  ASSUME IndInv, ScalarValue
  PROVE  IndInv'
<1>1. at = "value" /\ at' = "evaluate" /\ states' = states /\ NoToken /\ value(Scalar(last_token))
  BY DEF ScalarValue
<1>2. Typed /\ ValueReady /\ AtAgrees
  BY <1>1, ReadyForValue DEF IndInv
<1>3. Leaves(ref_stack) /\ SameKinds(nodes, nodes', ref_stack) /\ keep_stack' = keep_stack
  BY <1>1, <1>2, ValueLeaves, KindsOfValues
<1>4. sax' = sax /\ ref_stack' = ref_stack
  BY <1>3 DEF Leaves
<1>5. Typed'
  BY <1>2, <1>3, LeavesTyped DEF Typed
<1>6. ReadsOn
  BY <1>1, <1>2, <1>3, TokenRead DEF IndInv, Leaves, AtAgrees
<1>7. AtAgrees'
  BY <1>1, <1>6 DEF AtAgrees, Places, ReadsOn
<1>8. ~ Opened /\ ~ Opened' /\ ~ BeforeMember'
  BY <1>1 DEF Opened, BeforeMember
<1>9. ASSUME sax # "acceptor"
      PROVE  Depths' /\ Kinds'
  <2>1. Depths'
    BY <1>1, <1>3, <1>4, <1>8, <1>9 DEF IndInv, Depths
  <2>2. Kinds'
    BY <1>1, <1>3, <1>4, <1>8, <1>9, KindsKept DEF Kinds
  <2>3. QED
    BY <2>1, <2>2
<1>10. sax = "acceptor" => ref_stack' = << >>
  BY <1>4 DEF IndInv
<1>11. states' \in Seq(BOOLEAN) /\ at' # "threw"
  BY <1>1 DEF IndInv
<1>12. QED
  BY <1>4, <1>5, <1>6, <1>7, <1>8, <1>9, <1>10, <1>11 DEF IndInv, ReadsOn

(***************************************************************************)
(* A container begins.                                                     *)
(***************************************************************************)
LEMMA StartKeeps ==
  ASSUME IndInv, BeginObject \/ BeginArray
  PROVE  IndInv'
<1>1. PICK v \in {EmptyObject, EmptyArray} :
        /\ at = "value" /\ start(v) /\ get_token /\ states' = states
        /\ at' = IF v.kind = "array" THEN "opened_array" ELSE "opened"
  <2>1. CASE BeginObject
    BY <2>1, KindsOfValues DEF BeginObject
  <2>2. CASE BeginArray
    BY <2>2, KindsOfValues DEF BeginArray
  <2>3. QED
    BY <2>1, <2>2
<1>2. Typed /\ ValueReady /\ AtAgrees
  BY <1>1, ReadyForValue DEF IndInv
<1>3. \/ sax = "acceptor" /\ Leaves(ref_stack)
      \/ /\ sax # "acceptor"
         /\ \E c \in Nat : /\ Leaves(Append(ref_stack, c))
                           /\ Kept(c) => nodes'[c] = v
                           /\ sax = "dom_parser" => Kept(c)
         /\ SameKinds(nodes, nodes', ref_stack)
         /\ sax = "dom_callback_parser" => Len(keep_stack') = Len(keep_stack) + 1
  BY <1>1, <1>2, StartLeaves
<1>4. sax' = sax /\ rejected' \subseteq rejected \cup {Len(read)}
  BY <1>3 DEF Leaves
<1>5. ReadsOn
  BY <1>1, <1>2, <1>4, TokenRead DEF IndInv, AtAgrees
<1>6. AtAgrees'
  BY <1>1, <1>5 DEF AtAgrees, Places, ReadsOn
<1>7. /\ ~ Opened /\ Opened' /\ ~ BeforeMember' /\ at' # "threw" /\ at # "threw"
      /\ at' = "opened_array" <=> v.kind = "array"
  BY <1>1 DEF Opened, BeforeMember
<1>8. states' \in Seq(BOOLEAN)
  BY <1>1 DEF IndInv
<1>9. CASE sax = "acceptor"
  <2>1. Leaves(ref_stack) /\ ref_stack = << >> /\ ref_stack' = ref_stack
    BY <1>3, <1>9 DEF Leaves, IndInv
  <2>2. Typed'
    BY <1>2, <1>9, <2>1, LeavesTyped
  <2>3. QED
    BY <1>4, <1>5, <1>6, <1>8, <1>9, <2>1, <2>2 DEF IndInv, ReadsOn
<1>10. CASE sax # "acceptor"
  <2>1. PICK c \in Nat : /\ Leaves(Append(ref_stack, c))
                         /\ Kept(c) => nodes'[c] = v
                         /\ sax = "dom_parser" => Kept(c)
    BY <1>3, <1>10
  <2>2. SameKinds(nodes, nodes', ref_stack)
        /\ (sax = "dom_callback_parser" => Len(keep_stack') = Len(keep_stack) + 1)
    BY <1>3, <1>10
  <2>3. Depths /\ Kinds
    BY <1>1, <1>10 DEF IndInv
  <2>4. ref_stack \in Seq(Nat) /\ states \in Seq(BOOLEAN) /\ Len(states) = Len(ref_stack)
    <3>1. ref_stack \in Seq(0 .. addresses) /\ addresses \in Nat
      BY <1>2 DEF Typed, Built
    <3>2. QED
      BY <1>7, <2>3, <3>1 DEF IndInv, Depths
  <2> DEFINE t == Append(ref_stack, c)
  <2>5. /\ ref_stack' = t /\ Len(t) = Len(ref_stack) + 1 /\ Top(t) = c
        /\ DOMAIN t = 1 .. Len(ref_stack) + 1 /\ t[Len(ref_stack) + 1] = c
        /\ \A k \in 1 .. Len(ref_stack) : t[k] = ref_stack[k]
    BY <2>1, <2>4 DEF Leaves, Top
  <2> HIDE DEF t
  <2>6. ASSUME sax = "dom_parser", NEW k \in DOMAIN t
        PROVE  Kept(t[k])
    <3>1. k \in 1 .. Len(ref_stack) \/ k = Len(ref_stack) + 1
      BY <2>4, <2>5
    <3>2. k \in 1 .. Len(ref_stack) => Kept(ref_stack[k])
      BY <1>2, <2>4, <2>6 DEF Typed
    <3>3. QED
      BY <2>1, <2>5, <2>6, <3>1, <3>2
  <2>7. Typed'
    BY <1>2, <2>1, <2>6, LeavesTyped DEF t
  <2>8. Depths'
    <3>1. Len(ref_stack') = Len(states') + 1
      BY <1>1, <2>4, <2>5
    <3>2. sax' = "dom_callback_parser" => Len(keep_stack') = Len(ref_stack') + 1
      BY <1>4, <2>2, <2>3, <2>5 DEF Depths
    <3>3. QED
      BY <1>7, <3>1, <3>2 DEF Depths
  <2>9. Kinds'
    <3>1. ASSUME NEW k \in DOMAIN states, Kept(t[k])
          PROVE  states[k] <=> nodes'[t[k]].kind = "array"
      <4>1. k \in 1 .. Len(ref_stack) /\ t[k] = ref_stack[k] /\ k \in DOMAIN ref_stack
        BY <2>4, <2>5
      <4>2. QED
        BY <2>2, <2>3, <3>1, <4>1 DEF Kinds, SameKinds
    <3>2. Kept(c) => (at' = "opened_array" <=> nodes'[c].kind = "array")
      BY <1>7, <2>1
    <3>3. QED
      BY <1>1, <1>7, <2>5, <3>1, <3>2 DEF Kinds
  <2>10. QED
    BY <1>4, <1>5, <1>6, <1>7, <1>8, <1>10, <2>7, <2>8, <2>9 DEF IndInv, ReadsOn
<1>11. QED
  BY <1>9, <1>10

(***************************************************************************)
(* A container ends, an empty one before it is on the parser's stack.      *)
(***************************************************************************)
LEMMA EndKeeps ==
  ASSUME IndInv, EmptyObjectEnds \/ EmptyArrayEnds \/ ContainerEnds
  PROVE  IndInv'
<1>1. /\ end_object \/ end_array
      /\ NoToken /\ at' = "evaluate"
      /\ \/ at \in {"opened", "opened_array"} /\ states' = states
         \/ at \in {"in_array", "in_object"} /\ states' = Pop(states)
  BY DEF EmptyObjectEnds, EmptyArrayEnds, ContainerEnds
<1>2. Typed /\ AtAgrees /\ states \in Seq(BOOLEAN) /\ at # "threw"
  BY <1>1 DEF IndInv
<1>3. ref_stack \in Seq(Nat) /\ addresses \in Nat
  BY <1>2 DEF Typed, Built
<1>4. ASSUME sax # "acceptor"
      PROVE  /\ Depths /\ Kinds /\ ref_stack # << >>
             /\ Len(states') = Len(ref_stack) - 1 /\ states' \in Seq(BOOLEAN)
             /\ \A k \in 1 .. Len(ref_stack) - 1 : states'[k] = states[k] /\ k \in DOMAIN states
  <2>1. Depths /\ Kinds
    BY <1>2, <1>4 DEF IndInv
  <2>2. CASE at \in {"opened", "opened_array"} /\ states' = states
    <3>1. Len(ref_stack) = Len(states) + 1
      BY <2>1, <2>2 DEF Depths, Opened
    <3>2. QED
      BY <1>2, <1>3, <2>1, <2>2, <3>1
  <2>3. CASE at \in {"in_array", "in_object"} /\ states' = Pop(states)
    <3>1. Len(ref_stack) = Len(states)
      BY <1>2, <2>1, <2>3 DEF Depths, Opened
    <3>2. states # << >>
      BY <1>2, <2>3 DEF AtAgrees
    <3>3. /\ states' \in Seq(BOOLEAN) /\ Len(states') = Len(states) - 1
          /\ \A k \in 1 .. Len(states) - 1 : states'[k] = states[k]
      BY <1>2, <2>3, <3>2, PopDrops
    <3>4. ref_stack # << >>
      BY <1>2, <1>3, <3>1, <3>2
    <3>5. \A k \in 1 .. Len(ref_stack) - 1 : k \in DOMAIN states
      BY <1>2, <3>1
    <3>6. QED
      BY <2>1, <3>1, <3>3, <3>4, <3>5
  <2>4. QED
    BY <1>1, <2>2, <2>3
<1>5. \/ sax = "acceptor" /\ Leaves(ref_stack)
      \/ /\ sax # "acceptor"
         /\ Leaves(Pop(ref_stack)) /\ SameKinds(nodes, nodes', Pop(ref_stack))
         /\ sax = "dom_callback_parser" => keep_stack' = Pop(keep_stack)
  BY <1>1, <1>2, <1>4, EndLeaves
<1>6. sax' = sax /\ rejected' \subseteq rejected \cup {Len(read)}
  BY <1>5 DEF Leaves
<1>7. ReadsOn
  BY <1>1, <1>2, <1>6, TokenRead DEF IndInv, AtAgrees
<1>8. AtAgrees'
  BY <1>1, <1>7 DEF AtAgrees, Places, ReadsOn
<1>9. ~ Opened' /\ ~ BeforeMember' /\ at' # "threw"
  BY <1>1 DEF Opened, BeforeMember
<1>10. states' \in Seq(BOOLEAN)
  BY <1>1, <1>2, PopNarrows
<1>11. CASE sax = "acceptor"
  <2>1. Leaves(ref_stack) /\ ref_stack = << >> /\ ref_stack' = ref_stack
    BY <1>5, <1>11 DEF Leaves, IndInv
  <2>2. Typed'
    BY <1>2, <1>11, <2>1, LeavesTyped
  <2>3. QED
    BY <1>6, <1>7, <1>8, <1>10, <1>11, <2>1, <2>2 DEF IndInv, ReadsOn
<1>12. CASE sax # "acceptor"
  <2> DEFINE t == Pop(ref_stack)
  <2>1. Depths /\ Kinds /\ ref_stack # << >> /\ Len(states') = Len(ref_stack) - 1
    BY <1>4, <1>12
  <2>2. /\ t \in Seq(Nat) /\ Len(t) = Len(ref_stack) - 1
        /\ \A k \in 1 .. Len(ref_stack) - 1 : t[k] = ref_stack[k]
    BY <1>3, <2>1, PopDrops
  <2>3. Leaves(t) /\ SameKinds(nodes, nodes', t) /\ ref_stack' = t
    BY <1>5, <1>12 DEF Leaves
  <2> HIDE DEF t
  <2>4. ASSUME sax = "dom_parser", NEW k \in DOMAIN t
        PROVE  Kept(t[k])
    <3>1. k \in 1 .. Len(ref_stack) - 1
      BY <2>2
    <3>2. k \in DOMAIN ref_stack
      BY <1>3, <3>1
    <3>3. QED
      BY <1>2, <2>2, <2>4, <3>1, <3>2 DEF Typed
  <2>5. Typed'
    BY <1>2, <2>3, <2>4, LeavesTyped
  <2>6. Depths'
    <3>1. Len(ref_stack') = Len(states')
      BY <2>1, <2>2, <2>3
    <3>2. ASSUME sax = "dom_callback_parser"
          PROVE  Len(keep_stack') = Len(ref_stack') + 1
      <4>1. keep_stack' = Pop(keep_stack) /\ Len(keep_stack) = Len(ref_stack) + 1
        BY <1>5, <2>1, <3>2 DEF Depths
      <4>2. keep_stack \in Seq(BOOLEAN) /\ keep_stack # << >>
        BY <1>2, <1>3, <4>1 DEF Typed
      <4>3. Len(keep_stack') = Len(keep_stack) - 1
        BY <4>1, <4>2, PopDrops
      <4>4. QED
        BY <1>3, <2>2, <2>3, <4>1, <4>3
    <3>3. QED
      BY <1>3, <1>6, <1>9, <1>10, <2>2, <2>3, <3>1, <3>2 DEF Depths
  <2>7. Kinds'
    <3>1. ASSUME NEW k \in DOMAIN states', Kept(t[k])
          PROVE  states'[k] <=> nodes'[t[k]].kind = "array"
      <4>1. k \in 1 .. Len(ref_stack) - 1
        BY <1>10, <2>1
      <4>2. k \in DOMAIN t /\ k \in DOMAIN states /\ states'[k] = states[k] /\ t[k] = ref_stack[k]
        BY <1>4, <1>12, <2>2, <4>1
      <4>3. QED
        BY <2>1, <2>3, <3>1, <4>2 DEF Kinds, SameKinds
    <3>2. QED
      BY <1>9, <2>3, <3>1 DEF Kinds
  <2>8. QED
    BY <1>6, <1>7, <1>8, <1>9, <1>10, <1>12, <2>5, <2>6, <2>7 DEF IndInv, ReadsOn
<1>13. QED
  BY <1>11, <1>12

(***************************************************************************)
(* The first element of an array: the array is put on the parser's stack.  *)
(***************************************************************************)
LEMMA UnchangedFacts ==
  ASSUME UNCHANGED saxVars
  PROVE  /\ UNCHANGED <<sax, nodes, ref_stack, object_element, addresses>>
         /\ UNCHANGED <<keep_stack, key_keep_stack, rejected>>
  BY DEF saxVars, domVars, callbackVars

\* What is opened is pushed.
LEMMA PushedKinds ==
  ASSUME IndInv, sax # "acceptor", Opened, UNCHANGED saxVars, at' = "value",
         states' = Append(states, at = "opened_array")
  PROVE  Depths' /\ Kinds'
<1>1. /\ UNCHANGED <<sax, nodes, ref_stack>> /\ keep_stack' = keep_stack
  BY UnchangedFacts
<1>2. Depths /\ Kinds /\ states \in Seq(BOOLEAN) /\ ref_stack \in Seq(0 .. addresses)
  BY DEF IndInv, Typed, Built, Opened
<1>3. Len(ref_stack) = Len(states) + 1 /\ ~ Opened'
  BY <1>2 DEF Depths, Opened
<1>4. /\ Len(states') = Len(states) + 1 /\ states'[Len(states) + 1] = (at = "opened_array")
      /\ DOMAIN states' = 1 .. Len(states) + 1
      /\ \A k \in 1 .. Len(states) : states'[k] = states[k]
  <2> DEFINE b == at = "opened_array"
  <2>1. b \in BOOLEAN /\ states' = Append(states, b)
    OBVIOUS
  <2> HIDE DEF b
  <2>2. /\ Len(states') = Len(states) + 1 /\ states'[Len(states) + 1] = b
        /\ \A k \in 1 .. Len(states) : states'[k] = states[k]
    BY <1>2, <2>1, AppendProperties
  <2>3. states' \in Seq(BOOLEAN)
    BY <1>2, <2>1
  <2>4. DOMAIN states' = 1 .. Len(states) + 1
    BY <2>2, <2>3
  <2>5. QED
    BY <2>2, <2>4 DEF b
<1>5. Depths'
  BY <1>1, <1>2, <1>3, <1>4 DEF Depths
<1>6. ASSUME NEW k \in DOMAIN states', Kept(ref_stack[k])
      PROVE  states'[k] <=> nodes[ref_stack[k]].kind = "array"
  <2>1. k \in 1 .. Len(states) \/ k = Len(states) + 1
    BY <1>2, <1>4
  <2>2. CASE k \in 1 .. Len(states)
    <3>1. k \in DOMAIN states /\ states'[k] = states[k]
      BY <1>2, <1>4, <2>2
    <3>2. QED
      BY <1>2, <1>6, <3>1 DEF Kinds
  <2>3. CASE k = Len(states) + 1
    <3>1. ref_stack[k] = Top(ref_stack) /\ (states'[k] <=> at = "opened_array")
      BY <1>3, <1>4, <2>3 DEF Top
    <3>2. QED
      BY <1>2, <1>6, <3>1 DEF Kinds
  <2>4. QED
    BY <2>1, <2>2, <2>3
<1>7. Kinds'
  BY <1>1, <1>3, <1>6 DEF Kinds
<1>8. QED
  BY <1>5, <1>7

LEMMA FirstElementKeeps ==
  ASSUME IndInv, FirstElement
  PROVE  IndInv'
<1>1. /\ at = "opened_array" /\ at' = "value" /\ states' = Append(states, TRUE)
      /\ NoToken /\ UNCHANGED saxVars
  BY DEF FirstElement
<1>2. Typed' /\ rejected' = rejected
  BY <1>1, UnchangedTyped DEF IndInv
<1>3. UNCHANGED <<sax, nodes, ref_stack>>
  BY <1>1, UnchangedFacts
<1>4. ReadsOn
  BY <1>1, <1>2, TokenRead DEF IndInv, AtAgrees
<1>5. AtAgrees'
  BY <1>1, <1>4 DEF AtAgrees, Places, ReadsOn
<1>6. states \in Seq(BOOLEAN) /\ states' \in Seq(BOOLEAN) /\ Top(states')
  <2>1. states \in Seq(BOOLEAN)
    BY DEF IndInv
  <2>2. states' \in Seq(BOOLEAN) /\ Len(states') = Len(states) + 1
        /\ states'[Len(states) + 1] = TRUE
    BY <1>1, <2>1, AppendProperties
  <2>3. states'[Len(states')] = TRUE
    BY <2>2
  <2>4. QED
    BY <2>1, <2>2, <2>3 DEF Top
<1>7. ~ BeforeMember'
  BY <1>1, <1>6 DEF BeforeMember
<1>8. states' = Append(states, at = "opened_array")
  <2>1. TRUE = (at = "opened_array")
    BY <1>1
  <2>2. QED
    BY <1>1, <2>1
<1>9. sax # "acceptor" => Depths' /\ Kinds'
  BY <1>1, <1>8, PushedKinds DEF Opened
<1>10. sax = "acceptor" => ref_stack' = << >>
  BY <1>3 DEF IndInv
<1>11. QED
  BY <1>1, <1>2, <1>3, <1>4, <1>5, <1>6, <1>7, <1>9, <1>10 DEF IndInv, ReadsOn

(***************************************************************************)
(* A key and the colon behind it: the object is put on the parser's stack  *)
(* with the first.                                                         *)
(***************************************************************************)
LEMMA KeyKeeps ==
  ASSUME IndInv, Key
  PROVE  IndInv'
<1>1. /\ at \in {"opened", "comma_key"} /\ key(last_token.value) /\ get_token
      /\ at' = (IF at = "opened" THEN "first_colon" ELSE "colon") /\ states' = states
  BY DEF Key
<1>2. Typed /\ AtAgrees /\ states \in Seq(BOOLEAN)
  BY DEF IndInv
<1>3. ASSUME sax # "acceptor"
      PROVE  /\ Depths /\ Kinds /\ ref_stack # << >>
             /\ Kept(Top(ref_stack)) => nodes[Top(ref_stack)].kind # "array"
  <2>1. Depths /\ Kinds /\ ref_stack \in Seq(0 .. addresses)
    BY <1>1, <1>3 DEF IndInv, Typed, Built
  <2>2. CASE at = "opened"
    <3>1. Len(ref_stack) = Len(states) + 1 /\ Opened
      BY <2>1, <2>2 DEF Depths, Opened
    <3>2. ref_stack # << >>
      BY <1>2, <2>1, <3>1
    <3>3. QED
      BY <2>1, <2>2, <3>1, <3>2 DEF Kinds
  <2>3. CASE at = "comma_key"
    <3>1. Len(ref_stack) = Len(states) /\ states # << >> /\ ~ Top(states)
      BY <1>2, <2>1, <2>3 DEF Depths, Opened, AtAgrees
    <3>2. Len(states) \in DOMAIN states /\ ref_stack # << >>
      BY <1>2, <2>1, <3>1
    <3>3. QED
      BY <2>1, <3>1, <3>2 DEF Kinds, Top
  <2>4. QED
    BY <1>1, <2>2, <2>3
<1>4. /\ Leaves(ref_stack) /\ SameKinds(nodes, nodes', ref_stack) /\ keep_stack' = keep_stack
      /\ sax # "acceptor" => MemberReady'
  BY <1>1, <1>2, <1>3, KeyLeaves DEF InArray, Container
<1>5. sax' = sax /\ ref_stack' = ref_stack
  BY <1>4 DEF Leaves
<1>6. Typed'
  BY <1>2, <1>4, LeavesTyped DEF Typed
<1>7. ReadsOn
  BY <1>1, <1>2, <1>4, TokenRead DEF IndInv, Leaves, AtAgrees
<1>8. AtAgrees'
  BY <1>1, <1>2, <1>7 DEF AtAgrees, Places, ReadsOn
<1>9. (Opened' <=> Opened) /\ (Opened <=> at = "opened") /\ (at' # "opened_array")
      /\ at' # "threw"
  BY <1>1 DEF Opened
<1>10. ASSUME sax # "acceptor"
       PROVE  Depths' /\ Kinds'
  <2>1. Depths'
    BY <1>1, <1>3, <1>4, <1>5, <1>9, <1>10 DEF Depths
  <2>2. ASSUME NEW k \in DOMAIN states, Kept(ref_stack[k])
        PROVE  states[k] <=> nodes'[ref_stack[k]].kind = "array"
    <3>1. ref_stack \in Seq(0 .. addresses) /\ Depths /\ Kinds
      BY <1>2, <1>3, <1>10 DEF Typed, Built
    <3>2. k \in DOMAIN ref_stack
      BY <1>2, <3>1 DEF Depths
    <3>3. QED
      BY <1>4, <2>2, <3>1, <3>2 DEF Kinds, SameKinds
  <2>3. ASSUME Kept(Top(ref_stack))
        PROVE  nodes'[Top(ref_stack)].kind # "array"
    <3>1. Len(ref_stack) \in DOMAIN ref_stack
      BY <1>2, <1>3, <1>10 DEF Typed, Built
    <3>2. QED
      BY <1>3, <1>4, <1>10, <2>3, <3>1 DEF SameKinds, Top
  <2>4. Kinds'
    BY <1>1, <1>5, <1>9, <2>2, <2>3 DEF Kinds
  <2>5. QED
    BY <2>1, <2>4
<1>11. sax = "acceptor" => ref_stack' = << >>
  BY <1>5 DEF IndInv
<1>12. QED
  BY <1>1, <1>2, <1>4, <1>5, <1>6, <1>7, <1>8, <1>9, <1>10, <1>11 DEF IndInv, ReadsOn

LEMMA ColonKeeps ==
  ASSUME IndInv, Colon
  PROVE  IndInv'
<1>1. /\ at \in {"first_colon", "colon"} /\ at' = "value" /\ get_token /\ UNCHANGED saxVars
      /\ states' = IF at = "first_colon" THEN Append(states, FALSE) ELSE states
  BY DEF Colon
<1>2. Typed' /\ rejected' = rejected
  BY <1>1, UnchangedTyped DEF IndInv
<1>3. UNCHANGED <<sax, nodes, ref_stack>> /\ UNCHANGED <<object_element, keep_stack, key_keep_stack>>
  BY <1>1, UnchangedFacts
<1>4. ReadsOn
  BY <1>1, <1>2, TokenRead DEF IndInv
<1>5. AtAgrees'
  BY <1>1, <1>4 DEF AtAgrees, Places, ReadsOn
<1>6. states' \in Seq(BOOLEAN)
  <2>1. states \in Seq(BOOLEAN)
    BY DEF IndInv
  <2>2. Append(states, FALSE) \in Seq(BOOLEAN)
    BY <2>1, AppendProperties
  <2>3. QED
    BY <1>1, <2>1, <2>2
<1>7. ASSUME sax # "acceptor"
      PROVE  Depths' /\ Kinds' /\ MemberReady'
  <2>1. Depths /\ Kinds /\ MemberReady
    BY <1>1, <1>7 DEF IndInv, BeforeMember
  <2>2. MemberReady'
    BY <1>3, <2>1 DEF MemberReady
  <2>3. CASE at = "first_colon"
    <3>1. states' = Append(states, at = "opened_array")
      <4>1. FALSE = (at = "opened_array")
        BY <2>3
      <4>2. QED
        BY <1>1, <2>3, <4>1
    <3>2. QED
      BY <1>1, <1>7, <2>2, <2>3, <3>1, PushedKinds DEF Opened
  <2>4. CASE at = "colon"
    <3>1. states' = states /\ ~ Opened /\ ~ Opened'
      BY <1>1, <2>4 DEF Opened
    <3>2. Depths'
      BY <1>3, <2>1, <3>1 DEF Depths
    <3>3. Kinds'
      BY <1>3, <2>1, <3>1 DEF Kinds
    <3>4. QED
      BY <2>2, <3>2, <3>3
  <2>5. QED
    BY <1>1, <2>3, <2>4
<1>8. sax = "acceptor" => ref_stack' = << >>
  BY <1>3 DEF IndInv
<1>9. QED
  BY <1>1, <1>2, <1>3, <1>4, <1>5, <1>6, <1>7, <1>8 DEF IndInv, ReadsOn

(***************************************************************************)
(* Between the values.                                                     *)
(***************************************************************************)
LEMMA BetweenKeeps ==
  ASSUME IndInv, Evaluate \/ Comma
  PROVE  IndInv'
<1>1. /\ get_token /\ states' = states /\ UNCHANGED saxVars
      /\ \/ /\ at = "evaluate"
            /\ at' = IF states = << >> THEN "end"
                     ELSE IF Top(states) THEN "in_array" ELSE "in_object"
         \/ at = "in_array" /\ at' = "value"
         \/ at = "in_object" /\ at' = "comma_key"
  BY DEF Evaluate, Comma
<1>2. Typed' /\ rejected' = rejected
  BY <1>1, UnchangedTyped DEF IndInv
<1>3. UNCHANGED <<sax, nodes, ref_stack>> /\ keep_stack' = keep_stack
  BY <1>1, UnchangedFacts
<1>4. ReadsOn
  BY <1>1, <1>2, TokenRead DEF IndInv
<1>5. AtAgrees
  BY DEF IndInv
<1>6. AtAgrees'
  BY <1>1, <1>4, <1>5 DEF AtAgrees, Places, ReadsOn
<1>7. ~ Opened /\ ~ Opened' /\ ~ BeforeMember' /\ at # "threw" /\ at' # "threw"
  BY <1>1, <1>5 DEF Opened, BeforeMember, AtAgrees
<1>8. ASSUME sax # "acceptor"
      PROVE  Depths' /\ Kinds'
  <2>1. Depths /\ Kinds
    BY <1>7, <1>8 DEF IndInv
  <2>2. Depths'
    BY <1>1, <1>3, <1>7, <2>1 DEF Depths
  <2>3. Kinds'
    BY <1>1, <1>3, <1>7, <2>1 DEF Kinds
  <2>4. QED
    BY <2>2, <2>3
<1>9. (sax = "acceptor" => ref_stack' = << >>) /\ states' \in Seq(BOOLEAN)
  BY <1>1, <1>3 DEF IndInv
<1>10. QED
  BY <1>2, <1>3, <1>4, <1>6, <1>7, <1>8, <1>9 DEF IndInv, ReadsOn

(***************************************************************************)
(* The end: the value is returned, or destroyed.                           *)
(***************************************************************************)
LEMMA ReturnKeeps ==
  ASSUME IndInv, Return
  PROVE  IndInv'
<1>1. /\ at = "end" /\ at' = "returned" /\ NoToken /\ states' = states
      /\ nodes' = IF nodes[Root] = Discarded THEN OnlyRoot(Null) ELSE nodes
      /\ UNCHANGED <<sax, ref_stack, object_element, addresses>>
      /\ UNCHANGED <<keep_stack, key_keep_stack, rejected>>
  BY DEF Return, callbackVars
<1>2. Typed /\ AtAgrees /\ states = << >>
  BY <1>1 DEF IndInv, AtAgrees
<1>3. addresses \in Nat /\ 1 <= addresses /\ ref_stack \in Seq(Nat)
  BY <1>2 DEF Typed, Built, Tree, Root
<1>4. ref_stack = << >>
  <2>1. CASE sax = "acceptor"
    BY <2>1 DEF IndInv
  <2>2. CASE sax # "acceptor"
    <3>1. Len(ref_stack) = 0
      BY <1>1, <1>2, <2>2 DEF IndInv, Depths, Opened
    <3>2. QED
      BY <1>3, <3>1
  <2>3. QED
    BY <2>1, <2>2
<1>5. Built(nodes', ref_stack', addresses')
  BY <1>1, <1>2, <1>3, <1>4, OnlyRootBuilt, KindsOfValues DEF Typed
<1>6. Typed'
  BY <1>1, <1>2, <1>5 DEF Typed
<1>7. ReadsOn
  BY <1>1, <1>2, TokenRead DEF IndInv, AtAgrees
<1>8. AtAgrees'
  BY <1>1, <1>2, <1>7 DEF AtAgrees, ReadsOn
<1>9. ~ Opened /\ ~ Opened' /\ ~ BeforeMember'
  BY <1>1 DEF Opened, BeforeMember
<1>10. sax # "acceptor" => Depths' /\ Kinds'
  <2>1. sax # "acceptor" => Depths
    BY <1>1 DEF IndInv
  <2>2. sax # "acceptor" => Depths'
    BY <1>1, <1>9, <2>1 DEF Depths
  <2>3. Kinds'
    BY <1>1, <1>2, <1>9 DEF Kinds
  <2>4. QED
    BY <2>2, <2>3
<1>11. states' \in Seq(BOOLEAN)
  BY <1>1, <1>2
<1>12. QED
  BY <1>1, <1>4, <1>6, <1>7, <1>8, <1>9, <1>10, <1>11 DEF IndInv, ReadsOn

LEMMA ThrowKeeps ==
  ASSUME IndInv, Throw
  PROVE  IndInv'
<1>1. /\ at \in Places /\ at' = "threw" /\ NoToken /\ states' = states
      /\ nodes' = OnlyRoot(Null) /\ ref_stack' = << >>
      /\ UNCHANGED <<sax, object_element, addresses>>
      /\ UNCHANGED <<keep_stack, key_keep_stack, rejected>>
  BY DEF Throw, parse_error, callbackVars
<1>2. Typed /\ AtAgrees
  BY DEF IndInv
<1>3. addresses \in Nat /\ 1 <= addresses
  BY <1>2 DEF Typed, Built, Tree, Root
<1>4. Built(nodes', ref_stack', addresses')
  BY <1>1, <1>3, OnlyRootBuilt, KindsOfValues
<1>5. Typed'
  BY <1>1, <1>2, <1>4 DEF Typed
<1>6. ReadsOn
  BY <1>1, <1>2, TokenRead DEF IndInv, AtAgrees, Places
<1>7. AtAgrees'
  BY <1>1, <1>6 DEF AtAgrees, ReadsOn
<1>8. states' \in Seq(BOOLEAN)
  BY <1>1 DEF IndInv
<1>9. QED
  BY <1>1, <1>5, <1>6, <1>7, <1>8 DEF IndInv, ReadsOn

-----------------------------------------------------------------------------
LEMMA InitIndInv ==
  ASSUME Init
  PROVE  IndInv
<1>1. /\ read = << >> /\ at = "start" /\ states = << >>
      /\ sax \in {"dom_parser", "dom_callback_parser", "acceptor"}
      /\ nodes = OnlyRoot(Null) /\ ref_stack = << >>
      /\ object_element = 0 /\ addresses = 1
      /\ keep_stack = <<TRUE>> /\ key_keep_stack = << >> /\ rejected = {}
  BY DEF Init, SaxInit, NullPtr, Root
<1>2. Built(nodes, ref_stack, addresses)
  BY <1>1, OnlyRootBuilt, KindsOfValues
<1>3. Typed
  BY <1>1, <1>2 DEF Typed
<1>4. AtAgrees
  BY <1>1 DEF AtAgrees
<1>5. Depths /\ Kinds /\ ~ BeforeMember
  BY <1>1 DEF Depths, Kinds, Opened, BeforeMember
<1>6. QED
  BY <1>1, <1>3, <1>4, <1>5 DEF IndInv

LEMMA StutterKeeps ==
  ASSUME IndInv, UNCHANGED vars
  PROVE  IndInv'
<1>1. UNCHANGED <<read, at, states>> /\ UNCHANGED saxVars
  BY DEF vars
<1>2. Typed' /\ rejected' = rejected
  BY <1>1, UnchangedTyped DEF IndInv
<1>3. UNCHANGED <<sax, nodes, ref_stack>> /\ UNCHANGED <<object_element, keep_stack, key_keep_stack>>
  BY <1>1, UnchangedFacts
<1>4. AtAgrees'
  BY <1>1 DEF IndInv, AtAgrees
<1>5. sax # "acceptor" /\ at # "threw" =>
        Depths' /\ Kinds' /\ (BeforeMember => MemberReady)
  BY <1>1, <1>3 DEF IndInv, Depths, Kinds, Opened
<1>6. (BeforeMember' <=> BeforeMember) /\ (MemberReady' <=> MemberReady)
  BY <1>1, <1>3 DEF BeforeMember, MemberReady
<1>7. QED
  BY <1>1, <1>2, <1>3, <1>4, <1>5, <1>6 DEF IndInv

LEMMA IndInvFollows ==
  ASSUME IndInv
  PROVE  PointersLive
<1>1. AtAgrees /\ Typed /\ states \in Seq(BOOLEAN)
  BY DEF IndInv
<1>2. TypeOK
  BY <1>1 DEF IndInv, TypeOK, AtAgrees, Typed, Built, Tree
<1>3. StacksAgree
  <2>1. SUFFICES ASSUME sax # "acceptor", at \in {"value", "evaluate", "in_array", "in_object",
                                                  "comma_key", "colon", "end"}
                 PROVE  /\ Len(states) = Len(ref_stack)
                        /\ sax = "dom_callback_parser" => Len(keep_stack) = Len(ref_stack) + 1
                        /\ \A k \in DOMAIN states :
                             Kept(ref_stack[k]) => (states[k] <=> nodes[ref_stack[k]].kind = "array")
    BY DEF StacksAgree
  <2>2. Depths /\ Kinds /\ ~ Opened
    BY <2>1 DEF IndInv, Opened
  <2>3. Len(states) \in Nat
    BY <1>1
  <2>4. Len(states) = Len(ref_stack)
    BY <2>2, <2>3 DEF Depths
  <2>5. QED
    BY <2>2, <2>4 DEF Depths, Kinds
<1>4. \A k \in DOMAIN ref_stack :
        Kept(ref_stack[k]) =>
          /\ ref_stack[k] \in DOMAIN nodes
          /\ nodes[ref_stack[k]].kind \in {"array", "object"}
          /\ k > 1 => /\ Kept(ref_stack[k - 1])
                      /\ ref_stack[k] \in Children(nodes, ref_stack[k - 1])
  BY <1>1 DEF Typed, Built, Path, Encloses
<1>5. at = "value" /\ InMember /\ (key_keep_stack # << >> => Top(key_keep_stack)) =>
        object_element \in Children(nodes, Top(ref_stack))
  BY ReadyForValue DEF ValueReady
<1>6. QED
  BY <1>2, <1>3, <1>4, <1>5 DEF PointersLive

(***************************************************************************)
(* json::parse and accept: whatever the tokens are and whatever the        *)
(* callback answers, each pointer in ref_stack and object_element points   *)
(* into the value when it is followed, although its nodes move and are     *)
(* freed, and the stacks of the parser and its consumer agree.             *)
(***************************************************************************)
THEOREM PointersStayLive == Spec => []PointersLive
<1>1. Init => IndInv
  BY InitIndInv
<1>2. IndInv /\ [Next]_vars => IndInv'
  <2>1. ASSUME IndInv, [Next]_vars
        PROVE  IndInv'
    <3>1. CASE Begin
      BY <2>1, <3>1, BeginKeeps
    <3>2. CASE BeginObject \/ BeginArray
      BY <2>1, <3>2, StartKeeps
    <3>3. CASE ScalarValue
      BY <2>1, <3>3, ScalarKeeps
    <3>4. CASE EmptyObjectEnds \/ EmptyArrayEnds \/ ContainerEnds
      BY <2>1, <3>4, EndKeeps
    <3>5. CASE FirstElement
      BY <2>1, <3>5, FirstElementKeeps
    <3>6. CASE Key
      BY <2>1, <3>6, KeyKeeps
    <3>7. CASE Colon
      BY <2>1, <3>7, ColonKeeps
    <3>8. CASE Evaluate \/ Comma
      BY <2>1, <3>8, BetweenKeeps
    <3>9. CASE Return
      BY <2>1, <3>9, ReturnKeeps
    <3>10. CASE Throw
      BY <2>1, <3>10, ThrowKeeps
    <3>11. CASE UNCHANGED vars
      BY <2>1, <3>11, StutterKeeps
    <3>12. QED
      BY <2>1, <3>1, <3>2, <3>3, <3>4, <3>5, <3>6, <3>7, <3>8, <3>9, <3>10, <3>11 DEF Next
  <2>2. QED
    BY <2>1
<1>3. IndInv => PointersLive
  BY IndInvFollows
<1>4. QED
  BY <1>1, <1>2, <1>3, PTL DEF Spec
=============================================================================
