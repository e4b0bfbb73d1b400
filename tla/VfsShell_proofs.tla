-------------------------- MODULE VfsShell_proofs --------------------------
(***************************************************************************)
(* Proofs about the files of a session and the shell that works on them:   *)
(* the tree stays typed and rooted, only recursive copies break it,        *)
(* refused operations change nothing, and the contents of files are those  *)
(* of the abstract store (Vfs); the history file tells the history, "$?"   *)
(* is the status, and a line is parsed operator by operator (Shell).       *)
(***************************************************************************)
EXTENDS Vfs, Shell, SequenceTheorems, WellFoundedInduction, TLAPS

Word == Names \cup {EmptyName}

-----------------------------------------------------------------------------
(* Paths as sequences *)

LEMMA KeysAreSequences ==
    /\ Paths \subseteq Seq(Word) /\ Keys \subseteq Seq(Word)
    /\ Paths \subseteq Keys
    /\ \A d \in Data : d \in Seq(Lines)
<1>1. ASSUME NEW n \in Nat, NEW S, NEW p \in [1..n -> S] PROVE p \in Seq(S)
    BY <1>1
<1>2. \A n \in 0..MaxDepth : n \in Nat
    BY VfsAssumption
<1>3. Paths \subseteq Seq(Names)
    BY <1>1, <1>2 DEF Paths
<1>4. Paths \subseteq Seq(Word)
    BY <1>3, SeqMonotonic DEF Word
<1>5. ASSUME NEW p \in Keys PROVE p \in Seq(Word)
    BY <1>1, <1>2, <1>4 DEF Keys, Word
<1>6. \A d \in Data : d \in Seq(Lines)
    BY <1>1, VfsAssumption DEF Data
<1> QED BY <1>4, <1>5, <1>6 DEF Keys

\* Every set of natural numbers that is not empty has a least element.
LEMMA Least ==
    ASSUME NEW T, T \subseteq Nat, T # {}
    PROVE  \E x \in T : \A y \in T : x <= y
<1> DEFINE R == OpToRel(<, Nat)
<1>1. IsWellFoundedOn(R, Nat)
    BY NatLessThanWellFounded
<1> HIDE DEF R
<1>2. PICK x \in T : \A y \in T : ~ (<<y, x>> \in R)
    BY <1>1, WFMin, Zenon
<1>3. ASSUME NEW y \in T, y < x PROVE <<y, x>> \in R
  <2>1. <<y, x>> \in Nat \X Nat
    OBVIOUS
  <2> QED BY <2>1, <1>3 DEF R, OpToRel
<1>4. ASSUME NEW y \in T PROVE x <= y
  <2>1. ~ (y < x)
    BY <1>2, <1>3
  <2> QED BY <2>1
<1> QED BY <1>4

LEMMA PrefixOf ==
    ASSUME NEW p \in Seq(Word), NEW k \in 1..Len(p)
    PROVE  /\ SubSeq(p, 1, k) \in Seq(Word)
           /\ Len(SubSeq(p, 1, k)) = k
           /\ SubSeq(p, 1, k) # Root
           /\ Parent(SubSeq(p, 1, k)) = SubSeq(p, 1, k - 1)
<1> DEFINE q == SubSeq(p, 1, k)
<1>1. q \in Seq(Word) /\ Len(q) = k
    BY SubSeqProperties, ElementOfSeq
<1>2. q # Root
    BY <1>1 DEF Root
<1>3. SubSeq(q, 1, k - 1) = SubSeq(p, 1, k - 1)
  <2>1. CASE k = 1
    BY <2>1, SubSeqEmpty
  <2>2. CASE k # 1
    BY <2>2, SubSeqOfSubSeq, <1>1
  <2> QED BY <2>1, <2>2
<1> QED BY <1>1, <1>2, <1>3 DEF Parent

LEMMA WholeIsPrefix ==
    ASSUME NEW p \in Seq(Word)
    PROVE  /\ SubSeq(p, 1, Len(p)) = p
           /\ SubSeq(p, 1, 0) = Root
           /\ p # Root => Len(p) \in Nat \ {0}
BY SubSeqFull, SubSeqEmpty, EmptySeq DEF Root

LEMMA ConcatIsRootless ==
    ASSUME NEW p \in Seq(Word), NEW r \in Seq(Word), p # Root
    PROVE  p \o r # Root
<1>1. Len(p) \in Nat \ {0} /\ Len(r) \in Nat /\ Len(p \o r) = Len(p) + Len(r)
    BY WholeIsPrefix, LenProperties, ConcatProperties
<1>2. Len(p \o r) # 0
    BY <1>1
<1> QED BY <1>2 DEF Root

LEMMA StemIsPath ==
    ASSUME NEW p \in Seq(Word)
    PROVE  Stem(p) \in Seq(Word) /\ Stem(p) # Root
<1>1. <<EmptyName>> \in Seq(Word)
    BY DEF Word
<1>2. <<EmptyName>> # <<>>
    OBVIOUS
<1> QED BY <1>1, <1>2, Zenon DEF Stem, Root

LEMMA AnySubSeq ==
    ASSUME NEW p \in Seq(Word), NEW r \in Seq(Word)
    PROVE  SubSeq(p, Len(r) + 1, Len(p)) \in Seq(Word)
<1>1. Len(r) \in Nat /\ Len(p) \in Nat
    BY LenProperties
<1>2. \A i \in Len(r) + 1 .. Len(p) : p[i] \in Word
    BY <1>1, ElementOfSeq
<1> QED BY <1>1, <1>2, SubSeqProperties

LEMMA ParentIsPath ==
    ASSUME NEW p \in Seq(Word), p # Root
    PROVE  /\ Parent(p) \in Seq(Word)
           /\ Len(Parent(p)) = Len(p) - 1
           /\ Parent(p) # p
<1>1. Len(p) \in Nat \ {0} /\ SubSeq(p, 1, Len(p)) = p
    BY WholeIsPrefix
<1>2. \A i \in 1..Len(p) - 1 : p[i] \in Word
    BY ElementOfSeq, <1>1
<1>3. /\ SubSeq(p, 1, Len(p) - 1) \in Seq(Word)
      /\ Len(SubSeq(p, 1, Len(p) - 1)) = Len(p) - 1
    BY SubSeqProperties, <1>1, <1>2
<1>4. Parent(p) = SubSeq(p, 1, Len(p) - 1)
    BY DEF Parent
<1>5. Len(Parent(p)) = Len(p) - 1
    BY <1>3, <1>4, Zenon
<1>6. \A n \in Nat : n - 1 # n
    OBVIOUS
<1>7. Parent(p) # p
    BY <1>1, <1>5, <1>6, Zenon
<1> QED BY <1>3, <1>4, <1>5, <1>7

LEMMA BelowOfParent ==
    ASSUME NEW p \in Seq(Word), NEW q \in Seq(Word), q # Root, AtOrBelow(Parent(q), p)
    PROVE  AtOrBelow(q, p)
<1>1. /\ Len(p) \in Nat /\ Len(q) \in Nat \ {0}
      /\ Len(Parent(q)) = Len(q) - 1
    BY ParentIsPath, WholeIsPrefix, LenProperties
<1>2. /\ Len(p) <= Len(q) - 1
      /\ SubSeq(SubSeq(q, 1, Len(q) - 1), 1, Len(p)) = p
    BY <1>1 DEF AtOrBelow, Parent
<1>3. CASE Len(p) = 0
    BY <1>1, <1>2, <1>3, SubSeqEmpty DEF AtOrBelow
<1>4. CASE Len(p) # 0
  <2>1. SubSeq(SubSeq(q, 1, Len(q) - 1), 1, Len(p)) = SubSeq(q, 1, Len(p))
    BY <1>1, <1>2, <1>4, SubSeqOfSubSeq
  <2> QED BY <1>1, <1>2, <2>1 DEF AtOrBelow
<1> QED BY <1>3, <1>4

-----------------------------------------------------------------------------
(* What the operations do to a tree *)

\* A tree whose keys are paths, with nodes of two kinds and a root.
Tree(t) ==
    /\ DOMAIN t \subseteq Seq(Word)
    /\ \A p \in DOMAIN t : t[p].kind \in {"Dir", "File"}
    /\ IsDir(t, Root)

LEMMA InsertKeepsTree ==
    ASSUME NEW t, Tree(t), Hangs(t), NEW p \in Seq(Word), NEW n, n.kind \in {"Dir", "File"}
    PROVE  /\ Tree(Insert(t, p, n).tree)
           /\ Hangs(Insert(t, p, n).tree)
<1>1. CASE p \in DOMAIN t \/ ~IsDir(t, Parent(p))
    BY <1>1 DEF Insert, Done, Refused, IsDir
<1>2. CASE p \notin DOMAIN t /\ IsDir(t, Parent(p))
  <2>1. Insert(t, p, n).tree = Put(t, p, n)
    BY <1>2 DEF Insert, Done, IsDir
  <2>2. /\ DOMAIN Put(t, p, n) = DOMAIN t \cup {p}
        /\ \A q \in DOMAIN t \cup {p} : Put(t, p, n)[q] = IF q = p THEN n ELSE t[q]
    BY DEF Put
  <2>3. \A q : IsDir(t, q) => IsDir(Put(t, p, n), q)
    BY <1>2, <2>2 DEF IsDir
  <2>4. Tree(Put(t, p, n))
    BY <2>2, <2>3 DEF Tree
  <2>5. Hangs(Put(t, p, n))
    BY <1>2, <2>2, <2>3 DEF Hangs
  <2> QED BY <2>1, <2>4, <2>5
<1> QED BY <1>1, <1>2

LEMMA MkdirPKeepsTree ==
    ASSUME NEW t, Tree(t), Hangs(t), NEW p \in Seq(Word)
    PROVE  /\ Tree(MkdirP(t, p).tree)
           /\ Hangs(MkdirP(t, p).tree)
<1> DEFINE K == IF Blocked(t, p) = {} THEN Missing(t, p)
                ELSE {k \in Missing(t, p) : \A b \in Blocked(t, p) : k < b}
           u == WithDirs(t, p, K)
<1>1. MkdirP(t, p).tree = u
    BY DEF MkdirP, Done, Refused
<1>2. Len(p) \in Nat /\ K \subseteq 1..Len(p) /\ \A k \in K : k \notin Blocked(t, p)
    BY LenProperties DEF Missing, Blocked
<1>3. \A k \in K : k - 1 \in Missing(t, p) => k - 1 \in K
    BY <1>2 DEF Missing, Blocked
<1> HIDE DEF K
<1>4. /\ DOMAIN u = DOMAIN t \cup {SubSeq(p, 1, k) : k \in K}
      /\ \A q \in DOMAIN u : u[q] = IF q \in DOMAIN t THEN t[q] ELSE DirNode
    BY DEF WithDirs
<1> HIDE DEF u
<1>5. \A q : IsDir(t, q) => IsDir(u, q)
    BY <1>4 DEF IsDir
<1>6. DirNode.kind = "Dir"
    BY DEF DirNode
<1>7. Tree(u)
  <2>1. ASSUME NEW k \in K PROVE SubSeq(p, 1, k) \in Seq(Word)
    BY <1>2, PrefixOf
  <2>2. DOMAIN u \subseteq Seq(Word)
    BY <1>4, <2>1 DEF Tree
  <2>3. \A q \in DOMAIN u : u[q].kind \in {"Dir", "File"}
    BY <1>4, <1>6 DEF Tree
  <2> QED BY <2>2, <2>3, <1>5 DEF Tree
<1>8. ASSUME NEW q \in DOMAIN u, q # Root PROVE IsDir(u, Parent(q))
  <2>1. CASE q \in DOMAIN t
    BY <2>1, <1>5, <1>8 DEF Hangs
  <2>2. CASE q \notin DOMAIN t
    <3>1. PICK k \in K : q = SubSeq(p, 1, k)
      BY <1>4, <2>2
    <3>2. Parent(q) = SubSeq(p, 1, k - 1)
      BY <1>2, <3>1, PrefixOf
    <3>3. CASE k = 1
      <4>1. Parent(q) = Root
        BY <3>2, <3>3, WholeIsPrefix
      <4> QED BY <4>1, <1>5 DEF Tree
    <3>4. CASE k # 1 /\ Parent(q) \in DOMAIN t
      <4>1. k \in Missing(t, p) /\ k \notin Blocked(t, p)
        BY <1>2, <2>2, <3>1 DEF Missing
      <4> QED BY <3>2, <3>4, <4>1, <1>5 DEF Blocked
    <3>5. CASE k # 1 /\ Parent(q) \notin DOMAIN t
      <4>1. k - 1 \in Missing(t, p)
        BY <1>2, <3>2, <3>5 DEF Missing
      <4>2. Parent(q) \in DOMAIN u
        BY <4>1, <1>3, <1>4, <3>2
      <4> QED BY <4>2, <3>5, <1>4, <1>6 DEF IsDir
    <3> QED BY <3>3, <3>4, <3>5
  <2> QED BY <2>1, <2>2
<1> QED BY <1>1, <1>7, <1>8 DEF Hangs

LEMMA TouchKeepsTree ==
    ASSUME NEW t, Tree(t), Hangs(t), NEW p \in Seq(Word)
    PROVE  /\ Tree(Touch(t, p).tree)
           /\ Hangs(Touch(t, p).tree)
<1>1. FileNode(<<>>).kind \in {"Dir", "File"}
    BY DEF FileNode
<1> QED BY <1>1, InsertKeepsTree DEF Touch

LEMMA WriteKeepsTree ==
    ASSUME NEW t, Tree(t), Hangs(t), NEW p \in Seq(Word), NEW d, NEW append
    PROVE  /\ Tree(WriteFile(t, p, d, append).tree)
           /\ Hangs(WriteFile(t, p, d, append).tree)
<1> DEFINE r == Touch(t, p)
           c == IF append THEN r.tree[p].data \o d ELSE d
           w == Put(r.tree, p, FileNode(c))
<1>1. Tree(r.tree) /\ Hangs(r.tree)
    BY TouchKeepsTree
<1>2. CASE r.err # "none" \/ ~IsFile(r.tree, p)
    BY <1>1, <1>2 DEF WriteFile, Refused
<1>3. CASE r.err = "none" /\ IsFile(r.tree, p)
  <2>1. WriteFile(t, p, d, append).tree = w
    BY <1>3 DEF WriteFile, Done
  <2>2. FileNode(c).kind = "File"
    BY DEF FileNode
  <2> HIDE DEF r, c
  <2>3. /\ DOMAIN w = DOMAIN r.tree
        /\ \A q \in DOMAIN w : w[q] = IF q = p THEN FileNode(c) ELSE r.tree[q]
    BY <1>3 DEF Put, IsFile
  <2> HIDE DEF w
  <2>4. \A q : IsDir(r.tree, q) => IsDir(w, q)
    BY <2>3, <1>3 DEF IsDir, IsFile
  <2>5. Tree(w)
    BY <1>1, <2>2, <2>3, <2>4 DEF Tree
  <2>6. Hangs(w)
    BY <1>1, <2>3, <2>4 DEF Hangs
  <2> QED BY <2>1, <2>5, <2>6
<1> QED BY <1>2, <1>3

LEMMA RemoveKeepsTree ==
    ASSUME NEW t, Tree(t), Hangs(t), NEW p \in Seq(Word)
    PROVE  /\ Tree(Remove(t, p).tree)
           /\ Hangs(Remove(t, p).tree)
<1> DEFINE u == [q \in {x \in DOMAIN t : ~AtOrBelow(x, p)} |-> t[q]]
<1>1. CASE p = Root \/ p \notin DOMAIN t
    BY <1>1 DEF Remove, Refused
<1>2. CASE p # Root /\ p \in DOMAIN t
  <2>1. Remove(t, p).tree = u
    BY <1>2 DEF Remove, Done
  <2>2. /\ DOMAIN u = {x \in DOMAIN t : ~AtOrBelow(x, p)}
        /\ \A q \in DOMAIN u : u[q] = t[q]
    OBVIOUS
  <2> HIDE DEF u
  <2>3. ~AtOrBelow(Root, p)
    <3>1. Len(p) \in Nat \ {0} /\ Len(Root) = 0
      BY <1>2, WholeIsPrefix DEF Root
    <3> QED BY <3>1 DEF AtOrBelow
  <2>4. Tree(u)
    BY <2>2, <2>3 DEF Tree, IsDir
  <2>5. ASSUME NEW q \in DOMAIN u, q # Root PROVE IsDir(u, Parent(q))
    <3>1. IsDir(t, Parent(q)) /\ q \in Seq(Word)
      BY <2>2, <2>5 DEF Hangs, Tree
    <3>2. ~AtOrBelow(Parent(q), p)
      BY <2>2, <2>5, <3>1, BelowOfParent
    <3> QED BY <3>1, <3>2, <2>2 DEF IsDir
  <2> QED BY <2>1, <2>4, <2>5 DEF Hangs
<1> QED BY <1>1, <1>2

LEMMA CopyKeepsTree ==
    ASSUME NEW t, Tree(t), Hangs(t), NEW from, NEW to \in Seq(Word)
    PROVE  /\ Tree(Copy(t, from, to).tree)
           /\ Hangs(Copy(t, from, to).tree)
BY WriteKeepsTree DEF Copy, Refused

LEMMA MvKeepsTree ==
    ASSUME NEW t, Tree(t), Hangs(t), NEW from \in Seq(Word), NEW to \in Seq(Word)
    PROVE  /\ Tree(Mv(t, from, to).tree)
           /\ Hangs(Mv(t, from, to).tree)
BY CopyKeepsTree, RemoveKeepsTree DEF Mv

-----------------------------------------------------------------------------
(* Types *)

LEMMA NodesHaveKinds == \A n \in Node : n.kind \in {"Dir", "File"}
BY DEF Node, DirNode, FileNode

\* Every operation but a recursive copy onto "/" leaves the root alone; that
\* one puts a directory there.
LEMMA GraftKeepsRoot ==
    ASSUME NEW t, Tree(t), NEW from \in Seq(Word), IsDir(t, from), NEW to \in Seq(Word)
    PROVE  IsDir(Grafted(t, from, to), Root)
<1> DEFINE T == {Moved(q, from, to) : q \in Sources(t, from)}
           g == Grafted(t, from, to)
<1>1. /\ DOMAIN g = DOMAIN t \cup T
      /\ \A p \in DOMAIN g : g[p] = IF p \in T THEN t[Moved(p, to, from)] ELSE t[p]
    BY DEF Grafted
<1> HIDE DEF g
<1>2. CASE Root \in T
  <2>1. to = Root
    <3>1. PICK q \in Sources(t, from) : Root = Moved(q, from, to)
      BY <1>2
    <3>2. CASE q # from
      <4>1. Root = Stem(to) \o SubSeq(q, Len(Stem(from)) + 1, Len(q))
        BY <3>1, <3>2 DEF Moved
      <4>2. Stem(to) \in Seq(Word) /\ Stem(to) # Root /\ Stem(from) \in Seq(Word)
        BY StemIsPath
      <4>3. q \in Seq(Word)
        BY DEF Sources, Tree
      <4>4. SubSeq(q, Len(Stem(from)) + 1, Len(q)) \in Seq(Word)
        BY AnySubSeq, <4>2, <4>3, Zenon
      <4> QED BY <4>1, <4>2, <4>4, ConcatIsRootless, Zenon
    <3>3. CASE q = from
      BY <3>1, <3>3 DEF Moved
    <3> QED BY <3>2, <3>3
  <2>2. g[Root] = t[from]
    BY <1>1, <1>2, <2>1 DEF Moved
  <2>3. Root \in DOMAIN g
    BY <1>1, <1>2
  <2>4. IsDir(g, Root)
    BY <2>2, <2>3, Zenon DEF IsDir
  <2> QED BY <2>4 DEF g
<1>3. CASE Root \notin T
  <2>1. IsDir(g, Root)
    BY <1>1, <1>3 DEF IsDir, Tree
  <2> QED BY <2>1 DEF g
<1> QED BY <1>2, <1>3

\* What becomes of any tree with a root, and what the errors are.
Rooted(t) == IsDir(t, Root) /\ t = [q \in DOMAIN t |-> t[q]]
Sound(r) == Rooted(r.tree) /\ r.err \in Errors

LEMMA InsertSound ==
    ASSUME NEW t, Rooted(t), NEW p, NEW n
    PROVE  Sound(Insert(t, p, n))
<1>1. ASSUME p \notin DOMAIN t PROVE Rooted(Put(t, p, n))
    BY <1>1 DEF Put, Rooted, IsDir
<1> QED BY <1>1 DEF Insert, Sound, Done, Refused, Errors

LEMMA WriteSound ==
    ASSUME NEW t, Rooted(t), NEW p, NEW d, NEW append
    PROVE  Sound(WriteFile(t, p, d, append))
<1> DEFINE r == Touch(t, p)
<1>1. Sound(r)
    BY InsertSound DEF Touch
<1> HIDE DEF r
<1>2. ASSUME IsFile(r.tree, p), NEW n PROVE Rooted(Put(r.tree, p, n))
    BY <1>1, <1>2 DEF Sound, Rooted, Put, IsDir, IsFile
<1>3. WriteFile(t, p, d, append) =
        IF r.err # "none" THEN r
        ELSE IF ~IsFile(r.tree, p) THEN Refused(r.tree, "NotFile")
        ELSE Done(Put(r.tree, p, FileNode(IF append THEN r.tree[p].data \o d ELSE d)))
    BY DEF WriteFile, r
<1> QED BY <1>1, <1>2, <1>3 DEF Sound, Refused, Done, Errors

LEMMA RemoveSound ==
    ASSUME NEW t, Rooted(t), NEW p \in Seq(Word)
    PROVE  Sound(Remove(t, p))
<1>1. ASSUME p # Root PROVE ~AtOrBelow(Root, p)
  <2>1. Len(p) \in Nat \ {0} /\ Len(Root) = 0
    BY <1>1, WholeIsPrefix DEF Root
  <2> QED BY <2>1 DEF AtOrBelow
<1>2. ASSUME p # Root PROVE Rooted([q \in {x \in DOMAIN t : ~AtOrBelow(x, p)} |-> t[q]])
    BY <1>1, <1>2 DEF Rooted, IsDir
<1> QED BY <1>2 DEF Remove, Sound, Done, Refused, Errors

LEMMA CopySound ==
    ASSUME NEW t, Rooted(t), NEW from, NEW to
    PROVE  Sound(Copy(t, from, to))
BY WriteSound DEF Copy, Sound, Refused, Errors

LEMMA MvSound ==
    ASSUME NEW t, Rooted(t), NEW from \in Seq(Word), NEW to
    PROVE  Sound(Mv(t, from, to))
<1>1. Sound(Copy(t, from, to))
    BY CopySound
<1>2. Sound(Copy(t, from, to)) => Rooted(Copy(t, from, to).tree)
    BY DEF Sound
<1> QED BY <1>1, <1>2, RemoveSound DEF Mv

LEMMA MkdirPSound ==
    ASSUME NEW t, Rooted(t), NEW p
    PROVE  Sound(MkdirP(t, p))
<1>1. ASSUME NEW K PROVE Rooted(WithDirs(t, p, K))
    BY DEF WithDirs, Rooted, IsDir
<1> QED BY <1>1 DEF MkdirP, Sound, Done, Refused, Errors

LEMMA CopyTreeSound ==
    ASSUME NEW t, Tree(t), Rooted(t), NEW from \in Seq(Word), NEW to \in Seq(Word)
    PROVE  Sound(CopyTree(t, from, to))
<1>1. CASE from \notin DOMAIN t
    BY <1>1 DEF CopyTree, Sound, Refused, Errors
<1>2. CASE IsFile(t, from)
    BY <1>2, CopySound DEF CopyTree, IsFile
<1>3. CASE from \in DOMAIN t /\ ~IsFile(t, from)
  <2>1. IsDir(t, from)
    BY <1>3 DEF Tree, IsFile, IsDir
  <2>2. IsDir(Grafted(t, from, to), Root)
    BY <2>1, GraftKeepsRoot
  <2>3. Grafted(t, from, to) =
            [q \in DOMAIN Grafted(t, from, to) |-> Grafted(t, from, to)[q]]
    BY DEF Grafted
  <2> QED BY <1>3, <2>2, <2>3 DEF CopyTree, Rooted, Sound, Done, Errors
<1> QED BY <1>1, <1>2, <1>3

LEMMA Typed ==
    ASSUME TypeOK
    PROVE  Tree(tree) /\ Rooted(tree)
BY KeysAreSequences, NodesHaveKinds DEF TypeOK, Tree, Rooted

LEMMA SoundBecomesTyped ==
    ASSUME NEW r, Sound(r), Becomes(r)
    PROVE  TypeOK'
BY DEF Sound, Rooted, Becomes, TypeOK

LEMMA TypeStep == TypeOK /\ [Next]_vars => TypeOK'
<1> SUFFICES ASSUME TypeOK, [Next]_vars PROVE TypeOK'
    OBVIOUS
<1> USE Typed
<1>1. Paths \subseteq Seq(Word)
    BY KeysAreSequences
<1>2. ASSUME NEW p \in Paths, Becomes(MkdirP(tree, p)) PROVE TypeOK'
    BY <1>2, MkdirPSound, SoundBecomesTyped
<1>3. ASSUME NEW p \in Paths, Becomes(Touch(tree, p)) PROVE TypeOK'
    BY <1>3, InsertSound, SoundBecomesTyped DEF Touch
<1>4. ASSUME NEW p \in Paths, NEW d \in Data, NEW append \in BOOLEAN,
             Becomes(WriteFile(tree, p, d, append))
      PROVE  TypeOK'
    BY <1>4, WriteSound, SoundBecomesTyped
<1>5. ASSUME NEW p \in Paths, Becomes(Remove(tree, p)) PROVE TypeOK'
    BY <1>1, <1>5, RemoveSound, SoundBecomesTyped
<1>6. ASSUME NEW p \in Paths, Becomes(Chmod(tree, p)) PROVE TypeOK'
  <2>1. Sound(Chmod(tree, p))
    BY DEF Chmod, Sound, Done, Refused, Errors
  <2> QED BY <1>6, <2>1, SoundBecomesTyped
<1>7. ASSUME NEW from \in Paths, NEW to \in Paths, Becomes(Copy(tree, from, to)) PROVE TypeOK'
    BY <1>7, CopySound, SoundBecomesTyped
<1>8. ASSUME NEW from \in Paths, NEW to \in Paths, Becomes(Mv(tree, from, to)) PROVE TypeOK'
    BY <1>1, <1>8, MvSound, SoundBecomesTyped
<1>9. ASSUME NEW from \in Paths, NEW to \in Paths, Becomes(CopyTree(tree, from, to)) PROVE TypeOK'
    BY <1>1, <1>9, CopyTreeSound, SoundBecomesTyped
<1>10. CASE UNCHANGED vars
    BY <1>10 DEF vars, TypeOK
<1> QED BY <1>2, <1>3, <1>4, <1>5, <1>6, <1>7, <1>8, <1>9, <1>10 DEF Next

\* The tree keeps its types and its root, whatever is copied onto it, renamed
\* to it or removed (crates/vfs).
THEOREM TypeCorrect == Spec => []TypeOK
<1>1. Init => TypeOK
  <2> SUFFICES ASSUME Init PROVE TypeOK
    OBVIOUS
  <2>1. Root \in Keys
    BY VfsAssumption DEF Keys, Paths, Root
  <2> QED BY <2>1 DEF Init, TypeOK, NewTree, IsDir, DirNode, Node, Errors
<1> QED BY <1>1, TypeStep, PTL DEF Spec

-----------------------------------------------------------------------------
(* Only recursive copies break the tree *)

LEMMA OnlyGraftsBreak ==
    ASSUME TypeOK, [Next]_vars, Hangs(tree)
    PROVE  \/ Hangs(tree')
           \/ \E from, to \in Paths : IsDir(tree, from) /\ tree' = Grafted(tree, from, to)
<1> USE Typed
<1>1. Paths \subseteq Seq(Word)
    BY KeysAreSequences
<1>2. ASSUME NEW p \in Paths, Becomes(MkdirP(tree, p)) PROVE Hangs(tree')
    BY <1>1, <1>2, MkdirPKeepsTree DEF Becomes
<1>3. ASSUME NEW p \in Paths, Becomes(Touch(tree, p)) PROVE Hangs(tree')
    BY <1>1, <1>3, TouchKeepsTree DEF Becomes
<1>4. ASSUME NEW p \in Paths, NEW d \in Data, NEW append \in BOOLEAN,
             Becomes(WriteFile(tree, p, d, append))
      PROVE  Hangs(tree')
    BY <1>1, <1>4, WriteKeepsTree DEF Becomes
<1>5. ASSUME NEW p \in Paths, Becomes(Remove(tree, p)) PROVE Hangs(tree')
    BY <1>1, <1>5, RemoveKeepsTree DEF Becomes
<1>6. ASSUME NEW p \in Paths, Becomes(Chmod(tree, p)) PROVE Hangs(tree')
    BY <1>6 DEF Becomes, Chmod, Done, Refused
<1>7. ASSUME NEW from \in Paths, NEW to \in Paths, Becomes(Copy(tree, from, to)) PROVE Hangs(tree')
    BY <1>1, <1>7, CopyKeepsTree DEF Becomes
<1>8. ASSUME NEW from \in Paths, NEW to \in Paths, Becomes(Mv(tree, from, to)) PROVE Hangs(tree')
    BY <1>1, <1>8, MvKeepsTree DEF Becomes
<1>9. ASSUME NEW from \in Paths, NEW to \in Paths, Becomes(CopyTree(tree, from, to))
      PROVE  Hangs(tree') \/ (IsDir(tree, from) /\ tree' = Grafted(tree, from, to))
  <2>1. CASE from \notin DOMAIN tree
    BY <1>9, <2>1 DEF Becomes, CopyTree, Refused
  <2>2. CASE IsFile(tree, from)
    BY <1>1, <1>9, <2>2, CopyKeepsTree DEF Becomes, CopyTree, IsFile
  <2>3. CASE from \in DOMAIN tree /\ ~IsFile(tree, from)
    BY <1>9, <2>3 DEF Becomes, CopyTree, Done, Tree, IsFile, IsDir
  <2> QED BY <2>1, <2>2, <2>3
<1>10. CASE UNCHANGED vars
    BY <1>10 DEF vars
<1> QED BY <1>2, <1>3, <1>4, <1>5, <1>6, <1>7, <1>8, <1>9, <1>10 DEF Next

\* A tree stays a tree but for recursive copies of directories, for any names,
\* depths and sequence of calls (crates/vfs).
THEOREM GraftsAlone == Spec => OnlyGraftsBreakTheTree
<1>1. TypeOK /\ [Next]_vars =>
        [\/ Hangs(tree) => Hangs(tree')
         \/ \E from, to \in Paths : IsDir(tree, from) /\ tree' = Grafted(tree, from, to)]_vars
    BY OnlyGraftsBreak
<1> QED BY <1>1, TypeCorrect, PTL DEF Spec, OnlyGraftsBreakTheTree

-----------------------------------------------------------------------------
(* Refused operations change nothing *)

\* A tree holds every name above a name it holds: Hangs says so of one level,
\* and the lowest level that is there has its parent there too.
LEMMA PrefixesAreThere ==
    ASSUME NEW t, Hangs(t), NEW p \in Seq(Word),
           NEW j \in 1..Len(p), SubSeq(p, 1, j) \in DOMAIN t,
           NEW k \in 1..j
    PROVE  SubSeq(p, 1, k) \in DOMAIN t
<1> SUFFICES ASSUME SubSeq(p, 1, k) \notin DOMAIN t PROVE FALSE
    OBVIOUS
<1> DEFINE T == {i \in k..j : SubSeq(p, 1, i) \in DOMAIN t}
<1>1. T \subseteq Nat /\ j \in T
    BY LenProperties
<1>2. PICK i \in T : \A y \in T : i <= y
    BY <1>1, Least
<1>3. i \in 1..Len(p) /\ i \in k..j /\ i # k /\ SubSeq(p, 1, i) \in DOMAIN t
    BY LenProperties
<1>4. SubSeq(p, 1, i) # Root /\ Parent(SubSeq(p, 1, i)) = SubSeq(p, 1, i - 1)
    BY <1>3, PrefixOf
<1>5. SubSeq(p, 1, i - 1) \in DOMAIN t
    BY <1>3, <1>4 DEF Hangs, IsDir
<1>6. i - 1 \in T
    BY <1>3, <1>5
<1> QED BY <1>2, <1>3, <1>6

\* r is an outcome that is an error only when it is t unchanged.
AllOrNothing(t, r) == r.err # "none" => r.tree = t

LEMMA MkdirPAllOrNothing ==
    ASSUME NEW t, Rooted(t), Hangs(t), NEW p \in Seq(Word)
    PROVE  AllOrNothing(t, MkdirP(t, p))
<1> DEFINE K == {k \in Missing(t, p) : \A b \in Blocked(t, p) : k < b}
<1>1. CASE Blocked(t, p) = {}
    BY <1>1 DEF MkdirP, Done, AllOrNothing
<1>2. CASE Blocked(t, p) # {}
  <2>1. PICK b \in Blocked(t, p) : TRUE
    BY <1>2
  <2>2. b \in 1..Len(p) /\ SubSeq(p, 1, b - 1) \in DOMAIN t /\ Len(p) \in Nat
    BY LenProperties DEF Blocked, Missing
  <2>3. ASSUME NEW k \in K PROVE FALSE
    <3>1. k \in 1..Len(p) /\ SubSeq(p, 1, k) \notin DOMAIN t /\ k < b
      BY <2>1 DEF Missing
    <3>2. b - 1 \in 1..Len(p) /\ k \in 1..(b - 1)
      BY <2>2, <3>1
    <3> QED BY <2>2, <3>1, <3>2, PrefixesAreThere
  <2>4. K = {}
    BY <2>3
  <2>5. WithDirs(t, p, {}) = t
    BY DEF WithDirs, Rooted
  <2>6. MkdirP(t, p).tree = WithDirs(t, p, K)
    BY <1>2 DEF MkdirP, Refused
  <2> QED BY <2>4, <2>5, <2>6 DEF AllOrNothing
<1> QED BY <1>1, <1>2

LEMMA WriteAllOrNothing ==
    ASSUME NEW t, NEW p, NEW d, NEW append
    PROVE  AllOrNothing(t, WriteFile(t, p, d, append))
<1> DEFINE r == Touch(t, p)
<1>1. r = Insert(t, p, FileNode(<<>>))
    BY DEF Touch
<1>2. CASE p \in DOMAIN t \/ ~IsDir(t, Parent(p))
  <2>1. r.tree = t
    BY <1>1, <1>2 DEF Insert, Done, Refused, IsDir
  <2> HIDE DEF r
  <2>2. WriteFile(t, p, d, append).err # "none" => WriteFile(t, p, d, append).tree = r.tree
    BY DEF WriteFile, Refused, Done, r
  <2> QED BY <2>1, <2>2 DEF AllOrNothing
<1>3. CASE p \notin DOMAIN t /\ IsDir(t, Parent(p))
  <2>1. r = Done(Put(t, p, FileNode(<<>>)))
    BY <1>1, <1>3 DEF Insert, IsDir
  <2>2. IsFile(Put(t, p, FileNode(<<>>)), p)
    BY DEF Put, IsFile, FileNode
  <2>3. r.err = "none" /\ IsFile(r.tree, p)
    BY <2>1, <2>2 DEF Done
  <2>4. WriteFile(t, p, d, append).err = "none"
    BY <2>3 DEF WriteFile, Done
  <2> QED BY <2>4 DEF AllOrNothing
<1> QED BY <1>2, <1>3

LEMMA CopyAllOrNothing ==
    ASSUME NEW t, NEW from, NEW to
    PROVE  AllOrNothing(t, Copy(t, from, to))
BY WriteAllOrNothing DEF Copy, AllOrNothing, Refused

LEMMA WriteKeepsNames ==
    ASSUME NEW t, NEW p, NEW d, NEW append
    PROVE  DOMAIN t \subseteq DOMAIN WriteFile(t, p, d, append).tree
<1> DEFINE r == Touch(t, p)
<1>1. DOMAIN t \subseteq DOMAIN r.tree
    BY DEF Touch, Insert, Done, Refused, Put
<1> HIDE DEF r
<1>2. \A n : DOMAIN r.tree \subseteq DOMAIN Put(r.tree, p, n)
    BY DEF Put
<1> QED BY <1>1, <1>2 DEF WriteFile, Done, Refused, r

\* mv removes only what it has copied, so the removal cannot fail.
LEMMA MvAllOrNothing ==
    ASSUME NEW t, Rooted(t), NEW from, NEW to
    PROVE  AllOrNothing(t, Mv(t, from, to))
<1> DEFINE r == Copy(t, from, to)
<1>1. CASE r.err # "none"
    BY <1>1, CopyAllOrNothing DEF Mv, AllOrNothing
<1>2. CASE r.err = "none"
  <2>1. IsFile(t, from)
    BY <1>2 DEF Copy, Refused
  <2>2. from # Root
    BY <2>1 DEF Rooted, IsFile, IsDir
  <2>3. from \in DOMAIN r.tree
    BY <2>1, WriteKeepsNames DEF Copy, IsFile
  <2>4. Mv(t, from, to).err = "none"
    BY <1>2, <2>2, <2>3 DEF Mv, Remove, Done
  <2> QED BY <2>4 DEF AllOrNothing
<1> QED BY <1>1, <1>2

LEMMA RefusedChangesNone ==
    ASSUME TypeOK, Next, Hangs(tree), reply' # "none"
    PROVE  tree' = tree
<1>1. Tree(tree) /\ Rooted(tree) /\ Paths \subseteq Seq(Word)
    BY Typed, KeysAreSequences
<1>2. ASSUME NEW r, Becomes(r), AllOrNothing(tree, r) PROVE tree' = tree
    BY <1>2 DEF Becomes, AllOrNothing
<1>3. ASSUME NEW p \in Paths, Becomes(MkdirP(tree, p)) PROVE tree' = tree
    BY <1>1, <1>2, <1>3, MkdirPAllOrNothing
<1>4. ASSUME NEW p \in Paths, Becomes(Touch(tree, p)) PROVE tree' = tree
  <2>1. AllOrNothing(tree, Touch(tree, p))
    BY DEF Touch, Insert, AllOrNothing, Done, Refused
  <2> QED BY <1>2, <1>4, <2>1
<1>5. ASSUME NEW p \in Paths, NEW d \in Data, NEW append \in BOOLEAN,
             Becomes(WriteFile(tree, p, d, append))
      PROVE  tree' = tree
    BY <1>2, <1>5, WriteAllOrNothing
<1>6. ASSUME NEW p \in Paths, Becomes(Remove(tree, p)) PROVE tree' = tree
  <2>1. AllOrNothing(tree, Remove(tree, p))
    BY DEF Remove, AllOrNothing, Done, Refused
  <2> QED BY <1>2, <1>6, <2>1
<1>7. ASSUME NEW p \in Paths, Becomes(Chmod(tree, p)) PROVE tree' = tree
    BY <1>7 DEF Becomes, Chmod, Done, Refused
<1>8. ASSUME NEW from \in Paths, NEW to \in Paths, Becomes(Copy(tree, from, to)) PROVE tree' = tree
    BY <1>2, <1>8, CopyAllOrNothing
<1>9. ASSUME NEW from \in Paths, NEW to \in Paths, Becomes(Mv(tree, from, to)) PROVE tree' = tree
    BY <1>1, <1>2, <1>9, MvAllOrNothing
<1>10. ASSUME NEW from \in Paths, NEW to \in Paths, Becomes(CopyTree(tree, from, to)) PROVE tree' = tree
  <2>1. AllOrNothing(tree, CopyTree(tree, from, to))
    BY CopyAllOrNothing DEF CopyTree, AllOrNothing, Done, Refused
  <2> QED BY <1>2, <1>10, <2>1
<1> QED BY <1>3, <1>4, <1>5, <1>6, <1>7, <1>8, <1>9, <1>10 DEF Next

\* In a tree nothing stops half way: mkdir_p, write_file and mv either finish
\* or leave every node as it was (crates/vfs).
THEOREM AllOrNothingHolds == Spec => RefusedChangesNothing
<1>1. TypeOK /\ [Next]_vars =>
        [Hangs(tree) /\ reply' # "none" => tree' = tree]_vars
    BY RefusedChangesNone
<1> QED BY <1>1, TypeCorrect, PTL DEF Spec, RefusedChangesNothing

-----------------------------------------------------------------------------
(* The files of the tree are a FileStore *)

FilesOf(t) == [p \in {q \in DOMAIN t : IsFile(t, q)} |-> t[p].data]

LEMMA FilesAre ==
    ASSUME NEW t
    PROVE  /\ DOMAIN FilesOf(t) = {q \in DOMAIN t : IsFile(t, q)}
           /\ \A p \in DOMAIN FilesOf(t) : FilesOf(t)[p] = t[p].data
           /\ \A p : p \in DOMAIN FilesOf(t) <=> IsFile(t, p)
BY DEF FilesOf, IsFile

\* The steps of the store, from the files f to the files g.
Wrote(f, g, k, c) == g = [x \in DOMAIN f \cup {k} |-> IF x = k THEN c ELSE f[x]]
Dropped(f, g, r) == g = [k \in DOMAIN f \ {x \in DOMAIN f : AtOrBelow(x, r)} |-> f[k]]
Renamed(f, g, k, to) ==
    /\ k \in DOMAIN f
    /\ g = [x \in {y \in DOMAIN f \cup {to} : ~AtOrBelow(y, k)} |-> IF x = to THEN f[k] ELSE f[x]]
Laid(f, g, from, to, K, L) ==
    /\ K \in SUBSET {k \in DOMAIN f : AtOrBelow(k, from)}
    /\ L \in SUBSET {k \in DOMAIN f : AtOrBelow(k, to)}
    /\ DOMAIN g = (DOMAIN f \ L) \cup {Moved(k, from, to) : k \in K}
    /\ \A k \in K : g[Moved(k, from, to)] = f[k]
    /\ \A k \in (DOMAIN f \ L) \ {Moved(x, from, to) : x \in K} : g[k] = f[k]
StoreStep(f, g) ==
    \/ g = f
    \/ \E k \in Keys, c \in Data : Wrote(f, g, k, c)
    \/ \E r \in Keys : Dropped(f, g, r)
    \/ \E k, to \in Keys : Renamed(f, g, k, to)
    \/ \E from, to \in Keys, K, L \in SUBSET DOMAIN f : Laid(f, g, from, to, K, L)

LEMMA StoreSteps ==
    ASSUME StoreStep(FilesOf(tree), FilesOf(tree'))
    PROVE  [Store!Next]_[p \in Files |-> tree[p].data]
<1> DEFINE f == [p \in Files |-> tree[p].data]
<1>1. f = FilesOf(tree) /\ f' = FilesOf(tree')
    BY DEF Files, FilesOf
<1>2. StoreStep(f, f')
    BY <1>1
<1>3. CASE f' = f
    BY <1>3
<1>4. ASSUME NEW k \in Keys, NEW c \in Data, Wrote(f, f', k, c) PROVE Store!Next
    BY <1>4 DEF Store!Next, Store!Write, Store!Held, Wrote
<1>5. ASSUME NEW r \in Keys, Dropped(f, f', r) PROVE Store!Next
    BY <1>5 DEF Store!Next, Store!Drop, Store!Held, Store!Without, Dropped
<1>6. ASSUME NEW k \in Keys, NEW to \in Keys, Renamed(f, f', k, to) PROVE Store!Next
    BY <1>6 DEF Store!Next, Store!Rename, Store!Held, Renamed
<1>7. ASSUME NEW from \in Keys, NEW to \in Keys, NEW K, NEW L, Laid(f, f', from, to, K, L)
      PROVE  Store!Next
    <2>1. Store!Graft(from, to)
        BY <1>7 DEF Store!Graft, Store!Held, Laid
    <2> QED BY <2>1 DEF Store!Next
<1> QED BY <1>2, <1>3, <1>4, <1>5, <1>6, <1>7 DEF StoreStep

\* A tree whose keys and nodes are those of Vfs.
Proper(t) == Tree(t) /\ DOMAIN t \subseteq Keys /\ \A p \in DOMAIN t : t[p] \in Node

LEMMA FileData ==
    ASSUME NEW t, Proper(t), NEW p, IsFile(t, p)
    PROVE  p \in Keys /\ t[p].data \in Data
<1>1. t[p] \in Node /\ t[p].kind = "File" /\ p \in Keys
    BY DEF Proper, IsFile
<1> QED BY <1>1 DEF Node, DirNode, FileNode

LEMMA SameFiles ==
    ASSUME NEW t, NEW u, \A p : IsFile(u, p) <=> IsFile(t, p),
           \A p : IsFile(t, p) => u[p].data = t[p].data
    PROVE  FilesOf(u) = FilesOf(t)
<1>1. {q \in DOMAIN u : IsFile(u, q)} = {q \in DOMAIN t : IsFile(t, q)}
    BY DEF IsFile
<1> QED BY <1>1 DEF FilesOf

\* One file is written and no other changes.
OnlyAt(t, u, p) ==
    /\ IsFile(u, p)
    /\ \A q : q # p => (IsFile(u, q) <=> IsFile(t, q)) /\ (IsFile(t, q) => u[q].data = t[q].data)

LEMMA FileWritten ==
    ASSUME NEW t, NEW u, NEW p, OnlyAt(t, u, p)
    PROVE  Wrote(FilesOf(t), FilesOf(u), p, u[p].data)
<1> DEFINE f == FilesOf(t)
           g == FilesOf(u)
<1>0. /\ \A q : q \in DOMAIN f <=> IsFile(t, q)
      /\ \A q : q \in DOMAIN g <=> IsFile(u, q)
      /\ \A q \in DOMAIN f : f[q] = t[q].data
      /\ \A q \in DOMAIN g : g[q] = u[q].data
    BY FilesAre
<1> HIDE DEF f, g
<1>1. DOMAIN g = DOMAIN f \cup {p}
    BY <1>0 DEF OnlyAt
<1>2. ASSUME NEW x \in DOMAIN f \cup {p}
      PROVE  g[x] = IF x = p THEN u[p].data ELSE f[x]
    BY <1>0, <1>1 DEF OnlyAt
<1>3. g = [x \in DOMAIN g |-> g[x]]
    BY DEF FilesOf, g
<1> QED BY <1>1, <1>2, <1>3 DEF Wrote, f, g

LEMMA MkdirPIsSilent ==
    ASSUME NEW t, NEW p
    PROVE  FilesOf(MkdirP(t, p).tree) = FilesOf(t)
<1>1. PICK K : MkdirP(t, p).tree = WithDirs(t, p, K)
    BY DEF MkdirP, Done, Refused
<1>2. ASSUME NEW q PROVE /\ IsFile(WithDirs(t, p, K), q) <=> IsFile(t, q)
                         /\ IsFile(t, q) => WithDirs(t, p, K)[q].data = t[q].data
    BY DEF WithDirs, IsFile, DirNode
<1> QED BY <1>1, <1>2, SameFiles

LEMMA TouchWrites ==
    ASSUME NEW t, NEW p
    PROVE  \/ Touch(t, p).tree = t
           \/ Touch(t, p).tree = Put(t, p, FileNode(<<>>)) /\ p \notin DOMAIN t
BY DEF Touch, Insert, Done, Refused

LEMMA PutFile ==
    ASSUME NEW t, NEW p, NEW d
    PROVE  /\ IsFile(Put(t, p, FileNode(d)), p) /\ Put(t, p, FileNode(d))[p].data = d
           /\ \A q : q # p => /\ IsFile(Put(t, p, FileNode(d)), q) <=> IsFile(t, q)
                              /\ IsFile(t, q) => Put(t, p, FileNode(d))[q].data = t[q].data
BY DEF Put, IsFile, FileNode

LEMMA TouchStores ==
    ASSUME NEW t, NEW p, Proper(Touch(t, p).tree)
    PROVE  StoreStep(FilesOf(t), FilesOf(Touch(t, p).tree))
<1>1. CASE Touch(t, p).tree = t
    BY <1>1 DEF StoreStep
<1>2. CASE Touch(t, p).tree = Put(t, p, FileNode(<<>>))
    <2> DEFINE u == Touch(t, p).tree
    <2>1. OnlyAt(t, u, p)
        BY <1>2, PutFile DEF OnlyAt
    <2> HIDE DEF u
    <2>2. Wrote(FilesOf(t), FilesOf(u), p, u[p].data)
        BY <2>1, FileWritten
    <2>3. p \in Keys /\ u[p].data \in Data
        BY <2>1, FileData DEF u, OnlyAt
    <2> QED BY <2>2, <2>3 DEF StoreStep, u
<1> QED BY <1>1, <1>2, TouchWrites

LEMMA WriteWrites ==
    ASSUME NEW t, NEW p, NEW d, NEW append
    PROVE  \/ WriteFile(t, p, d, append).tree = t
           \/ OnlyAt(t, WriteFile(t, p, d, append).tree, p)
<1> DEFINE r == Touch(t, p)
           c == IF append THEN r.tree[p].data \o d ELSE d
           u == WriteFile(t, p, d, append).tree
<1>1. CASE r.err # "none"
    BY <1>1 DEF WriteFile, Touch, Insert, Done, Refused
<1>2. CASE r.err = "none" /\ ~IsFile(r.tree, p)
    <2>1. r.tree = t
        BY <1>2, TouchWrites, PutFile
    <2> QED BY <1>2, <2>1 DEF WriteFile, Refused
<1>3. CASE r.err = "none" /\ IsFile(r.tree, p)
    <2>1. u = Put(r.tree, p, FileNode(c))
        BY <1>3 DEF WriteFile, Done
    <2> HIDE DEF r, c
    <2>2. \A q : q # p => (IsFile(r.tree, q) <=> IsFile(t, q)) /\ (IsFile(t, q) => r.tree[q].data = t[q].data)
        BY TouchWrites, PutFile DEF r
    <2>3. /\ IsFile(u, p)
          /\ \A q : q # p => /\ IsFile(u, q) <=> IsFile(r.tree, q)
                             /\ IsFile(r.tree, q) => u[q].data = r.tree[q].data
        BY <2>1, PutFile
    <2> HIDE DEF u
    <2>4. OnlyAt(t, u, p)
        BY <2>2, <2>3 DEF OnlyAt
    <2> QED BY <2>4 DEF u
<1> QED BY <1>1, <1>2, <1>3

LEMMA WriteStores ==
    ASSUME NEW t, NEW p, NEW d, NEW append, Proper(WriteFile(t, p, d, append).tree)
    PROVE  StoreStep(FilesOf(t), FilesOf(WriteFile(t, p, d, append).tree))
<1> DEFINE u == WriteFile(t, p, d, append).tree
<1>1. CASE u = t
    BY <1>1 DEF StoreStep
<1>2. CASE OnlyAt(t, u, p)
    <2> HIDE DEF u
    <2>1. Wrote(FilesOf(t), FilesOf(u), p, u[p].data)
        BY <1>2, FileWritten
    <2>2. p \in Keys /\ u[p].data \in Data
        BY <1>2, FileData DEF u, OnlyAt
    <2> QED BY <2>1, <2>2 DEF StoreStep, u
<1> QED BY <1>1, <1>2, WriteWrites

Pruned(t, p) == [q \in {x \in DOMAIN t : ~AtOrBelow(x, p)} |-> t[q]]

LEMMA CopyStores ==
    ASSUME NEW t, NEW from, NEW to, Proper(Copy(t, from, to).tree)
    PROVE  StoreStep(FilesOf(t), FilesOf(Copy(t, from, to).tree))
<1>1. Copy(t, from, to).tree = t \/ Copy(t, from, to) = WriteFile(t, to, t[from].data, FALSE)
    BY DEF Copy, Refused
<1> QED BY <1>1, WriteStores DEF StoreStep

LEMMA RemoveIs ==
    ASSUME NEW t, NEW p, Remove(t, p).tree # t
    PROVE  Remove(t, p).tree = Pruned(t, p)
BY DEF Remove, Done, Refused, Pruned

LEMMA RemoveFiles ==
    ASSUME NEW t, NEW p
    PROVE  FilesOf(Pruned(t, p)) = Pruned(FilesOf(t), p)
<1> DEFINE u == Pruned(t, p)
<1>1. \A q : IsFile(u, q) <=> IsFile(t, q) /\ ~AtOrBelow(q, p)
    BY DEF IsFile, Pruned
<1>2. \A q \in DOMAIN u : u[q] = t[q]
    BY DEF Pruned
<1> HIDE DEF u
<1> DEFINE f == FilesOf(t)
           g == FilesOf(u)
<1>3. /\ \A q : q \in DOMAIN f <=> IsFile(t, q)
      /\ \A q : q \in DOMAIN g <=> IsFile(u, q)
      /\ \A q \in DOMAIN f : f[q] = t[q].data
      /\ \A q \in DOMAIN g : g[q] = u[q].data
      /\ g = [x \in DOMAIN g |-> g[x]]
    BY FilesAre DEF FilesOf
<1> HIDE DEF f, g
<1>4. DOMAIN g = {x \in DOMAIN f : ~AtOrBelow(x, p)}
    BY <1>1, <1>3
<1>5. \A q \in DOMAIN g : g[q] = f[q]
    BY <1>1, <1>2, <1>3 DEF IsFile
<1> QED BY <1>3, <1>4, <1>5 DEF f, g, u, Pruned

LEMMA RemoveStores ==
    ASSUME NEW t, NEW p \in Keys
    PROVE  StoreStep(FilesOf(t), FilesOf(Remove(t, p).tree))
<1> DEFINE u == Remove(t, p).tree
           f == FilesOf(t)
<1>1. CASE u = t
    BY <1>1 DEF StoreStep
<1>2. CASE u # t
    <2>1. u = Pruned(t, p)
        BY <1>2, RemoveIs
    <2> HIDE DEF u
    <2>2. FilesOf(u) = Pruned(f, p)
        BY <2>1, RemoveFiles
    <2>3. {x \in DOMAIN f : ~AtOrBelow(x, p)} = DOMAIN f \ {x \in DOMAIN f : AtOrBelow(x, p)}
        OBVIOUS
    <2>4. Dropped(f, FilesOf(u), p)
        BY <2>2, <2>3 DEF Dropped, Pruned
    <2> QED BY <2>4 DEF StoreStep, u
<1> QED BY <1>1, <1>2

LEMMA MvStores ==
    ASSUME NEW t, Tree(t), NEW from \in Keys, NEW to \in Keys
    PROVE  \/ Mv(t, from, to).tree = Copy(t, from, to).tree
           \/ StoreStep(FilesOf(t), FilesOf(Mv(t, from, to).tree))
<1> DEFINE r == Copy(t, from, to)
           w == r.tree
           u == Mv(t, from, to).tree
           f == FilesOf(t)
<1>1. CASE r.err # "none" \/ Remove(w, from).tree = w
    BY <1>1 DEF Mv
<1>2. CASE r.err = "none" /\ Remove(w, from).tree # w
    <2>1. u = Remove(w, from).tree
        BY <1>2 DEF Mv
    <2>2. u = Pruned(w, from)
        BY <1>2, <2>1, RemoveIs
    <2>3. IsFile(t, from) /\ r = WriteFile(t, to, t[from].data, FALSE)
        BY <1>2 DEF Copy, Refused, IsFile
    <2>4. IsFile(w, to) /\ w[to].data = t[from].data
        <3>1. Touch(t, to).err = "none" /\ IsFile(Touch(t, to).tree, to)
            BY <1>2, <2>3 DEF WriteFile, Refused
        <3>2. w = Put(Touch(t, to).tree, to, FileNode(t[from].data))
            BY <2>3, <3>1 DEF WriteFile, Done
        <3> QED BY <3>2, PutFile
    <2> DEFINE g == FilesOf(w)
    <2>5. g = [x \in DOMAIN f \cup {to} |-> IF x = to THEN f[from] ELSE f[x]]
        <3>1. OnlyAt(t, w, to)
            <4>1. w = t \/ OnlyAt(t, w, to)
                BY <2>3, WriteWrites
            <4> QED BY <2>4, <4>1 DEF OnlyAt
        <3> HIDE DEF w
        <3>2. Wrote(f, g, to, w[to].data)
            BY <2>4, <3>1, FileWritten
        <3>3. f[from] = t[from].data
            BY <2>3, FilesAre
        <3> QED BY <2>4, <3>2, <3>3 DEF Wrote
    <2> HIDE DEF w, u
    <2>6. FilesOf(u) = Pruned(g, from)
        BY <2>2, RemoveFiles
    <2>7. from \in DOMAIN f
        BY <2>3, FilesAre
    <2> HIDE DEF f, g
    <2>8. Renamed(f, FilesOf(u), from, to)
        BY <2>5, <2>6, <2>7 DEF Renamed, Pruned
    <2> QED BY <2>8 DEF StoreStep, f, u
<1> QED BY <1>1, <1>2

LEMMA ConcatParts ==
    ASSUME NEW p \in Seq(Word), NEW r \in Seq(Word)
    PROVE  /\ SubSeq(p \o r, 1, Len(p)) = p
           /\ SubSeq(p \o r, Len(p) + 1, Len(p \o r)) = r
           /\ Len(p) <= Len(p \o r)
           /\ p \o r = p <=> r = <<>>
<1>1. /\ Len(p) \in Nat /\ Len(r) \in Nat
      /\ p \o r \in Seq(Word) /\ Len(p \o r) = Len(p) + Len(r)
    BY LenProperties, ConcatProperties
<1>2. SubSeq(p, 1, Len(p)) = p /\ SubSeq(r, 1, Len(r)) = r
    BY SubSeqFull
<1>3. SubSeq(p \o r, 1, Len(p)) = p
    <2>1. CASE p = <<>>
        BY <2>1, SubSeqEmpty, EmptySeq
    <2>2. CASE p # <<>>
        <3>1. Len(p) \in 1..Len(p) /\ 1 \in 1..Len(p)
            BY <1>1, <2>2, EmptySeq
        <3>2. SubSeq(p \o r, 1, Len(p)) = SubSeq(p, 1, Len(p))
            BY <3>1, SubSeqOfConcat1
        <3> QED BY <1>2, <3>2
    <2> QED BY <2>1, <2>2
<1>4. SubSeq(p \o r, Len(p) + 1, Len(p \o r)) = r
    <2>1. CASE r = <<>>
        <3>1. Len(r) = 0
            BY <2>1, EmptySeq
        <3>2. Len(p \o r) < Len(p) + 1 /\ Len(p) + 1 \in Int /\ Len(p \o r) \in Int
            BY <1>1, <3>1
        <3> QED BY <2>1, <3>2, SubSeqEmpty
    <2>2. CASE r # <<>>
        <3> DEFINE m == Len(p) + 1
                   n == Len(p) + Len(r)
        <3>1. m \in Len(p)+1..Len(p)+Len(r) /\ n \in Len(p)+1..Len(p)+Len(r)
              /\ m - Len(p) = 1 /\ n - Len(p) = Len(r)
            BY <1>1, <2>2, EmptySeq
        <3> HIDE DEF m, n
        <3>2. SubSeq(p \o r, m, n) = SubSeq(r, m - Len(p), n - Len(p))
            BY <3>1, SubSeqOfConcat2
        <3> QED BY <1>1, <1>2, <3>1, <3>2 DEF m, n
    <2> QED BY <2>1, <2>2
<1>5. p \o r = p <=> r = <<>>
    BY ConcatEqualIffEmpty
<1>6. Len(p) <= Len(p \o r)
    BY <1>1
<1> QED BY <1>3, <1>4, <1>5, <1>6, Zenon

\* A name below `from` has its place below `to`, and finds its way back.
LEMMA MovedBack ==
    ASSUME NEW t, Tree(t), NEW from \in Seq(Word), NEW to \in Seq(Word), NEW q \in Sources(t, from)
    PROVE  /\ Moved(Moved(q, from, to), to, from) = q
           /\ AtOrBelow(q, from) /\ AtOrBelow(Moved(q, from, to), to)
<1>0. q \in Seq(Word) /\ q \in DOMAIN t
    BY DEF Sources, Tree
<1>1. ASSUME NEW p \in Seq(Word) PROVE AtOrBelow(p, p)
    BY <1>1, WholeIsPrefix, LenProperties DEF AtOrBelow
<1>2. CASE q = from
    BY <1>1, <1>2 DEF Moved
<1>3. CASE q # from
    <2> DEFINE a == Stem(from)
               b == Stem(to)
               r == SubSeq(q, Len(a) + 1, Len(q))
               m == Moved(q, from, to)
    <2>1. AtOrBelow(q, a) /\ q # a
        BY <1>3 DEF Sources
    <2>2. a \in Seq(Word) /\ b \in Seq(Word) /\ a # Root /\ b # Root
        BY StemIsPath
    <2>3. m = b \o r
        BY <1>3 DEF Moved
    <2> HIDE DEF a, b
    <2>4. r \in Seq(Word)
        BY <1>0, <2>2, AnySubSeq
    <2>5. q = a \o r
        <3>1. Len(a) \in Nat /\ Len(q) \in Nat /\ Len(a) <= Len(q) /\ SubSeq(q, 1, Len(a)) = a
            BY <1>0, <2>1, <2>2, LenProperties DEF AtOrBelow
        <3>2. 1 \in 1..Len(q) + 1 /\ Len(a) \in 1 - 1..Len(q) /\ Len(q) \in Len(a)..Len(q)
            BY <3>1
        <3>3. SubSeq(q, 1, Len(a)) \o SubSeq(q, Len(a) + 1, Len(q)) = SubSeq(q, 1, Len(q))
            BY <1>0, <3>2, ConcatAdjacentSubSeq
        <3>4. SubSeq(q, 1, Len(q)) = q
            BY <1>0, SubSeqFull
        <3> QED BY <3>1, <3>3, <3>4
    <2> HIDE DEF r
    <2>6. r # <<>>
        BY <2>1, <2>2, <2>4, <2>5, ConcatParts
    <2>7. SubSeq(m, Len(b) + 1, Len(m)) = r
        BY <2>2, <2>3, <2>4, ConcatParts
    <2>12. ASSUME NEW p \in Seq(Word), NEW c, c = Stem(p) PROVE c \o r # p /\ AtOrBelow(c \o r, p)
        <3>1. c \in Seq(Word) /\ c # Root
            BY <2>12, StemIsPath
        <3>2. CASE p = Root
            <4>1. c \o r # Root /\ c \o r \in Seq(Word)
                BY <2>4, <3>1, ConcatIsRootless, ConcatProperties
            <4>2. SubSeq(c \o r, 1, 0) = Root /\ Len(Root) = 0 /\ Len(c \o r) \in Nat
                BY <4>1, WholeIsPrefix, EmptySeq, LenProperties DEF Root
            <4>3. AtOrBelow(c \o r, Root)
                BY <4>2 DEF AtOrBelow
            <4> QED BY <3>2, <4>1, <4>3
        <3>3. CASE p # Root
            <4>1. c = p
                BY <2>12, <3>3 DEF Stem
            <4>2. p \o r # p
                BY <2>4, <2>6, ConcatParts
            <4>3. AtOrBelow(p \o r, p)
                BY <2>4, ConcatParts DEF AtOrBelow
            <4> QED BY <4>1, <4>2, <4>3
        <3> QED BY <3>2, <3>3
    <2>11. m # to /\ AtOrBelow(m, to)
        BY <2>3, <2>12 DEF b
    <2>8. Moved(m, to, from) = q
        BY <2>5, <2>7, <2>11 DEF Moved, a, b
    <2>9. AtOrBelow(q, from)
        BY <2>5, <2>12 DEF a
    <2> QED BY <2>8, <2>9, <2>11
<1> QED BY <1>2, <1>3

LEMMA GraftStores ==
    ASSUME NEW t, Tree(t), NEW from \in Keys, NEW to \in Keys
    PROVE  StoreStep(FilesOf(t), FilesOf(Grafted(t, from, to)))
<1> DEFINE f == FilesOf(t)
           u == Grafted(t, from, to)
           g == FilesOf(u)
           S == Sources(t, from)
           T == {Moved(q, from, to) : q \in S}
           K == {k \in S : IsFile(t, k)}
           L == {p \in DOMAIN f : p \in T /\ ~IsFile(t, Moved(p, to, from))}
<1>1. \A q \in S : /\ q \in DOMAIN t /\ Moved(Moved(q, from, to), to, from) = q
                    /\ AtOrBelow(q, from) /\ AtOrBelow(Moved(q, from, to), to)
    BY KeysAreSequences, MovedBack DEF Sources
<1>2. /\ DOMAIN u = DOMAIN t \cup T
      /\ \A p \in DOMAIN u : u[p] = IF p \in T THEN t[Moved(p, to, from)] ELSE t[p]
    BY DEF Grafted
<1>3. /\ \A q : q \in DOMAIN f <=> IsFile(t, q)
      /\ \A q : q \in DOMAIN g <=> IsFile(u, q)
      /\ \A q \in DOMAIN f : f[q] = t[q].data
      /\ \A q \in DOMAIN g : g[q] = u[q].data
    BY FilesAre
<1> HIDE DEF f, g, u, S
<1>4. ASSUME NEW q \in S
      PROVE  /\ IsFile(u, Moved(q, from, to)) <=> IsFile(t, q)
             /\ u[Moved(q, from, to)] = t[q]
    BY <1>1, <1>2 DEF IsFile
<1>5. ASSUME NEW p, p \notin T
      PROVE  /\ IsFile(u, p) <=> IsFile(t, p)
             /\ IsFile(t, p) => u[p] = t[p]
    BY <1>2, <1>5 DEF IsFile
<1> HIDE DEF T
<1>6. \A p : p \in T <=> \E q \in S : p = Moved(q, from, to)
    BY DEF T
<1>7. ASSUME NEW p \in DOMAIN g PROVE p \in (DOMAIN f \ L) \cup {Moved(k, from, to) : k \in K}
    <2>1. CASE p \in T
        <3>1. PICK q \in S : p = Moved(q, from, to)
            BY <1>6, <2>1
        <3>2. q \in K
            BY <1>3, <1>4, <1>7, <3>1
        <3> QED BY <3>1, <3>2
    <2>2. CASE p \notin T
        BY <1>3, <1>5, <1>7, <2>2
    <2> QED BY <2>1, <2>2
<1>8. ASSUME NEW p \in DOMAIN f \ L PROVE p \in DOMAIN g
    <2>1. CASE p \in T
        <3>1. PICK q \in S : p = Moved(q, from, to)
            BY <1>6, <2>1
        <3>2. IsFile(t, q)
            BY <1>1, <2>1, <3>1
        <3> QED BY <1>3, <1>4, <3>1, <3>2
    <2>2. CASE p \notin T
        BY <1>3, <1>5, <2>2
    <2> QED BY <2>1, <2>2
<1>9. ASSUME NEW k \in K PROVE Moved(k, from, to) \in DOMAIN g /\ g[Moved(k, from, to)] = f[k]
    BY <1>3, <1>4
<1>10. ASSUME NEW p \in (DOMAIN f \ L) \ {Moved(x, from, to) : x \in K} PROVE g[p] = f[p]
    <2>1. p \in DOMAIN g
        BY <1>8
    <2>2. p \notin T
        <3>1. SUFFICES ASSUME p \in T PROVE FALSE
            OBVIOUS
        <3>2. PICK q \in S : p = Moved(q, from, to)
            BY <1>6, <3>1
        <3>3. q \in K
            BY <1>3, <1>4, <2>1, <3>2
        <3> QED BY <3>2, <3>3
    <2> QED BY <1>3, <1>5, <2>1, <2>2
<1>11. DOMAIN g = (DOMAIN f \ L) \cup {Moved(k, from, to) : k \in K}
    BY <1>7, <1>8, <1>9
<1>12. K \in SUBSET {k \in DOMAIN f : AtOrBelow(k, from)}
    BY <1>1, <1>3
<1>13. L \in SUBSET {k \in DOMAIN f : AtOrBelow(k, to)}
    BY <1>1, <1>6
<1> HIDE DEF K, L
<1>14. Laid(f, g, from, to, K, L)
    BY <1>9, <1>10, <1>11, <1>12, <1>13 DEF Laid
<1>15. K \in SUBSET DOMAIN f /\ L \in SUBSET DOMAIN f
    BY <1>12, <1>13
<1> QED BY <1>14, <1>15 DEF StoreStep, f, g, u

LEMMA StoreInit == Init => Store!Init
<1> SUFFICES ASSUME Init PROVE Store!Init
    OBVIOUS
<1>1. Files = {}
    BY DEF Init, Files, IsFile, NewTree, DirNode
<1>2. [p \in Files |-> tree[p].data] = [k \in {} |-> {}]
    BY <1>1
<1> QED BY <1>2 DEF Store!Init

LEMMA StoreNext == TypeOK /\ TypeOK' /\ [Next]_vars => [Store!Next]_[p \in Files |-> tree[p].data]
<1> SUFFICES ASSUME TypeOK, TypeOK', [Next]_vars PROVE StoreStep(FilesOf(tree), FilesOf(tree'))
    BY StoreSteps
<1>1. Tree(tree) /\ Paths \subseteq Keys
    BY Typed, KeysAreSequences
<1>2. ASSUME NEW r, Becomes(r) PROVE tree' = r.tree /\ Proper(r.tree)
    <2>1. Tree(tree')
        BY KeysAreSequences, NodesHaveKinds DEF TypeOK, Tree
    <2> QED BY <1>2, <2>1 DEF Becomes, Proper
<1>3. ASSUME NEW p \in Paths, Becomes(MkdirP(tree, p)) PROVE StoreStep(FilesOf(tree), FilesOf(tree'))
    BY <1>2, <1>3, MkdirPIsSilent DEF StoreStep
<1>4. ASSUME NEW p \in Paths, Becomes(Touch(tree, p)) PROVE StoreStep(FilesOf(tree), FilesOf(tree'))
    BY <1>2, <1>4, TouchStores
<1>5. ASSUME NEW p \in Paths, NEW d \in Data, NEW append \in BOOLEAN,
             Becomes(WriteFile(tree, p, d, append))
      PROVE  StoreStep(FilesOf(tree), FilesOf(tree'))
    BY <1>2, <1>5, WriteStores
<1>6. ASSUME NEW p \in Paths, Becomes(Remove(tree, p)) PROVE StoreStep(FilesOf(tree), FilesOf(tree'))
    BY <1>1, <1>2, <1>6, RemoveStores
<1>7. ASSUME NEW p \in Paths, Becomes(Chmod(tree, p)) PROVE StoreStep(FilesOf(tree), FilesOf(tree'))
    <2>1. Chmod(tree, p).tree = tree
        BY DEF Chmod, Done, Refused
    <2> QED BY <1>2, <1>7, <2>1 DEF StoreStep
<1>8. ASSUME NEW from \in Paths, NEW to \in Paths, Becomes(Copy(tree, from, to))
      PROVE  StoreStep(FilesOf(tree), FilesOf(tree'))
    BY <1>2, <1>8, CopyStores
<1>9. ASSUME NEW from \in Paths, NEW to \in Paths, Becomes(Mv(tree, from, to))
      PROVE  StoreStep(FilesOf(tree), FilesOf(tree'))
    <2>1. CASE Mv(tree, from, to).tree = Copy(tree, from, to).tree
        BY <1>2, <1>9, <2>1, CopyStores
    <2>2. CASE StoreStep(FilesOf(tree), FilesOf(Mv(tree, from, to).tree))
        BY <1>2, <1>9, <2>2
    <2> QED BY <1>1, <2>1, <2>2, MvStores
<1>10. ASSUME NEW from \in Paths, NEW to \in Paths, Becomes(CopyTree(tree, from, to))
      PROVE  StoreStep(FilesOf(tree), FilesOf(tree'))
    <2>1. CASE from \notin DOMAIN tree
        BY <1>2, <1>10, <2>1 DEF CopyTree, Refused, StoreStep
    <2>2. CASE from \in DOMAIN tree /\ IsFile(tree, from)
        BY <1>2, <1>10, <2>2, CopyStores DEF CopyTree
    <2>3. CASE from \in DOMAIN tree /\ ~IsFile(tree, from)
        <3>1. CopyTree(tree, from, to).tree = Grafted(tree, from, to)
            BY <2>3 DEF CopyTree, Done
        <3> QED BY <1>1, <1>2, <1>10, <3>1, GraftStores
    <2> QED BY <2>1, <2>2, <2>3
<1>11. CASE UNCHANGED vars
    BY <1>11 DEF vars, StoreStep
<1> QED BY <1>3, <1>4, <1>5, <1>6, <1>7, <1>8, <1>9, <1>10, <1>11 DEF Next

\* Whatever the operations, and whatever a recursive copy makes of the tree:
\* the contents of its files are those of the abstract store, in which no
\* step touches a file it does not name.
THEOREM FilesAreAStore == Spec => StoresFiles
<1>1. Spec => []TypeOK
    BY TypeCorrect
<1> QED BY <1>1, StoreInit, StoreNext, PTL DEF Spec, StoresFiles, Store!Spec

-----------------------------------------------------------------------------
(* The history *)

LEMMA RememberedIs ==
    ASSUME NEW tokens \in TypedLines, history \in Seq(TypedLines), Len(history) <= HistoryLimit
    PROVE  /\ Remembered(tokens) \in Seq(TypedLines)
           /\ Len(Remembered(tokens)) \in 1..HistoryLimit
           /\ Remembered(tokens)[Len(Remembered(tokens))] = tokens
<1> DEFINE all == Append(history, tokens)
<1>1. /\ all \in Seq(TypedLines) /\ Len(all) = Len(history) + 1
      /\ all[Len(all)] = tokens /\ Len(history) \in Nat /\ HistoryLimit \in Nat \ {0}
    BY ShellAssumption, AppendProperties
<1>2. Remembered(tokens) = IF Len(all) > HistoryLimit THEN Tail(all) ELSE all
    BY DEF Remembered
<1> HIDE DEF all
<1>3. CASE Len(all) > HistoryLimit
    <2>1. Len(all) = HistoryLimit + 1 /\ all # <<>>
        BY <1>1, <1>3
    <2>2. /\ Tail(all) \in Seq(TypedLines) /\ Len(Tail(all)) = HistoryLimit
          /\ \A i \in 1..Len(Tail(all)) : Tail(all)[i] = all[i + 1]
        BY <1>1, <2>1, HeadTailProperties
    <2> QED BY <1>1, <1>2, <1>3, <2>1, <2>2
<1>4. CASE ~ (Len(all) > HistoryLimit)
    BY <1>1, <1>2, <1>4
<1> QED BY <1>3, <1>4

\* Whatever the tree is like: if there is a file after the write it is the one
\* that was written.
LEMMA WriteTells ==
    ASSUME NEW t, NEW p, NEW d, IsFile(WriteFile(t, p, d, FALSE).tree, p)
    PROVE  WriteFile(t, p, d, FALSE).tree[p].data = d
<1> DEFINE r == Touch(t, p)
<1>1. CASE r.err # "none"
    <2>1. WriteFile(t, p, d, FALSE) = r
        BY <1>1 DEF WriteFile
    <2>2. p \notin DOMAIN t /\ r.tree = t
        BY <1>1 DEF Touch, Insert, Done, Refused
    <2> QED BY <2>1, <2>2 DEF IsFile
<1>2. CASE r.err = "none" /\ ~ IsFile(r.tree, p)
    <2>1. WriteFile(t, p, d, FALSE).tree = r.tree
        BY <1>2 DEF WriteFile, Refused
    <2> QED BY <1>2, <2>1
<1>3. CASE r.err = "none" /\ IsFile(r.tree, p)
    <2>1. WriteFile(t, p, d, FALSE).tree = Put(r.tree, p, FileNode(d))
        BY <1>3 DEF WriteFile, Done
    <2>2. Put(r.tree, p, FileNode(d))[p] = FileNode(d)
        BY DEF Put
    <2>3. FileNode(d).data = d
        BY DEF FileNode
    <2> QED BY <2>1, <2>2, <2>3
<1> QED BY <1>1, <1>2, <1>3

HistoryKept == history \in Seq(TypedLines) /\ Len(history) <= HistoryLimit /\ HistoryFile

LEMMA HistoryStep == HistoryKept /\ [ShellNext]_shellVars => HistoryKept'
<1>1. ASSUME HistoryKept, NEW tokens \in TypedLines, RunLine(tokens) PROVE HistoryKept'
    <2>1. PICK r : history' = Remembered(tokens) /\ vfs' = Saved(r.ctx.tree, history')
        BY <1>1 DEF RunLine
    <2>2. history' \in Seq(TypedLines) /\ Len(history') \in 1..HistoryLimit
        BY <1>1, <2>1, RememberedIs DEF HistoryKept
    <2>3. IsFile(vfs', HistoryPath) => vfs'[HistoryPath].data = history'
        BY <2>1, WriteTells DEF Saved
    <2>4. HistoryLimit \in Nat
        BY ShellAssumption
    <2> QED BY <2>2, <2>3, <2>4 DEF HistoryKept, HistoryFile, IsFile
<1>2. ASSUME HistoryKept, UNCHANGED shellVars PROVE HistoryKept'
    BY <1>2 DEF shellVars, HistoryKept, HistoryFile, IsFile
<1> QED BY <1>1, <1>2 DEF ShellNext

LEMMA HistoryHolds == ShellSpec => []HistoryKept
<1>1. ShellInit => HistoryKept
    BY ShellAssumption DEF ShellInit, HistoryKept, HistoryFile
<1> QED BY <1>1, HistoryStep, PTL DEF ShellSpec

\* run_line writes the history to its file after every line: whatever the
\* lines have done to the file, if there is one it tells the history.
THEOREM FileTellsHistory == ShellSpec => []HistoryFile
<1>1. HistoryKept => HistoryFile
    BY DEF HistoryKept
<1> QED BY <1>1, HistoryHolds, PTL

-----------------------------------------------------------------------------
(* The three walks along a sequence, a step at a time. *)

\* parse_line after each of the first n tokens.
TokensRead(tokens, n, f) ==
    f = [k \in 0..n |-> IF k = 0 THEN Start ELSE Token(f[k - 1], tokens[k])]

LEMMA TokensReadExists ==
    ASSUME NEW tokens, NEW n \in Nat
    PROVE  \E f : TokensRead(tokens, n, f)
<1> DEFINE bad == {m \in Nat : ~ \E f : TokensRead(tokens, m, f)}
<1>1. SUFFICES ASSUME bad # {} PROVE FALSE
    OBVIOUS
<1>2. PICK m \in bad : \A k \in bad : m <= k
    <2>1. bad \subseteq Nat
        OBVIOUS
    <2> HIDE DEF bad
    <2> QED BY <1>1, <2>1, Least
<1>3. CASE m = 0
    <2> DEFINE f == [k \in 0..0 |-> Start]
    <2>1. f = [k \in 0..0 |-> IF k = 0 THEN Start ELSE Token(f[k - 1], tokens[k])]
        OBVIOUS
    <2> QED BY <1>3, <2>1 DEF TokensRead
<1>4. CASE m # 0
    <2>1. m - 1 \in Nat /\ m - 1 \notin bad
        <3>1. m \in Nat
            OBVIOUS
        <3> HIDE DEF bad
        <3> QED BY <1>2, <1>4, <3>1
    <2>2. PICK g : TokensRead(tokens, m - 1, g)
        BY <2>1
    <2> DEFINE h == [k \in 0..m |-> IF k = m THEN Token(g[m - 1], tokens[m]) ELSE g[k]]
    <2>3. ASSUME NEW k \in 0..m
          PROVE  h[k] = IF k = 0 THEN Start ELSE Token(h[k - 1], tokens[k])
        <3>1. CASE k = m
            BY <1>4, <2>1, <3>1
        <3>2. CASE k # m
            <4>1. k \in 0..(m - 1) /\ h[k] = g[k] /\ (k # 0 => h[k - 1] = g[k - 1])
                BY <2>1, <3>2
            <4>2. g[k] = IF k = 0 THEN Start ELSE Token(g[k - 1], tokens[k])
                BY <2>2, <4>1 DEF TokensRead
            <4> HIDE DEF h
            <4> QED BY <4>1, <4>2
        <3> QED BY <3>1, <3>2
    <2>4. h = [k \in 0..m |-> h[k]]
        OBVIOUS
    <2> HIDE DEF h
    <2> QED BY <2>3, <2>4 DEF TokensRead
<1> QED BY <1>3, <1>4

LEMMA ParseIs ==
    ASSUME NEW tokens, Len(tokens) \in Nat
    PROVE  \E f : /\ f[0] = Start
                  /\ \A k \in 1..Len(tokens) : f[k] = Token(f[k - 1], tokens[k])
                  /\ Parse(tokens) = Finish(f[Len(tokens)])
<1> DEFINE f == CHOOSE f : TokensRead(tokens, Len(tokens), f)
<1>1. TokensRead(tokens, Len(tokens), f)
    BY TokensReadExists, Zenon
<1>2. Parse(tokens) = Finish(f[Len(tokens)])
    BY DEF Parse, TokensRead
<1> HIDE DEF f
<1>3. f[0] = Start
    BY <1>1 DEF TokensRead
<1>4. ASSUME NEW k \in 1..Len(tokens) PROVE f[k] = Token(f[k - 1], tokens[k])
    <2>1. k \in 0..Len(tokens) /\ k # 0
        OBVIOUS
    <2> QED BY <1>1, <2>1 DEF TokensRead
<1> QED BY <1>2, <1>3, <1>4

\* execute after each of the first n segments.
SegmentsRun(ctx, segments, n, f) ==
    f = [k \in 0..n |-> IF k = 0 THEN Ok(ctx, <<>>) ELSE RunSegment(f[k - 1], segments[k])]

LEMMA SegmentsRunExists ==
    ASSUME NEW ctx, NEW segments, NEW n \in Nat
    PROVE  \E f : SegmentsRun(ctx, segments, n, f)
<1> DEFINE bad == {m \in Nat : ~ \E f : SegmentsRun(ctx, segments, m, f)}
<1>1. SUFFICES ASSUME bad # {} PROVE FALSE
    OBVIOUS
<1>2. PICK m \in bad : \A k \in bad : m <= k
    <2>1. bad \subseteq Nat
        OBVIOUS
    <2> HIDE DEF bad
    <2> QED BY <1>1, <2>1, Least
<1>3. CASE m = 0
    <2> DEFINE f == [k \in 0..0 |-> Ok(ctx, <<>>)]
    <2>1. f = [k \in 0..0 |-> IF k = 0 THEN Ok(ctx, <<>>) ELSE RunSegment(f[k - 1], segments[k])]
        OBVIOUS
    <2> QED BY <1>3, <2>1 DEF SegmentsRun
<1>4. CASE m # 0
    <2>1. m - 1 \in Nat /\ m - 1 \notin bad
        <3>1. m \in Nat
            OBVIOUS
        <3> HIDE DEF bad
        <3> QED BY <1>2, <1>4, <3>1
    <2>2. PICK g : SegmentsRun(ctx, segments, m - 1, g)
        BY <2>1
    <2> DEFINE h == [k \in 0..m |-> IF k = m THEN RunSegment(g[m - 1], segments[m]) ELSE g[k]]
    <2>3. ASSUME NEW k \in 0..m
          PROVE  h[k] = IF k = 0 THEN Ok(ctx, <<>>) ELSE RunSegment(h[k - 1], segments[k])
        <3>1. CASE k = m
            BY <1>4, <2>1, <3>1
        <3>2. CASE k # m
            <4>1. k \in 0..(m - 1) /\ h[k] = g[k] /\ (k # 0 => h[k - 1] = g[k - 1])
                BY <2>1, <3>2
            <4>2. g[k] = IF k = 0 THEN Ok(ctx, <<>>) ELSE RunSegment(g[k - 1], segments[k])
                BY <2>2, <4>1 DEF SegmentsRun
            <4> HIDE DEF h
            <4> QED BY <4>1, <4>2
        <3> QED BY <3>1, <3>2
    <2>4. h = [k \in 0..m |-> h[k]]
        OBVIOUS
    <2> HIDE DEF h
    <2> QED BY <2>3, <2>4 DEF SegmentsRun
<1> QED BY <1>3, <1>4

LEMMA RunSegmentsIs ==
    ASSUME NEW ctx, NEW segments, Len(segments) \in Nat
    PROVE  \E f : /\ f[0] = Ok(ctx, <<>>)
                  /\ \A k \in 1..Len(segments) : f[k] = RunSegment(f[k - 1], segments[k])
                  /\ RunSegments(ctx, segments) = f[Len(segments)]
<1> DEFINE f == CHOOSE f : SegmentsRun(ctx, segments, Len(segments), f)
<1>1. SegmentsRun(ctx, segments, Len(segments), f)
    BY SegmentsRunExists, Zenon
<1>2. RunSegments(ctx, segments) = f[Len(segments)]
    BY DEF RunSegments, SegmentsRun
<1> HIDE DEF f
<1>3. f[0] = Ok(ctx, <<>>)
    BY <1>1 DEF SegmentsRun
<1>4. ASSUME NEW k \in 1..Len(segments) PROVE f[k] = RunSegment(f[k - 1], segments[k])
    <2>1. k \in 0..Len(segments) /\ k # 0
        OBVIOUS
    <2> QED BY <1>1, <2>1 DEF SegmentsRun
<1> QED BY <1>2, <1>3, <1>4

\* tokenize after each of the first n tokens.
TokensExpanded(tokens, values, n, f) ==
    f = [k \in 0..n |-> IF k = 0 THEN <<>> ELSE f[k - 1] \o Expansion(tokens[k], values)]

LEMMA TokensExpandedExists ==
    ASSUME NEW tokens, NEW values, NEW n \in Nat
    PROVE  \E f : TokensExpanded(tokens, values, n, f)
<1> DEFINE bad == {m \in Nat : ~ \E f : TokensExpanded(tokens, values, m, f)}
<1>1. SUFFICES ASSUME bad # {} PROVE FALSE
    OBVIOUS
<1>2. PICK m \in bad : \A k \in bad : m <= k
    <2>1. bad \subseteq Nat
        OBVIOUS
    <2> HIDE DEF bad
    <2> QED BY <1>1, <2>1, Least
<1>3. CASE m = 0
    <2> DEFINE f == [k \in 0..0 |-> <<>>]
    <2>1. f = [k \in 0..0 |-> IF k = 0 THEN <<>> ELSE f[k - 1] \o Expansion(tokens[k], values)]
        OBVIOUS
    <2> QED BY <1>3, <2>1 DEF TokensExpanded
<1>4. CASE m # 0
    <2>1. m - 1 \in Nat /\ m - 1 \notin bad
        <3>1. m \in Nat
            OBVIOUS
        <3> HIDE DEF bad
        <3> QED BY <1>2, <1>4, <3>1
    <2>2. PICK g : TokensExpanded(tokens, values, m - 1, g)
        BY <2>1
    <2> DEFINE h == [k \in 0..m |-> IF k = m THEN g[m - 1] \o Expansion(tokens[m], values) ELSE g[k]]
    <2>3. ASSUME NEW k \in 0..m
          PROVE  h[k] = IF k = 0 THEN <<>> ELSE h[k - 1] \o Expansion(tokens[k], values)
        <3>1. CASE k = m
            BY <1>4, <2>1, <3>1
        <3>2. CASE k # m
            <4>1. k \in 0..(m - 1) /\ h[k] = g[k] /\ (k # 0 => h[k - 1] = g[k - 1])
                BY <2>1, <3>2
            <4>2. g[k] = IF k = 0 THEN <<>> ELSE g[k - 1] \o Expansion(tokens[k], values)
                BY <2>2, <4>1 DEF TokensExpanded
            <4> HIDE DEF h
            <4> QED BY <4>1, <4>2
        <3> QED BY <3>1, <3>2
    <2>4. h = [k \in 0..m |-> h[k]]
        OBVIOUS
    <2> HIDE DEF h
    <2> QED BY <2>3, <2>4 DEF TokensExpanded
<1> QED BY <1>3, <1>4

LEMMA ExpandedIs ==
    ASSUME NEW tokens, NEW values, Len(tokens) \in Nat
    PROVE  \E f : /\ f[0] = <<>>
                  /\ \A k \in 1..Len(tokens) : f[k] = f[k - 1] \o Expansion(tokens[k], values)
                  /\ Expanded(tokens, values) = f[Len(tokens)]
<1> DEFINE f == CHOOSE f : TokensExpanded(tokens, values, Len(tokens), f)
<1>1. TokensExpanded(tokens, values, Len(tokens), f)
    BY TokensExpandedExists, Zenon
<1>2. Expanded(tokens, values) = f[Len(tokens)]
    BY DEF Expanded, TokensExpanded
<1> HIDE DEF f
<1>3. f[0] = <<>>
    BY <1>1 DEF TokensExpanded
<1>4. ASSUME NEW k \in 1..Len(tokens) PROVE f[k] = f[k - 1] \o Expansion(tokens[k], values)
    <2>1. k \in 0..Len(tokens) /\ k # 0
        OBVIOUS
    <2> QED BY <1>1, <2>1 DEF TokensExpanded
<1> QED BY <1>2, <1>3, <1>4

-----------------------------------------------------------------------------
(* What the walks keep *)

LEMMA SingleIsSeq == ASSUME NEW T, NEW x \in T PROVE <<x>> \in Seq(T)
OBVIOUS

LEMMA ExpandedIsSequence ==
    ASSUME NEW tokens, Len(tokens) \in Nat, NEW values
    PROVE  \E T : Expanded(tokens, values) \in Seq(T)
<1>1. PICK f : /\ f[0] = <<>>
               /\ \A k \in 1..Len(tokens) : f[k] = f[k - 1] \o Expansion(tokens[k], values)
               /\ Expanded(tokens, values) = f[Len(tokens)]
    BY ExpandedIs
<1> DEFINE T == {tokens[k] : k \in 1..Len(tokens)} \cup {ValueOf(tokens[k], values) : k \in 1..Len(tokens)}
           bad == {n \in 0..Len(tokens) : f[n] \notin Seq(T)}
<1>2. ASSUME NEW k \in 1..Len(tokens) PROVE Expansion(tokens[k], values) \in Seq(T)
    <2>1. tokens[k] \in T /\ ValueOf(tokens[k], values) \in T
        OBVIOUS
    <2> HIDE DEF T
    <2>2. <<>> \in Seq(T) /\ <<tokens[k]>> \in Seq(T) /\ <<ValueOf(tokens[k], values)>> \in Seq(T)
        BY <2>1, SingleIsSeq, EmptySeq
    <2> QED BY <2>2 DEF Expansion
<1> HIDE DEF T
<1>3. ASSUME bad # {} PROVE FALSE
    <2>1. PICK n \in bad : \A k \in bad : n <= k
        <3>1. bad \subseteq Nat
            OBVIOUS
        <3> HIDE DEF bad
        <3> QED BY <1>3, <3>1, Least
    <2>2. n # 0
        BY <1>1, EmptySeq
    <2>3. n \in 1..Len(tokens) /\ n - 1 \in 0..Len(tokens) /\ n - 1 \notin bad
        BY <2>1, <2>2
    <2>4. f[n - 1] \in Seq(T)
        BY <2>3
    <2>5. f[n] \in Seq(T)
        <3>1. f[n] = f[n - 1] \o Expansion(tokens[n], values) /\ Expansion(tokens[n], values) \in Seq(T)
            BY <1>1, <1>2, <2>3
        <3> QED BY <2>4, <3>1, ConcatProperties
    <2> QED BY <2>5
<1>4. f[Len(tokens)] \in Seq(T)
    BY <1>3
<1> QED BY <1>1, <1>4

\* What parse_line gathers, of tokens from T.
Output(T) == [path : T, append : BOOLEAN]
Command(T) == [program : T, args : Seq(T), in : Seq(T), out : Seq(Output(T))]
SegmentOf(T) == [op : ChainOps, pipeline : Seq(Command(T))]
ParserState(T) ==
    [words : Seq(T), in : Seq(T), out : Seq(Output(T)), pipe : Seq(Command(T)),
     segments : Seq(SegmentOf(T)), op : ChainOps, target : {"none"} \cup Redirects, err : BOOLEAN]

\* The first segment of a line is always run.
FirstIsDue(st) == IF st.segments = <<>> THEN st.op = ";" ELSE st.segments[1].op = ";"

LEMMA StartTyped == ASSUME NEW T PROVE Start \in ParserState(T) /\ FirstIsDue(Start)
BY DEF Start, ParserState, FirstIsDue, ChainOps

LEMMA FlushTyped ==
    ASSUME NEW T, NEW st \in ParserState(T)
    PROVE  /\ Flush(st) \in ParserState(T)
           /\ Flush(st).segments = st.segments /\ Flush(st).op = st.op
           /\ Flush(st).err = st.err /\ Flush(st).target = st.target
           /\ Flush(st).words = <<>>
<1>1. CASE st.words = <<>>
    BY <1>1 DEF Flush
<1>2. CASE st.words # <<>>
    <2> DEFINE command == [program |-> Head(st.words), args |-> Tail(st.words), in |-> st.in, out |-> st.out]
    <2>1. st.words \in Seq(T) /\ Head(st.words) \in T /\ Tail(st.words) \in Seq(T)
        BY <1>2, HeadTailProperties DEF ParserState
    <2>2. command \in Command(T)
        BY <2>1 DEF Command, ParserState
    <2>3. Flush(st) = [st EXCEPT !.pipe = Append(@, command), !.words = <<>>, !.in = <<>>, !.out = <<>>]
        BY <1>2 DEF Flush
    <2> HIDE DEF command
    <2>4. st.pipe \in Seq(Command(T)) /\ <<>> \in Seq(T) /\ <<>> \in Seq(Output(T))
        BY EmptySeq DEF ParserState
    <2>5. Append(st.pipe, command) \in Seq(Command(T))
        BY <2>2, <2>4, AppendProperties
    <2> QED BY <2>3, <2>4, <2>5 DEF ParserState
<1> QED BY <1>1, <1>2

LEMMA SegmentAppended ==
    ASSUME NEW T, NEW st \in ParserState(T), FirstIsDue(st)
    PROVE  /\ Append(st.segments, Segment(st)) \in Seq(SegmentOf(T))
           /\ Append(st.segments, Segment(st))[1].op = ";"
           /\ Append(st.segments, Segment(st)) # <<>>
<1>1. Segment(st) \in SegmentOf(T) /\ Segment(st).op = st.op
    BY DEF Segment, SegmentOf, ParserState
<1>2. st.segments \in Seq(SegmentOf(T)) /\ Len(st.segments) \in Nat
    BY LenProperties DEF ParserState
<1>3. /\ Append(st.segments, Segment(st)) \in Seq(SegmentOf(T))
      /\ Append(st.segments, Segment(st)) # <<>>
      /\ \A i \in 1..Len(st.segments) : Append(st.segments, Segment(st))[i] = st.segments[i]
      /\ Append(st.segments, Segment(st))[Len(st.segments) + 1] = Segment(st)
    BY <1>1, <1>2, AppendProperties
<1>4. CASE st.segments = <<>>
    <2>1. Len(st.segments) = 0
        BY <1>4, EmptySeq
    <2>2. Append(st.segments, Segment(st))[1] = Segment(st)
        BY <1>3, <2>1
    <2>3. st.op = ";"
        BY <1>4 DEF FirstIsDue
    <2> QED BY <1>1, <1>3, <2>2, <2>3
<1>5. CASE st.segments # <<>>
    <2>1. 1 \in 1..Len(st.segments)
        BY <1>2, <1>5, EmptySeq
    <2> QED BY <1>3, <1>5, <2>1 DEF FirstIsDue
<1> QED BY <1>4, <1>5

LEMMA TokenTyped ==
    ASSUME NEW T, NEW st \in ParserState(T), NEW t \in T, FirstIsDue(st)
    PROVE  Token(st, t) \in ParserState(T) /\ FirstIsDue(Token(st, t))
<1>1. CASE st.err
    BY <1>1 DEF Token
<1>2. CASE ~st.err /\ st.target # "none"
    <2>1. Token(st, t) = OnTarget(st, t)
        BY <1>2 DEF Token
    <2>2. st.target \in {"<", ">", ">>"}
        BY <1>2 DEF ParserState, Redirects
    <2>3. \A b \in BOOLEAN : <<[path |-> t, append |-> b]>> \in Seq(Output(T))
        <3>1. \A b \in BOOLEAN : [path |-> t, append |-> b] \in Output(T)
            BY DEF Output
        <3> QED BY <3>1, SingleIsSeq
    <2>4. <<t>> \in Seq(T)
        BY SingleIsSeq
    <2>5. CASE st.target = "<"
        <3>1. Token(st, t) = [st EXCEPT !.in = <<t>>, !.target = "none"]
            BY <2>1, <2>5 DEF OnTarget, ParserState
        <3> QED BY <2>4, <3>1 DEF ParserState, FirstIsDue
    <2>6. CASE st.target = ">"
        <3>1. Token(st, t) = [st EXCEPT !.out = <<[path |-> t, append |-> FALSE]>>, !.target = "none"]
            BY <2>1, <2>6 DEF OnTarget, ParserState
        <3> QED BY <2>3, <3>1 DEF ParserState, FirstIsDue
    <2>7. CASE st.target = ">>"
        <3>1. Token(st, t) = [st EXCEPT !.out = <<[path |-> t, append |-> TRUE]>>, !.target = "none"]
            BY <2>1, <2>7 DEF OnTarget, ParserState
        <3> QED BY <2>3, <3>1 DEF ParserState, FirstIsDue
    <2> QED BY <2>2, <2>5, <2>6, <2>7
<1>3. CASE ~st.err /\ st.target = "none"
    <2>1. CASE t = "|"
        <3>1. Token(st, t) = OnPipe(st)
            BY <1>3, <2>1 DEF Token, ChainOps, Redirects
        <3>2. CASE st.words = <<>>
            BY <3>1, <3>2 DEF OnPipe, ParserState, FirstIsDue
        <3>3. CASE st.words # <<>>
            <4>1. Token(st, t) = Flush(st)
                BY <3>1, <3>3 DEF OnPipe
            <4> QED BY <4>1, FlushTyped DEF FirstIsDue
        <3> QED BY <3>2, <3>3
    <2>2. CASE t \in ChainOps
        <3>1. Token(st, t) = OnChain(st, t)
            <4>1. t # "|" /\ t \notin Redirects
                BY <2>2 DEF ChainOps, Redirects
            <4> QED BY <1>3, <2>2, <4>1 DEF Token
        <3> DEFINE f == Flush(st)
        <3>2. f \in ParserState(T) /\ FirstIsDue(f)
            BY FlushTyped DEF FirstIsDue
        <3>3. CASE f.pipe = <<>>
            BY <3>1, <3>3 DEF OnChain, ParserState, FirstIsDue
        <3>4. CASE f.pipe # <<>>
            <4>1. Token(st, t) = [f EXCEPT !.segments = Append(@, Segment(f)), !.pipe = <<>>, !.op = t]
                BY <3>1, <3>4 DEF OnChain
            <4>2. /\ Append(f.segments, Segment(f)) \in Seq(SegmentOf(T))
                  /\ Append(f.segments, Segment(f))[1].op = ";"
                  /\ Append(f.segments, Segment(f)) # <<>>
                BY <3>2, SegmentAppended
            <4>3. <<>> \in Seq(Command(T))
                BY EmptySeq
            <4> HIDE DEF f
            <4>4. Token(st, t) \in ParserState(T)
                BY <2>2, <3>2, <4>1, <4>2, <4>3 DEF ParserState
            <4>5. Token(st, t).segments = Append(f.segments, Segment(f))
                BY <3>2, <4>1 DEF ParserState
            <4> QED BY <4>2, <4>4, <4>5 DEF FirstIsDue
        <3> QED BY <3>3, <3>4
    <2>3. CASE t \in Redirects
        <3>1. Token(st, t) = [st EXCEPT !.target = t]
            BY <1>3, <2>3 DEF Token, ChainOps, Redirects
        <3> QED BY <2>3, <3>1 DEF ParserState, FirstIsDue
    <2>4. CASE t \notin ChainOps \cup Redirects \cup {"|"}
        <3>1. Token(st, t) = [st EXCEPT !.words = Append(@, t)]
            BY <1>3, <2>4 DEF Token
        <3>2. Append(st.words, t) \in Seq(T)
            BY AppendProperties DEF ParserState
        <3> QED BY <3>1, <3>2 DEF ParserState, FirstIsDue
    <2> QED BY <2>1, <2>2, <2>3, <2>4
<1> QED BY <1>1, <1>2, <1>3 DEF ParserState

\* The states of parse_line along a line.
Walk(tokens, f) ==
    /\ f[0] = Start
    /\ \A k \in 1..Len(tokens) : f[k] = Token(f[k - 1], tokens[k])

LEMMA WalkTyped ==
    ASSUME NEW T, NEW tokens \in Seq(T), NEW f, Walk(tokens, f)
    PROVE  \A n \in 0..Len(tokens) : f[n] \in ParserState(T) /\ FirstIsDue(f[n])
<1> DEFINE N == Len(tokens)
           bad == {n \in 0..N : ~ (f[n] \in ParserState(T) /\ FirstIsDue(f[n]))}
<1>1. N \in Nat
    BY LenProperties
<1>2. ASSUME bad # {} PROVE FALSE
    <2>1. PICK n \in bad : \A k \in bad : n <= k
        <3>1. bad \subseteq Nat
            OBVIOUS
        <3> HIDE DEF bad
        <3> QED BY <1>2, <3>1, Least
    <2>2. n # 0
        BY StartTyped DEF Walk
    <2>3. n \in 1..N /\ n - 1 \in 0..N /\ n - 1 \notin bad
        BY <2>1, <2>2
    <2>4. f[n - 1] \in ParserState(T) /\ FirstIsDue(f[n - 1])
        BY <2>3
    <2>5. f[n] = Token(f[n - 1], tokens[n]) /\ tokens[n] \in T
        BY <2>3 DEF Walk
    <2>6. f[n] \in ParserState(T) /\ FirstIsDue(f[n])
        BY <2>4, <2>5, TokenTyped
    <2> QED BY <2>6
<1> QED BY <1>2

\* Before and after the end of the line.
LEMMA FinishTyped ==
    ASSUME NEW T, NEW st \in ParserState(T), FirstIsDue(st)
    PROVE  /\ Finish(st).segments \in Seq(SegmentOf(T))
           /\ Finish(st).segments # <<>> => Finish(st).segments[1].op = ";"
<1> DEFINE g == Flush(st)
<1>1. g \in ParserState(T) /\ FirstIsDue(g) /\ g.segments = st.segments
    BY FlushTyped DEF FirstIsDue
<1>2. CASE st.err \/ st.target # "none"
    <2>1. Finish(st) = [st EXCEPT !.err = TRUE]
        BY <1>2 DEF Finish
    <2> QED BY <2>1 DEF ParserState, FirstIsDue
<1>3. CASE ~ (st.err \/ st.target # "none") /\ g.pipe = <<>>
    <2>1. Finish(st) = g
        BY <1>3 DEF Finish
    <2> HIDE DEF g
    <2> QED BY <1>1, <2>1 DEF ParserState, FirstIsDue
<1>4. CASE ~ (st.err \/ st.target # "none") /\ g.pipe # <<>>
    <2>1. Finish(st) = [g EXCEPT !.segments = Append(@, Segment(g)), !.pipe = <<>>]
        BY <1>4 DEF Finish
    <2>2. /\ Append(g.segments, Segment(g)) \in Seq(SegmentOf(T))
          /\ Append(g.segments, Segment(g))[1].op = ";"
        BY <1>1, SegmentAppended
    <2> HIDE DEF g
    <2> QED BY <1>1, <2>1, <2>2 DEF ParserState
<1> QED BY <1>2, <1>3, <1>4

LEMMA ParseTyped ==
    ASSUME NEW T, NEW tokens \in Seq(T)
    PROVE  /\ Parse(tokens).segments \in Seq(SegmentOf(T))
           /\ Parse(tokens).segments # <<>> => Parse(tokens).segments[1].op = ";"
<1>1. PICK f : Walk(tokens, f) /\ Parse(tokens) = Finish(f[Len(tokens)])
    BY ParseIs, LenProperties DEF Walk
<1>2. f[Len(tokens)] \in ParserState(T) /\ FirstIsDue(f[Len(tokens)])
    BY <1>1, WalkTyped, LenProperties
<1> QED BY <1>1, <1>2, FinishTyped

\* A line that ran something has left the status of the last thing it ran.
Agrees(r) == r.ctx.env["?"] = ToString(r.exit)

LEMMA EndedAgrees == ASSUME NEW ran PROVE Agrees(Ended(ran))
BY DEF Ended, WithStatus, Assign, Result, Agrees

LeadsOff(segments) == segments # <<>> /\ segments[1].op = ";"

LEMMA RunAgrees ==
    ASSUME NEW ctx, NEW T, NEW segments \in Seq(SegmentOf(T)), LeadsOff(segments)
    PROVE  Agrees(RunSegments(ctx, segments))
<1> DEFINE N == Len(segments)
<1>1. PICK f : /\ f[0] = Ok(ctx, <<>>)
               /\ \A k \in 1..N : f[k] = RunSegment(f[k - 1], segments[k])
               /\ RunSegments(ctx, segments) = f[N]
    BY RunSegmentsIs, LenProperties
<1>2. N \in Nat \ {0}
    BY EmptySeq DEF LeadsOff
<1> HIDE DEF N
<1> DEFINE bad == {n \in 1..N : ~ Agrees(f[n])}
<1>3. ASSUME bad # {} PROVE FALSE
    <2>1. PICK n \in bad : \A k \in bad : n <= k
        <3>1. bad \subseteq Nat
            BY <1>2
        <3> HIDE DEF bad
        <3> QED BY <1>3, <3>1, Least
    <2>2. f[n] = RunSegment(f[n - 1], segments[n])
        BY <1>1
    <2>3. CASE Due(segments[n].op, f[n - 1].exit)
        BY <2>2, <2>3, EndedAgrees DEF RunSegment
    <2>4. CASE ~ Due(segments[n].op, f[n - 1].exit)
        <3>1. n # 1
            BY <2>4 DEF Due, LeadsOff
        <3>2. n - 1 \in 1..N /\ n \in Nat /\ ~ (n <= n - 1)
            BY <1>2, <3>1
        <3>3. n - 1 \notin bad
            <4> HIDE DEF bad
            <4> QED BY <2>1, <3>2
        <3>4. f[n] = f[n - 1]
            BY <2>2, <2>4 DEF RunSegment
        <3> QED BY <3>2, <3>3, <3>4
    <2> QED BY <2>3, <2>4
<1> QED BY <1>1, <1>2, <1>3

LEMMA ExecuteAgrees ==
    ASSUME NEW ctx, NEW tokens, Len(tokens) \in Nat,
           IsBinding(tokens) \/ Parse(Expanded(tokens, ctx.env)).segments # <<>>
    PROVE  Agrees(Execute(ctx, tokens))
<1>1. CASE IsBinding(tokens)
    BY <1>1 DEF Execute, WithStatus, Assign, Ok, Result, Agrees
<1>2. CASE ~ IsBinding(tokens)
    <2>1. PICK T : Expanded(tokens, ctx.env) \in Seq(T)
        BY ExpandedIsSequence
    <2> DEFINE segments == Parse(Expanded(tokens, ctx.env)).segments
    <2>2. segments \in Seq(SegmentOf(T)) /\ LeadsOff(segments)
        BY <1>2, <2>1, ParseTyped DEF LeadsOff
    <2>3. Execute(ctx, tokens) = RunSegments(ctx, segments)
        BY <1>2 DEF Execute
    <2> HIDE DEF segments
    <2> QED BY <2>2, <2>3, RunAgrees
<1> QED BY <1>1, <1>2

\* After a line with a command in it "$?" is the status of the session, also
\* when the line itself has set "?".
THEOREM StatusIsShown == ShellSpec => StatusAgrees
<1>1. HistoryKept /\ [ShellNext]_shellVars =>
        [LET tokens == history'[Len(history')]
         IN  /\ Expanded(tokens, env) # <<>>
             /\ IsBinding(tokens) \/ Parse(Expanded(tokens, env)).segments # <<>>
             => env'["?"] = ToString(last_exit')]_shellVars
    <2> SUFFICES ASSUME HistoryKept, NEW tokens \in TypedLines, RunLine(tokens),
                        \/ IsBinding(history'[Len(history')])
                        \/ Parse(Expanded(history'[Len(history')], env)).segments # <<>>
                 PROVE  env'["?"] = ToString(last_exit')
        BY DEF ShellNext
    <2>1. history'[Len(history')] = tokens
        BY RememberedIs DEF RunLine, HistoryKept
    <2>2. Len(tokens) \in Nat
        BY ShellAssumption
    <2>3. Context.env = env
        BY DEF Context
    <2>4. Agrees(Execute(Context, tokens))
        BY <2>1, <2>2, <2>3, ExecuteAgrees
    <2>5. env' = Execute(Context, tokens).ctx.env /\ last_exit' = Execute(Context, tokens).exit
        BY DEF RunLine
    <2> QED BY <2>4, <2>5 DEF Agrees
<1> QED BY <1>1, HistoryHolds, PTL DEF ShellSpec, StatusAgrees

-----------------------------------------------------------------------------
(* Two lines with an operator between them *)

\* What one token does to a state without an error.
LEMMA TokenIs ==
    ASSUME NEW T, NEW st \in ParserState(T), NEW t \in T, ~ Token(st, t).err
    PROVE  /\ ~ st.err
           /\ st.target # "none" => Token(st, t).words = st.words /\ Token(st, t).target = "none"
           /\ st.target = "none" /\ t \in Redirects => Token(st, t).words = st.words
           /\ st.target = "none" /\ t \notin Redirects => Token(st, t).target = "none"
           /\ st.target = "none" /\ t \notin Redirects \cup ChainOps \cup {"|"}
                => Token(st, t).words = Append(st.words, t)
<1>1. ~ st.err
    BY DEF Token
<1>2. ASSUME st.target # "none"
      PROVE  Token(st, t).words = st.words /\ Token(st, t).target = "none"
    <2>1. Token(st, t) = OnTarget(st, t)
        BY <1>1, <1>2 DEF Token
    <2>2. st.target \in {"<", ">", ">>"}
        BY <1>2 DEF ParserState, Redirects
    <2>3. CASE st.target = "<"
        BY <2>1, <2>3 DEF OnTarget, ParserState
    <2>4. CASE st.target = ">"
        BY <2>1, <2>4 DEF OnTarget, ParserState
    <2>5. CASE st.target = ">>"
        BY <2>1, <2>5 DEF OnTarget, ParserState
    <2> QED BY <2>2, <2>3, <2>4, <2>5
<1>3. ASSUME st.target = "none", t \in Redirects
      PROVE  Token(st, t).words = st.words
    <2>1. t # "|" /\ t \notin ChainOps
        BY <1>3 DEF Redirects, ChainOps
    <2>2. Token(st, t) = [st EXCEPT !.target = t]
        BY <1>1, <1>3, <2>1 DEF Token
    <2> QED BY <2>2 DEF ParserState
<1>4. ASSUME st.target = "none", t \notin Redirects \cup ChainOps \cup {"|"}
      PROVE  Token(st, t) = [st EXCEPT !.words = Append(@, t)]
    BY <1>1, <1>4 DEF Token
<1>5. ASSUME st.target = "none", t = "|"
      PROVE  Token(st, t).target = "none"
    <2>1. Token(st, t) = OnPipe(st)
        BY <1>1, <1>5 DEF Token, ChainOps, Redirects
    <2> QED BY <1>5, <2>1, FlushTyped DEF OnPipe, ParserState
<1>6. ASSUME st.target = "none", t \in ChainOps
      PROVE  Token(st, t).target = "none"
    <2>1. t # "|" /\ t \notin Redirects
        BY <1>6 DEF Redirects, ChainOps
    <2>2. Token(st, t) = OnChain(st, t)
        BY <1>1, <1>6, <2>1 DEF Token
    <2> DEFINE f == Flush(st)
    <2>3. f \in ParserState(T) /\ f.target = "none"
        BY <1>6, FlushTyped
    <2>4. CASE f.pipe = <<>>
        BY <1>6, <2>2, <2>4 DEF OnChain, ParserState
    <2>5. CASE f.pipe # <<>>
        <3>1. Token(st, t) = [f EXCEPT !.segments = Append(@, Segment(f)), !.pipe = <<>>, !.op = t]
            BY <2>2, <2>5 DEF OnChain
        <3> HIDE DEF f
        <3> QED BY <2>3, <3>1 DEF ParserState
    <2> QED BY <2>4, <2>5
<1> QED BY <1>1, <1>2, <1>3, <1>4, <1>5, <1>6 DEF ParserState

\* An error is never taken back.
LEMMA ErrorsStay ==
    ASSUME NEW T, NEW tokens \in Seq(T), NEW f, Walk(tokens, f), ~ f[Len(tokens)].err
    PROVE  \A n \in 0..Len(tokens) : ~ f[n].err
<1> DEFINE N == Len(tokens)
<1>1. N \in Nat
    BY LenProperties
<1> HIDE DEF N
<1>2. ASSUME NEW n \in 0..N, f[n].err PROVE FALSE
    <2> DEFINE good == {k \in 0..N : n <= k /\ ~ f[k].err}
    <2>1. N \in good
        BY <1>1 DEF N
    <2>2. PICK k \in good : \A j \in good : k <= j
        <3>1. good \subseteq Nat
            BY <1>1
        <3> HIDE DEF good
        <3> QED BY <2>1, <3>1, Least
    <2>3. k # n
        BY <1>2
    <2>4. k \in 1..N /\ k - 1 \in 0..N /\ n <= k - 1 /\ ~ (k <= k - 1)
        BY <1>1, <1>2, <2>3
    <2>5. f[k - 1].err
        BY <2>2, <2>4
    <2>6. f[k] = Token(f[k - 1], tokens[k])
        BY <2>4 DEF Walk, N
    <2>7. f[k] = f[k - 1]
        BY <2>5, <2>6 DEF Token
    <2> QED BY <2>2, <2>5, <2>7
<1> QED BY <1>2 DEF N

\* A line that ends in a command has gathered words for it.
LEMMA CommandWaits ==
    ASSUME NEW T, NEW a \in Seq(T), NEW f, Walk(a, f), ~ f[Len(a)].err, EndsInCommand(a)
    PROVE  f[Len(a)].words # <<>>
<1> DEFINE N == Len(a)
<1>0. N \in Nat /\ DOMAIN a = 1..N
    BY LenProperties
<1>1. PICK i \in 1..N :
         /\ a[i] \notin ChainOps \cup Redirects \cup {"|"}
         /\ i > 1 => a[i - 1] \notin Redirects
         /\ \A j \in i+1..N : a[j] \notin ChainOps \cup {"|"}
    BY <1>0 DEF EndsInCommand
<1>2. \A n \in 0..N : f[n] \in ParserState(T) /\ ~ f[n].err
    BY WalkTyped, ErrorsStay
<1>3. \A k \in 1..N : f[k] = Token(f[k - 1], a[k]) /\ a[k] \in T
    BY DEF Walk
<1> HIDE DEF N
<1>4. f[i - 1].target = "none"
    <2>1. CASE i = 1
        <3>1. i - 1 = 0
            BY <2>1
        <3>2. f[0] = Start
            BY DEF Walk
        <3>3. Start.target = "none"
            BY DEF Start
        <3> QED BY <3>1, <3>2, <3>3
    <2>2. CASE i # 1
        <3> DEFINE k == i - 1
        <3>1. k \in 1..N /\ k \in 0..N /\ k - 1 \in 0..N /\ i > 1
            BY <1>0, <2>2
        <3>2. a[k] \notin Redirects
            BY <1>1, <3>1
        <3> HIDE DEF k
        <3>3. f[k] = Token(f[k - 1], a[k]) /\ ~ f[k].err /\ a[k] \in T /\ f[k - 1] \in ParserState(T)
            BY <1>2, <1>3, <3>1
        <3>4. f[k].target = "none"
            BY <3>2, <3>3, TokenIs
        <3> QED BY <3>4 DEF k
    <2> QED BY <2>1, <2>2
<1> DEFINE bad == {n \in 0..N : i <= n /\ f[n].words = <<>>}
<1>5. ASSUME bad # {} PROVE FALSE
    <2>1. PICK n \in bad : \A k \in bad : n <= k
        <3>1. bad \subseteq Nat
            BY <1>0
        <3> HIDE DEF bad
        <3> QED BY <1>5, <3>1, Least
    <2>2. n \in 1..N /\ n - 1 \in 0..N /\ i <= n /\ f[n].words = <<>> /\ ~ (n <= n - 1)
        BY <1>0
    <2>3. f[n] = Token(f[n - 1], a[n]) /\ ~ f[n].err /\ a[n] \in T /\ f[n - 1] \in ParserState(T)
        BY <1>2, <1>3, <2>2
    <2>4. f[n - 1].words \in Seq(T)
        BY <2>3 DEF ParserState
    <2>5. Append(f[n - 1].words, a[n]) # <<>>
        BY <2>3, <2>4, AppendProperties
    <2>6. CASE n = i
        BY <1>1, <1>4, <2>2, <2>3, <2>5, <2>6, TokenIs
    <2>7. CASE n # i
        <3>1. n - 1 \notin bad /\ i <= n - 1 /\ n \in i+1..N
            <4> HIDE DEF bad
            <4> QED BY <1>0, <2>1, <2>2, <2>7
        <3>2. f[n - 1].words # <<>>
            BY <2>2, <3>1
        <3>3. a[n] \notin ChainOps \cup {"|"}
            BY <1>1, <3>1
        <3>4. f[n].words = f[n - 1].words \/ f[n].words = Append(f[n - 1].words, a[n])
            BY <2>3, <3>3, TokenIs
        <3> QED BY <2>2, <2>5, <3>2, <3>4
    <2> QED BY <2>6, <2>7
<1>6. N \in 0..N /\ i <= N
    BY <1>0
<1>7. f[N].words # <<>>
    BY <1>5, <1>6
<1> QED BY <1>7 DEF N

\* The segments of the second line, with the operator in front of the first.
Led(S, op) == [i \in DOMAIN S |-> IF i = 1 THEN [S[i] EXCEPT !.op = op] ELSE S[i]]

\* Of the same tokens s has made the same as t, behind the segments X and op.
Beside(s, t, X, op) ==
    /\ s.words = t.words /\ s.in = t.in /\ s.out = t.out /\ s.pipe = t.pipe
    /\ s.target = t.target /\ s.err = t.err
    /\ s.segments = X \o Led(t.segments, op)
    /\ s.op = IF t.segments = <<>> THEN op ELSE t.op

LEMMA LedTyped ==
    ASSUME NEW T, NEW S \in Seq(SegmentOf(T)), NEW op \in ChainOps
    PROVE  /\ Led(S, op) \in Seq(SegmentOf(T)) /\ Len(Led(S, op)) = Len(S)
           /\ \A i \in 1..Len(S) : Led(S, op)[i] = IF i = 1 THEN [S[i] EXCEPT !.op = op] ELSE S[i]
<1>1. Len(S) \in Nat /\ DOMAIN S = 1..Len(S)
    BY LenProperties
<1>2. \A i \in 1..Len(S) : S[i] \in SegmentOf(T)
    BY ElementOfSeq
<1>3. \A g \in SegmentOf(T) : [g EXCEPT !.op = op] \in SegmentOf(T)
    BY DEF SegmentOf
<1>4. Led(S, op) = [i \in 1..Len(S) |-> IF i = 1 THEN [S[i] EXCEPT !.op = op] ELSE S[i]]
    BY <1>1 DEF Led
<1>5. Led(S, op) \in [1..Len(S) -> SegmentOf(T)]
    BY <1>2, <1>3, <1>4
<1>6. Led(S, op) \in Seq(SegmentOf(T))
    BY <1>1, <1>5
<1>7. Len(Led(S, op)) = Len(S)
    BY <1>1, <1>5
<1> QED BY <1>4, <1>6, <1>7

\* One more segment, on both sides.
LEMMA LedAppended ==
    ASSUME NEW T, NEW X \in Seq(SegmentOf(T)), NEW S \in Seq(SegmentOf(T)), NEW op \in ChainOps,
           NEW g \in SegmentOf(T), NEW h \in SegmentOf(T),
           h = IF S = <<>> THEN [g EXCEPT !.op = op] ELSE g
    PROVE  Append(X \o Led(S, op), h) = X \o Led(Append(S, g), op)
<1> DEFINE A == Append(S, g)
           L == Led(S, op)
           M == Led(A, op)
<1>1. /\ A \in Seq(SegmentOf(T)) /\ Len(A) = Len(S) + 1 /\ Len(S) \in Nat
      /\ \A i \in 1..Len(S) : A[i] = S[i]
      /\ A[Len(S) + 1] = g
    BY AppendProperties, LenProperties
<1> HIDE DEF A
<1>2. /\ L \in Seq(SegmentOf(T)) /\ Len(L) = Len(S)
      /\ \A i \in 1..Len(S) : L[i] = IF i = 1 THEN [S[i] EXCEPT !.op = op] ELSE S[i]
    BY LedTyped
<1>3. /\ M \in Seq(SegmentOf(T)) /\ Len(M) = Len(S) + 1
      /\ \A i \in 1..Len(S) + 1 : M[i] = IF i = 1 THEN [A[i] EXCEPT !.op = op] ELSE A[i]
    <2>1. /\ M \in Seq(SegmentOf(T)) /\ Len(M) = Len(A)
          /\ \A i \in 1..Len(A) : M[i] = IF i = 1 THEN [A[i] EXCEPT !.op = op] ELSE A[i]
        BY <1>1, LedTyped
    <2> QED BY <1>1, <2>1
<1> HIDE DEF L, M
<1>4. S = <<>> <=> Len(S) = 0
    BY EmptySeq
<1>5. M = Append(L, h)
    <2>1. /\ Append(L, h) \in Seq(SegmentOf(T)) /\ Len(Append(L, h)) = Len(S) + 1
          /\ \A i \in 1..Len(S) : Append(L, h)[i] = L[i]
          /\ Append(L, h)[Len(S) + 1] = h
        BY <1>2, AppendProperties
    <2>2. ASSUME NEW i \in 1..Len(S) + 1 PROVE M[i] = Append(L, h)[i]
        <3>1. CASE i \in 1..Len(S)
            <4>1. A[i] = S[i] /\ Append(L, h)[i] = L[i]
                BY <1>1, <2>1, <3>1
            <4>2. L[i] = IF i = 1 THEN [S[i] EXCEPT !.op = op] ELSE S[i]
                BY <1>2, <3>1
            <4>3. M[i] = IF i = 1 THEN [A[i] EXCEPT !.op = op] ELSE A[i]
                BY <1>3
            <4> QED BY <4>1, <4>2, <4>3
        <3>2. CASE i = Len(S) + 1
            <4>1. M[i] = IF i = 1 THEN [g EXCEPT !.op = op] ELSE g
                BY <1>1, <1>3, <3>2
            <4>2. i = 1 <=> S = <<>>
                BY <1>1, <1>4, <3>2
            <4>3. Append(L, h)[i] = h
                BY <2>1, <3>2
            <4> QED BY <4>1, <4>2, <4>3
        <3>3. i \in 1..Len(S) \/ i = Len(S) + 1
            BY <1>1
        <3> QED BY <3>1, <3>2, <3>3
    <2> QED BY <1>3, <2>1, <2>2, SeqEqual
<1>6. X \o Append(L, h) = Append(X \o L, h)
    <2>1. Append(L, h) = L \o <<h>> /\ Append(X \o L, h) = (X \o L) \o <<h>>
        <3>1. X \o L \in Seq(SegmentOf(T))
            BY <1>2, ConcatProperties
        <3>2. Append(L, h) = L \o <<h>>
            BY <1>2, AppendIsConcat
        <3>3. Append(X \o L, h) = (X \o L) \o <<h>>
            BY <3>1, AppendIsConcat
        <3> QED BY <3>2, <3>3
    <2>2. <<h>> \in Seq(SegmentOf(T))
        BY SingleIsSeq
    <2>3. (X \o L) \o <<h>> = X \o (L \o <<h>>)
        BY <1>2, <2>2, ConcatAssociative
    <2> QED BY <2>1, <2>3
<1> QED BY <1>5, <1>6 DEF A, L, M

LEMMA FlushBeside ==
    ASSUME NEW T, NEW s \in ParserState(T), NEW t \in ParserState(T),
           NEW X \in Seq(SegmentOf(T)), NEW op \in ChainOps, Beside(s, t, X, op)
    PROVE  Beside(Flush(s), Flush(t), X, op)
<1>1. CASE t.words = <<>>
    BY <1>1 DEF Flush, Beside
<1>2. CASE t.words # <<>>
    <2> DEFINE command == [program |-> Head(t.words), args |-> Tail(t.words), in |-> t.in, out |-> t.out]
    <2>1. Flush(t) = [t EXCEPT !.pipe = Append(@, command), !.words = <<>>, !.in = <<>>, !.out = <<>>]
        BY <1>2 DEF Flush
    <2>2. Flush(s) = [s EXCEPT !.pipe = Append(@, command), !.words = <<>>, !.in = <<>>, !.out = <<>>]
        BY <1>2 DEF Flush, Beside
    <2> HIDE DEF command
    <2> QED BY <2>1, <2>2 DEF Beside, ParserState
<1> QED BY <1>1, <1>2

\* Both end a segment.
LEMMA EndBeside ==
    ASSUME NEW T, NEW s \in ParserState(T), NEW t \in ParserState(T),
           NEW X \in Seq(SegmentOf(T)), NEW op \in ChainOps, Beside(s, t, X, op)
    PROVE  Append(s.segments, Segment(s)) = X \o Led(Append(t.segments, Segment(t)), op)
<1>1. Segment(s) \in SegmentOf(T) /\ Segment(t) \in SegmentOf(T) /\ t.segments \in Seq(SegmentOf(T))
    BY DEF Segment, SegmentOf, ParserState
<1>2. Segment(s) = IF t.segments = <<>> THEN [Segment(t) EXCEPT !.op = op] ELSE Segment(t)
    BY DEF Segment, Beside
<1>3. Append(X \o Led(t.segments, op), Segment(s)) = X \o Led(Append(t.segments, Segment(t)), op)
    BY <1>1, <1>2, LedAppended
<1> QED BY <1>3 DEF Beside

LEMMA TokenBeside ==
    ASSUME NEW T, NEW s \in ParserState(T), NEW t \in ParserState(T),
           NEW X \in Seq(SegmentOf(T)), NEW op \in ChainOps, Beside(s, t, X, op), NEW c \in T
    PROVE  Beside(Token(s, c), Token(t, c), X, op)
<1>0. s.err = t.err /\ s.target = t.target /\ s.words = t.words
    BY DEF Beside
<1>1. CASE t.err
    BY <1>0, <1>1 DEF Token
<1>2. CASE ~t.err /\ t.target # "none"
    <2>1. Token(t, c) = OnTarget(t, c) /\ Token(s, c) = OnTarget(s, c)
        BY <1>0, <1>2 DEF Token
    <2>2. t.target \in {"<", ">", ">>"}
        BY <1>2 DEF ParserState, Redirects
    <2>3. CASE t.target = "<"
        BY <1>0, <2>1, <2>3 DEF OnTarget, ParserState, Beside
    <2>4. CASE t.target = ">"
        BY <1>0, <2>1, <2>4 DEF OnTarget, ParserState, Beside
    <2>5. CASE t.target = ">>"
        BY <1>0, <2>1, <2>5 DEF OnTarget, ParserState, Beside
    <2> QED BY <2>2, <2>3, <2>4, <2>5
<1>3. CASE ~t.err /\ t.target = "none"
    <2>1. CASE c = "|"
        <3>1. Token(t, c) = OnPipe(t) /\ Token(s, c) = OnPipe(s)
            BY <1>0, <1>3, <2>1 DEF Token, ChainOps, Redirects
        <3>2. CASE t.words = <<>>
            <4>1. Token(t, c) = [t EXCEPT !.err = TRUE] /\ Token(s, c) = [s EXCEPT !.err = TRUE]
                BY <1>0, <3>1, <3>2 DEF OnPipe
            <4> QED BY <4>1 DEF Beside, ParserState
        <3>3. CASE t.words # <<>>
            <4>1. Token(t, c) = Flush(t) /\ Token(s, c) = Flush(s)
                BY <1>0, <3>1, <3>3 DEF OnPipe
            <4> QED BY <4>1, FlushBeside
        <3> QED BY <3>2, <3>3
    <2>2. CASE c \in ChainOps
        <3>0. c # "|" /\ c \notin Redirects
            BY <2>2 DEF ChainOps, Redirects
        <3>1. Token(t, c) = OnChain(t, c) /\ Token(s, c) = OnChain(s, c)
            BY <1>0, <1>3, <2>2, <3>0 DEF Token
        <3> DEFINE f == Flush(t)
                   g == Flush(s)
        <3>2. f \in ParserState(T) /\ g \in ParserState(T) /\ Beside(g, f, X, op)
            BY FlushTyped, FlushBeside
        <3>3. f.pipe = g.pipe
            BY <3>2 DEF Beside
        <3>4. CASE f.pipe = <<>>
            <4>1. Token(t, c) = [t EXCEPT !.err = TRUE] /\ Token(s, c) = [s EXCEPT !.err = TRUE]
                BY <3>1, <3>3, <3>4 DEF OnChain
            <4> QED BY <4>1 DEF Beside, ParserState
        <3>5. CASE f.pipe # <<>>
            <4>1. /\ Token(t, c) = [f EXCEPT !.segments = Append(@, Segment(f)), !.pipe = <<>>, !.op = c]
                  /\ Token(s, c) = [g EXCEPT !.segments = Append(@, Segment(g)), !.pipe = <<>>, !.op = c]
                BY <3>1, <3>3, <3>5 DEF OnChain
            <4> HIDE DEF f, g
            <4>2. Append(g.segments, Segment(g)) = X \o Led(Append(f.segments, Segment(f)), op)
                BY <3>2, EndBeside
            <4>3. Append(f.segments, Segment(f)) # <<>>
                <5>1. f.segments \in Seq(SegmentOf(T)) /\ Segment(f) \in SegmentOf(T)
                    BY <3>2 DEF Segment, SegmentOf, ParserState
                <5> QED BY <5>1, AppendProperties
            <4> DEFINE A == Append(f.segments, Segment(f))
                       B == Append(g.segments, Segment(g))
            <4>4. /\ Token(t, c) = [f EXCEPT !.segments = A, !.pipe = <<>>, !.op = c]
                  /\ Token(s, c) = [g EXCEPT !.segments = B, !.pipe = <<>>, !.op = c]
                BY <3>2, <4>1 DEF ParserState
            <4>5. B = X \o Led(A, op) /\ A # <<>>
                BY <4>2, <4>3
            <4> HIDE DEF A, B
            <4> QED BY <3>2, <4>4, <4>5 DEF Beside, ParserState
        <3> QED BY <3>4, <3>5
    <2>3. CASE c \in Redirects
        <3>1. c # "|" /\ c \notin ChainOps
            BY <2>3 DEF ChainOps, Redirects
        <3>2. Token(t, c) = [t EXCEPT !.target = c] /\ Token(s, c) = [s EXCEPT !.target = c]
            BY <1>0, <1>3, <2>3, <3>1 DEF Token
        <3> QED BY <3>2 DEF Beside, ParserState
    <2>4. CASE c \notin ChainOps \cup Redirects \cup {"|"}
        <3>1. /\ Token(t, c) = [t EXCEPT !.words = Append(@, c)]
              /\ Token(s, c) = [s EXCEPT !.words = Append(@, c)]
            BY <1>0, <1>3, <2>4 DEF Token
        <3> QED BY <3>1 DEF Beside, ParserState
    <2> QED BY <2>1, <2>2, <2>3, <2>4
<1> QED BY <1>0, <1>1, <1>2, <1>3 DEF ParserState

LEMMA FinishBeside ==
    ASSUME NEW T, NEW s \in ParserState(T), NEW t \in ParserState(T),
           NEW X \in Seq(SegmentOf(T)), NEW op \in ChainOps, Beside(s, t, X, op),
           ~ Finish(t).err
    PROVE  ~ Finish(s).err /\ Finish(s).segments = X \o Led(Finish(t).segments, op)
<1> DEFINE f == Flush(t)
           g == Flush(s)
<1>1. ~ t.err /\ t.target = "none" /\ ~ s.err /\ s.target = "none"
    <2>1. ASSUME t.err \/ t.target # "none" PROVE FALSE
        <3>1. Finish(t) = [t EXCEPT !.err = TRUE]
            BY <2>1 DEF Finish
        <3> QED BY <3>1 DEF ParserState
    <2> QED BY <2>1 DEF Beside
<1>2. /\ f \in ParserState(T) /\ g \in ParserState(T) /\ Beside(g, f, X, op)
      /\ ~ f.err /\ ~ g.err
    BY <1>1, FlushTyped, FlushBeside
<1>3. f.pipe = g.pipe
    BY <1>2 DEF Beside
<1>4. CASE f.pipe = <<>>
    <2>1. Finish(t) = f /\ Finish(s) = g
        BY <1>1, <1>3, <1>4 DEF Finish
    <2> HIDE DEF f, g
    <2> QED BY <1>2, <2>1 DEF Beside
<1>5. CASE f.pipe # <<>>
    <2>1. /\ Finish(t) = [f EXCEPT !.segments = Append(@, Segment(f)), !.pipe = <<>>]
          /\ Finish(s) = [g EXCEPT !.segments = Append(@, Segment(g)), !.pipe = <<>>]
        BY <1>1, <1>3, <1>5 DEF Finish
    <2> HIDE DEF f, g
    <2>2. Append(g.segments, Segment(g)) = X \o Led(Append(f.segments, Segment(f)), op)
        BY <1>2, EndBeside
    <2>3. /\ Finish(t).segments = Append(f.segments, Segment(f)) 
          /\ Finish(s).segments = Append(g.segments, Segment(g)) /\ ~ Finish(s).err
        BY <1>2, <2>1 DEF ParserState
    <2> QED BY <2>2, <2>3
<1> QED BY <1>4, <1>5

\* An operator after a command ends it the way the end of the line would, and
\* leaves nothing over for what follows.
LEMMA OperatorEndsCommand ==
    ASSUME NEW T, NEW st \in ParserState(T), NEW op \in ChainOps,
           ~ Finish(st).err, st.words # <<>>
    PROVE  Beside(Token(st, op), Start, Finish(st).segments, op)
<1> DEFINE f == Flush(st)
<1>1. ~ st.err /\ st.target = "none"
    <2>1. ASSUME st.err \/ st.target # "none" PROVE FALSE
        <3>1. Finish(st) = [st EXCEPT !.err = TRUE]
            BY <2>1 DEF Finish
        <3> QED BY <3>1 DEF ParserState
    <2> QED BY <2>1
<1>2. /\ f \in ParserState(T) /\ f.segments = st.segments /\ ~ f.err /\ f.target = "none"
      /\ f.words = <<>>
    BY <1>1, FlushTyped
<1>3. f.pipe # <<>> /\ f.in = <<>> /\ f.out = <<>>
    <2> DEFINE command == [program |-> Head(st.words), args |-> Tail(st.words), in |-> st.in, out |-> st.out]
    <2>1. f = [st EXCEPT !.pipe = Append(@, command), !.words = <<>>, !.in = <<>>, !.out = <<>>]
        BY DEF Flush
    <2>2. command \in Command(T)
        <3>1. st.words \in Seq(T) /\ Head(st.words) \in T /\ Tail(st.words) \in Seq(T)
            BY HeadTailProperties DEF ParserState
        <3> QED BY <3>1 DEF Command, ParserState
    <2> HIDE DEF command
    <2>3. Append(st.pipe, command) # <<>>
        BY <2>2, AppendProperties DEF ParserState
    <2> QED BY <2>1, <2>3 DEF ParserState
<1>4. Token(st, op) = OnChain(st, op)
    <2>1. op # "|" /\ op \notin Redirects
        BY DEF ChainOps, Redirects
    <2> QED BY <1>1, <2>1 DEF Token
<1>5. Token(st, op) = [f EXCEPT !.segments = Append(@, Segment(f)), !.pipe = <<>>, !.op = op]
    BY <1>3, <1>4 DEF OnChain
<1>6. Finish(st) = [f EXCEPT !.segments = Append(@, Segment(f)), !.pipe = <<>>]
    BY <1>1, <1>3 DEF Finish
<1> DEFINE X == Append(f.segments, Segment(f))
<1>7. X \in Seq(SegmentOf(T))
    <2>1. f.segments \in Seq(SegmentOf(T)) /\ Segment(f) \in SegmentOf(T)
        BY <1>2 DEF Segment, SegmentOf, ParserState
    <2> QED BY <2>1, AppendProperties
<1>8. X \o Led(<<>>, op) = X
    <2>1. <<>> \in Seq(SegmentOf(T))
        BY EmptySeq
    <2>2. Led(<<>>, op) \in Seq(SegmentOf(T)) /\ Len(Led(<<>>, op)) = 0
        BY <2>1, LedTyped, EmptySeq
    <2>3. Led(<<>>, op) = <<>>
        BY <2>2, EmptySeq
    <2> HIDE DEF X
    <2> QED BY <1>7, <2>3, ConcatEmptySeq
<1> HIDE DEF f
<1>9. Finish(st).segments = X /\ Token(st, op).segments = X
    BY <1>2, <1>5, <1>6 DEF ParserState
<1>10. /\ Token(st, op).words = <<>> /\ Token(st, op).in = <<>> /\ Token(st, op).out = <<>>
       /\ Token(st, op).pipe = <<>> /\ Token(st, op).target = "none" /\ Token(st, op).err = FALSE
       /\ Token(st, op).op = op
    BY <1>2, <1>3, <1>5 DEF ParserState
<1> HIDE DEF X
<1>11. /\ Start.words = <<>> /\ Start.in = <<>> /\ Start.out = <<>> /\ Start.pipe = <<>>
       /\ Start.target = "none" /\ Start.err = FALSE /\ Start.segments = <<>>
    BY DEF Start
<1> QED BY <1>8, <1>9, <1>10, <1>11 DEF Beside

\* The second line, read behind the first and the operator.
LEMMA WalksBeside ==
    ASSUME NEW T, NEW a \in Seq(T), NEW b \in Seq(T), NEW op \in ChainOps, op \in T,
           NEW f, Walk(a, f), NEW g, Walk(b, g), NEW h, Walk(a \o <<op>> \o b, h),
           ~ Finish(f[Len(a)]).err, f[Len(a)].words # <<>>
    PROVE  /\ Beside(h[Len(a \o <<op>> \o b)], g[Len(b)], Finish(f[Len(a)]).segments, op)
           /\ h[Len(a \o <<op>> \o b)] \in ParserState(T)
<1> DEFINE N == Len(a)
           M == Len(b)
           c == a \o <<op>> \o b
           X == Finish(f[N]).segments
<1>1. /\ c \in Seq(T) /\ N \in Nat /\ M \in Nat /\ Len(c) = N + 1 + M
      /\ \A k \in 1..N : c[k] = a[k]
      /\ c[N + 1] = op
      /\ \A k \in 1..M : c[N + 1 + k] = b[k] /\ b[k] \in T
    <2> DEFINE d == a \o <<op>>
    <2>1. <<op>> \in Seq(T) /\ Len(<<op>>) = 1 /\ <<op>>[1] = op
        BY SingleIsSeq
    <2>2. /\ d \in Seq(T) /\ Len(d) = N + 1
          /\ \A k \in 1..N + 1 : d[k] = IF k <= N THEN a[k] ELSE <<op>>[k - N]
        BY <2>1, ConcatProperties
    <2>3. N \in Nat /\ M \in Nat
        BY LenProperties
    <2>4. d[N + 1] = op /\ \A k \in 1..N : d[k] = a[k]
        <3>1. N + 1 \in 1..N + 1 /\ ~ (N + 1 <= N) /\ (N + 1) - N = 1
            BY <2>3
        <3>2. d[N + 1] = op
            BY <2>1, <2>2, <3>1
        <3>3. ASSUME NEW k \in 1..N PROVE d[k] = a[k]
            BY <2>2, <2>3
        <3> QED BY <3>2, <3>3
    <2> HIDE DEF d
    <2>5. /\ d \o b \in Seq(T) /\ Len(d \o b) = Len(d) + M
          /\ \A k \in 1..Len(d) + M : (d \o b)[k] = IF k <= Len(d) THEN d[k] ELSE b[k - Len(d)]
        BY <2>2, ConcatProperties
    <2>6. c = d \o b
        BY DEF d
    <2> HIDE DEF c, N, M
    <2>7. ASSUME NEW k \in 1..N + 1 PROVE c[k] = d[k]
        <3>1. k \in 1..Len(d) + M /\ k <= Len(d)
            BY <2>2, <2>3
        <3> QED BY <2>5, <2>6, <3>1
    <2>8. ASSUME NEW k \in 1..M PROVE c[N + 1 + k] = b[k] /\ b[k] \in T
        <3>1. N + 1 + k \in 1..Len(d) + M /\ ~ (N + 1 + k <= Len(d)) /\ (N + 1 + k) - Len(d) = k
            BY <2>2, <2>3
        <3>2. c[N + 1 + k] = b[k]
            BY <2>5, <2>6, <3>1
        <3> QED BY <3>2, ElementOfSeq DEF M
    <2>9. N + 1 \in 1..N + 1 /\ \A k \in 1..N : k \in 1..N + 1
        BY <2>3
    <2> QED BY <2>2, <2>3, <2>4, <2>5, <2>6, <2>7, <2>8, <2>9
<1>2. /\ h[0] = Start /\ \A k \in 1..N + 1 + M : h[k] = Token(h[k - 1], c[k])
      /\ f[0] = Start /\ \A k \in 1..N : f[k] = Token(f[k - 1], a[k])
      /\ g[0] = Start /\ \A k \in 1..M : g[k] = Token(g[k - 1], b[k])
    BY <1>1 DEF Walk
<1>3. /\ \A n \in 0..N + 1 + M : h[n] \in ParserState(T)
      /\ \A n \in 0..M : g[n] \in ParserState(T)
      /\ f[N] \in ParserState(T)
    <2>1. \A n \in 0..Len(c) : h[n] \in ParserState(T)
        BY <1>1, WalkTyped
    <2>2. \A n \in 0..M : g[n] \in ParserState(T)
        BY WalkTyped
    <2>3. \A n \in 0..N : f[n] \in ParserState(T)
        BY WalkTyped
    <2> QED BY <1>1, <2>1, <2>2, <2>3
<1> HIDE DEF N, M, c
<1> DEFINE apart == {n \in 0..N : h[n] # f[n]}
<1>4. ASSUME apart # {} PROVE FALSE
    <2>1. PICK n \in apart : \A k \in apart : n <= k
        <3>1. apart \subseteq Nat
            BY <1>1
        <3> HIDE DEF apart
        <3> QED BY <1>4, <3>1, Least
    <2>2. n # 0
        BY <1>2
    <2>3. n \in 1..N /\ n - 1 \in 0..N /\ n \in 1..N + 1 + M /\ ~ (n <= n - 1)
        BY <1>1, <2>2
    <2>4. h[n - 1] = f[n - 1]
        BY <2>1, <2>3
    <2>5. h[n] = Token(h[n - 1], c[n]) /\ f[n] = Token(f[n - 1], a[n]) /\ c[n] = a[n]
        BY <1>1, <1>2, <2>3
    <2> QED BY <2>1, <2>4, <2>5
<1>5. h[N] = f[N]
    BY <1>1, <1>4
<1>6. h[N + 1] = Token(f[N], op)
    <2>1. N + 1 \in 1..N + 1 + M /\ (N + 1) - 1 = N
        BY <1>1
    <2> QED BY <1>1, <1>2, <1>5, <2>1
<1>7. X \in Seq(SegmentOf(T))
    <2>1. f[N] \in ParserState(T) /\ FirstIsDue(f[N])
        BY <1>1, WalkTyped DEF N
    <2> QED BY <2>1, FinishTyped
<1>8. Beside(h[N + 1], g[0], X, op)
    BY <1>2, <1>3, <1>6, OperatorEndsCommand DEF N
<1> HIDE DEF X
<1> DEFINE off == {k \in 0..M : ~ Beside(h[N + 1 + k], g[k], X, op)}
<1>9. ASSUME off # {} PROVE FALSE
    <2>1. PICK k \in off : \A j \in off : k <= j
        <3>1. off \subseteq Nat
            BY <1>1
        <3> HIDE DEF off
        <3> QED BY <1>9, <3>1, Least
    <2>2. k # 0
        <3>1. N + 1 + 0 = N + 1
            BY <1>1
        <3> QED BY <1>8, <3>1
    <2>3. k \in 1..M /\ k - 1 \in 0..M /\ ~ (k <= k - 1)
        BY <1>1, <2>2
    <2>4. /\ N + 1 + k \in 1..N + 1 + M /\ N + 1 + (k - 1) \in 0..N + 1 + M
          /\ (N + 1 + k) - 1 = N + 1 + (k - 1)
        BY <1>1, <2>3
    <2>5. Beside(h[N + 1 + (k - 1)], g[k - 1], X, op)
        BY <2>1, <2>3
    <2>6. /\ h[N + 1 + k] = Token(h[N + 1 + (k - 1)], b[k]) /\ g[k] = Token(g[k - 1], b[k])
          /\ b[k] \in T /\ h[N + 1 + (k - 1)] \in ParserState(T) /\ g[k - 1] \in ParserState(T)
        BY <1>1, <1>2, <1>3, <2>3, <2>4
    <2>7. Beside(h[N + 1 + k], g[k], X, op)
        BY <1>7, <2>5, <2>6, TokenBeside
    <2> QED BY <2>1, <2>7
<1>10. Beside(h[N + 1 + M], g[M], X, op) /\ h[N + 1 + M] \in ParserState(T)
    <2>1. M \in 0..M /\ N + 1 + M \in 0..N + 1 + M
        BY <1>1
    <2>2. ~ (M \in off)
        BY <1>9
    <2> QED BY <1>3, <2>1, <2>2
<1> QED BY <1>1, <1>10 DEF N, M, c, X

LEMMA SeqGrows ==
    ASSUME NEW S, NEW T, S \subseteq T, NEW s \in Seq(S)
    PROVE  s \in Seq(T)
<1>1. Len(s) \in Nat /\ s \in [1..Len(s) -> S]
    BY LenProperties
<1>2. s \in [1..Len(s) -> T]
    BY <1>1
<1> QED BY <1>1, <1>2

\* The segments of a line that has some, with the operator in front.
LEMMA LedIs ==
    ASSUME NEW T, NEW S \in Seq(SegmentOf(T)), NEW op \in ChainOps, S # <<>>
    PROVE  Led(S, op) = [S EXCEPT ![1].op = op]
<1>1. DOMAIN S = 1..Len(S) /\ Len(S) \in Nat \ {0}
    BY LenProperties, EmptySeq
<1> QED BY <1>1 DEF Led

\* Two lines with an operator between them are parsed as each of them alone.
ParsedApart(a, op, b) ==
    LET both == Parse(a \o <<op>> \o b)
    IN  ~both.err /\ both.segments =
            Parse(a).segments \o [Parse(b).segments EXCEPT ![1].op = op]

LEMMA ParsesBeside ==
    ASSUME NEW T, NEW a \in Seq(T), NEW b \in Seq(T), NEW op \in ChainOps, op \in T,
           Whole(a), EndsInCommand(a), Whole(b)
    PROVE  ParsedApart(a, op, b)
<1> DEFINE c == a \o <<op>> \o b
<1>1. c \in Seq(T)
    BY SingleIsSeq, ConcatProperties
<1>2. PICK f : Walk(a, f) /\ Parse(a) = Finish(f[Len(a)])
    BY ParseIs, LenProperties DEF Walk
<1>3. PICK g : Walk(b, g) /\ Parse(b) = Finish(g[Len(b)])
    BY ParseIs, LenProperties DEF Walk
<1>4. PICK h : Walk(c, h) /\ Parse(c) = Finish(h[Len(c)])
    BY <1>1, ParseIs, LenProperties DEF Walk
<1>5. ~ Finish(f[Len(a)]).err /\ ~ Finish(g[Len(b)]).err /\ Parse(b).segments # <<>>
    BY <1>2, <1>3 DEF Whole
<1>6. /\ f[Len(a)] \in ParserState(T) /\ g[Len(b)] \in ParserState(T)
      /\ Parse(a).segments \in Seq(SegmentOf(T)) /\ Parse(b).segments \in Seq(SegmentOf(T))
    <2>1. Len(a) \in 0..Len(a) /\ Len(b) \in 0..Len(b)
        BY LenProperties
    <2>2. f[Len(a)] \in ParserState(T) /\ g[Len(b)] \in ParserState(T)
        BY <1>2, <1>3, <2>1, WalkTyped
    <2> QED BY <2>2, ParseTyped
<1>7. ~ f[Len(a)].err
    BY <1>5, <1>6 DEF Finish, ParserState
<1>8. f[Len(a)].words # <<>>
    BY <1>2, <1>7, CommandWaits
<1>9. Beside(h[Len(c)], g[Len(b)], Parse(a).segments, op) /\ h[Len(c)] \in ParserState(T)
    BY <1>2, <1>3, <1>4, <1>5, <1>8, WalksBeside
<1> HIDE DEF c
<1>10. ~ Parse(c).err /\ Parse(c).segments = Parse(a).segments \o Led(Parse(b).segments, op)
    <2> DEFINE s == h[Len(c)]
               t == g[Len(b)]
               X == Parse(a).segments
    <2>1. /\ s \in ParserState(T) /\ t \in ParserState(T) /\ X \in Seq(SegmentOf(T))
          /\ Beside(s, t, X, op) /\ ~ Finish(t).err
        BY <1>5, <1>6, <1>9
    <2>2. Parse(c) = Finish(s) /\ Parse(b) = Finish(t)
        BY <1>3, <1>4
    <2> HIDE DEF s, t, X
    <2>3. ~ Finish(s).err /\ Finish(s).segments = X \o Led(Finish(t).segments, op)
        BY <2>1, FinishBeside
    <2> QED BY <2>2, <2>3 DEF X
<1>11. Led(Parse(b).segments, op) = [Parse(b).segments EXCEPT ![1].op = op]
    BY <1>5, <1>6, LedIs
<1> QED BY <1>10, <1>11 DEF c, ParsedApart

\* No word and no redirection crosses ";", "&&" or "||" behind a command,
\* whatever the two lines are.
THEOREM LinesParseApart == ShellSpec => []ParsesSegmentwise
<1> DEFINE Words == STRING \cup ChainOps
<1>1. ASSUME NEW line \in Samples PROVE line \in Seq(Words)
    BY ShellAssumption, SeqGrows
<1>2. \A op \in ChainOps : op \in Words
    OBVIOUS
<1> HIDE DEF Words
<1>3. ASSUME NEW a \in Samples, NEW b \in Samples, NEW op \in ChainOps,
             Whole(a), EndsInCommand(a), Whole(b)
      PROVE  ParsedApart(a, op, b)
    <2>1. a \in Seq(Words) /\ b \in Seq(Words) /\ op \in Words
        BY <1>1, <1>2
    <2> QED BY <1>3, <2>1, ParsesBeside
<1>4. ParsesSegmentwise
    BY <1>3 DEF ParsesSegmentwise, ParsedApart
<1> QED BY <1>4, PTL
=============================================================================
