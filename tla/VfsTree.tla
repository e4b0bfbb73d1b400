------------------------------ MODULE VfsTree ------------------------------
(***************************************************************************)
(* The operations of vfs::Vfs (crates/vfs/src/lib.rs) as operators on a    *)
(* tree.  A tree is the BTreeMap `nodes`: a function from absolute paths   *)
(* to nodes.  A path is the sequence of its components, so "/" is <<>>;    *)
(* a recursive copy onto "/" makes keys like "//x", whose first component  *)
(* is the empty name.  Every operation returns the tree after it and the   *)
(* VfsError it ended with, "none" for Ok: the code may fail half way.      *)
(* Owners, permission bits and timestamps are left out: no operation reads *)
(* them.                                                                   *)
(***************************************************************************)
EXTENDS Integers, Sequences, FiniteSets

CONSTANT EmptyName      \* the component between the two slashes of "//x"

Root == <<>>

DirNode == [kind |-> "Dir", data |-> <<>>]
FileNode(d) == [kind |-> "File", data |-> d]

NewTree == [p \in {Root} |-> DirNode]

Parent(p) == IF p = Root THEN Root ELSE SubSeq(p, 1, Len(p) - 1)

IsDir(t, p) == p \in DOMAIN t /\ t[p].kind = "Dir"
IsFile(t, p) == p \in DOMAIN t /\ t[p].kind = "File"

\* q.starts_with(p): q is p or lies somewhere below it.
AtOrBelow(q, p) == Len(p) <= Len(q) /\ SubSeq(q, 1, Len(p)) = p

Put(t, p, n) == [q \in DOMAIN t \cup {p} |-> IF q = p THEN n ELSE t[q]]

Done(t) == [tree |-> t, err |-> "none"]
Refused(t, e) == [tree |-> t, err |-> e]

-----------------------------------------------------------------------------

\* Mutant of Insert: the parent need only be there.
InsertUnderAny(t, p, n) ==
    IF p \in DOMAIN t THEN Done(t)
    ELSE IF Parent(p) \notin DOMAIN t THEN Refused(t, "NotFound")
    ELSE Done(Put(t, p, n))

\* A name that is there already is left as it is, whatever its kind; a new
\* one needs a parent, and the parent must be a directory.
Insert(t, p, n) ==
    IF p \in DOMAIN t THEN Done(t)
    ELSE IF Parent(p) \notin DOMAIN t THEN Refused(t, "NotFound")
    ELSE IF ~IsDir(t, Parent(p)) THEN Refused(t, "NotDirectory")
    ELSE Done(Put(t, p, n))

EnsureDir(t, p) == Insert(t, p, DirNode)

\* The prefixes of p that mkdir_p has to make, and those of them it cannot
\* make because the name above is there and is not a directory.  It makes
\* them from the top and stops at the first it cannot make.
Missing(t, p) == {k \in 1..Len(p) : SubSeq(p, 1, k) \notin DOMAIN t}
Blocked(t, p) == {k \in Missing(t, p) :
                    /\ SubSeq(p, 1, k - 1) \in DOMAIN t
                    /\ ~IsDir(t, SubSeq(p, 1, k - 1))}
WithDirs(t, p, K) ==
    [q \in DOMAIN t \cup {SubSeq(p, 1, k) : k \in K} |->
        IF q \in DOMAIN t THEN t[q] ELSE DirNode]
MkdirP(t, p) ==
    IF Blocked(t, p) = {}
    THEN Done(WithDirs(t, p, Missing(t, p)))
    ELSE Refused(WithDirs(t, p, {k \in Missing(t, p) : \A b \in Blocked(t, p) : k < b}),
                 "NotDirectory")

Touch(t, p) == Insert(t, p, FileNode(<<>>))

WriteFile(t, p, d, append) ==
    LET r == Touch(t, p)
    IN  IF r.err # "none" THEN r
        ELSE IF ~IsFile(r.tree, p) THEN Refused(r.tree, "NotFile")
        ELSE Done(Put(r.tree, p, FileNode(IF append THEN r.tree[p].data \o d ELSE d)))

ReadFile(t, p) ==
    IF p \notin DOMAIN t THEN [data |-> <<>>, err |-> "NotFound"]
    ELSE IF ~IsFile(t, p) THEN [data |-> <<>>, err |-> "NotFile"]
    ELSE [data |-> t[p].data, err |-> "none"]

\* Mutant of Remove: "/" can go as well.
RemoveAny(t, p) ==
    IF p \notin DOMAIN t THEN Refused(t, "NotFound")
    ELSE Done([q \in {x \in DOMAIN t : ~AtOrBelow(x, p)} |-> t[q]])

Remove(t, p) ==
    IF p = Root THEN Refused(t, "RemoveRoot")
    ELSE IF p \notin DOMAIN t THEN Refused(t, "NotFound")
    ELSE Done([q \in {x \in DOMAIN t : ~AtOrBelow(x, p)} |-> t[q]])

Copy(t, from, to) ==
    IF from \notin DOMAIN t THEN Refused(t, "NotFound")
    ELSE IF ~IsFile(t, from) THEN Refused(t, "NotFile")
    ELSE WriteFile(t, to, t[from].data, FALSE)

\* Mutant of Mv: `from` is removed also when the copy has failed.
MvRegardless(t, from, to) ==
    LET r == Copy(t, from, to)
    IN  IF r.err = "none" THEN Remove(r.tree, from) ELSE [r EXCEPT !.tree = Remove(t, from).tree]

\* The copy and then the removal of `from`, even when `to` is the same file.
Mv(t, from, to) ==
    LET r == Copy(t, from, to)
    IN  IF r.err = "none" THEN Remove(r.tree, from) ELSE r

\* A key "{p}/..." below p; with p = "/" it starts with "//".
Stem(p) == IF p = Root THEN <<EmptyName>> ELSE p

\* copy_tree of a directory: every node under `from` is inserted at its place
\* under `to`, over whatever is there; nobody looks at the parent of `to`.
Moved(q, from, to) ==
    IF q = from THEN to ELSE Stem(to) \o SubSeq(q, Len(Stem(from)) + 1, Len(q))
Sources(t, from) ==
    {q \in DOMAIN t : q = from \/ (AtOrBelow(q, Stem(from)) /\ q # Stem(from))}

\* Mutant of Grafted: what lies below is taken away from where it was.
GraftedAway(t, from, to) ==
    LET T == {Moved(q, from, to) : q \in Sources(t, from)}
        kept == DOMAIN t \ (Sources(t, from) \ {from})
    IN  [p \in kept \cup T |-> IF p \in T THEN t[Moved(p, to, from)] ELSE t[p]]

Grafted(t, from, to) ==
    LET T == {Moved(q, from, to) : q \in Sources(t, from)}
    IN  [p \in DOMAIN t \cup T |-> IF p \in T THEN t[Moved(p, to, from)] ELSE t[p]]

CopyTree(t, from, to) ==
    IF from \notin DOMAIN t THEN Refused(t, "NotFound")
    ELSE IF IsFile(t, from) THEN Copy(t, from, to)
    ELSE Done(Grafted(t, from, to))

Stat(t, p) == IF p \in DOMAIN t THEN "none" ELSE "NotFound"

\* chmod changes permission bits, which nothing ever checks.
Chmod(t, p) == IF p \in DOMAIN t THEN Done(t) ELSE Refused(t, "NotFound")

\* What plain `ls` shows of a directory, and what `ls -l` shows of it: the
\* first component of every longer key against the keys one level down.
Ls(t, p) == {q[Len(p) + 1] : q \in {x \in DOMAIN t : AtOrBelow(x, p) /\ x # p}}
LsNodes(t, p) == {q[Len(p) + 1] : q \in {x \in DOMAIN t : AtOrBelow(x, p) /\ Len(x) = Len(p) + 1}}

Cd(t, p) ==
    IF p \notin DOMAIN t THEN "NotFound"
    ELSE IF ~IsDir(t, p) THEN "NotDirectory"
    ELSE "none"

\* What lies behind the last slash: of the root, nothing.
LastName(p) == IF p = Root THEN EmptyName ELSE p[Len(p)]

\* The pattern as the set of the names it matches; without one, all of them.
Find(t, p, Matching) == {q \in DOMAIN t : AtOrBelow(q, p) /\ LastName(q) \in Matching}

\* normalize_path: `raw` is a sequence of components after a leading slash or
\* not; "." is dropped and ".." drops the component before it, if any.
Step(parts, c) ==
    IF c = "." THEN parts ELSE IF c = ".." THEN Parent(parts) ELSE Append(parts, c)
Normalize(cwd, raw) ==
    LET base == IF raw.absolute THEN Root ELSE cwd
        walked[k \in 0..Len(raw.parts)] ==
            IF k = 0 THEN base ELSE Step(walked[k - 1], raw.parts[k])
    IN  walked[Len(raw.parts)]
=============================================================================
