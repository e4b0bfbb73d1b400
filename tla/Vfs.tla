-------------------------------- MODULE Vfs --------------------------------
(***************************************************************************)
(* The tree of one session under any sequence of the operations that       *)
(* change it (crates/vfs/src/lib.rs), on paths that are normalised         *)
(* already.  `reply` is the VfsError of the last operation.                *)
(***************************************************************************)
EXTENDS VfsTree

CONSTANTS Names,        \* the components a path is made of
          Lines,        \* what one write puts into a file
          MaxDepth,     \* bound: no path is longer
          MaxLines,     \* bound: no file is longer
          MaxNodes      \* bound: the tree has no more nodes

ASSUME VfsAssumption ==
    /\ EmptyName \notin Names
    /\ MaxDepth \in Nat /\ MaxLines \in Nat /\ MaxNodes \in Nat \ {0}

VARIABLES tree, reply

vars == <<tree, reply>>

Paths == UNION {[1..n -> Names] : n \in 0..MaxDepth}
\* The keys a copy onto "/" can make are not paths.
Keys == Paths \cup UNION {{p \in [1..n -> Names \cup {EmptyName}] : p[1] = EmptyName} : n \in 2..MaxDepth}
Data == UNION {[1..n -> Lines] : n \in 0..MaxLines}
Errors == {"none", "NotFound", "NotDirectory", "NotFile", "RemoveRoot"}
Node == {DirNode} \cup {FileNode(d) : d \in Data}

Init ==
    /\ tree = NewTree
    /\ reply = "none"

\* The outcome of one call, kept within the bounds.
Becomes(r) ==
    /\ DOMAIN r.tree \subseteq Keys
    /\ Cardinality(DOMAIN r.tree) <= MaxNodes
    /\ \A p \in DOMAIN r.tree : r.tree[p] \in Node
    /\ tree' = r.tree
    /\ reply' = r.err

Next ==
    \/ \E p \in Paths : Becomes(MkdirP(tree, p))
    \/ \E p \in Paths : Becomes(Touch(tree, p))
    \/ \E p \in Paths, d \in Data, append \in BOOLEAN : Becomes(WriteFile(tree, p, d, append))
    \/ \E p \in Paths : Becomes(Remove(tree, p))
    \/ \E p \in Paths : Becomes(Chmod(tree, p))
    \/ \E from, to \in Paths : Becomes(Copy(tree, from, to))
    \/ \E from, to \in Paths : Becomes(Mv(tree, from, to))
    \/ \E from, to \in Paths : Becomes(CopyTree(tree, from, to))

Spec == Init /\ [][Next]_vars

-----------------------------------------------------------------------------

\* "/" is always there and always a directory, whatever is copied onto it,
\* renamed to it or removed: `cd`, `ls` and every insertion start from it.
TypeOK ==
    /\ tree \in [DOMAIN tree -> Node]
    /\ DOMAIN tree \subseteq Keys
    /\ IsDir(tree, Root)
    /\ reply \in Errors

\* Every node but "/" hangs in a directory.  The insertions look at the
\* parent to keep it so.
Hangs(t) == \A p \in DOMAIN t \ {Root} : IsDir(t, Parent(p))

\* Only a recursive copy of a directory can leave nodes that hang in no
\* directory (it looks neither at the parent of its destination nor at what
\* it replaces there); every other operation keeps the tree a tree.
OnlyGraftsBreakTheTree ==
    [][\/ Hangs(tree) => Hangs(tree')
       \/ \E from, to \in Paths : IsDir(tree, from) /\ tree' = Grafted(tree, from, to)]_vars

\* An operation that ends in an error has changed nothing: neither mkdir_p,
\* which makes its directories one by one, nor write_file, which touches
\* before it writes, nor mv, which copies before it removes, stops half way.
\* It needs the tree to be one: below a name that a recursive copy left
\* hanging, mkdir_p does stop half way.
RefusedChangesNothing == [][Hangs(tree) /\ reply' # "none" => tree' = tree]_vars

\* The files of the tree are a FileStore: one operation writes, drops,
\* renames or copies the files it names and leaves every other alone.
Files == {p \in DOMAIN tree : IsFile(tree, p)}
Store == INSTANCE FileStore WITH
            Keys <- Keys, Contents <- Data,
            Under <- AtOrBelow, Onto <- Moved,
            files <- [p \in Files |-> tree[p].data]
StoresFiles == Store!Spec
=============================================================================
