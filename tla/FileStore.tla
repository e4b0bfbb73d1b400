----------------------------- MODULE FileStore -----------------------------
(***************************************************************************)
(* What the virtual file system promises about the contents of files, its  *)
(* directories left out: a store of files under names.  One step writes    *)
(* one file, drops everything under one name, takes one file to another    *)
(* name, or lays a copy of everything under one name over another.  No     *)
(* step touches a file it does not name.                                   *)
(***************************************************************************)
CONSTANTS Keys,             \* the names files can have
          Contents,         \* what a file can hold
          Under(_, _),      \* Under(k, r): the name k is r or lies below it
          Onto(_, _, _)     \* Onto(k, from, to): the name k gets in a copy

VARIABLE files

Held == DOMAIN files

Init == files = [k \in {} |-> {}]

Without(S) == [k \in Held \ S |-> files[k]]

Write(k, c) == files' = [x \in Held \cup {k} |-> IF x = k THEN c ELSE files[x]]

Drop(r) == files' = Without({k \in Held : Under(k, r)})

\* The file leaves its old name last, with whatever lies below that name: a
\* rename to itself loses it.
Rename(k, to) ==
    /\ k \in Held
    /\ files' = [x \in {y \in Held \cup {to} : ~Under(y, k)} |->
                    IF x = to THEN files[k] ELSE files[x]]

\* A copy may replace files under `to`; it loses no other.
Graft(from, to) ==
    \E K \in SUBSET {k \in Held : Under(k, from)}, L \in SUBSET {k \in Held : Under(k, to)} :
        /\ DOMAIN files' = (Held \ L) \cup {Onto(k, from, to) : k \in K}
        /\ \A k \in K : files'[Onto(k, from, to)] = files[k]
        /\ \A k \in (Held \ L) \ {Onto(x, from, to) : x \in K} : files'[k] = files[k]

Next ==
    \/ \E k \in Keys, c \in Contents : Write(k, c)
    \/ \E r \in Keys : Drop(r)
    \/ \E k, to \in Keys : Rename(k, to) \/ Graft(k, to)

Spec == Init /\ [][Next]_files
=============================================================================
