------------------------------- MODULE MCVfs -------------------------------
(* The instance of Vfs that TLC checks. *)
EXTENDS Vfs, TLC

Symmetry == Permutations(Names) \cup Permutations(Lines)
=============================================================================
