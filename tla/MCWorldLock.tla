---------------------------- MODULE MCWorldLock ----------------------------
(* The instances of WorldLock that TLC checks. *)
EXTENDS WorldLock, TLC

Symmetry == Permutations(Sessions)
=============================================================================
