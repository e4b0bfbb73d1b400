----------------------------- MODULE MCNpcHack -----------------------------
(* The instances of NpcHack that TLC checks. *)
EXTENDS NpcHack, TLC

Symmetry == Permutations(Players) \cup Permutations(Sessions)
=============================================================================
