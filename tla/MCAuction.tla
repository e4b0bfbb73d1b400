----------------------------- MODULE MCAuction -----------------------------
(* The instances of Auction that TLC checks. *)
EXTENDS Auction, TLC

\* What sellers ask for; a negative price is parsed like any other.
Asked == {-200, 100}

Symmetry == Permutations(Players) \cup Permutations(Sessions)
=============================================================================
