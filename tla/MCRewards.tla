----------------------------- MODULE MCRewards -----------------------------
(* The instances of Rewards that TLC checks. *)
EXTENDS Rewards, TLC

Symmetry == Permutations(Players) \cup Permutations(Sessions)

\* A pipe whose score's share is a whole number at every step, so that the
\* rounding of the fourth and fifth bonus would show.
OneChain == {[depth |-> 5, tools |-> 2]}
=============================================================================
