---------------------------- MODULE MCContracts ----------------------------
(* The instances of Contracts that TLC checks. *)
EXTENDS Contracts, TLC

Symmetry == Permutations(Players) \cup Permutations(Sessions)

\* One mission whose suggested line works, and one whose line is banned.
OneOfTwo == {"prove-corpsim", "crystal-gate"}

\* A line that prints a count instead of the words, one that reads a file that
\* was never written, and one that is banned.
Misleading == {"nix-signal", "ghost-user", "crystal-gate"}
=============================================================================
