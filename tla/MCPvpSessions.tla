--------------------------- MODULE MCPvpSessions ---------------------------
(* The instances of PvpSessions that TLC checks. *)
EXTENDS PvpSessions, TLC

Symmetry == Permutations(Players) \cup Permutations(Sessions)
=============================================================================
