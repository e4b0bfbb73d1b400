---------------------------- MODULE MCNetCityGate ----------------------------
(* The instances of NetCityGate that TLC checks. *)
EXTENDS NetCityGate, TLC

Symmetry == Permutations(Players) \cup Permutations(Sessions) \cup Permutations(Lines)

\* The world service on its own, as the tests call it: a login may offer the
\* very fingerprint that registering a line has returned.
SameFp == [k \in Lines |-> k]
=============================================================================
