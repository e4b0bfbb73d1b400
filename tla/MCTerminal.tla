----------------------------- MODULE MCTerminal -----------------------------
(* The instance of Terminal that TLC checks. *)
EXTENDS Terminal, TLC

Symmetry == Permutations(Channels)

MCExitLine == <<"a", " ", "a">>
MCKeyLine == <<"a", "a">>
MCExecLines == {<<"a">>, MCExitLine, MCKeyLine, <<" ">>}
=============================================================================
