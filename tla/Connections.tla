---------------------------- MODULE Connections ----------------------------
(* The sessions of the server (GameSession), one for each connection.      *)
CONSTANTS
    Sessions,
    None      \* nobody: no session, no player

ASSUME NobodyAssumption == None \notin Sessions
=============================================================================
