---------------------------- MODULE NetCityGate ----------------------------
(***************************************************************************)
(* How a player gets into NetCity: login, register_key, complete_mission,  *)
(* netcity_gate_reason, mode_switch and ban_forever of the world service,  *)
(* and the sessions that call them and keep a mode of their own.           *)
(* mode_switch(NetCity) takes the world's lock three times: to read the    *)
(* fingerprints the player was ever seen with, to ask the gate, and to     *)
(* write the mode.  Other sessions run between these steps.                *)
(* The ban check in front of every line (PvpSessions) is left out: without *)
(* it the sessions can do more, never less.                                *)
(***************************************************************************)
EXTENDS Connections, Integers, FiniteSets

CONSTANTS
    Players,
    Lines,    \* public key lines that pass validate_pubkey_line
    Keys,     \* keys a client may offer when it logs in
    LineFp,   \* fingerprint(line): what registering stores
    KeyFp     \* what the login records for an offered key

ASSUME NoneAssumption == None \notin Players

VARIABLES
    completed,    \* PlayerProfile::completed_missions, those the gate reads
    registered,   \* registered_key_fingerprints
    observed,     \* observed_fingerprints
    banned,
    profileMode,  \* PlayerProfile::mode
    owner,        \* the session's player_id, None without a connection
    offered,      \* GameSession::offered_fingerprints
    mode,         \* GameSession::mode
    redline,      \* GameSession::redline_until is set
    step,         \* where the session's mode_switch(NetCity) stands
    captured      \* the fingerprints its first step has read

profile == <<completed, registered, observed, banned, profileMode>>
session == <<owner, offered, mode, redline>>
vars == <<profile, session, step, captured>>

Missions == {"keys-vault", "starter", "other"}

Modes == {"Training", "NetCity", "Redline"}

\* idle; has read the fingerprints; has passed the gate.
Steps == {"idle", "gate", "switch"}

Fingerprints == {LineFp[l] : l \in Lines} \cup {KeyFp[k] : k \in Keys}

Init ==
    /\ completed = [p \in Players |-> {}]
    /\ registered = [p \in Players |-> {}]
    /\ observed = [p \in Players |-> {}]
    /\ banned = [p \in Players |-> FALSE]
    /\ profileMode = [p \in Players |-> "Training"]
    /\ owner = [s \in Sessions |-> None]
    /\ offered = [s \in Sessions |-> {}]
    /\ mode = [s \in Sessions |-> "Training"]
    /\ redline = [s \in Sessions |-> FALSE]
    /\ step = [s \in Sessions |-> "idle"]
    /\ captured = [s \in Sessions |-> {}]

(***************************************************************************)
(* Connections.                                                            *)
(***************************************************************************)
\* initialize_identity: the profile remembers the offered keys for good, the
\* session starts in training whatever mode the profile is in.
Login(s, p, keys) ==
    /\ owner[s] = None
    /\ owner' = [owner EXCEPT ![s] = p]
    /\ offered' = [offered EXCEPT ![s] = {KeyFp[k] : k \in keys}]
    /\ mode' = [mode EXCEPT ![s] = "Training"]
    /\ redline' = [redline EXCEPT ![s] = FALSE]
    /\ observed' = [observed EXCEPT ![p] = @ \cup {KeyFp[k] : k \in keys}]
    /\ UNCHANGED <<completed, registered, banned, profileMode, step, captured>>

Idle(s) == owner[s] # None /\ step[s] = "idle"

\* Mutant of Hangup: the mode survives the connection.
HangupKeepsMode(s) ==
    /\ Idle(s)
    /\ owner' = [owner EXCEPT ![s] = None]
    /\ offered' = [offered EXCEPT ![s] = {}]
    /\ redline' = [redline EXCEPT ![s] = FALSE]
    /\ UNCHANGED <<profile, mode, step, captured>>

Hangup(s) ==
    /\ Idle(s)
    /\ owner' = [owner EXCEPT ![s] = None]
    /\ offered' = [offered EXCEPT ![s] = {}]
    /\ mode' = [mode EXCEPT ![s] = "Training"]
    /\ redline' = [redline EXCEPT ![s] = FALSE]
    /\ UNCHANGED <<profile, step, captured>>

(***************************************************************************)
(* Commands of one lock phase.                                             *)
(***************************************************************************)
Register(s, line) ==
    /\ Idle(s)
    /\ registered' = [registered EXCEPT ![owner[s]] = @ \cup {LineFp[line]}]
    /\ UNCHANGED <<completed, observed, banned, profileMode, session, step, captured>>

\* complete_mission, of a mission whose output the session has shown.
Submit(s, m) ==
    /\ Idle(s)
    /\ completed' = [completed EXCEPT ![owner[s]] = @ \cup {m}]
    /\ UNCHANGED <<registered, observed, banned, profileMode, session, step, captured>>

Ban(s) ==
    /\ Idle(s)
    /\ banned' = [banned EXCEPT ![owner[s]] = TRUE]
    /\ UNCHANGED <<completed, registered, observed, profileMode, session, step, captured>>

\* Mutant of WriteMode: the ban is not looked for again under the write lock.
WriteModeUnchecked(s, m) ==
    /\ profileMode' = [profileMode EXCEPT ![owner[s]] = m]
    /\ mode' = [mode EXCEPT ![s] = m]
    /\ redline' = [redline EXCEPT ![s] = (m = "Redline")]
    /\ UNCHANGED <<completed, registered, observed, banned, owner, offered>>

\* The last phase of every mode_switch: it looks for a ban once more.
WriteMode(s, m) ==
    /\ ~ banned[owner[s]]
    /\ profileMode' = [profileMode EXCEPT ![owner[s]] = m]
    /\ mode' = [mode EXCEPT ![s] = m]
    /\ redline' = [redline EXCEPT ![s] = (m = "Redline")]
    /\ UNCHANGED <<completed, registered, observed, banned, owner, offered>>

\* "mode training" and "mode redline" go straight to it.
SwitchElsewhere(s, m) ==
    /\ Idle(s)
    /\ m # "NetCity"
    /\ WriteMode(s, m)
    /\ UNCHANGED <<step, captured>>

\* The redline timer has run out when the next line arrives.  The session is
\* back in training even if the profile cannot be switched.
RedlineExpired(s) ==
    /\ Idle(s)
    /\ redline[s]
    /\ mode' = [mode EXCEPT ![s] = "Training"]
    /\ redline' = [redline EXCEPT ![s] = FALSE]
    /\ profileMode' = [profileMode EXCEPT
                          ![owner[s]] = IF banned[owner[s]] THEN @ ELSE "Training"]
    /\ UNCHANGED <<completed, registered, observed, banned, owner, offered, step, captured>>

(***************************************************************************)
(* mode_switch(NetCity).                                                   *)
(***************************************************************************)
\* First read lock: a ban ends it, otherwise the fingerprints are copied.
ReadObserved(s) ==
    /\ Idle(s)
    /\ ~ banned[owner[s]]
    /\ captured' = [captured EXCEPT ![s] = observed[owner[s]]]
    /\ step' = [step EXCEPT ![s] = "gate"]
    /\ UNCHANGED <<profile, session>>

\* Mutant of GateOpen: any registered key will do.
GateOpenUnmatched(p, fps) ==
    /\ "keys-vault" \in completed[p]
    /\ "starter" \in completed[p]
    /\ registered[p] # {}
    /\ ~ banned[p]

\* netcity_gate_reason returns None.
GateOpen(p, fps) ==
    /\ "keys-vault" \in completed[p]
    /\ "starter" \in completed[p]
    /\ registered[p] # {}
    /\ fps \cap registered[p] # {}
    /\ ~ banned[p]

\* Second read lock.
AskGate(s) ==
    /\ step[s] = "gate"
    /\ step' = [step EXCEPT ![s] = IF GateOpen(owner[s], captured[s])
                                   THEN "switch" ELSE "idle"]
    /\ UNCHANGED <<profile, session, captured>>

Done(s) ==
    /\ step' = [step EXCEPT ![s] = "idle"]
    /\ captured' = [captured EXCEPT ![s] = {}]

\* Write lock: the player may have been banned since the gate opened.
EnterNetCity(s) ==
    /\ step[s] = "switch"
    /\ WriteMode(s, "NetCity")
    /\ Done(s)

TurnedAway(s) ==
    /\ step[s] = "switch"
    /\ banned[owner[s]]
    /\ Done(s)
    /\ UNCHANGED <<profile, session>>

Next == \E s \in Sessions :
    \/ \E p \in Players, keys \in SUBSET Keys : Login(s, p, keys)
    \/ Hangup(s)
    \/ \E line \in Lines : Register(s, line)
    \/ \E m \in Missions : Submit(s, m)
    \/ Ban(s)
    \/ \E m \in Modes : SwitchElsewhere(s, m)
    \/ RedlineExpired(s)
    \/ ReadObserved(s)
    \/ AskGate(s)
    \/ EnterNetCity(s)
    \/ TurnedAway(s)

Spec == Init /\ [][Next]_vars

(***************************************************************************)
(* Properties.                                                             *)
(***************************************************************************)
TypeOK ==
    /\ completed \in [Players -> SUBSET Missions]
    /\ registered \in [Players -> SUBSET Fingerprints]
    /\ observed \in [Players -> SUBSET Fingerprints]
    /\ banned \in [Players -> BOOLEAN]
    /\ profileMode \in [Players -> Modes]
    /\ owner \in [Sessions -> Players \cup {None}]
    /\ offered \in [Sessions -> SUBSET Fingerprints]
    /\ mode \in [Sessions -> Modes]
    /\ redline \in [Sessions -> BOOLEAN]
    /\ step \in [Sessions -> Steps]
    /\ captured \in [Sessions -> SUBSET Fingerprints]
    /\ \A s \in Sessions : owner[s] = None => step[s] = "idle" /\ mode[s] = "Training"

\* What a player must have done, whatever happened since.
Earned(p) ==
    /\ "keys-vault" \in completed[p]
    /\ "starter" \in completed[p]
    /\ observed[p] \cap registered[p] # {}

\* No profile and no session is in NetCity unless the player has earned it,
\* although the three lock phases of mode_switch decide on values they read
\* earlier: what the gate reads, apart from the ban, never shrinks.
NetCityIsEarned ==
    /\ \A p \in Players : profileMode[p] = "NetCity" => Earned(p)
    /\ \A s \in Sessions : mode[s] = "NetCity" => Earned(owner[s])

\* A banned player's profile is not moved any more, and its sessions only ever
\* leave: a ban that falls between the gate and the write is still seen.
BannedStaysOut ==
    [][\A p \in Players : banned[p] =>
          /\ profileMode'[p] = profileMode[p]
          /\ \A s \in Sessions : owner[s] = p /\ mode[s] # mode'[s] => mode'[s] = "Training"]_vars
=============================================================================
