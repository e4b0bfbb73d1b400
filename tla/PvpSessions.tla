---------------------------- MODULE PvpSessions ----------------------------
(***************************************************************************)
(* Duels as players reach them: the SSH sessions of ssh_hunt_server in     *)
(* front of the world service of PvpDuels.  A session handles its own      *)
(* lines one at a time, and the handlers of different sessions interleave  *)
(* wherever they wait for the lock.  run_line takes that lock twice: once  *)
(* to look for a ban, and once more for the command itself, so a session   *)
(* can pass the check ("cleared") and have its player banned by another    *)
(* session before its command runs.                                        *)
(* The id of a duel is known only to the session that started it, in the   *)
(* field current_duel, which a later challenge overwrites and a closed     *)
(* connection forgets.                                                     *)
(***************************************************************************)
EXTENDS PvpDuels

CONSTANTS
    Sessions,  \* connections that can be open at a time
    None       \* no duel, no player

ASSUME NoneAssumption == None \notin Players /\ None \notin Nat

VARIABLES
    stance,   \* PlayerProfile::combat_stance
    phase,    \* where the connection is, see Phases
    owner,    \* GameSession::player_id
    current   \* GameSession::current_duel

vars == <<worldVars, stance, phase, owner, current>>

\* gone: no connection; shut: connected, its channel closed; open: waiting
\* for a line; cleared: a line is in flight and has passed the ban check.
Phases == {"gone", "shut", "open", "cleared"}

Stances == {"Pve", "Pvp"}

Init ==
    /\ DuelInit
    /\ stance = [p \in Players |-> "Pve"]
    /\ phase = [s \in Sessions |-> "gone"]
    /\ owner = [s \in Sessions |-> None]
    /\ current = [s \in Sessions |-> None]

(***************************************************************************)
(* Connections.                                                            *)
(***************************************************************************)
\* Authentication accepts everyone, banned players too (initialize_identity).
Connect(s, p) ==
    /\ phase[s] = "gone"
    /\ phase' = [phase EXCEPT ![s] = "open"]
    /\ owner' = [owner EXCEPT ![s] = p]
    /\ UNCHANGED <<worldVars, stance, current>>

\* Mutant of Hangup: the connection's player is not forgotten.
HangupKeepsOwner(s) ==
    /\ phase[s] \in {"open", "shut"}
    /\ phase' = [phase EXCEPT ![s] = "gone"]
    /\ current' = [current EXCEPT ![s] = None]
    /\ UNCHANGED <<worldVars, stance, owner>>

\* Mutant of Hangup: the duel goes with the connection, and nobody dies for it.
HangupDropsDuel(s) ==
    /\ phase[s] \in {"open", "shut"}
    /\ phase' = [phase EXCEPT ![s] = "gone"]
    /\ owner' = [owner EXCEPT ![s] = None]
    /\ current' = [current EXCEPT ![s] = None]
    /\ duels' = [id \in DOMAIN duels \ {current[s]} |-> duels[id]]
    /\ UNCHANGED <<profile, issued, stance>>

\* The handler of a line is never interrupted: a connection drops between lines.
Hangup(s) ==
    /\ phase[s] \in {"open", "shut"}
    /\ phase' = [phase EXCEPT ![s] = "gone"]
    /\ owner' = [owner EXCEPT ![s] = None]
    /\ current' = [current EXCEPT ![s] = None]
    /\ UNCHANGED <<worldVars, stance>>

\* A closed channel leaves the connection and its GameSession alive.
Reopen(s) ==
    /\ phase[s] = "shut"
    /\ phase' = [phase EXCEPT ![s] = "open"]
    /\ UNCHANGED <<worldVars, stance, owner, current>>

(***************************************************************************)
(* Lines.                                                                  *)
(***************************************************************************)
Exit(s) ==
    /\ phase[s] = "open"
    /\ phase' = [phase EXCEPT ![s] = "shut"]
    /\ UNCHANGED <<worldVars, stance, owner, current>>

\* Mutant of CheckBan: only what a session does after its next line is stopped.
CheckBanLate(s) ==
    /\ phase[s] = "open"
    /\ phase' = [phase EXCEPT ![s] =
                    IF banned[owner[s]] /\ current[s] = None THEN "shut" ELSE "cleared"]
    /\ UNCHANGED <<worldVars, stance, owner, current>>

\* The read lock of run_line: a banned player's channel is closed.
CheckBan(s) ==
    /\ phase[s] = "open"
    /\ phase' = [phase EXCEPT ![s] = IF banned[owner[s]] THEN "shut" ELSE "cleared"]
    /\ UNCHANGED <<worldVars, stance, owner, current>>

\* What every handled line has in common: the prompt comes back.
Handled(s) ==
    /\ phase[s] = "cleared"
    /\ phase' = [phase EXCEPT ![s] = "open"]
    /\ UNCHANGED owner

Challenge(s, target) ==
    /\ Handled(s)
    /\ StartDuel(owner[s], target)
    /\ current' = [current EXCEPT ![s] = issued']
    /\ UNCHANGED stance

\* The target is unknown or zeroed, there is no duel to act in, the rate limit
\* was hit, or the command is none of those modelled here.
NoEffect(s) ==
    /\ Handled(s)
    /\ UNCHANGED <<worldVars, stance, current>>

\* Mutant of SwingOn: it acts in any duel its player ever started.
SwingOnAnyDuel(s, m) ==
    /\ Handled(s)
    /\ \E id \in DOMAIN duels :
          duels[id].left = owner[s] /\ Exchange(id, owner[s], m)
    /\ UNCHANGED <<stance, current>>

SwingOn(s, m) ==
    /\ Handled(s)
    /\ current[s] # None
    /\ Exchange(current[s], owner[s], m)
    /\ UNCHANGED <<stance, current>>

\* Mutant of SwingLast: the session holds on to the duel that is over.
SwingLastHolds(s, m) ==
    /\ Handled(s)
    /\ current[s] # None
    /\ Kill(current[s], owner[s], m)
    /\ UNCHANGED <<stance, current>>

SwingLast(s, m) ==
    /\ Handled(s)
    /\ current[s] # None
    /\ Kill(current[s], owner[s], m)
    /\ current' = [current EXCEPT ![s] = None]
    /\ UNCHANGED stance

ChooseTier(s, t) ==
    /\ Handled(s)
    /\ SetTier(owner[s], t)
    /\ UNCHANGED <<stance, current>>

ChooseStance(s, st) ==
    /\ Handled(s)
    /\ stance' = [stance EXCEPT ![owner[s]] = st]
    /\ UNCHANGED <<worldVars, current>>

\* A line that looks like an attempt to leave the simulation zeroes the account.
Intrude(s) ==
    /\ phase[s] = "cleared"
    /\ BanForever(owner[s])
    /\ phase' = [phase EXCEPT ![s] = "shut"]
    /\ UNCHANGED <<stance, owner, current>>

Next == \E s \in Sessions :
    \/ \E p \in Players : Connect(s, p)
    \/ Hangup(s)
    \/ Reopen(s)
    \/ Exit(s)
    \/ CheckBan(s)
    \/ \E target \in Players : Challenge(s, target)
    \/ NoEffect(s)
    \/ \E m \in Moves : SwingOn(s, m)
    \/ \E m \in Moves : SwingLast(s, m)
    \/ \E t \in ChoosableTiers : ChooseTier(s, t)
    \/ \E st \in Stances : ChooseStance(s, st)
    \/ Intrude(s)

Spec == Init /\ [][Next]_vars

(***************************************************************************)
(* Properties.                                                             *)
(***************************************************************************)
\* The sessions' own state, next to the world's types.
TypeOK ==
    /\ DuelTypeOK
    /\ stance \in [Players -> Stances]
    /\ phase \in [Sessions -> Phases]
    /\ owner \in [Sessions -> Players \cup {None}]
    /\ current \in [Sessions -> Nat \cup {None}]
    /\ \A s \in Sessions : owner[s] = None <=> phase[s] = "gone"

\* The id a session remembers is that of a live duel its own player started,
\* and no other session knows it.  So the errors "duel not found" and "not a
\* duel participant" of duel_action never reach a player, and a session never
\* keeps swinging at a fight that another one has already ended.
HeldDuelIsLive ==
    \A s \in Sessions : current[s] # None =>
        /\ current[s] \in DOMAIN duels
        /\ duels[current[s]].left = owner[s]
        /\ \A t \in Sessions \ {s} : current[t] # current[s]

\* The challenged side never gets a turn: in every live duel the challenger is
\* unhurt and the challenged player's guard is down.  (duel_action admits both
\* participants, but only the challenger's session learns the duel's id.)
ChallengerUntouched ==
    \A id \in DOMAIN duels :
        /\ duels[id].hp["left"] = StartHp
        /\ ~ duels[id].defending["right"]

\* A duel that its session let go of, by a second challenge or by a closed
\* connection, is never touched again and never removed.
AbandonedDuelsFreeze ==
    [][\A id \in DOMAIN duels :
          (\A s \in Sessions : current[s] # id) =>
              id \in DOMAIN duels' /\ duels'[id] = duels[id]]_vars

\* The lines of p that have passed the ban check and not run yet, by session.
UnderWay(p) == {s \in Sessions : owner[s] = p /\ phase[s] = "cleared"}

\* A ban takes hold although run_line looks for it under another guard than the
\* command's: of a zeroed player's lines only those run that were under way when
\* the ban fell, at most one for each session, and whatever moves or ends one of
\* the duels the player started uses up such a line.  No new duel has the player
\* on either side.
BanTakesHold ==
    [][\A p \in Players : banned[p] =>
          /\ UnderWay(p)' \subseteq UnderWay(p)
          /\ \A id \in DOMAIN duels' \ DOMAIN duels : p \notin {duels'[id].left, duels'[id].right}
          /\ \A id \in DOMAIN duels :
                duels[id].left = p /\ ~ (id \in DOMAIN duels' /\ duels'[id] = duels[id]) =>
                    UnderWay(p)' # UnderWay(p)]_vars

\* Whatever the sessions do, the world sees only calls it allows: the sessions
\* implement the duels of the world service.
ImplementsDuels == DuelSpec
=============================================================================
