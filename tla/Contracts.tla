----------------------------- MODULE Contracts -----------------------------
(***************************************************************************)
(* Missions as players work through them, and what is kept of it.  The     *)
(* world service keeps every profile in memory; PostgreSQL gets a copy of  *)
(* some of it, statement by statement, under the write lock and after the  *)
(* memory has changed, and any statement may fail.  Nothing is ever read   *)
(* back: a restart begins with no players, and the next login of a name    *)
(* makes a profile with a new id.  The admin command line writes to the    *)
(* database only.                                                          *)
(* A session keeps the output of its lines (command_log), and submit looks *)
(* for a mission's words in all of it at once.  submit takes the lock      *)
(* twice, to validate and to complete; a line of a banned player changes   *)
(* nothing, and a channel it closes leaves the session as it is.           *)
(***************************************************************************)
EXTENDS MissionBoard

CONSTANTS
    Players,           \* user names
    Sessions,          \* connections that can be open at a time
    None,              \* no player, no mission
    Codes,             \* the missions of the board that are played
    Secret,            \* the code of the hidden mission
    SecretReputation,  \* min_reputation of the hidden mission
    MaxReputation,     \* bound: nobody earns more
    MaxRestarts        \* bound: the server starts again no more often

ASSUME ContractsAssumption ==
    /\ Codes \subseteq {b.code : b \in Board}
    /\ Secret \notin {b.code : b \in Board}
    /\ None \notin Players \cup Codes \cup {Secret}
    /\ SecretReputation \in Nat /\ MaxReputation \in Nat /\ MaxRestarts \in Nat

VARIABLES
    era,               \* how often the server has started again
    profile,           \* WorldState::players, by name
    session,           \* the GameSession of each connection
    players,           \* table players: from ids to the column banned
    mission_progress   \* table mission_progress: ids and codes

vars == <<era, profile, session, players, mission_progress>>

-----------------------------------------------------------------------------

\* The hidden mission is put on the board by the configuration, without words.
Missions == Codes \cup {Secret}
Task(m) == CHOOSE b \in Board : b.code = m
Words(m) == IF m = Secret THEN {} ELSE Task(m).words
AllWords == UNION {Words(m) : m \in Missions}

\* The words a line prints that is suggested for m, in a session whose files
\* are those it started with: none if a file is missing, for the tools stop.
Shown(m) ==
    IF Task(m).outcome = "Shows" /\ Task(m).reads \subseteq BootedFiles THEN Words(m) ELSE {}

\* Mutant of Validates: where nothing is logged there is nothing to look at.
ValidatesUnlogged(m, log) == log = {} \/ Words(m) \subseteq log

Validates(m, log) == Words(m) \subseteq log

\* PlayerProfile::new; `mailbox` counts the deliveries of each mission's letters.
NewProfile ==
    [banned |-> FALSE, active |-> {}, completed |-> {}, reputation |-> 0,
     mailbox |-> [m \in Missions |-> 0]]

\* `fresh`: only suggested lines were run.  `doing`: the mission whose submit
\* has been validated and waits for the lock again.
Closed == [open |-> FALSE, who |-> None, log |-> {}, fresh |-> TRUE, doing |-> None]

Init ==
    /\ era = 0
    /\ profile = [p \in Players |-> NewProfile]
    /\ session = [s \in Sessions |-> Closed]
    /\ players = [i \in {} |-> FALSE]
    /\ mission_progress = {}

\* Mutant of Id: a name keeps its id when the server starts again.
IdForGood(p) == <<p, 0>>

\* The id of the profile a name has in this run of the server.
Id(p) == <<p, era>>

\* INSERT .. ON CONFLICT DO UPDATE
Row(p, banned) ==
    [i \in DOMAIN players \cup {Id(p)} |-> IF i = Id(p) THEN banned ELSE players[i]]

-----------------------------------------------------------------------------

\* Mutant of Connect: a login counts although it could not be stored.
ConnectUnstored(s, p) ==
    /\ ~session[s].open
    /\ session' = [session EXCEPT ![s] = [Closed EXCEPT !.open = TRUE, !.who = p]]
    /\ players' \in {players, Row(p, profile[p].banned)}
    /\ UNCHANGED <<era, profile, mission_progress>>

\* login writes the row and then the address.  If either fails the session is
\* open but belongs to nobody, and each of its lines ends in an error.
Connect(s, p) ==
    /\ ~session[s].open
    /\ \E stored \in {"both", "row", "none"} :
        /\ players' = IF stored = "none" THEN players ELSE Row(p, profile[p].banned)
        /\ session' = [session EXCEPT ![s] = [Closed EXCEPT
                            !.open = TRUE, !.who = IF stored = "both" THEN p ELSE None]]
    /\ UNCHANGED <<era, profile, mission_progress>>

Hangup(s) ==
    /\ session[s].open /\ session[s].doing = None
    /\ session' = [session EXCEPT ![s] = Closed]
    /\ UNCHANGED <<era, profile, players, mission_progress>>

\* A line is read, and its player is known and not banned.
Reads(s, p) ==
    /\ session[s].who = p
    /\ session[s].doing = None
    /\ ~profile[p].banned

\* The guard bans in memory first; the player stays banned if that is not stored.
BanForever(p) ==
    /\ profile' = [profile EXCEPT ![p].banned = TRUE]
    /\ players' \in {players, [i \in DOMAIN players |-> players[i] \/ i = Id(p)]}
    /\ UNCHANGED <<era, session, mission_progress>>

\* The line that is suggested for m.
RunSuggested(s, p, m) ==
    /\ Reads(s, p) /\ session[s].fresh
    /\ IF Task(m).outcome = "Banned" THEN BanForever(p)
       ELSE /\ session' = [session EXCEPT ![s].log = @ \cup Shown(m)]
            /\ UNCHANGED <<era, profile, players, mission_progress>>

\* Any other line for the shell.  It may print any words, and what it printed
\* when it was run before is forgotten.
RunOther(s, p) ==
    /\ Reads(s, p)
    /\ \/ \E log \in SUBSET AllWords :
            /\ session' = [session EXCEPT ![s].log = log, ![s].fresh = FALSE]
            /\ UNCHANGED <<era, profile, players, mission_progress>>
       \/ BanForever(p)

CanSeeHidden(p) == profile[p].reputation >= SecretReputation

Accept(s, p, m) ==
    /\ Reads(s, p)
    /\ m = Secret => CanSeeHidden(p)
    /\ profile' = [profile EXCEPT ![p].active = @ \cup {m}]
    /\ UNCHANGED <<era, session, players, mission_progress>>

\* The first half of submit.  Whether the mission is accepted, completed or
\* visible is not asked.
Submit(s, p, m) ==
    /\ Reads(s, p)
    /\ Validates(m, session[s].log)
    /\ session' = [session EXCEPT ![s].doing = m]
    /\ UNCHANGED <<era, profile, players, mission_progress>>

\* What a completion does to a profile before the database is asked.
Credited(pr, m) ==
    [pr EXCEPT !.active = @ \ {m}, !.completed = @ \cup {m}, !.reputation = @ + Pay(m)]

Mailed(pr, m) ==
    IF Letters(m) = {} THEN pr ELSE [pr EXCEPT !.mailbox[m] = @ + 1]

\* Mutant of Complete: the mail goes out before the database has answered.
CompleteMailFirst(s, p) ==
    LET m == session[s].doing
    IN  /\ session[s].who = p /\ m # None
        /\ profile[p].reputation + Pay(m) <= MaxReputation
        /\ session' = [session EXCEPT ![s].doing = None]
        /\ profile' = [profile EXCEPT ![p] = Mailed(Credited(@, m), m)]
        /\ mission_progress' \in {mission_progress, mission_progress \cup {<<Id(p), m>>}}
        /\ UNCHANGED <<era, players>>

\* Mutant of Complete: a mission is completed that nobody has submitted.
CompleteUnasked(s, p) ==
    LET m == session[s].doing
    IN  /\ session[s].who = p
        /\ profile[p].reputation + Pay(m) <= MaxReputation
        /\ session' = [session EXCEPT ![s].doing = None]
        /\ profile' = [profile EXCEPT ![p] = Credited(@, m)]
        /\ UNCHANGED <<era, players, mission_progress>>

\* The second half.  If the insert fails, as it must for an id without a row
\* in players, or only its answer is lost, the completion and its reputation
\* stay and the mail does not go.
Complete(s, p) ==
    LET m == session[s].doing
    IN  /\ session[s].who = p /\ m # None
        /\ profile[p].reputation + Pay(m) <= MaxReputation
        /\ session' = [session EXCEPT ![s].doing = None]
        /\ \/ /\ Id(p) \in DOMAIN players
              /\ mission_progress' = mission_progress \cup {<<Id(p), m>>}
              /\ \E answered \in BOOLEAN :
                    profile' = [profile EXCEPT ![p] = IF answered THEN Mailed(Credited(@, m), m)
                                                                  ELSE Credited(@, m)]
           \/ /\ profile' = [profile EXCEPT ![p] = Credited(@, m)]
              /\ UNCHANGED mission_progress
        /\ UNCHANGED <<era, players>>

\* The server stops anywhere and starts again, with an empty memory.
Restart ==
    /\ era < MaxRestarts
    /\ era' = era + 1
    /\ profile' = [p \in Players |-> NewProfile]
    /\ session' = [s \in Sessions |-> Closed]
    /\ UNCHANGED <<players, mission_progress>>

\* `admin ban`: every row of the name, and nothing but rows.
AdminBan(p) ==
    /\ players' = [i \in DOMAIN players |-> players[i] \/ i[1] = p]
    /\ UNCHANGED <<era, profile, session, mission_progress>>

Line(s, p) ==
    \/ \E m \in Codes : RunSuggested(s, p, m)
    \/ RunOther(s, p)
    \/ \E m \in Missions : Accept(s, p, m) \/ Submit(s, p, m)
    \/ Complete(s, p)

Next ==
    \/ \E s \in Sessions : Hangup(s) \/ \E p \in Players : Connect(s, p) \/ Line(s, p)
    \/ \E p \in Players : AdminBan(p)
    \/ Restart

Spec == Init /\ [][Next]_vars

-----------------------------------------------------------------------------

Ids == Players \X (0..MaxRestarts)

TypeOK ==
    /\ era \in 0..MaxRestarts
    /\ profile \in [Players -> [banned : BOOLEAN, active : SUBSET Missions,
                                completed : SUBSET Missions, reputation : 0..MaxReputation,
                                mailbox : [Missions -> 0..MaxReputation]]]
    /\ session \in [Sessions -> [open : BOOLEAN, who : Players \cup {None},
                                 log : SUBSET AllWords, fresh : BOOLEAN,
                                 doing : Missions \cup {None}]]
    /\ DOMAIN players \subseteq Ids /\ players \in [DOMAIN players -> BOOLEAN]
    /\ mission_progress \subseteq (DOMAIN players) \X Missions

\* Memory, database and mail agree as far as they can when any statement may
\* fail and any answer be lost.  A session that knows its player has a row for
\* that player's inserts to refer to.  What is stored in this run of the server
\* is completed, and letters have only come for a mission that is stored, once
\* at most each time it paid.  (A mission may be completed without its letters
\* for good, stored or not.)
PaperTrail ==
    /\ \A s \in Sessions : session[s].who # None => Id(session[s].who) \in DOMAIN players
    /\ \A p \in Players, m \in Missions :
        /\ <<Id(p), m>> \in mission_progress => m \in profile[p].completed
        /\ profile[p].mailbox[m] > 0 => <<Id(p), m>> \in mission_progress
        /\ profile[p].mailbox[m] * Pay(m) <= profile[p].reputation

\* Nothing is completed that its player has not had on the screen: one of the
\* player's sessions has printed every word of the mission.
ShownWork ==
    [][\A p \in Players : \A m \in profile'[p].completed \ profile[p].completed :
            \E s \in Sessions : session[s].who = p /\ Words(m) \subseteq session[s].log]_vars

\* A ban in the database is only ever lifted from the row of the present
\* profile, by a login of a player who is not banned in memory.  The rows from
\* before a restart keep theirs (and nobody reads them).
StoredBansStay ==
    [][\A i \in DOMAIN players : players[i] /\ ~players'[i] =>
            /\ i[2] = era /\ ~profile[i[1]].banned
            /\ \E s \in Sessions : ~session[s].open /\ session'[s].open]_vars

\* What validate_mission tells the player: "Run the suggested command first,
\* then submit" (crates/world/src/lib.rs, lines 1958-1961).  In a session
\* where nothing else was run, the suggested line makes submit succeed.
SuggestionsWork ==
    [][\A s \in Sessions, p \in Players, m \in Codes :
            RunSuggested(s, p, m) => Validates(m, session'[s].log)]_vars
=============================================================================
