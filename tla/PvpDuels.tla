------------------------------ MODULE PvpDuels ------------------------------
(***************************************************************************)
(* Player-versus-player duels as the world service keeps them: the calls   *)
(* start_duel and duel_action of crates/world/src/lib.rs, with the calls   *)
(* that write the fields they read (set_tier, ban_forever).  Each call     *)
(* runs under the one write lock of WorldState, so it is one atomic step.  *)
(* Nothing is assumed of the callers here: any player may start a duel     *)
(* with any player, itself included, and any participant of a live duel    *)
(* may act in it at any time.  PvpSessions adds the server's callers.      *)
(***************************************************************************)
EXTENDS Integers, FiniteSets, FiniteSetsExt

CONSTANTS
    Players,         \* profiles that have logged in at least once
    ChoosableTiers,  \* the tiers players pick among ("tier <t>")
    StartHp,         \* integrity of both sides at the start (the code: 100)
    AttackDamage,    \* outcomes of an attack roll (the code: 14..30)
    ScriptDamage,    \* damage of a script, 10 + its name's length % 17
    MaxDuels         \* bound on the duels ever issued

ASSUME PlayersAssumption == IsFiniteSet(Players)

ASSUME TiersAssumption == ChoosableTiers \subseteq {"Noob", "Gud", "Hardcore"}

ASSUME CombatAssumption ==
    /\ StartHp \in Nat \ {0}
    /\ AttackDamage \subseteq Nat
    /\ ScriptDamage \subseteq Nat
    /\ MaxDuels \in Nat

VARIABLES
    tier, deaths, banned, wallet, reputation,  \* fields of PlayerProfile
    duels,   \* WorldState::duels, from the ids of live duels to their state
    issued   \* how many ids were drawn: a fresh Uuid is issued + 1

profile == <<tier, deaths, banned, wallet, reputation>>
worldVars == <<tier, deaths, banned, wallet, reputation, duels, issued>>

(***************************************************************************)
(* Data.                                                                   *)
(***************************************************************************)
Tiers == {"Noob", "Gud", "Hardcore"}

Seats == {"left", "right"}

Foe(seat) == IF seat = "left" THEN "right" ELSE "left"

Duel == [left: Players, right: Players, hp: [Seats -> Int],
         defending: [Seats -> BOOLEAN]]

Moves == [kind: {"defend"}, dmg: {0}]
           \cup [kind: {"attack"}, dmg: AttackDamage]
           \cup [kind: {"script"}, dmg: ScriptDamage]

(***************************************************************************)
(* One exchange.                                                           *)
(***************************************************************************)
NewDuel(l, r) == [left |-> l, right |-> r,
                  hp |-> [seat \in Seats |-> StartHp],
                  defending |-> [seat \in Seats |-> FALSE]]

\* Mutant of SeatOf: the right seat wins the tie when a player duels itself.
SeatOfFromTheRight(d, p) == IF p = d.right THEN "right" ELSE "left"

\* The left seat wins the tie when a player duels itself.
SeatOf(d, p) == IF p = d.left THEN "left" ELSE "right"

\* A defending target takes half, but at least 5 of an attack, 4 of a script.
Mitigated(m) ==
    LET half  == m.dmg \div 2
        least == IF m.kind = "attack" THEN 5 ELSE 4
    IN  IF half > least THEN half ELSE least

Landed(d, seat, m) == IF d.defending[Foe(seat)] THEN Mitigated(m) ELSE m.dmg

\* A blow lands on the other seat, uses up its guard and drops one's own.
AfterMove(d, seat, m) ==
    IF m.kind = "defend"
    THEN [d EXCEPT !.defending[seat] = TRUE]
    ELSE [d EXCEPT !.hp[Foe(seat)] = @ - Landed(d, seat, m),
                   !.defending = [s \in Seats |-> FALSE]]

\* Mutant of Ended: a side at exactly zero still fights.
EndedBelowZero(d) == \E seat \in Seats : d.hp[seat] < 0

Ended(d) == \E seat \in Seats : d.hp[seat] <= 0

LeftWins(d) == d.hp["left"] > d.hp["right"]

Winner(d) == IF LeftWins(d) THEN d.left ELSE d.right

Loser(d) == IF LeftWins(d) THEN d.right ELSE d.left

\* The third death of a hardcore player locks the account.
Zeroes(t, n) == t = "Hardcore" /\ n >= 3

(***************************************************************************)
(* The calls.                                                              *)
(***************************************************************************)
DuelInit ==
    /\ tier = [p \in Players |-> "Noob"]
    /\ deaths = [p \in Players |-> 0]
    /\ banned = [p \in Players |-> FALSE]
    /\ wallet = [p \in Players |-> 500]
    /\ reputation = [p \in Players |-> 0]
    /\ duels = [id \in {} |-> NewDuel(id, id)]
    /\ issued = 0

MayStart(l, r) == ~ banned[l] /\ ~ banned[r]

StartDuel(l, r) ==
    /\ MayStart(l, r)
    /\ issued < MaxDuels
    /\ issued' = issued + 1
    /\ duels' = [id \in DOMAIN duels \cup {issued + 1} |->
                    IF id = issued + 1 THEN NewDuel(l, r) ELSE duels[id]]
    /\ UNCHANGED profile

Participates(id, p) ==
    /\ id \in DOMAIN duels
    /\ p \in {duels[id].left, duels[id].right}

\* duel_action while both sides still stand: only the duel itself changes.
Exchange(id, p, m) ==
    LET d == AfterMove(duels[id], SeatOf(duels[id], p), m)
    IN  /\ Participates(id, p)
        /\ ~ Ended(d)
        /\ duels' = [duels EXCEPT ![id] = d]
        /\ UNCHANGED <<profile, issued>>

\* Mutant of Settle: the finished duel stays in the table.
SettleKeepsDuel(id, w, l) ==
    /\ wallet' = [wallet EXCEPT ![w] = @ + 40]
    /\ reputation' = [reputation EXCEPT ![w] = @ + 3]
    /\ deaths' = [deaths EXCEPT ![l] = @ + 1]
    /\ banned' = [banned EXCEPT ![l] = @ \/ Zeroes(tier[l], deaths[l] + 1)]
    /\ UNCHANGED <<duels, tier, issued>>

\* The duel leaves the table, its winner is paid and its loser dies.
Settle(id, w, l) ==
    /\ duels' = [i \in DOMAIN duels \ {id} |-> duels[i]]
    /\ wallet' = [wallet EXCEPT ![w] = @ + 40]
    /\ reputation' = [reputation EXCEPT ![w] = @ + 3]
    /\ deaths' = [deaths EXCEPT ![l] = @ + 1]
    /\ banned' = [banned EXCEPT ![l] = @ \/ Zeroes(tier[l], deaths[l] + 1)]
    /\ UNCHANGED <<tier, issued>>

\* duel_action that brings a side to zero.
Kill(id, p, m) ==
    LET d == AfterMove(duels[id], SeatOf(duels[id], p), m)
    IN  /\ Participates(id, p)
        /\ Ended(d)
        /\ Settle(id, Winner(d), Loser(d))

SetTier(p, t) ==
    /\ tier' = [tier EXCEPT ![p] = t]
    /\ UNCHANGED <<deaths, banned, wallet, reputation, duels, issued>>

BanForever(p) ==
    /\ banned' = [banned EXCEPT ![p] = TRUE]
    /\ UNCHANGED <<tier, deaths, wallet, reputation, duels, issued>>

DuelNext ==
    \/ \E l, r \in Players : StartDuel(l, r)
    \/ \E id \in DOMAIN duels, p \in Players, m \in Moves : Exchange(id, p, m)
    \/ \E id \in DOMAIN duels, p \in Players, m \in Moves : Kill(id, p, m)
    \/ \E p \in Players, t \in ChoosableTiers : SetTier(p, t)
    \/ \E p \in Players : BanForever(p)

DuelSpec == DuelInit /\ [][DuelNext]_worldVars

(***************************************************************************)
(* Properties.                                                             *)
(***************************************************************************)
\* Every variable has the type of the field it models.
DuelTypeOK ==
    /\ tier \in [Players -> Tiers]
    /\ deaths \in [Players -> Nat]
    /\ banned \in [Players -> BOOLEAN]
    /\ wallet \in [Players -> Nat]
    /\ reputation \in [Players -> Nat]
    /\ issued \in Nat
    /\ DOMAIN duels \subseteq 1 .. issued
    /\ duels \in [DOMAIN duels -> Duel]

\* In a duel still on the table both sides stand, each with at most the
\* integrity it started with: the step that brings one down also removes the
\* duel, so no later call can be paid for a fight that is over (duel_action).
BothStanding ==
    \A id \in DOMAIN duels : \A seat \in Seats :
        duels[id].hp[seat] \in 1 .. StartHp

Total(f) == MapThenSumSet(LAMBDA p : f[p], Players)

\* The books balance: a duel ever issued is either still on the table or has
\* cost exactly one death, and each death has paid exactly one winner 40 chips
\* and 3 points of reputation - also when players duel themselves, are banned
\* in mid-fight, or hold several duels at once (start_duel, duel_action).
BooksBalance ==
    /\ Total(deaths) + Cardinality(DOMAIN duels) = issued
    /\ Total(reputation) = 3 * Total(deaths)
    /\ Total(wallet) = 500 * Cardinality(Players) + 40 * Total(deaths)
=============================================================================
