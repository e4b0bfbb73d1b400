------------------------------ MODULE NpcHack ------------------------------
(***************************************************************************)
(* Hacks against the city's NPCs: start_npc_duel, npc_duel_action and      *)
(* npc_duel_solve_bonus of the world service, and the sessions' "hack"     *)
(* commands.  An NPC is shared by all players, a hack belongs to one: it   *)
(* copies the NPC's integrity when it starts, but its rewards, its name    *)
(* and its blows are read when they are used.  A defeated NPC is replaced  *)
(* by a successor while other hacks against it go on.                      *)
(* Damage is a choice from small sets; a defending NPC or a retaliating    *)
(* one are both always possible (its defend chance stays in 0.10 .. 0.70). *)
(* The ban check in front of every line (PvpSessions) is left out: without *)
(* it the sessions can do more, never less.                                *)
(***************************************************************************)
EXTENDS Integers, Sequences, FiniteSets, FiniteSetsExt

CONSTANTS
    Players, Sessions, None,
    Npcs,          \* callsigns
    Replaceable,   \* those that leave a successor; the others are bosses
    ChoosableTiers,
    StartHp,       \* integrity of the player (the code: 100)
    BaseHp,        \* base_hp, the same for every NPC here
    PoolSize,      \* length of the name_pool of a replaceable NPC
    Blows,         \* damage of a player's attack or script
    BonusDamage,   \* shell_bonus_dmg
    NpcBlows,      \* unscaled damage of an NPC
    RewardWallet, RewardRep,
    Commands,      \* shell commands that leave an output in the session's log
    MaxHacks       \* bound on the hacks ever started

ASSUME NoneAssumption == None \notin Players /\ None \notin Nat
ASSUME TiersAssumption == ChoosableTiers \subseteq {"Noob", "Gud", "Hardcore"}
ASSUME CombatAssumption ==
    /\ IsFiniteSet(Players)
    /\ Replaceable \subseteq Npcs
    /\ StartHp \in Nat \ {0} /\ BaseHp \in 1 .. 300 /\ PoolSize \in Nat \ {0}
    /\ Blows \subseteq Nat /\ NpcBlows \subseteq Nat /\ BonusDamage \in Nat
    /\ RewardWallet \in Nat /\ RewardRep \in Nat

VARIABLES
    tier, deaths, banned, wallet, reputation,  \* PlayerProfile
    defeats, generation, name,  \* NpcCombatState; a name is its place in the pool
    hacks,     \* WorldState::npc_duels, the live ones by id
    issued,    \* ids drawn so far
    ledger,    \* WorldState::history, the NetCity history ledger
    owner,     \* the session's player, None without a connection
    inCity,    \* GameSession::mode is NetCity
    current,   \* GameSession::current_npc_duel
    log        \* ShellState::command_log, the last output of each command

profile == <<tier, deaths, banned, wallet, reputation>>
npc == <<defeats, generation, name>>
session == <<owner, inCity, current, log>>
vars == <<profile, npc, hacks, issued, ledger, session>>

Tiers == {"Noob", "Gud", "Hardcore"}

\* An output holds the answer of the NPC's shell challenge, or it does not.
Outputs == {"answer", "noise"}

\* The log of a fresh shell: a command not run yet has not given the answer.
NoAnswer == [c \in Commands |-> "noise"]

Hack == [player: Players, npc: Npcs, playerHp: Int, npcHp: Int,
         playerDefending: BOOLEAN, npcDefending: BOOLEAN, bonusReady: BOOLEAN]

Entry == [event: {"falls", "rises"}, npc: Npcs, name: Nat, gen: Nat,
          by: Players \cup {None}]

AtMost(bound, n) == IF n > bound THEN bound ELSE n

Half(n) == IF n \div 2 > 5 THEN n \div 2 ELSE 5

\* scaled_hp and scaled_damage.
ScaledHp(n) == AtMost(300, BaseHp + 5 * defeats[n])

ScaledBlows(n) == {AtMost(50, b + defeats[n] \div 2) : b \in NpcBlows}

\* The name of generation g: the pool is indexed by the generation itself.
PoolName(g) == AtMost(PoolSize - 1, g)

Zeroes(t, n) == t = "Hardcore" /\ n >= 3

Init ==
    /\ tier = [p \in Players |-> "Noob"]
    /\ deaths = [p \in Players |-> 0]
    /\ banned = [p \in Players |-> FALSE]
    /\ wallet = [p \in Players |-> 500]
    /\ reputation = [p \in Players |-> 0]
    /\ defeats = [n \in Npcs |-> 0]
    /\ generation = [n \in Npcs |-> 1]
    /\ name = [n \in Npcs |-> 0]
    /\ hacks = <<>>
    /\ issued = 0
    /\ ledger = <<>>
    /\ owner = [s \in Sessions |-> None]
    /\ inCity = [s \in Sessions |-> FALSE]
    /\ current = [s \in Sessions |-> None]
    /\ log = [s \in Sessions |-> NoAnswer]

(***************************************************************************)
(* One exchange of npc_duel_action.                                        *)
(***************************************************************************)
Defended(h) == [h EXCEPT !.playerDefending = TRUE]

\* A blow takes the shell bonus with it, used up even when the NPC defends.
Struck(h, blow) ==
    LET total == blow + (IF h.bonusReady THEN BonusDamage ELSE 0)
        dmg   == IF h.npcDefending THEN Half(total) ELSE total
    IN  [h EXCEPT !.npcHp = @ - dmg, !.npcDefending = FALSE,
                  !.playerDefending = FALSE, !.bonusReady = FALSE]

PlayerMoves(h) == {Defended(h)} \cup {Struck(h, b) : b \in Blows}

\* What the NPC may answer: raise its guard, or hit back.
Retaliated(h, blow) ==
    [h EXCEPT !.playerHp = @ - (IF h.playerDefending THEN Half(blow) ELSE blow),
              !.playerDefending = FALSE]

Replies(h) == {[h EXCEPT !.npcDefending = TRUE]}
                \cup {Retaliated(h, b) : b \in ScaledBlows(h.npc)}

\* Mutant of NpcDown: an NPC at exactly zero still stands.
NpcDownBelowZero(h) == h.npcHp < 0

NpcDown(h) == h.npcHp <= 0

PlayerDown(h) == h.playerHp <= 0

(***************************************************************************)
(* Connections and shell lines.                                            *)
(***************************************************************************)
Connect(s, p) ==
    /\ owner[s] = None
    /\ owner' = [owner EXCEPT ![s] = p]
    /\ UNCHANGED <<profile, npc, hacks, issued, ledger, inCity, current, log>>

\* Mutant of Hangup: the next connection starts in NetCity.
HangupStaysInCity(s) ==
    /\ owner[s] # None
    /\ owner' = [owner EXCEPT ![s] = None]
    /\ current' = [current EXCEPT ![s] = None]
    /\ log' = [log EXCEPT ![s] = NoAnswer]
    /\ UNCHANGED <<profile, npc, hacks, issued, ledger, inCity>>

Hangup(s) ==
    /\ owner[s] # None
    /\ owner' = [owner EXCEPT ![s] = None]
    /\ inCity' = [inCity EXCEPT ![s] = FALSE]
    /\ current' = [current EXCEPT ![s] = None]
    /\ log' = [log EXCEPT ![s] = NoAnswer]
    /\ UNCHANGED <<profile, npc, hacks, issued, ledger>>

\* mode_switch in one step: NetCityGate has its phases.
ChangeMode(s) ==
    /\ owner[s] # None
    /\ inCity' = [inCity EXCEPT ![s] = ~ @]
    /\ UNCHANGED <<profile, npc, hacks, issued, ledger, owner, current, log>>

\* A shell line that succeeds with an output replaces what its text left before.
RunShell(s, c, out) ==
    /\ owner[s] # None
    /\ log' = [log EXCEPT ![s][c] = out]
    /\ UNCHANGED <<profile, npc, hacks, issued, ledger, owner, inCity, current>>

SetTier(s, t) ==
    /\ owner[s] # None
    /\ tier' = [tier EXCEPT ![owner[s]] = t]
    /\ UNCHANGED <<deaths, banned, wallet, reputation, npc, hacks, issued, ledger, session>>

(***************************************************************************)
(* Hacks.                                                                  *)
(***************************************************************************)
\* Starting wants NetCity and no hack in hand; going on wants neither.
StartHack(s, n) ==
    /\ owner[s] # None
    /\ inCity[s]
    /\ current[s] = None
    /\ issued < MaxHacks
    /\ issued' = issued + 1
    /\ hacks' = [id \in DOMAIN hacks \cup {issued'} |->
                    IF id = issued'
                    THEN [player |-> owner[s], npc |-> n,
                          playerHp |-> StartHp, npcHp |-> ScaledHp(n),
                          playerDefending |-> FALSE, npcDefending |-> FALSE,
                          bonusReady |-> FALSE]
                    ELSE hacks[id]]
    /\ current' = [current EXCEPT ![s] = issued']
    /\ UNCHANGED <<profile, npc, ledger, owner, inCity, log>>

\* "hack solve" takes the output of some logged command: the log is a hash map
\* and the code takes the last of its values.
Solve(s) ==
    /\ current[s] # None
    /\ \E c \in Commands : log[s][c] = "answer"
    /\ hacks' = [hacks EXCEPT ![current[s]].bonusReady = TRUE]
    /\ UNCHANGED <<profile, npc, issued, ledger, session>>

\* Mutant of Remove: the finished hack stays in the table.
RemoveNothing(id) == hacks' = hacks

Remove(id) == hacks' = [i \in DOMAIN hacks \ {id} |-> hacks[i]]

Release(s) ==
    /\ current' = [current EXCEPT ![s] = None]
    /\ UNCHANGED <<owner, inCity, log, issued, tier>>

Falls(n, p) == [event |-> "falls", npc |-> n, name |-> name[n], gen |-> generation[n], by |-> p]

Rises(n) == [event |-> "rises", npc |-> n, name |-> PoolName(generation[n] + 1),
             gen |-> generation[n] + 1, by |-> None]

\* Mutant of Succession: the NPC takes another name than the ledger announces.
SuccessionMisnamed(n, p) ==
    /\ defeats' = [defeats EXCEPT ![n] = @ + 1]
    /\ generation' = [generation EXCEPT ![n] = @ + 1]
    /\ name' = [name EXCEPT ![n] = PoolName(generation[n])]
    /\ ledger' = ledger \o <<Falls(n, p), Rises(n)>>

\* The role is taken over by the next of the pool, and the ledger says so.
Succession(n, p) ==
    /\ defeats' = [defeats EXCEPT ![n] = @ + 1]
    /\ generation' = [generation EXCEPT ![n] = @ + 1]
    /\ name' = [name EXCEPT ![n] = PoolName(generation[n] + 1)]
    /\ ledger' = ledger \o <<Falls(n, p), Rises(n)>>

BossFalls(n, p) ==
    /\ ledger' = Append(ledger, Falls(n, p))
    /\ UNCHANGED npc

\* The move brings the NPC down: no reply, rewards, and a successor if any.
Win(s) ==
    /\ current[s] # None
    /\ LET id == current[s]
           p  == hacks[id].player
           n  == hacks[id].npc
       IN  /\ \E h \in PlayerMoves(hacks[id]) : NpcDown(h)
           /\ Remove(id)
           /\ wallet' = [wallet EXCEPT ![p] = @ + RewardWallet]
           /\ reputation' = [reputation EXCEPT ![p] = @ + RewardRep]
           /\ IF n \in Replaceable THEN Succession(n, p) ELSE BossFalls(n, p)
    /\ Release(s)
    /\ UNCHANGED <<deaths, banned>>

\* The NPC survives, replies, and brings the player down.
Lose(s) ==
    /\ current[s] # None
    /\ LET id == current[s]
           p  == hacks[id].player
       IN  /\ \E h \in PlayerMoves(hacks[id]) :
                 ~ NpcDown(h) /\ \E g \in Replies(h) : PlayerDown(g)
           /\ Remove(id)
           /\ deaths' = [deaths EXCEPT ![p] = @ + 1]
           /\ banned' = [banned EXCEPT ![p] = @ \/ Zeroes(tier[p], deaths[p] + 1)]
    /\ Release(s)
    /\ UNCHANGED <<wallet, reputation, npc, ledger>>

\* Both are left standing.
FightOn(s) ==
    /\ current[s] # None
    /\ \E h \in PlayerMoves(hacks[current[s]]) :
          /\ ~ NpcDown(h)
          /\ \E g \in Replies(h) :
                /\ ~ PlayerDown(g)
                /\ hacks' = [hacks EXCEPT ![current[s]] = g]
    /\ UNCHANGED <<profile, npc, issued, ledger, session>>

Next == \E s \in Sessions :
    \/ \E p \in Players : Connect(s, p)
    \/ Hangup(s)
    \/ ChangeMode(s)
    \/ \E c \in Commands, out \in Outputs : RunShell(s, c, out)
    \/ \E t \in ChoosableTiers : SetTier(s, t)
    \/ \E n \in Npcs : StartHack(s, n)
    \/ Solve(s)
    \/ Win(s)
    \/ Lose(s)
    \/ FightOn(s)

Spec == Init /\ [][Next]_vars

(***************************************************************************)
(* Properties.                                                             *)
(***************************************************************************)
TypeOK ==
    /\ tier \in [Players -> Tiers] /\ deaths \in [Players -> Nat]
    /\ banned \in [Players -> BOOLEAN]
    /\ wallet \in [Players -> Nat] /\ reputation \in [Players -> Nat]
    /\ defeats \in [Npcs -> Nat] /\ generation \in [Npcs -> Nat] /\ name \in [Npcs -> Nat]
    /\ issued \in Nat /\ DOMAIN hacks \subseteq 1 .. issued
    /\ \A id \in DOMAIN hacks : hacks[id] \in Hack
    /\ ledger \in Seq(Entry)
    /\ owner \in [Sessions -> Players \cup {None}]
    /\ inCity \in [Sessions -> BOOLEAN]
    /\ current \in [Sessions -> Nat \cup {None}]
    /\ log \in [Sessions -> [Commands -> Outputs]]
    /\ \A s \in Sessions : owner[s] = None =>
          ~ inCity[s] /\ current[s] = None /\ log[s] = NoAnswer

\* Both sides of a live hack stand, and the hack a session holds is live, its
\* player's own and held by no other session: so no reply is dealt to the dead,
\* and "no active hack session" and "not your hack session" stay unheard.
HacksStand ==
    /\ \A id \in DOMAIN hacks : hacks[id].playerHp > 0 /\ hacks[id].npcHp > 0
    /\ \A s \in Sessions : current[s] # None =>
          /\ current[s] \in DOMAIN hacks
          /\ hacks[current[s]].player = owner[s]
          /\ \A t \in Sessions \ {s} : current[t] # current[s]

\* The entries of a ledger about n before the i-th, and the last of them; a role
\* nobody has fallen in yet is held by the first name of the pool.
Told(story, n, i) == {j \in DOMAIN story : j < i /\ story[j].npc = n}

Latest(story, n, i) ==
    IF Told(story, n, i) = {}
    THEN [event |-> "rises", npc |-> n, name |-> 0, gen |-> 1, by |-> None]
    ELSE story[Max(Told(story, n, i))]

\* One generation falls, under the name it rose with, and the next one rises.
Follows(e, d) ==
    \/ e.event = "falls" /\ d.event = "rises" /\ e.gen = d.gen /\ e.name = d.name
    \/ e.event = "rises" /\ d.event = "falls" /\ e.gen = d.gen + 1

\* The ledger tells a consistent story however many players hack an NPC at a
\* time: the generations of a role fall one after the other, each once, each
\* under the name it rose with, and the last one risen is the NPC there is.
\* A boss falls again and again as itself.
LedgerIsConsistent ==
    /\ \A i \in DOMAIN ledger :
          LET e == ledger[i]
          IN  IF e.npc \in Replaceable THEN Follows(e, Latest(ledger, e.npc, i))
                                       ELSE e.event = "falls" /\ e.gen = 1 /\ e.name = 0
    /\ \A n \in Npcs :
          IF n \in Replaceable
          THEN LET d == Latest(ledger, n, Len(ledger) + 1)
               IN  /\ d.event = "rises" /\ d.gen = generation[n] /\ d.name = name[n]
                   /\ generation[n] = defeats[n] + 1
          ELSE generation[n] = 1 /\ name[n] = 0

Wins(p) == Cardinality({i \in DOMAIN ledger : ledger[i].event = "falls" /\ ledger[i].by = p})

Total(f) == MapThenSumSet(LAMBDA p : f[p], Players)

\* Each hack ends at most once and is paid for by exactly one entry of the
\* ledger or by one death: the players' wallets and reputations are what the
\* ledger says they won.
LedgerPays ==
    /\ \A p \in Players : /\ wallet[p] = 500 + RewardWallet * Wins(p)
                          /\ reputation[p] = RewardRep * Wins(p)
    /\ issued = Cardinality(DOMAIN hacks) + Total([p \in Players |-> Wins(p) + deaths[p]])
=============================================================================
