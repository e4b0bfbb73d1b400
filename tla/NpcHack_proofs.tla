--------------------------- MODULE NpcHack_proofs ---------------------------
(***************************************************************************)
(* For any number of players, sessions and NPCs: both sides of a live hack *)
(* stand, and the hack a session holds is live, its player's own and held  *)
(* by no other session - however often the NPC is replaced meanwhile; the  *)
(* ledger tells a consistent story, and every hack that has ended is paid  *)
(* for by it or by a death.                                                *)
(***************************************************************************)
EXTENDS NpcHack, Sums, TLAPS

\* The types the argument needs: those of the hacks and of the sessions.
HackTypes ==
    /\ issued \in Nat /\ DOMAIN hacks \subseteq 1 .. issued
    /\ \A id \in DOMAIN hacks : hacks[id] \in Hack
    /\ defeats \in [Npcs -> Nat]
    /\ owner \in [Sessions -> Players \cup {None}]
    /\ current \in [Sessions -> Nat \cup {None}]
    /\ \A s \in Sessions : owner[s] = None => current[s] = None

Inv == HackTypes /\ HacksStand

\* Numbers: an NPC starts with some integrity, and blows are whole numbers.
LEMMA ScaledHpPositive ==
    ASSUME HackTypes, NEW n \in Npcs
    PROVE  ScaledHp(n) \in Nat \ {0}
BY CombatAssumption DEF HackTypes, ScaledHp, AtMost

LEMMA ScaledBlowsAreInt ==
    ASSUME HackTypes, NEW n \in Npcs
    PROVE  ScaledBlows(n) \subseteq Int
<1> SUFFICES ASSUME NEW b \in NpcBlows PROVE AtMost(50, b + defeats[n] \div 2) \in Int
    BY DEF ScaledBlows
<1>1. defeats[n] \in Nat /\ b \in Nat
    BY CombatAssumption DEF HackTypes
<1>2. defeats[n] \div 2 \in Nat
    BY <1>1
<1> QED BY <1>1, <1>2 DEF AtMost

LEMMA HalfIsInt == ASSUME NEW n \in Int PROVE Half(n) \in Int
<1>1. n \div 2 \in Int
    OBVIOUS
<1> QED BY <1>1 DEF Half

\* A move or a reply leaves a hack of the same player and NPC.  The mover's own
\* integrity is untouched: the player's by a move, the NPC's by a reply.
LEMMA MoveKeepsHack ==
    ASSUME HackTypes, NEW h \in Hack, NEW g \in PlayerMoves(h)
    PROVE  g \in Hack /\ g.player = h.player /\ g.npc = h.npc /\ g.playerHp = h.playerHp
<1>1. CASE g = Defended(h)
    BY <1>1 DEF Defended, Hack
<1>2. ASSUME NEW b \in Blows, g = Struck(h, b)
      PROVE  g \in Hack /\ g.player = h.player /\ g.npc = h.npc /\ g.playerHp = h.playerHp
    <2> DEFINE total == b + (IF h.bonusReady THEN BonusDamage ELSE 0)
               dmg == IF h.npcDefending THEN Half(total) ELSE total
    <2>1. total \in Int
        BY CombatAssumption
    <2>2. dmg \in Int
        BY <2>1, HalfIsInt
    <2>3. h.npcHp - dmg \in Int
        BY <2>2 DEF Hack
    <2>4. g = [h EXCEPT !.npcHp = h.npcHp - dmg, !.npcDefending = FALSE,
                        !.playerDefending = FALSE, !.bonusReady = FALSE]
        BY <1>2 DEF Struck
    <2> HIDE DEF total, dmg
    <2>5. g = [player |-> h.player, npc |-> h.npc, playerHp |-> h.playerHp,
               npcHp |-> h.npcHp - dmg, playerDefending |-> FALSE,
               npcDefending |-> FALSE, bonusReady |-> FALSE]
        BY <2>4 DEF Hack
    <2> QED BY <2>3, <2>5 DEF Hack
<1> QED BY <1>1, <1>2 DEF PlayerMoves

LEMMA ReplyKeepsHack ==
    ASSUME HackTypes, NEW h \in Hack, NEW g \in Replies(h)
    PROVE  g \in Hack /\ g.player = h.player /\ g.npc = h.npc /\ g.npcHp = h.npcHp
<1>1. CASE g = [h EXCEPT !.npcDefending = TRUE]
    BY <1>1 DEF Hack
<1>2. ASSUME NEW b \in ScaledBlows(h.npc), g = Retaliated(h, b)
      PROVE  g \in Hack /\ g.player = h.player /\ g.npc = h.npc /\ g.npcHp = h.npcHp
    <2> DEFINE dmg == IF h.playerDefending THEN Half(b) ELSE b
    <2>1. b \in Int
        BY ScaledBlowsAreInt DEF Hack
    <2>2. dmg \in Int
        BY <2>1, HalfIsInt
    <2>3. h.playerHp - dmg \in Int
        BY <2>2 DEF Hack
    <2>4. g = [h EXCEPT !.playerHp = h.playerHp - dmg, !.playerDefending = FALSE]
        BY <1>2 DEF Retaliated
    <2> HIDE DEF dmg
    <2>5. g = [player |-> h.player, npc |-> h.npc, playerHp |-> h.playerHp - dmg,
               npcHp |-> h.npcHp, playerDefending |-> FALSE,
               npcDefending |-> h.npcDefending, bonusReady |-> h.bonusReady]
        BY <2>4 DEF Hack
    <2> QED BY <2>3, <2>5 DEF Hack
<1> QED BY <1>1, <1>2 DEF Replies

\* A hack that goes on is one both sides of which stand.
LEMMA FightOnStands ==
    ASSUME Inv, NEW s \in Sessions, FightOn(s)
    PROVE  Inv'
<1> DEFINE id == current[s]
<1>1. id \in DOMAIN hacks
    BY DEF FightOn, Inv, HacksStand
<1>2. hacks[id] \in Hack
    BY <1>1 DEF Inv, HackTypes
<1>3. PICK h \in PlayerMoves(hacks[id]) :
          /\ ~ NpcDown(h)
          /\ \E g \in Replies(h) : ~ PlayerDown(g) /\ hacks' = [hacks EXCEPT ![id] = g]
    BY DEF FightOn
<1>4. PICK g \in Replies(h) : ~ PlayerDown(g) /\ hacks' = [hacks EXCEPT ![id] = g]
    BY <1>3
<1>5. h \in Hack /\ h.player = hacks[id].player
    BY <1>2, <1>3, MoveKeepsHack DEF Inv
<1>6. g \in Hack /\ g.player = h.player /\ g.npcHp = h.npcHp
    BY <1>5, <1>4, ReplyKeepsHack DEF Inv
<1>7. g.playerHp > 0 /\ g.npcHp > 0
    BY <1>3, <1>4, <1>5, <1>6 DEF NpcDown, PlayerDown, Hack
<1> HIDE DEF id
<1>8. /\ DOMAIN hacks' = DOMAIN hacks /\ hacks'[id] = g
      /\ \A i \in DOMAIN hacks \ {id} : hacks'[i] = hacks[i]
    BY <1>1, <1>4
<1>9. UNCHANGED <<issued, defeats, owner, current>>
    BY DEF FightOn, npc, session
<1>10. HackTypes'
    BY <1>6, <1>8, <1>9 DEF Inv, HackTypes
<1>11. HacksStand'
    BY <1>5, <1>6, <1>7, <1>8, <1>9 DEF Inv, HacksStand
<1> QED BY <1>10, <1>11 DEF Inv

\* The end of a hack takes it from the table and from the session that held it;
\* nobody else knew it.
LEMMA EndStands ==
    ASSUME Inv, NEW s \in Sessions, current[s] # None, Remove(current[s]),
           current' = [current EXCEPT ![s] = None],
           defeats' \in [Npcs -> Nat], UNCHANGED <<issued, owner>>
    PROVE  Inv'
<1>1. /\ DOMAIN hacks' = DOMAIN hacks \ {current[s]}
      /\ \A i \in DOMAIN hacks' : hacks'[i] = hacks[i]
    BY DEF Remove
<1>2. /\ current'[s] = None
      /\ \A t \in Sessions \ {s} : current'[t] = current[t]
    BY DEF Inv, HackTypes
<1>3. HackTypes'
    BY <1>1, <1>2 DEF Inv, HackTypes
<1>4. \A t \in Sessions \ {s} : current[t] # current[s]
    BY DEF Inv, HacksStand
<1>5. HacksStand'
    BY <1>1, <1>2, <1>4 DEF Inv, HacksStand
<1> QED BY <1>3, <1>5 DEF Inv

LEMMA StartStands ==
    ASSUME Inv, NEW s \in Sessions, NEW n \in Npcs, StartHack(s, n)
    PROVE  Inv'
<1> DEFINE fresh == [player |-> owner[s], npc |-> n,
                     playerHp |-> StartHp, npcHp |-> ScaledHp(n),
                     playerDefending |-> FALSE, npcDefending |-> FALSE,
                     bonusReady |-> FALSE]
<1>1. owner[s] \in Players
    BY DEF StartHack, Inv, HackTypes
<1>2. fresh \in Hack /\ fresh.playerHp > 0 /\ fresh.npcHp > 0 /\ fresh.player = owner[s]
    <2>1. ScaledHp(n) \in Nat \ {0}
        BY ScaledHpPositive DEF Inv
    <2> QED BY <1>1, <2>1, CombatAssumption DEF Hack
<1>3. /\ issued' = issued + 1
      /\ hacks' = [id \in DOMAIN hacks \cup {issued'} |->
                      IF id = issued' THEN fresh ELSE hacks[id]]
      /\ current' = [current EXCEPT ![s] = issued']
      /\ UNCHANGED <<defeats, owner>>
    BY DEF StartHack, npc
<1> HIDE DEF fresh
<1>4. /\ issued' \in Nat /\ issued' \notin DOMAIN hacks /\ issued' # None
      /\ DOMAIN hacks' = DOMAIN hacks \cup {issued'}
      /\ hacks'[issued'] = fresh
      /\ \A i \in DOMAIN hacks : hacks'[i] = hacks[i]
    BY <1>3, NoneAssumption DEF Inv, HackTypes
<1>5. /\ current'[s] = issued'
      /\ \A t \in Sessions \ {s} : current'[t] = current[t]
    BY <1>3 DEF Inv, HackTypes
<1>6. HackTypes'
    BY <1>1, <1>2, <1>3, <1>4, <1>5, NoneAssumption DEF Inv, HackTypes
<1>7. \A t \in Sessions \ {s} : current[t] # issued'
    BY <1>4 DEF Inv, HacksStand
<1>8. HacksStand'
    BY <1>2, <1>3, <1>4, <1>5, <1>7 DEF Inv, HacksStand
<1> QED BY <1>6, <1>8 DEF Inv

LEMMA SolveStands ==
    ASSUME Inv, NEW s \in Sessions, Solve(s)
    PROVE  Inv'
<1> DEFINE id == current[s]
           g == [hacks[id] EXCEPT !.bonusReady = TRUE]
<1>1. id \in DOMAIN hacks /\ hacks[id] \in Hack
    BY DEF Solve, Inv, HacksStand, HackTypes
<1>2. /\ g \in Hack /\ g.player = hacks[id].player
      /\ g.playerHp = hacks[id].playerHp /\ g.npcHp = hacks[id].npcHp
    BY <1>1 DEF Hack
<1>3. hacks' = [hacks EXCEPT ![id] = g]
    BY DEF Solve
<1>4. UNCHANGED <<issued, defeats, owner, current>>
    BY DEF Solve, npc, session
<1> HIDE DEF id, g
<1>5. /\ DOMAIN hacks' = DOMAIN hacks /\ hacks'[id] = g
      /\ \A i \in DOMAIN hacks \ {id} : hacks'[i] = hacks[i]
    BY <1>1, <1>3
<1>6. HackTypes'
    BY <1>2, <1>4, <1>5 DEF Inv, HackTypes
<1>7. HacksStand'
    BY <1>1, <1>2, <1>4, <1>5 DEF Inv, HacksStand
<1> QED BY <1>6, <1>7 DEF Inv

LEMMA InvStep == Inv /\ [Next]_vars => Inv'
<1> SUFFICES ASSUME Inv, [Next]_vars PROVE Inv'
    OBVIOUS
<1>1. ASSUME UNCHANGED <<hacks, issued, defeats, owner, current>> PROVE Inv'
    BY <1>1 DEF Inv, HackTypes, HacksStand
<1>2. ASSUME NEW s \in Sessions, NEW p \in Players, Connect(s, p)
      PROVE  Inv'
    <2>1. /\ UNCHANGED <<hacks, issued, defeats, current>>
          /\ owner' = [owner EXCEPT ![s] = p] /\ owner[s] = None
        BY <1>2 DEF Connect, npc
    <2>2. current[s] = None
        BY <2>1 DEF Inv, HackTypes
    <2> QED BY <2>1, <2>2 DEF Inv, HackTypes, HacksStand
<1>3. ASSUME NEW s \in Sessions, Hangup(s)
      PROVE  Inv'
    BY <1>3 DEF Hangup, npc, Inv, HackTypes, HacksStand
<1>4. ASSUME NEW s \in Sessions, ChangeMode(s)
      PROVE  Inv'
    BY <1>1, <1>4 DEF ChangeMode, npc
<1>5. ASSUME NEW s \in Sessions, NEW c \in Commands, NEW out \in Outputs, RunShell(s, c, out)
      PROVE  Inv'
    BY <1>1, <1>5 DEF RunShell, npc
<1>6. ASSUME NEW s \in Sessions, NEW t \in ChoosableTiers, SetTier(s, t)
      PROVE  Inv'
    BY <1>1, <1>6 DEF SetTier, npc, session
<1>7. ASSUME NEW s \in Sessions, NEW n \in Npcs, StartHack(s, n)
      PROVE  Inv'
    BY <1>7, StartStands
<1>8. ASSUME NEW s \in Sessions, Solve(s)
      PROVE  Inv'
    BY <1>8, SolveStands
<1>9. ASSUME NEW s \in Sessions, Win(s)
      PROVE  Inv'
    <2> DEFINE n == hacks[current[s]].npc
    <2>1. n \in Npcs
        BY <1>9 DEF Win, Inv, HacksStand, HackTypes, Hack
    <2>2. defeats' \in [Npcs -> Nat]
        BY <1>9, <2>1 DEF Win, Succession, BossFalls, npc, Inv, HackTypes
    <2> QED BY <1>9, <2>2, EndStands DEF Win, Release
<1>10. ASSUME NEW s \in Sessions, Lose(s)
      PROVE  Inv'
    <2>1. defeats' \in [Npcs -> Nat]
        BY <1>10 DEF Lose, npc, Inv, HackTypes
    <2> QED BY <1>10, <2>1, EndStands DEF Lose, Release
<1>11. ASSUME NEW s \in Sessions, FightOn(s)
      PROVE  Inv'
    BY <1>11, FightOnStands
<1>12. CASE UNCHANGED vars
    BY <1>1, <1>12 DEF vars, npc, session
<1> QED BY <1>2, <1>3, <1>4, <1>5, <1>6, <1>7, <1>8, <1>9, <1>10, <1>11, <1>12 DEF Next

\* Both sides of every live hack stand, and a session's hack is live, its
\* player's own, and nobody else's.
THEOREM HacksAreStanding == Spec => []HacksStand
<1>1. Init => Inv
    BY DEF Init, Inv, HackTypes, HacksStand
<1>2. Inv => HacksStand
    BY DEF Inv
<1> QED BY <1>1, <1>2, InvStep, PTL DEF Spec

-----------------------------------------------------------------------------
(* Types: what HackTypes leaves out. *)

ProfileTypes ==
    /\ tier \in [Players -> Tiers] /\ deaths \in [Players -> Nat]
    /\ banned \in [Players -> BOOLEAN]
    /\ wallet \in [Players -> Nat] /\ reputation \in [Players -> Nat]

CityTypes ==
    /\ generation \in [Npcs -> Nat] /\ name \in [Npcs -> Nat]
    /\ ledger \in Seq(Entry)

SessionTypes ==
    /\ inCity \in [Sessions -> BOOLEAN]
    /\ log \in [Sessions -> [Commands -> Outputs]]
    /\ \A s \in Sessions : owner[s] = None => ~ inCity[s] /\ log[s] = NoAnswer

OtherTypes == ProfileTypes /\ CityTypes /\ SessionTypes

LEMMA TypesTogether == HackTypes /\ OtherTypes => TypeOK
BY DEF HackTypes, OtherTypes, ProfileTypes, CityTypes, SessionTypes, TypeOK

LEMMA NamesAreNat ==
    ASSUME NEW g \in Nat
    PROVE  PoolName(g) \in Nat
BY CombatAssumption DEF PoolName, AtMost

\* A fall, with or without a successor, writes proper entries into the ledger.
LEMMA FallTyped ==
    ASSUME CityTypes, NEW n \in Npcs, NEW p \in Players,
           Succession(n, p) \/ BossFalls(n, p)
    PROVE  CityTypes'
<1>0. generation[n] \in Nat /\ generation[n] + 1 \in Nat /\ name[n] \in Nat
    BY DEF CityTypes
<1>1. Falls(n, p) \in Entry
    BY <1>0 DEF Falls, Entry
<1>2. Rises(n) \in Entry
    BY <1>0, NamesAreNat DEF Rises, Entry
<1>3. CASE Succession(n, p)
    <2>1. <<Falls(n, p), Rises(n)>> \in Seq(Entry)
        BY <1>1, <1>2
    <2>2. ledger' \in Seq(Entry)
        BY <1>3, <2>1 DEF Succession, CityTypes
    <2>3. generation[n] + 1 \in Nat /\ PoolName(generation[n] + 1) \in Nat
        BY <1>0, NamesAreNat
    <2> QED BY <1>3, <2>2, <2>3 DEF Succession, CityTypes
<1>4. CASE BossFalls(n, p)
    BY <1>1, <1>4 DEF BossFalls, CityTypes, npc
<1> QED BY <1>3, <1>4

\* A session's player is a player, and so is the one a live hack pays or kills.
LEMMA HackOfSession ==
    ASSUME Inv, NEW s \in Sessions, current[s] # None
    PROVE  hacks[current[s]].player \in Players /\ hacks[current[s]].npc \in Npcs
BY DEF Inv, HackTypes, HacksStand, Hack

LEMMA OtherTypesStep == Inv /\ OtherTypes /\ [Next]_vars => OtherTypes'
<1> SUFFICES ASSUME Inv, OtherTypes, [Next]_vars PROVE OtherTypes'
    OBVIOUS
<1> USE DEF OtherTypes
<1>1. ASSUME UNCHANGED profile PROVE ProfileTypes'
    BY <1>1 DEF profile, ProfileTypes
<1>2. ASSUME UNCHANGED <<npc, ledger>> PROVE CityTypes'
    BY <1>2 DEF npc, CityTypes
<1>3. ASSUME UNCHANGED <<owner, inCity, log>> PROVE SessionTypes'
    BY <1>3 DEF SessionTypes
<1>4. ASSUME NEW s \in Sessions, NEW p \in Players, Connect(s, p)
      PROVE  OtherTypes'
    <2>1. SessionTypes'
        BY <1>4, NoneAssumption DEF Connect, SessionTypes, Inv, HackTypes
    <2> QED BY <1>1, <1>2, <1>4, <2>1 DEF Connect
<1>5. ASSUME NEW s \in Sessions, Hangup(s)
      PROVE  OtherTypes'
    <2>1. NoAnswer \in [Commands -> Outputs]
        BY DEF NoAnswer, Outputs
    <2>2. SessionTypes'
        BY <1>5, <2>1 DEF Hangup, SessionTypes, Inv, HackTypes
    <2> QED BY <1>1, <1>2, <1>5, <2>2 DEF Hangup
<1>6. ASSUME NEW s \in Sessions, ChangeMode(s)
      PROVE  OtherTypes'
    <2>1. SessionTypes'
        BY <1>6 DEF ChangeMode, SessionTypes
    <2> QED BY <1>1, <1>2, <1>6, <2>1 DEF ChangeMode
<1>7. ASSUME NEW s \in Sessions, NEW c \in Commands, NEW out \in Outputs, RunShell(s, c, out)
      PROVE  OtherTypes'
    <2>1. SessionTypes'
        BY <1>7 DEF RunShell, SessionTypes
    <2> QED BY <1>1, <1>2, <1>7, <2>1 DEF RunShell
<1>8. ASSUME NEW s \in Sessions, NEW t \in ChoosableTiers, SetTier(s, t)
      PROVE  OtherTypes'
    <2>1. owner[s] \in Players
        BY <1>8 DEF SetTier, Inv, HackTypes
    <2>2. ProfileTypes'
        BY <1>8, <2>1, TiersAssumption DEF SetTier, ProfileTypes, Tiers
    <2> QED BY <1>2, <1>3, <1>8, <2>2 DEF SetTier, session
<1>9. ASSUME NEW s \in Sessions, NEW n \in Npcs, StartHack(s, n)
      PROVE  OtherTypes'
    BY <1>1, <1>2, <1>3, <1>9 DEF StartHack
<1>10. ASSUME NEW s \in Sessions, Solve(s) \/ FightOn(s)
      PROVE  OtherTypes'
    BY <1>1, <1>2, <1>3, <1>10 DEF Solve, FightOn, session
<1>11. ASSUME NEW s \in Sessions, Win(s)
      PROVE  OtherTypes'
    <2>1. PICK p \in Players, n \in Npcs : p = hacks[current[s]].player /\ n = hacks[current[s]].npc
        BY <1>11, HackOfSession DEF Win
    <2>2. Succession(n, p) \/ BossFalls(n, p)
        BY <1>11, <2>1 DEF Win
    <2>3. CityTypes'
        BY <2>2, FallTyped
    <2>4. ProfileTypes'
        <3>1. /\ wallet' = [wallet EXCEPT ![p] = @ + RewardWallet]
              /\ reputation' = [reputation EXCEPT ![p] = @ + RewardRep]
              /\ UNCHANGED <<tier, deaths, banned>>
            BY <1>11, <2>1 DEF Win, Release
        <3> QED BY <3>1, CombatAssumption DEF ProfileTypes
    <2>5. UNCHANGED <<owner, inCity, log>>
        BY <1>11 DEF Win, Release
    <2> QED BY <1>3, <2>3, <2>4, <2>5
<1>12. ASSUME NEW s \in Sessions, Lose(s)
      PROVE  OtherTypes'
    <2>1. PICK p \in Players : p = hacks[current[s]].player
        BY <1>12, HackOfSession DEF Lose
    <2>2. /\ deaths' = [deaths EXCEPT ![p] = @ + 1]
          /\ banned' = [banned EXCEPT ![p] = @ \/ Zeroes(tier[p], deaths[p] + 1)]
          /\ UNCHANGED <<tier, wallet, reputation>>
        BY <1>12, <2>1 DEF Lose, Release
    <2>3. deaths' \in [Players -> Nat]
        BY <2>2 DEF ProfileTypes
    <2>4. banned' \in [Players -> BOOLEAN]
        BY <2>2 DEF ProfileTypes, Zeroes
    <2>5. ProfileTypes'
        BY <2>2, <2>3, <2>4 DEF ProfileTypes
    <2> QED BY <1>2, <1>3, <1>12, <2>5 DEF Lose, Release
<1>13. CASE UNCHANGED vars
    BY <1>1, <1>2, <1>3, <1>13 DEF vars, session
<1> QED BY <1>4, <1>5, <1>6, <1>7, <1>8, <1>9, <1>10, <1>11, <1>12, <1>13 DEF Next

LEMMA InitTypes == Init => Inv /\ OtherTypes
<1>1. ASSUME Init PROVE Inv
    BY <1>1 DEF Init, Inv, HackTypes, HacksStand
<1>2. ASSUME Init PROVE OtherTypes
    BY <1>2 DEF Init, OtherTypes, ProfileTypes, CityTypes, SessionTypes,
                NoAnswer, Outputs, Tiers
<1> QED BY <1>1, <1>2

\* Every field keeps its type; what belongs to a connection goes with it.
THEOREM TypeCorrect == Spec => []TypeOK
<1>1. Init => Inv /\ OtherTypes
    BY InitTypes
<1>2. Inv /\ OtherTypes => TypeOK
    BY TypesTogether DEF Inv
<1> QED BY <1>1, <1>2, InvStep, OtherTypesStep, PTL DEF Spec

-----------------------------------------------------------------------------
(* The story the ledger tells *)

\* A set of numbers bounded by one of its own has it for its greatest.
LEMMA MaxIsGreatest ==
    ASSUME NEW S, S \subseteq Nat, NEW m \in S, \A x \in S : x <= m
    PROVE  Max(S) = m
<1>1. \A x \in S : m >= x
    OBVIOUS
<1>2. \A k \in S : (\A x \in S : k >= x) => k = m
    OBVIOUS
<1> QED BY <1>1, <1>2 DEF Max

\* Some numbers up to a bound have a greatest one.
LEMMA MaxIsMember ==
    ASSUME NEW k \in Nat, NEW S, S \subseteq 0 .. k, S # {}
    PROVE  Max(S) \in S /\ \A x \in S : x <= Max(S)
<1> DEFINE gaps == {k - x : x \in S}
<1>1. gaps \subseteq Nat /\ gaps # {}
    OBVIOUS
<1> HIDE DEF gaps
<1>2. PICK g \in gaps : \A h \in gaps : g <= h
    BY <1>1, LeastNumber
<1>3. PICK m \in S : g = k - m
    BY <1>2 DEF gaps
<1>4. \A x \in S : x <= m
    <2>1. \A x \in S : k - x \in gaps
        BY DEF gaps
    <2>2. \A x \in S : k - m <= k - x /\ x \in Nat
        BY <1>2, <1>3, <2>1
    <2> QED BY <1>3, <2>2
<1>5. S \subseteq Nat
    OBVIOUS
<1>6. Max(S) = m
    BY <1>4, <1>5, MaxIsGreatest
<1> QED BY <1>4, <1>6

\* What follows in a ledger does not change what had been told before.
LEMMA ToldStays ==
    ASSUME NEW old \in Seq(Entry), NEW new \in Seq(Entry), Len(old) <= Len(new),
           \A j \in DOMAIN old : new[j] = old[j],
           NEW n, NEW i \in 1 .. Len(old) + 1
    PROVE  Latest(new, n, i) = Latest(old, n, i)
<1>1. /\ DOMAIN old = 1 .. Len(old) /\ DOMAIN new = 1 .. Len(new)
      /\ Len(old) \in Nat /\ Len(new) \in Nat
    OBVIOUS
<1>2. Told(new, n, i) = Told(old, n, i)
    BY <1>1 DEF Told
<1>3. ASSUME Told(old, n, i) # {} PROVE Max(Told(old, n, i)) \in DOMAIN old
    <2>1. Told(old, n, i) \subseteq 0 .. Len(old)
        BY <1>1 DEF Told
    <2>2. Max(Told(old, n, i)) \in Told(old, n, i)
        BY <1>1, <1>3, <2>1, MaxIsMember
    <2> QED BY <2>2 DEF Told
<1> QED BY <1>2, <1>3 DEF Latest

\* An entry about n has the last word on n just after it, one about another has
\* not.
LEMMA LastWord ==
    ASSUME NEW story \in Seq(Entry), NEW i \in DOMAIN story, NEW n
    PROVE  Latest(story, n, i + 1) = IF story[i].npc = n THEN story[i] ELSE Latest(story, n, i)
<1>1. DOMAIN story \subseteq Nat
    OBVIOUS
<1>2. CASE story[i].npc = n
    <2>1. /\ i \in Told(story, n, i + 1) /\ Told(story, n, i + 1) \subseteq Nat
          /\ \A x \in Told(story, n, i + 1) : x <= i
        BY <1>1, <1>2 DEF Told
    <2>2. Max(Told(story, n, i + 1)) = i
        BY <2>1, MaxIsGreatest
    <2> QED BY <1>2, <2>1, <2>2 DEF Latest
<1>3. CASE story[i].npc # n
    <2>1. Told(story, n, i + 1) = Told(story, n, i)
        BY <1>1, <1>3 DEF Told
    <2> QED BY <1>3, <2>1 DEF Latest
<1> QED BY <1>2, <1>3

\* What a fall and a rise say.
LEMMA EntriesSay ==
    ASSUME CityTypes, NEW n \in Npcs, NEW p \in Players
    PROVE  /\ Falls(n, p) \in Entry /\ Rises(n) \in Entry
           /\ Falls(n, p).event = "falls" /\ Falls(n, p).npc = n /\ Falls(n, p).by = p
           /\ Falls(n, p).gen = generation[n] /\ Falls(n, p).name = name[n]
           /\ Rises(n).event = "rises" /\ Rises(n).npc = n
           /\ Rises(n).gen = generation[n] + 1 /\ Rises(n).name = PoolName(generation[n] + 1)
<1>1. generation[n] \in Nat /\ generation[n] + 1 \in Nat /\ name[n] \in Nat
    BY DEF CityTypes
<1>2. PoolName(generation[n] + 1) \in Nat
    BY <1>1, NamesAreNat
<1> QED BY <1>1, <1>2 DEF Falls, Rises, Entry

LEMMA SuccessionIsConsistent ==
    ASSUME CityTypes, defeats \in [Npcs -> Nat], LedgerIsConsistent,
           NEW n \in Replaceable, NEW p \in Players, Succession(n, p)
    PROVE  LedgerIsConsistent'
<1> DEFINE k == Len(ledger)
           f == Falls(n, p)
           r == Rises(n)
<1>0. n \in Npcs
    BY CombatAssumption
<1>1. ledger \in Seq(Entry) /\ ledger' \in Seq(Entry)
    BY <1>0, FallTyped DEF CityTypes
<1>2. /\ f \in Entry /\ f.event = "falls" /\ f.npc = n /\ f.gen = generation[n] /\ f.name = name[n]
      /\ r \in Entry /\ r.event = "rises" /\ r.npc = n
      /\ r.gen = generation[n] + 1 /\ r.name = PoolName(generation[n] + 1)
    BY <1>0, EntriesSay
<1>3. ledger' = ledger \o <<f, r>>
    BY DEF Succession
<1> HIDE DEF f, r
<1>4. /\ k \in Nat /\ DOMAIN ledger = 1 .. k
      /\ DOMAIN ledger' = 1 .. k + 2 /\ Len(ledger') = k + 2
      /\ \A j \in 1 .. k : ledger'[j] = ledger[j]
      /\ ledger'[k + 1] = f /\ ledger'[k + 2] = r
    BY <1>1, <1>2, <1>3
<1> HIDE DEF k
<1>5. \A m, i : i \in 1 .. k + 1 => Latest(ledger', m, i) = Latest(ledger, m, i)
    BY <1>1, <1>4, ToldStays DEF k
<1>6. ASSUME NEW m
      PROVE  Latest(ledger', m, k + 2) = IF m = n THEN f ELSE Latest(ledger, m, k + 1)
    <2>1. k + 1 \in DOMAIN ledger' /\ (k + 1) + 1 = k + 2 /\ k + 1 \in 1 .. k + 1
        BY <1>4
    <2>2. Latest(ledger', m, (k + 1) + 1)
             = IF ledger'[k + 1].npc = m THEN ledger'[k + 1] ELSE Latest(ledger', m, k + 1)
        BY <1>1, <2>1, LastWord, Zenon
    <2>3. Latest(ledger', m, k + 1) = Latest(ledger, m, k + 1)
        BY <1>5, <2>1, Zenon
    <2> QED BY <1>2, <1>4, <2>1, <2>2, <2>3, Zenon
<1>7. ASSUME NEW m
      PROVE  Latest(ledger', m, k + 3) = IF m = n THEN r ELSE Latest(ledger, m, k + 1)
    <2>1. k + 2 \in DOMAIN ledger' /\ (k + 2) + 1 = k + 3
        BY <1>4
    <2>2. Latest(ledger', m, (k + 2) + 1)
             = IF ledger'[k + 2].npc = m THEN ledger'[k + 2] ELSE Latest(ledger', m, k + 2)
        BY <1>1, <2>1, LastWord, Zenon
    <2> QED BY <1>2, <1>4, <1>6, <2>1, <2>2, Zenon
<1>8. /\ Latest(ledger, n, k + 1).event = "rises"
      /\ Latest(ledger, n, k + 1).gen = generation[n]
      /\ Latest(ledger, n, k + 1).name = name[n]
      /\ generation[n] = defeats[n] + 1
    BY <1>0 DEF LedgerIsConsistent, k
<1>9. ASSUME NEW i \in DOMAIN ledger'
      PROVE  LET e == ledger'[i]
             IN  IF e.npc \in Replaceable THEN Follows(e, Latest(ledger', e.npc, i))
                                          ELSE e.event = "falls" /\ e.gen = 1 /\ e.name = 0
    <2>1. CASE i \in 1 .. k
        BY <1>4, <1>5, <2>1 DEF LedgerIsConsistent
    <2>2. CASE i = k + 1
        <3>1. Latest(ledger', n, k + 1) = Latest(ledger, n, k + 1)
            BY <1>4, <1>5
        <3> QED BY <1>2, <1>4, <1>8, <2>2, <3>1 DEF Follows
    <2>3. CASE i = k + 2
        BY <1>2, <1>4, <1>6, <2>3 DEF Follows
    <2> QED BY <1>4, <2>1, <2>2, <2>3
<1>10. ASSUME NEW m \in Npcs
       PROVE  IF m \in Replaceable
              THEN LET d == Latest(ledger', m, Len(ledger') + 1)
                   IN  /\ d.event = "rises" /\ d.gen = generation'[m] /\ d.name = name'[m]
                       /\ generation'[m] = defeats'[m] + 1
              ELSE generation'[m] = 1 /\ name'[m] = 0
    <2>1. Len(ledger') + 1 = k + 3
        BY <1>4
    <2>2. CASE m = n
        <3>1. /\ generation'[n] = generation[n] + 1 /\ defeats'[n] = defeats[n] + 1
              /\ name'[n] = PoolName(generation[n] + 1)
            BY <1>0 DEF Succession, CityTypes
        <3> QED BY <1>2, <1>7, <1>8, <2>1, <2>2, <3>1
    <2>3. CASE m # n
        <3>1. generation'[m] = generation[m] /\ defeats'[m] = defeats[m] /\ name'[m] = name[m]
            BY <2>3 DEF Succession, CityTypes
        <3> QED BY <1>7, <2>1, <2>3, <3>1 DEF LedgerIsConsistent, k
    <2> QED BY <2>2, <2>3
<1> QED BY <1>9, <1>10 DEF LedgerIsConsistent

\* A boss falls as itself.
LEMMA BossFallIsConsistent ==
    ASSUME CityTypes, LedgerIsConsistent,
           NEW n \in Npcs \ Replaceable, NEW p \in Players, BossFalls(n, p)
    PROVE  LedgerIsConsistent'
<1> DEFINE k == Len(ledger)
           f == Falls(n, p)
<1>1. ledger \in Seq(Entry) /\ ledger' \in Seq(Entry)
    BY FallTyped DEF CityTypes
<1>2. f \in Entry /\ f.event = "falls" /\ f.npc = n /\ f.gen = generation[n] /\ f.name = name[n]
    BY EntriesSay
<1>3. ledger' = Append(ledger, f) /\ UNCHANGED <<defeats, generation, name>>
    BY DEF BossFalls, npc
<1> HIDE DEF f
<1>4. /\ k \in Nat /\ DOMAIN ledger = 1 .. k
      /\ DOMAIN ledger' = 1 .. k + 1 /\ Len(ledger') = k + 1
      /\ \A j \in 1 .. k : ledger'[j] = ledger[j]
      /\ ledger'[k + 1] = f
    BY <1>1, <1>2, <1>3
<1> HIDE DEF k
<1>5. \A m, i : i \in 1 .. k + 1 => Latest(ledger', m, i) = Latest(ledger, m, i)
    BY <1>1, <1>4, ToldStays DEF k
<1>6. ASSUME NEW m \in Replaceable
      PROVE  Latest(ledger', m, k + 2) = Latest(ledger, m, k + 1)
    <2>1. k + 1 \in DOMAIN ledger' /\ (k + 1) + 1 = k + 2 /\ k + 1 \in 1 .. k + 1
        BY <1>4
    <2>2. Latest(ledger', m, (k + 1) + 1)
             = IF ledger'[k + 1].npc = m THEN ledger'[k + 1] ELSE Latest(ledger', m, k + 1)
        BY <1>1, <2>1, LastWord, Zenon
    <2>3. Latest(ledger', m, k + 1) = Latest(ledger, m, k + 1)
        BY <1>5, <2>1, Zenon
    <2>4. ledger'[k + 1].npc # m
        BY <1>2, <1>4
    <2> QED BY <2>1, <2>2, <2>3, <2>4, Zenon
<1>7. ASSUME NEW i \in DOMAIN ledger'
      PROVE  LET e == ledger'[i]
             IN  IF e.npc \in Replaceable THEN Follows(e, Latest(ledger', e.npc, i))
                                          ELSE e.event = "falls" /\ e.gen = 1 /\ e.name = 0
    <2>1. CASE i \in 1 .. k
        BY <1>4, <1>5, <2>1 DEF LedgerIsConsistent
    <2>2. CASE i = k + 1
        BY <1>2, <1>4, <2>2 DEF LedgerIsConsistent
    <2> QED BY <1>4, <2>1, <2>2
<1>8. ASSUME NEW m \in Npcs
      PROVE  IF m \in Replaceable
             THEN LET d == Latest(ledger', m, Len(ledger') + 1)
                  IN  /\ d.event = "rises" /\ d.gen = generation'[m] /\ d.name = name'[m]
                      /\ generation'[m] = defeats'[m] + 1
             ELSE generation'[m] = 1 /\ name'[m] = 0
    <2>1. Len(ledger') + 1 = k + 2
        BY <1>4
    <2> QED BY <1>3, <1>6, <2>1 DEF LedgerIsConsistent, k
<1> QED BY <1>7, <1>8 DEF LedgerIsConsistent

\* Who brings an NPC down, in the table of hacks.
LEMMA WinOfHack ==
    ASSUME Inv, OtherTypes, NEW s \in Sessions, Win(s)
    PROVE  \E p \in Players, n \in Npcs :
              /\ p = hacks[current[s]].player /\ n = hacks[current[s]].npc
              /\ \/ n \in Replaceable /\ Succession(n, p)
                 \/ n \in Npcs \ Replaceable /\ BossFalls(n, p)
BY HackOfSession DEF Win

LEMMA LedgerStep == Inv /\ OtherTypes /\ LedgerIsConsistent /\ [Next]_vars => LedgerIsConsistent'
<1> SUFFICES ASSUME Inv, OtherTypes, LedgerIsConsistent, [Next]_vars PROVE LedgerIsConsistent'
    OBVIOUS
<1>1. ASSUME UNCHANGED <<npc, ledger>> PROVE LedgerIsConsistent'
    BY <1>1 DEF npc, LedgerIsConsistent
<1>2. ASSUME NEW s \in Sessions, Win(s) PROVE LedgerIsConsistent'
    <2>1. CityTypes /\ defeats \in [Npcs -> Nat]
        BY DEF OtherTypes, Inv, HackTypes
    <2> QED BY <1>2, <2>1, WinOfHack, SuccessionIsConsistent, BossFallIsConsistent
<1>3. ASSUME NEW s \in Sessions,
             \/ \E p \in Players : Connect(s, p)
             \/ Hangup(s) \/ ChangeMode(s)
             \/ \E c \in Commands, out \in Outputs : RunShell(s, c, out)
             \/ \E t \in ChoosableTiers : SetTier(s, t)
             \/ \E n \in Npcs : StartHack(s, n)
             \/ Solve(s) \/ Lose(s) \/ FightOn(s)
      PROVE  UNCHANGED <<npc, ledger>>
    BY <1>3 DEF Connect, Hangup, ChangeMode, RunShell, SetTier, StartHack, Solve, Lose, FightOn
<1>4. CASE UNCHANGED vars
    BY <1>1, <1>4 DEF vars
<1> QED BY <1>1, <1>2, <1>3, <1>4 DEF Next

LEMMA LedgerInit == Init => LedgerIsConsistent
<1> SUFFICES ASSUME Init PROVE LedgerIsConsistent
    OBVIOUS
<1>1. ledger = <<>> /\ DOMAIN ledger = {} /\ Len(ledger) + 1 = 1
    BY DEF Init
<1>2. \A n : Told(ledger, n, 1) = {}
    BY <1>1 DEF Told
<1> QED BY <1>1, <1>2, CombatAssumption DEF Init, LedgerIsConsistent, Latest

\* However many players hack an NPC at a time, its generations fall one after
\* the other, each once and under the name it rose with, and the NPC there is is
\* the last one risen (npc_duel_action).
THEOREM LedgerTellsTheStory == Spec => []LedgerIsConsistent
<1>1. Init => Inv /\ OtherTypes
    BY InitTypes
<1> QED BY <1>1, LedgerInit, InvStep, OtherTypesStep, LedgerStep, PTL DEF Spec

-----------------------------------------------------------------------------
(* The books *)

\* A fall is one more win of the player who brought it about.
LEMMA WinsCount ==
    ASSUME CityTypes, NEW n \in Npcs, NEW p \in Players,
           Succession(n, p) \/ BossFalls(n, p), NEW q \in Players
    PROVE  Wins(q) \in Nat /\ Wins(q)' = Wins(q) + (IF q = p THEN 1 ELSE 0)
<1> DEFINE k == Len(ledger)
           won == {i \in DOMAIN ledger : ledger[i].event = "falls" /\ ledger[i].by = q}
           next == {i \in DOMAIN ledger' : ledger'[i].event = "falls" /\ ledger'[i].by = q}
           f == Falls(n, p)
           r == Rises(n)
<1>1. f \in Entry /\ f.event = "falls" /\ f.by = p /\ r \in Entry /\ r.event = "rises"
    BY EntriesSay
<1>2. /\ k \in Nat /\ DOMAIN ledger = 1 .. k
      /\ k + 1 \in DOMAIN ledger' /\ DOMAIN ledger' \subseteq 1 .. k + 2
      /\ DOMAIN ledger \subseteq DOMAIN ledger'
      /\ \A j \in 1 .. k : ledger'[j] = ledger[j]
      /\ ledger'[k + 1] = f
      /\ k + 2 \in DOMAIN ledger' => ledger'[k + 2] = r
    <2>1. ledger \in Seq(Entry) /\ (ledger' = ledger \o <<f, r>> \/ ledger' = Append(ledger, f))
        BY DEF CityTypes, Succession, BossFalls
    <2> HIDE DEF f, r
    <2>2. CASE ledger' = ledger \o <<f, r>>
        BY <1>1, <2>1, <2>2
    <2>3. CASE ledger' = Append(ledger, f)
        BY <1>1, <2>1, <2>3
    <2> QED BY <2>1, <2>2, <2>3
<1> HIDE DEF k, f, r
<1>3. next = IF q = p THEN won \cup {k + 1} ELSE won
    BY <1>1, <1>2
<1>4. IsFiniteSet(won) /\ k + 1 \notin won
    <2>1. 1 \in Int /\ k \in Int
        BY <1>2
    <2>2. IsFiniteSet(DOMAIN ledger) /\ won \subseteq DOMAIN ledger
        BY <1>2, <2>1, FS_Interval
    <2> QED BY <1>2, <2>2, FS_Subset
<1> HIDE DEF won, next
<1>5. Cardinality(won) \in Nat /\ Cardinality(won \cup {k + 1}) = Cardinality(won) + 1
    BY <1>4, FS_AddElement, FS_CardinalityType
<1>6. Wins(q) = Cardinality(won) /\ Wins(q)' = Cardinality(next)
    BY DEF Wins, won, next
<1> QED BY <1>3, <1>5, <1>6

\* Ended hacks of a player: won ones and lost ones.
Ended == [p \in Players |-> Wins(p) + deaths[p]]

LEMMA WinsAreNat ==
    ASSUME CityTypes, NEW q \in Players
    PROVE  Wins(q) \in Nat
<1> DEFINE won == {i \in DOMAIN ledger : ledger[i].event = "falls" /\ ledger[i].by = q}
<1>1. DOMAIN ledger = 1 .. Len(ledger) /\ Len(ledger) \in Int /\ 1 \in Int
    BY DEF CityTypes
<1>2. IsFiniteSet(DOMAIN ledger) /\ won \subseteq DOMAIN ledger
    BY <1>1, FS_Interval
<1> HIDE DEF won
<1>3. Cardinality(won) \in Nat
    BY <1>2, FS_Subset, FS_CardinalityType
<1> QED BY <1>3 DEF Wins, won

LEMMA EndedTyped ==
    ASSUME OtherTypes
    PROVE  Ended \in [Players -> Nat] /\ Total(Ended) \in Int
<1>1. Ended \in [Players -> Nat]
    BY WinsAreNat DEF Ended, OtherTypes, ProfileTypes
<1>2. Ended \in [Players -> Int]
    BY <1>1
<1>3. SumOver(Ended, Players) \in Int
    BY <1>2, CombatAssumption, SumIsInt
<1> QED BY <1>1, <1>3 DEF SumOver, Total

\* One more hack of p has ended.
LEMMA OneMoreEnded ==
    ASSUME OtherTypes, NEW p \in Players,
           \A q \in Players : Ended'[q] = Ended[q] + (IF q = p THEN 1 ELSE 0)
    PROVE  Total(Ended') = Total(Ended) + 1
<1>1. Ended \in [Players -> Int] /\ Ended' \in [Players -> Int]
    <2>1. Ended \in [Players -> Nat]
        BY EndedTyped
    <2>2. Ended' = [q \in Players |-> Ended[q] + (IF q = p THEN 1 ELSE 0)]
        BY DEF Ended
    <2> QED BY <2>1, <2>2
<1>2. Ended'[p] = Ended[p] + 1 /\ \A q \in Players \ {p} : Ended'[q] = Ended[q]
    BY <1>1
<1>3. SumOver(Ended', Players) = SumOver(Ended, Players) + 1
    BY <1>1, <1>2, CombatAssumption, SumChanges
<1> QED BY <1>3 DEF SumOver, Total

\* The hacks in the table are finitely many; one starts, one ends.
LEMMA TableCount ==
    ASSUME HackTypes
    PROVE  /\ Cardinality(DOMAIN hacks) \in Nat
           /\ Cardinality(DOMAIN hacks \cup {issued + 1}) = Cardinality(DOMAIN hacks) + 1
           /\ \A id \in DOMAIN hacks : Cardinality(DOMAIN hacks \ {id}) = Cardinality(DOMAIN hacks) - 1
<1>1. 1 \in Int /\ issued \in Int /\ DOMAIN hacks \subseteq 1 .. issued
    BY DEF HackTypes
<1>2. IsFiniteSet(DOMAIN hacks)
    BY <1>1, FS_Interval, FS_Subset
<1>3. issued + 1 \notin DOMAIN hacks
    BY <1>1
<1> QED BY <1>2, <1>3, FS_AddElement, FS_RemoveElement, FS_CardinalityType

LEMMA WinPays ==
    ASSUME Inv, OtherTypes, OtherTypes', LedgerPays, NEW s \in Sessions, Win(s)
    PROVE  LedgerPays'
<1>1. PICK p \in Players, n \in Npcs :
         /\ p = hacks[current[s]].player
         /\ Succession(n, p) \/ BossFalls(n, p)
    BY WinOfHack
<1>2. /\ wallet' = [wallet EXCEPT ![p] = @ + RewardWallet]
      /\ reputation' = [reputation EXCEPT ![p] = @ + RewardRep]
      /\ deaths' = deaths /\ issued' = issued
      /\ DOMAIN hacks' = DOMAIN hacks \ {current[s]} /\ current[s] \in DOMAIN hacks
    BY <1>1 DEF Win, Release, Remove, Inv, HacksStand
<1>3. \A q \in Players : Wins(q) \in Nat /\ Wins(q)' = Wins(q) + (IF q = p THEN 1 ELSE 0)
    BY <1>1, WinsCount DEF OtherTypes
<1>4. ASSUME NEW q \in Players
      PROVE  /\ wallet'[q] = 500 + RewardWallet * Wins(q)'
             /\ reputation'[q] = RewardRep * Wins(q)'
    <2>1. wallet[q] = 500 + RewardWallet * Wins(q) /\ reputation[q] = RewardRep * Wins(q)
        BY DEF LedgerPays
    <2>2. /\ RewardWallet * (Wins(q) + 1) = RewardWallet * Wins(q) + RewardWallet
          /\ RewardRep * (Wins(q) + 1) = RewardRep * Wins(q) + RewardRep
          /\ RewardWallet * Wins(q) \in Int /\ RewardRep * Wins(q) \in Int
        BY <1>3, CombatAssumption
    <2>3. wallet \in [Players -> Nat] /\ reputation \in [Players -> Nat]
        BY DEF OtherTypes, ProfileTypes
    <2>4. CASE q = p
        BY <1>2, <1>3, <2>1, <2>2, <2>3, <2>4, CombatAssumption
    <2>5. CASE q # p
        BY <1>2, <1>3, <2>1, <2>3, <2>5
    <2> QED BY <2>4, <2>5
<1>5. Total(Ended') = Total(Ended) + 1
    <2>1. \A q \in Players : Ended'[q] = Ended[q] + (IF q = p THEN 1 ELSE 0)
        BY <1>2, <1>3 DEF Ended, OtherTypes, ProfileTypes
    <2> QED BY <2>1, OneMoreEnded
<1>6. issued' = Cardinality(DOMAIN hacks') + Total(Ended')
    <2>1. issued = Cardinality(DOMAIN hacks) + Total(Ended)
        BY DEF LedgerPays, Ended
    <2> QED BY <1>2, <1>5, <2>1, TableCount, EndedTyped DEF Inv
<1> QED BY <1>4, <1>6 DEF LedgerPays, Ended

LEMMA LosePays ==
    ASSUME Inv, OtherTypes, LedgerPays, NEW s \in Sessions, Lose(s)
    PROVE  LedgerPays'
<1>1. PICK p \in Players : p = hacks[current[s]].player
    BY HackOfSession DEF Lose
<1>2. /\ deaths' = [deaths EXCEPT ![p] = @ + 1]
      /\ UNCHANGED <<wallet, reputation, ledger, issued>>
      /\ DOMAIN hacks' = DOMAIN hacks \ {current[s]} /\ current[s] \in DOMAIN hacks
    BY <1>1 DEF Lose, Release, Remove, Inv, HacksStand
<1>3. \A q \in Players : Wins(q) \in Nat /\ Wins(q)' = Wins(q)
    BY <1>2, WinsAreNat DEF OtherTypes, Wins
<1>4. Total(Ended') = Total(Ended) + 1
    <2>1. \A q \in Players : Ended'[q] = Ended[q] + (IF q = p THEN 1 ELSE 0)
        BY <1>2, <1>3 DEF Ended, OtherTypes, ProfileTypes
    <2> QED BY <2>1, OneMoreEnded
<1>5. issued' = Cardinality(DOMAIN hacks') + Total(Ended')
    <2>1. issued = Cardinality(DOMAIN hacks) + Total(Ended)
        BY DEF LedgerPays, Ended
    <2> QED BY <1>2, <1>4, <2>1, TableCount, EndedTyped DEF Inv
<1> QED BY <1>2, <1>3, <1>5 DEF LedgerPays, Ended

LEMMA PayStep ==
    Inv /\ OtherTypes /\ LedgerPays /\ [Next]_vars => LedgerPays'
<1> SUFFICES ASSUME Inv, OtherTypes, LedgerPays, [Next]_vars PROVE LedgerPays'
    OBVIOUS
<1>1. ASSUME UNCHANGED <<deaths, wallet, reputation, ledger, issued>>,
             DOMAIN hacks' = DOMAIN hacks
      PROVE  LedgerPays'
    BY <1>1 DEF LedgerPays, Wins
<1>2. ASSUME NEW s \in Sessions, Win(s) PROVE LedgerPays'
    BY <1>2, OtherTypesStep, WinPays
<1>3. ASSUME NEW s \in Sessions, Lose(s) PROVE LedgerPays'
    BY <1>3, LosePays
<1>4. ASSUME NEW s \in Sessions, NEW n \in Npcs, StartHack(s, n) PROVE LedgerPays'
    <2>1. /\ UNCHANGED <<deaths, wallet, reputation, ledger>> /\ issued' = issued + 1
          /\ DOMAIN hacks' = DOMAIN hacks \cup {issued + 1}
        BY <1>4 DEF StartHack, profile
    <2>2. Ended' = Ended
        BY <2>1 DEF Ended, Wins
    <2>3. issued' = Cardinality(DOMAIN hacks') + Total(Ended')
        <3>1. issued = Cardinality(DOMAIN hacks) + Total(Ended)
            BY DEF LedgerPays, Ended
        <3> QED BY <2>1, <2>2, <3>1, TableCount, EndedTyped DEF Inv
    <2> QED BY <2>1, <2>3 DEF LedgerPays, Ended, Wins
<1>5. ASSUME NEW s \in Sessions, Solve(s) \/ FightOn(s) PROVE LedgerPays'
    BY <1>1, <1>5 DEF Solve, FightOn, profile
<1>6. ASSUME NEW s \in Sessions, NEW t \in ChoosableTiers, SetTier(s, t) PROVE LedgerPays'
    BY <1>1, <1>6 DEF SetTier
<1>7. ASSUME NEW s \in Sessions,
             \/ \E p \in Players : Connect(s, p)
             \/ Hangup(s) \/ ChangeMode(s)
             \/ \E c \in Commands, out \in Outputs : RunShell(s, c, out)
      PROVE  LedgerPays'
    BY <1>1, <1>7 DEF Connect, Hangup, ChangeMode, RunShell, profile
<1>8. CASE UNCHANGED vars
    BY <1>1, <1>8 DEF vars, profile
<1> QED BY <1>2, <1>3, <1>4, <1>5, <1>6, <1>7, <1>8 DEF Next

LEMMA PayInit == Init => LedgerPays
<1> SUFFICES ASSUME Init PROVE LedgerPays
    OBVIOUS
<1>1. /\ DOMAIN ledger = {} /\ DOMAIN hacks = {} /\ issued = 0
      /\ \A p \in Players : wallet[p] = 500 /\ reputation[p] = 0 /\ deaths[p] = 0
    BY DEF Init
<1>2. \A p : Wins(p) = 0
    BY <1>1, FS_EmptySet DEF Wins
<1>3. RewardWallet * 0 = 0 /\ RewardRep * 0 = 0
    BY CombatAssumption
<1>4. Total(Ended) = 0
    <2>1. Ended \in [Players -> Int] /\ \A p \in Players : Ended[p] = 0
        BY <1>1, <1>2 DEF Ended
    <2>2. SumOver(Ended, Players) = 0 * Cardinality(Players)
        BY <2>1, CombatAssumption, SumOfEquals
    <2>3. 0 * Cardinality(Players) = 0
        BY CombatAssumption, FS_CardinalityType
    <2> QED BY <2>2, <2>3 DEF SumOver, Total
<1>5. issued = Cardinality(DOMAIN hacks) + Total(Ended)
    BY <1>1, <1>4, FS_EmptySet
<1> QED BY <1>1, <1>2, <1>3, <1>5 DEF LedgerPays, Ended

\* Every hack ends at most once, in one entry of the ledger or one death, and the
\* players hold exactly what the ledger says they won, whatever the rewards are
\* and however many hack at a time (npc_duel_action).
THEOREM LedgerPaysForAll == Spec => []LedgerPays
<1>1. Init => Inv /\ OtherTypes
    BY InitTypes
<1> QED BY <1>1, PayInit, InvStep, OtherTypesStep, PayStep, PTL DEF Spec

=============================================================================
