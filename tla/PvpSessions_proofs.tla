------------------------- MODULE PvpSessions_proofs -------------------------
(***************************************************************************)
(* For any number of players, connections and duels: the sessions          *)
(* implement the world service's duels, the duel a session remembers is    *)
(* its own and alive, and the challenged side never gets a turn.           *)
(***************************************************************************)
EXTENDS PvpSessions, Sums, TLAPS

-----------------------------------------------------------------------------
(* The duels of the world service *)


\* A duel stays a record of the duel type through any move, and no seat gains
\* integrity by one (the match on CombatAction in duel_action).
LEMMA MoveKeepsDuel ==
    ASSUME NEW d \in Duel, NEW seat \in Seats, NEW m \in Moves
    PROVE  /\ AfterMove(d, seat, m) \in Duel
           /\ \A s \in Seats : AfterMove(d, seat, m).hp[s] <= d.hp[s]
<1>1. Foe(seat) \in Seats
    BY DEF Foe, Seats
<1>2. m.dmg \in Nat
    <2>1. CASE m \in [kind: {"defend"}, dmg: {0}]
        BY <2>1
    <2>2. CASE m \in [kind: {"attack"}, dmg: AttackDamage]
        BY <2>2, CombatAssumption
    <2>3. CASE m \in [kind: {"script"}, dmg: ScriptDamage]
        BY <2>3, CombatAssumption
    <2> QED BY <2>1, <2>2, <2>3 DEF Moves
<1>3. Mitigated(m) \in Nat
    <2>1. m.dmg \div 2 \in Nat
        BY <1>2
    <2> QED BY <2>1 DEF Mitigated
<1>4. Landed(d, seat, m) \in Nat
    BY <1>2, <1>3 DEF Landed
<1>5. CASE m.kind = "defend"
    <2> DEFINE guard == [d.defending EXCEPT ![seat] = TRUE]
    <2>1. AfterMove(d, seat, m) = [d EXCEPT !.defending = guard]
        BY <1>5 DEF AfterMove
    <2>2. guard \in [Seats -> BOOLEAN]
        BY DEF Duel
    <2>3. \A s \in Seats : d.hp[s] <= d.hp[s]
        BY DEF Duel
    <2> HIDE DEF guard
    <2> QED BY <2>1, <2>2, <2>3 DEF Duel
<1>6. CASE m.kind # "defend"
    <2> DEFINE hp == [d.hp EXCEPT ![Foe(seat)] = @ - Landed(d, seat, m)]
    <2>1. AfterMove(d, seat, m) =
              [d EXCEPT !.hp = hp, !.defending = [s \in Seats |-> FALSE]]
        BY <1>6 DEF AfterMove
    <2>2. hp \in [Seats -> Int] /\ \A s \in Seats : hp[s] <= d.hp[s]
        BY <1>1, <1>4 DEF Duel
    <2> HIDE DEF hp
    <2> QED BY <2>1, <2>2 DEF Duel
<1> QED BY <1>5, <1>6

\* Either way the verdict names two participants.
LEMMA VerdictIsPlayers ==
    ASSUME NEW d \in Duel
    PROVE  Winner(d) \in Players /\ Loser(d) \in Players
BY DEF Duel, Winner, Loser

\* Every seat of a fresh duel is taken by a player and stands.
LEMMA FreshDuel ==
    ASSUME NEW l \in Players, NEW r \in Players
    PROVE  /\ NewDuel(l, r) \in Duel
           /\ \A seat \in Seats : NewDuel(l, r).hp[seat] \in 1 .. StartHp
BY CombatAssumption DEF NewDuel, Duel, Seats

LEMMA SeatIsSeat ==
    ASSUME NEW d, NEW p PROVE SeatOf(d, p) \in Seats
BY DEF SeatOf, Seats

\* What an ongoing duel looks like after a move that was not its last.
LEMMA StandingAfterMove ==
    ASSUME NEW d \in Duel, NEW seat \in Seats, NEW m \in Moves,
           \A s \in Seats : d.hp[s] \in 1 .. StartHp,
           ~ Ended(AfterMove(d, seat, m))
    PROVE  \A s \in Seats : AfterMove(d, seat, m).hp[s] \in 1 .. StartHp
<1>1. AfterMove(d, seat, m) \in Duel
    BY MoveKeepsDuel
<1>2. \A s \in Seats : AfterMove(d, seat, m).hp[s] <= d.hp[s]
    BY MoveKeepsDuel
<1>3. \A s \in Seats : AfterMove(d, seat, m).hp[s] \in Int
    BY <1>1 DEF Duel
<1> QED BY <1>2, <1>3, CombatAssumption DEF Ended

\* The type of the fields is preserved by every call of the world service.
LEMMA TypeStep == DuelTypeOK /\ [DuelNext]_worldVars => DuelTypeOK'
<1> SUFFICES ASSUME DuelTypeOK, [DuelNext]_worldVars PROVE DuelTypeOK'
    OBVIOUS
<1>1. ASSUME NEW l \in Players, NEW r \in Players, StartDuel(l, r)
      PROVE  DuelTypeOK'
    <2>1. /\ issued' = issued + 1
          /\ DOMAIN duels' = DOMAIN duels \cup {issued + 1}
          /\ \A id \in DOMAIN duels' :
                duels'[id] = IF id = issued + 1 THEN NewDuel(l, r) ELSE duels[id]
        BY <1>1 DEF StartDuel
    <2>2. /\ issued' \in Nat
          /\ DOMAIN duels' \subseteq 1 .. issued'
        BY <2>1 DEF DuelTypeOK
    <2>3. duels' \in [DOMAIN duels' -> Duel]
        BY <1>1, <2>1, FreshDuel DEF DuelTypeOK, StartDuel
    <2> QED BY <1>1, <2>2, <2>3 DEF DuelTypeOK, StartDuel, profile
<1>2. ASSUME NEW id \in DOMAIN duels, NEW p \in Players, NEW m \in Moves,
             Exchange(id, p, m)
      PROVE  DuelTypeOK'
    <2>1. AfterMove(duels[id], SeatOf(duels[id], p), m) \in Duel
        BY SeatIsSeat, MoveKeepsDuel DEF DuelTypeOK
    <2> QED BY <1>2, <2>1 DEF DuelTypeOK, Exchange, profile
<1>3. ASSUME NEW id \in DOMAIN duels, NEW p \in Players, NEW m \in Moves,
             Kill(id, p, m)
      PROVE  DuelTypeOK'
    <2> DEFINE d == AfterMove(duels[id], SeatOf(duels[id], p), m)
    <2>1. d \in Duel
        BY SeatIsSeat, MoveKeepsDuel DEF DuelTypeOK
    <2>2. PICK w \in Players, l \in Players : Settle(id, w, l)
        BY <1>3, <2>1, VerdictIsPlayers DEF Kill
    <2>3. /\ DOMAIN duels' \subseteq 1 .. issued'
          /\ duels' \in [DOMAIN duels' -> Duel]
        BY <2>2 DEF DuelTypeOK, Settle
    <2>4. banned' \in [Players -> BOOLEAN]
        BY <2>2 DEF DuelTypeOK, Settle, Zeroes
    <2>5. /\ wallet' \in [Players -> Nat] /\ reputation' \in [Players -> Nat]
          /\ deaths' \in [Players -> Nat]
        BY <2>2 DEF DuelTypeOK, Settle
    <2> QED BY <2>2, <2>3, <2>4, <2>5 DEF DuelTypeOK, Settle
<1>4. ASSUME NEW p \in Players, NEW t \in ChoosableTiers, SetTier(p, t)
      PROVE  DuelTypeOK'
    BY <1>4, TiersAssumption DEF DuelTypeOK, SetTier, Tiers
<1>5. ASSUME NEW p \in Players, BanForever(p)
      PROVE  DuelTypeOK'
    BY <1>5 DEF DuelTypeOK, BanForever
<1>6. CASE UNCHANGED worldVars
    BY <1>6 DEF DuelTypeOK, worldVars
<1> QED BY <1>1, <1>2, <1>3, <1>4, <1>5, <1>6 DEF DuelNext

\* The profile fields and the table of duels keep their types for ever.
THEOREM TypeCorrect == DuelSpec => []DuelTypeOK
<1>1. DuelInit => DuelTypeOK
    BY DEF DuelInit, DuelTypeOK, Tiers
<1> QED BY <1>1, TypeStep, PTL DEF DuelSpec

\* With the types, "both sides stand" is inductive: the only step that lowers
\* integrity either keeps both above zero or takes the duel off the table.
LEMMA StandingStep == DuelTypeOK /\ BothStanding /\ [DuelNext]_worldVars => BothStanding'
<1> SUFFICES ASSUME DuelTypeOK, BothStanding, [DuelNext]_worldVars PROVE BothStanding'
    OBVIOUS
<1>1. ASSUME NEW l \in Players, NEW r \in Players, StartDuel(l, r)
      PROVE  BothStanding'
    <2>1. \A i \in DOMAIN duels' :
              duels'[i] = IF i = issued + 1 THEN NewDuel(l, r) ELSE duels[i]
        BY <1>1 DEF StartDuel
    <2>2. \A i \in DOMAIN duels' : i = issued + 1 \/ i \in DOMAIN duels
        BY <1>1 DEF StartDuel
    <2> QED BY <2>1, <2>2, FreshDuel DEF BothStanding
<1>2. ASSUME NEW id \in DOMAIN duels, NEW p \in Players, NEW m \in Moves,
             Exchange(id, p, m)
      PROVE  BothStanding'
    <2> DEFINE d == AfterMove(duels[id], SeatOf(duels[id], p), m)
    <2>1. duels[id] \in Duel /\ SeatOf(duels[id], p) \in Seats
        BY SeatIsSeat DEF DuelTypeOK
    <2>2. \A s \in Seats : d.hp[s] \in 1 .. StartHp
        BY <1>2, <2>1, StandingAfterMove DEF BothStanding, Exchange
    <2>3. duels' = [duels EXCEPT ![id] = d]
        BY <1>2 DEF Exchange
    <2> HIDE DEF d
    <2> QED BY <2>2, <2>3 DEF BothStanding, DuelTypeOK
<1>3. ASSUME NEW id \in DOMAIN duels, NEW p \in Players, NEW m \in Moves,
             Kill(id, p, m)
      PROVE  BothStanding'
    BY <1>3 DEF BothStanding, Kill, Settle
<1>4. ASSUME NEW p \in Players, NEW t \in ChoosableTiers, SetTier(p, t)
      PROVE  BothStanding'
    BY <1>4 DEF BothStanding, SetTier
<1>5. ASSUME NEW p \in Players, BanForever(p)
      PROVE  BothStanding'
    BY <1>5 DEF BothStanding, BanForever
<1>6. CASE UNCHANGED worldVars
    BY <1>6 DEF BothStanding, worldVars
<1> QED BY <1>1, <1>2, <1>3, <1>4, <1>5, <1>6 DEF DuelNext

\* No duel on the table has a side at or below zero, so no participant can
\* collect twice for the same fight.
THEOREM DuelsOnTableStand == DuelSpec => []BothStanding
<1>1. DuelInit => BothStanding
    BY DEF DuelInit, BothStanding
<1> QED BY <1>1, TypeCorrect, StandingStep, PTL DEF DuelSpec

-----------------------------------------------------------------------------
(* The books *)

LEMMA TotalIsSum ==
    ASSUME NEW f PROVE Total(f) = SumOver(f, Players)
BY DEF Total, SumOver

LEMMA TotalGains ==
    ASSUME NEW f \in [Players -> Nat], NEW p \in Players, NEW d \in Nat
    PROVE  /\ Total(f) \in Int
           /\ Total([f EXCEPT ![p] = @ + d]) = Total(f) + d
<1> DEFINE h == [f EXCEPT ![p] = @ + d]
<1>1. /\ f \in [Players -> Int] /\ h \in [Players -> Int]
      /\ h[p] = f[p] + d /\ \A q \in Players \ {p} : h[q] = f[q]
    OBVIOUS
<1> HIDE DEF h
<1>2. SumOver(h, Players) = SumOver(f, Players) + d
    BY <1>1, PlayersAssumption, SumChanges
<1>3. SumOver(f, Players) \in Int
    BY <1>1, PlayersAssumption, SumIsInt
<1> QED BY <1>2, <1>3, TotalIsSum DEF h

LEMMA TableIsFinite ==
    ASSUME DuelTypeOK
    PROVE  IsFiniteSet(DOMAIN duels) /\ Cardinality(DOMAIN duels) \in Nat /\ issued + 1 \notin DOMAIN duels
<1>1. IsFiniteSet(1 .. issued)
    <2>1. 1 \in Int /\ issued \in Int
        BY DEF DuelTypeOK
    <2> QED BY <2>1, FS_Interval
<1>2. DOMAIN duels \in SUBSET (1 .. issued) /\ issued \in Nat
    BY DEF DuelTypeOK
<1>3. IsFiniteSet(DOMAIN duels)
    BY <1>1, <1>2, FS_Subset
<1>4. issued + 1 \notin DOMAIN duels
    BY <1>2
<1> QED BY <1>3, <1>4, FS_CardinalityType

\* A settled duel moves from the table into the books: one death, 40 chips and
\* 3 points, whoever of the two wins, a player who duels itself included.
LEMMA SettledInBooks ==
    ASSUME DuelTypeOK, BooksBalance, NEW id \in DOMAIN duels,
           NEW w \in Players, NEW l \in Players, Settle(id, w, l)
    PROVE  BooksBalance'
<1>1. /\ Total(deaths') = Total(deaths) + 1 /\ Total(deaths) \in Int
      /\ Total(reputation') = Total(reputation) + 3 /\ Total(reputation) \in Int
      /\ Total(wallet') = Total(wallet) + 40 /\ Total(wallet) \in Int
    BY TotalGains DEF Settle, DuelTypeOK
<1>2. DOMAIN duels' = DOMAIN duels \ {id} /\ issued' = issued
    BY DEF Settle
<1>3. Cardinality(DOMAIN duels') = Cardinality(DOMAIN duels) - 1
    BY <1>2, TableIsFinite, FS_RemoveElement
<1>4. Cardinality(DOMAIN duels) \in Nat /\ Cardinality(Players) \in Nat
    BY TableIsFinite, PlayersAssumption, FS_CardinalityType
<1> QED BY <1>1, <1>2, <1>3, <1>4 DEF BooksBalance

LEMMA BooksStep == DuelTypeOK /\ BooksBalance /\ [DuelNext]_worldVars => BooksBalance'
<1> SUFFICES ASSUME DuelTypeOK, BooksBalance, [DuelNext]_worldVars PROVE BooksBalance'
    OBVIOUS
<1>1. ASSUME NEW l \in Players, NEW r \in Players, StartDuel(l, r)
      PROVE  BooksBalance'
    <2>1. DOMAIN duels' = DOMAIN duels \cup {issued + 1} /\ issued' = issued + 1
        BY <1>1 DEF StartDuel
    <2>2. Cardinality(DOMAIN duels') = Cardinality(DOMAIN duels) + 1
        BY <2>1, TableIsFinite, FS_AddElement
    <2>3. UNCHANGED <<deaths, reputation, wallet>>
        BY <1>1 DEF StartDuel, profile
    <2>4. Total(deaths) \in Int
        BY <1>1, TotalGains DEF DuelTypeOK
    <2>5. /\ Total(deaths') = Total(deaths) /\ Total(reputation') = Total(reputation)
          /\ Total(wallet') = Total(wallet)
        BY <2>3
    <2>6. Cardinality(DOMAIN duels) \in Nat /\ issued \in Nat
        BY TableIsFinite DEF DuelTypeOK
    <2> QED BY <2>1, <2>2, <2>4, <2>5, <2>6 DEF BooksBalance
<1>2. ASSUME NEW id \in DOMAIN duels, NEW p \in Players, NEW m \in Moves,
             Exchange(id, p, m)
      PROVE  BooksBalance'
    <2>1. DOMAIN duels' = DOMAIN duels
        BY <1>2 DEF Exchange
    <2> QED BY <1>2, <2>1 DEF BooksBalance, Exchange, profile
<1>3. ASSUME NEW id \in DOMAIN duels, NEW p \in Players, NEW m \in Moves,
             Kill(id, p, m)
      PROVE  BooksBalance'
    <2> DEFINE d == AfterMove(duels[id], SeatOf(duels[id], p), m)
    <2>1. d \in Duel
        BY SeatIsSeat, MoveKeepsDuel DEF DuelTypeOK
    <2>2. PICK w \in Players, l \in Players : Settle(id, w, l)
        BY <1>3, <2>1, VerdictIsPlayers DEF Kill
    <2> QED BY <2>2, SettledInBooks
<1>4. ASSUME NEW p \in Players, NEW t \in ChoosableTiers, SetTier(p, t)
      PROVE  BooksBalance'
    BY <1>4 DEF BooksBalance, SetTier
<1>5. ASSUME NEW p \in Players, BanForever(p)
      PROVE  BooksBalance'
    BY <1>5 DEF BooksBalance, BanForever
<1>6. CASE UNCHANGED worldVars
    BY <1>6 DEF BooksBalance, worldVars, profile
<1> QED BY <1>1, <1>2, <1>3, <1>4, <1>5, <1>6 DEF DuelNext

\* For any number of players and duels: each duel issued is on the table or was
\* settled exactly once, and what was won is what the deaths have paid.
THEOREM DuelBooksBalance == DuelSpec => []BooksBalance
<1>1. ASSUME DuelInit PROVE BooksBalance
    <2>1. /\ deaths = [p \in Players |-> 0] /\ reputation = [p \in Players |-> 0]
          /\ wallet = [p \in Players |-> 500] /\ issued = 0 /\ DOMAIN duels = {}
        BY <1>1 DEF DuelInit
    <2>2. Cardinality(Players) \in Nat
        BY PlayersAssumption, FS_CardinalityType
    <2>3. Total(deaths) = 0 * Cardinality(Players) /\ Total(reputation) = 0 * Cardinality(Players)
          /\ Total(wallet) = 500 * Cardinality(Players)
        BY <2>1, PlayersAssumption, SumOfEquals, TotalIsSum
    <2>4. Cardinality(DOMAIN duels) = 0
        BY <2>1, FS_EmptySet
    <2> QED BY <2>1, <2>2, <2>3, <2>4 DEF BooksBalance
<1> QED BY <1>1, TypeCorrect, BooksStep, PTL DEF DuelSpec

-----------------------------------------------------------------------------
(* The sessions *)


\* Every step of a session is one call of the world service, or none.
LEMMA StepIsCall == TypeOK /\ [Next]_vars => [DuelNext]_worldVars
<1> SUFFICES ASSUME TypeOK, [Next]_vars PROVE [DuelNext]_worldVars
    OBVIOUS
<1> USE DEF worldVars
<1>1. CASE UNCHANGED vars
    BY <1>1 DEF vars
<1>2. ASSUME NEW s \in Sessions, Handled(s)
      PROVE  owner[s] \in Players
    BY <1>2 DEF TypeOK, Handled
<1>3. ASSUME NEW s \in Sessions, NEW p \in Players, Connect(s, p)
      PROVE  UNCHANGED worldVars
    BY <1>3 DEF Connect
<1>4. ASSUME NEW s \in Sessions, Hangup(s) \/ Reopen(s) \/ Exit(s) \/ CheckBan(s) \/ NoEffect(s)
      PROVE  UNCHANGED worldVars
    BY <1>4 DEF Hangup, Reopen, Exit, CheckBan, NoEffect
<1>5. ASSUME NEW s \in Sessions, NEW target \in Players, Challenge(s, target)
      PROVE  DuelNext
    BY <1>2, <1>5 DEF Challenge, DuelNext
<1>6. ASSUME NEW s \in Sessions, NEW m \in Moves, SwingOn(s, m)
      PROVE  DuelNext
    <2>1. current[s] \in DOMAIN duels
        BY <1>6 DEF SwingOn, Exchange, Participates
    <2> QED BY <1>2, <1>6, <2>1 DEF SwingOn, DuelNext
<1>7. ASSUME NEW s \in Sessions, NEW m \in Moves, SwingLast(s, m)
      PROVE  DuelNext
    <2>1. current[s] \in DOMAIN duels
        BY <1>7 DEF SwingLast, Kill, Participates
    <2> QED BY <1>2, <1>7, <2>1 DEF SwingLast, DuelNext
<1>8. ASSUME NEW s \in Sessions, NEW t \in ChoosableTiers, ChooseTier(s, t)
      PROVE  DuelNext
    BY <1>2, <1>8 DEF ChooseTier, DuelNext
<1>9. ASSUME NEW s \in Sessions, NEW st \in Stances, ChooseStance(s, st)
      PROVE  UNCHANGED worldVars
    BY <1>9 DEF ChooseStance
<1>10. ASSUME NEW s \in Sessions, Intrude(s)
      PROVE  DuelNext
    BY <1>10 DEF Intrude, DuelNext, TypeOK
<1> QED BY <1>1, <1>3, <1>4, <1>5, <1>6, <1>7, <1>8, <1>9, <1>10 DEF Next

\* The sessions' own fields keep their types in every step.
LEMMA SessionTypeStep == TypeOK /\ [Next]_vars => TypeOK'
<1> SUFFICES ASSUME TypeOK, [Next]_vars PROVE TypeOK'
    OBVIOUS
<1>1. DuelTypeOK'
    BY StepIsCall, TypeStep DEF TypeOK
<1> DEFINE Own == /\ stance \in [Players -> Stances]
                  /\ phase \in [Sessions -> Phases]
                  /\ owner \in [Sessions -> Players \cup {None}]
                  /\ current \in [Sessions -> Nat \cup {None}]
                  /\ \A s \in Sessions : owner[s] = None <=> phase[s] = "gone"
<1>2. ASSUME NEW s \in Sessions, NEW p \in Players, Connect(s, p)
      PROVE  Own'
    BY <1>2, NoneAssumption DEF TypeOK, Connect, Phases
<1>3. ASSUME NEW s \in Sessions, Hangup(s) \/ Reopen(s) \/ Exit(s) \/ CheckBan(s) \/ NoEffect(s)
      PROVE  Own'
    BY <1>3 DEF TypeOK, Hangup, Reopen, Exit, CheckBan, NoEffect, Handled, Phases
<1>4. ASSUME NEW s \in Sessions, NEW target \in Players, Challenge(s, target)
      PROVE  Own'
    <2>1. issued' \in Nat
        BY <1>4 DEF Challenge, StartDuel, TypeOK, DuelTypeOK
    <2> QED BY <1>4, <2>1 DEF TypeOK, Challenge, Handled, Phases
<1>5. ASSUME NEW s \in Sessions, NEW m \in Moves, SwingOn(s, m) \/ SwingLast(s, m)
      PROVE  Own'
    BY <1>5 DEF TypeOK, SwingOn, SwingLast, Handled, Phases
<1>6. ASSUME NEW s \in Sessions, NEW t \in ChoosableTiers, ChooseTier(s, t)
      PROVE  Own'
    BY <1>6 DEF TypeOK, ChooseTier, Handled, Phases
<1>7. ASSUME NEW s \in Sessions, NEW st \in Stances, ChooseStance(s, st)
      PROVE  Own'
    BY <1>7 DEF TypeOK, ChooseStance, Handled, Phases
<1>8. ASSUME NEW s \in Sessions, Intrude(s)
      PROVE  Own'
    BY <1>8 DEF TypeOK, Intrude, Phases
<1>9. ASSUME UNCHANGED vars
      PROVE  Own'
    BY <1>9 DEF TypeOK, vars
<1>10. Own'
    <2> HIDE DEF Own
    <2> QED BY <1>2, <1>3, <1>4, <1>5, <1>6, <1>7, <1>8, <1>9 DEF Next
<1> QED BY <1>1, <1>10 DEF TypeOK

\* A move changes neither the players of a duel ...
LEMMA MoveKeepsPlayers ==
    ASSUME NEW d \in Duel, NEW seat \in Seats, NEW m \in Moves
    PROVE  AfterMove(d, seat, m).left = d.left
BY DEF AfterMove, Duel

\* ... nor, made from the left, the integrity of the left or the guard of the
\* right side.
LEMMA LeftMoveSparesLeft ==
    ASSUME NEW d \in Duel, NEW m \in Moves
    PROVE  /\ AfterMove(d, "left", m).hp["left"] = d.hp["left"]
           /\ ~ d.defending["right"] => ~ AfterMove(d, "left", m).defending["right"]
<1>1. Foe("left") = "right"
    BY DEF Foe
<1>2. CASE m.kind = "defend"
    BY <1>2 DEF AfterMove, Duel, Seats
<1>3. CASE m.kind # "defend"
    BY <1>1, <1>3 DEF AfterMove, Duel, Seats
<1> QED BY <1>2, <1>3

\* The duels of the world service are what the sessions implement, for every
\* number of connections: initial states are initial states, and each step is
\* one call or none.
THEOREM SessionsImplementDuels == Spec => ImplementsDuels
<1>1. Init => DuelInit
    BY DEF Init
<1>2. Init => TypeOK
    BY DEF Init, TypeOK, DuelInit, DuelTypeOK, Tiers, Stances, Phases
<1>3. TypeOK /\ [Next]_vars => TypeOK'
    BY SessionTypeStep
<1> QED BY <1>1, <1>2, <1>3, StepIsCall, PTL DEF Spec, DuelSpec, ImplementsDuels

\* The sessions' fields and the world's keep their types.
THEOREM SessionTypes == Spec => []TypeOK
<1>1. Init => TypeOK
    BY DEF Init, TypeOK, DuelInit, DuelTypeOK, Tiers, Stances, Phases
<1> QED BY <1>1, SessionTypeStep, PTL DEF Spec

\* A held duel is a live one.  It is inductive with the types: a challenge
\* takes a fresh id, a duel is removed only by the session that holds it, and
\* that session forgets it in the same step.
LEMMA HeldStep == TypeOK /\ HeldDuelIsLive /\ [Next]_vars => HeldDuelIsLive'
<1> SUFFICES ASSUME TypeOK, HeldDuelIsLive, [Next]_vars PROVE HeldDuelIsLive'
    OBVIOUS
<1>1. ASSUME NEW s \in Sessions, NEW p \in Players, Connect(s, p)
      PROVE  HeldDuelIsLive'
    <2>1. current[s] = None
        <3> SUFFICES ASSUME current[s] # None PROVE FALSE
            OBVIOUS
        <3>1. owner[s] = None
            BY <1>1 DEF Connect, TypeOK
        <3>2. duels[current[s]].left \in Players
            BY DEF HeldDuelIsLive, TypeOK, DuelTypeOK, Duel
        <3> QED BY <3>1, <3>2, NoneAssumption DEF HeldDuelIsLive
    <2> QED BY <1>1, <2>1 DEF Connect, HeldDuelIsLive, TypeOK, worldVars
<1>2. ASSUME NEW s \in Sessions, Hangup(s)
      PROVE  HeldDuelIsLive'
    BY <1>2 DEF Hangup, HeldDuelIsLive, TypeOK, worldVars
<1>3. ASSUME NEW s \in Sessions, Reopen(s) \/ Exit(s) \/ CheckBan(s) \/ NoEffect(s)
      PROVE  HeldDuelIsLive'
    BY <1>3 DEF Reopen, Exit, CheckBan, NoEffect, Handled, HeldDuelIsLive, worldVars
<1>4. ASSUME NEW s \in Sessions, NEW target \in Players, Challenge(s, target)
      PROVE  HeldDuelIsLive'
    <2>1. /\ issued + 1 \notin DOMAIN duels /\ issued + 1 # None
          /\ DOMAIN duels' = DOMAIN duels \cup {issued + 1}
          /\ \A id \in DOMAIN duels : duels'[id] = duels[id]
          /\ duels'[issued + 1].left = owner[s]
        BY <1>4, NoneAssumption DEF Challenge, StartDuel, TypeOK, DuelTypeOK, NewDuel
    <2>2. /\ current' = [current EXCEPT ![s] = issued + 1]
          /\ owner' = owner
        BY <1>4 DEF Challenge, StartDuel, Handled
    <2> QED BY <2>1, <2>2 DEF HeldDuelIsLive, TypeOK
<1>5. ASSUME NEW s \in Sessions, NEW m \in Moves, SwingOn(s, m)
      PROVE  HeldDuelIsLive'
    <2>1. PICK d \in Duel : /\ duels' = [duels EXCEPT ![current[s]] = d]
                            /\ d.left = duels[current[s]].left
        <3> DEFINE seat == SeatOf(duels[current[s]], owner[s])
        <3>1. duels[current[s]] \in Duel /\ seat \in Seats
            BY <1>5, SeatIsSeat DEF SwingOn, Exchange, Participates, TypeOK, DuelTypeOK
        <3>2. AfterMove(duels[current[s]], seat, m).left = duels[current[s]].left
            BY <3>1, MoveKeepsPlayers
        <3> QED BY <1>5, <3>1, <3>2, MoveKeepsDuel DEF SwingOn, Exchange
    <2>2. current' = current /\ owner' = owner
        BY <1>5 DEF SwingOn, Handled
    <2> QED BY <2>1, <2>2 DEF HeldDuelIsLive, TypeOK, DuelTypeOK
<1>6. ASSUME NEW s \in Sessions, NEW m \in Moves, SwingLast(s, m)
      PROVE  HeldDuelIsLive'
    <2>1. /\ duels' = [id \in DOMAIN duels \ {current[s]} |-> duels[id]]
          /\ current' = [current EXCEPT ![s] = None]
          /\ owner' = owner
        BY <1>6 DEF SwingLast, Kill, Settle, Handled
    <2> QED BY <2>1 DEF HeldDuelIsLive, TypeOK
<1>7. ASSUME NEW s \in Sessions, NEW t \in ChoosableTiers, ChooseTier(s, t)
      PROVE  HeldDuelIsLive'
    BY <1>7 DEF ChooseTier, SetTier, Handled, HeldDuelIsLive
<1>8. ASSUME NEW s \in Sessions, NEW st \in Stances, ChooseStance(s, st)
      PROVE  HeldDuelIsLive'
    BY <1>8 DEF ChooseStance, Handled, HeldDuelIsLive, worldVars
<1>9. ASSUME NEW s \in Sessions, Intrude(s)
      PROVE  HeldDuelIsLive'
    BY <1>9 DEF Intrude, BanForever, HeldDuelIsLive
<1>10. CASE UNCHANGED vars
    BY <1>10 DEF vars, worldVars, HeldDuelIsLive
<1> QED BY <1>1, <1>2, <1>3, <1>4, <1>5, <1>6, <1>7, <1>8, <1>9, <1>10 DEF Next

\* No session is ever told "duel not found" for the duel it remembers, and no
\* two sessions fight the same duel.
THEOREM HeldDuelsAreLive == Spec => []HeldDuelIsLive
<1>1. Init => HeldDuelIsLive
    BY DEF Init, HeldDuelIsLive
<1> QED BY <1>1, SessionTypes, HeldStep, PTL DEF Spec

\* The step that lets only challengers swing: the seat of a held duel's own
\* player is the left one, and a blow from there spares the left side.
LEMMA UntouchedStep ==
    TypeOK /\ HeldDuelIsLive /\ ChallengerUntouched /\ [Next]_vars => ChallengerUntouched'
<1> SUFFICES ASSUME TypeOK, HeldDuelIsLive, ChallengerUntouched, [Next]_vars
             PROVE  ChallengerUntouched'
    OBVIOUS
<1>1. CASE UNCHANGED duels
    BY <1>1 DEF ChallengerUntouched
<1>2. ASSUME NEW s \in Sessions, NEW target \in Players, Challenge(s, target)
      PROVE  ChallengerUntouched'
    <2>1. \A i \in DOMAIN duels' :
              duels'[i] = IF i = issued + 1 THEN NewDuel(owner[s], target) ELSE duels[i]
        BY <1>2 DEF Challenge, StartDuel
    <2>2. \A i \in DOMAIN duels' : i = issued + 1 \/ i \in DOMAIN duels
        BY <1>2 DEF Challenge, StartDuel
    <2>3. /\ NewDuel(owner[s], target).hp["left"] = StartHp
          /\ ~ NewDuel(owner[s], target).defending["right"]
        BY DEF NewDuel, Seats
    <2> QED BY <2>1, <2>2, <2>3 DEF ChallengerUntouched
<1>3. ASSUME NEW s \in Sessions, NEW m \in Moves, SwingOn(s, m)
      PROVE  ChallengerUntouched'
    <2> DEFINE d == duels[current[s]]
               e == AfterMove(d, "left", m)
    <2>1. d \in Duel /\ SeatOf(d, owner[s]) = "left"
        BY <1>3 DEF SwingOn, Exchange, Participates, HeldDuelIsLive, SeatOf,
                    TypeOK, DuelTypeOK
    <2>2. e.hp["left"] = d.hp["left"] /\ (~ d.defending["right"] => ~ e.defending["right"])
        BY <2>1, LeftMoveSparesLeft
    <2>3. duels' = [duels EXCEPT ![current[s]] = e] /\ current[s] \in DOMAIN duels
        BY <1>3, <2>1 DEF SwingOn, Exchange, Participates
    <2> HIDE DEF e
    <2> QED BY <2>2, <2>3 DEF ChallengerUntouched, TypeOK, DuelTypeOK
<1>4. ASSUME NEW s \in Sessions, NEW m \in Moves, SwingLast(s, m)
      PROVE  ChallengerUntouched'
    BY <1>4 DEF SwingLast, Kill, Settle, ChallengerUntouched
<1>5. ASSUME NEW s \in Sessions, NEW p \in Players, Connect(s, p)
      PROVE  UNCHANGED duels
    BY <1>5 DEF Connect, worldVars
<1>6. ASSUME NEW s \in Sessions,
             Hangup(s) \/ Reopen(s) \/ Exit(s) \/ CheckBan(s) \/ NoEffect(s) \/ Intrude(s)
      PROVE  UNCHANGED duels
    BY <1>6 DEF Hangup, Reopen, Exit, CheckBan, NoEffect, Intrude, BanForever, worldVars
<1>7. ASSUME NEW s \in Sessions, NEW t \in ChoosableTiers, ChooseTier(s, t)
      PROVE  UNCHANGED duels
    BY <1>7 DEF ChooseTier, SetTier
<1>8. ASSUME NEW s \in Sessions, NEW st \in Stances, ChooseStance(s, st)
      PROVE  UNCHANGED duels
    BY <1>8 DEF ChooseStance, worldVars
<1>9. CASE UNCHANGED vars
    BY <1>1, <1>9 DEF vars, worldVars
<1> QED BY <1>1, <1>2, <1>3, <1>4, <1>5, <1>6, <1>7, <1>8, <1>9 DEF Next

\* Whatever players do through their sessions, a challenged player can neither
\* hurt the challenger nor raise a guard.
THEOREM ChallengersAreUntouched == Spec => []ChallengerUntouched
<1>1. Init => ChallengerUntouched
    BY DEF Init, DuelInit, ChallengerUntouched
<1> QED BY <1>1, SessionTypes, HeldDuelsAreLive, UntouchedStep, PTL DEF Spec

\* The books of the duels (BooksBalance) balance with the sessions of the server
\* in front: what holds of the world's duels under any callers holds here.
THEOREM SessionBooksBalance == Spec => []BooksBalance
BY SessionsImplementDuels, DuelBooksBalance, PTL DEF ImplementsDuels

\* Likewise both sides of every duel on the table stand, whatever the sessions
\* do (start_duel, duel_action).
THEOREM SessionDuelsStand == Spec => []BothStanding
BY SessionsImplementDuels, DuelsOnTableStand, PTL DEF ImplementsDuels

Frozen(id) == id \in DOMAIN duels' /\ duels'[id] = duels[id]

\* Only the session that holds a duel's id moves it, and a new duel gets an id
\* that no old one has.
LEMMA FreezeStep ==
    ASSUME TypeOK, [Next]_vars, NEW id \in DOMAIN duels,
           \A s \in Sessions : current[s] # id
    PROVE  Frozen(id)
<1>1. CASE UNCHANGED duels
    BY <1>1 DEF Frozen
<1>2. ASSUME NEW s \in Sessions, NEW target \in Players, Challenge(s, target)
      PROVE  Frozen(id)
    <2>1. id # issued + 1
        BY TableIsFinite DEF TypeOK
    <2> QED BY <1>2, <2>1 DEF Challenge, StartDuel, Frozen
<1>3. ASSUME NEW s \in Sessions, NEW m \in Moves, SwingOn(s, m)
      PROVE  Frozen(id)
    BY <1>3 DEF SwingOn, Exchange, Participates, TypeOK, DuelTypeOK, Frozen
<1>4. ASSUME NEW s \in Sessions, NEW m \in Moves, SwingLast(s, m)
      PROVE  Frozen(id)
    BY <1>4 DEF SwingLast, Kill, Settle, Frozen
<1>5. ASSUME NEW s \in Sessions, NEW p \in Players, Connect(s, p)
      PROVE  UNCHANGED duels
    BY <1>5 DEF Connect, worldVars
<1>6. ASSUME NEW s \in Sessions,
             Hangup(s) \/ Reopen(s) \/ Exit(s) \/ CheckBan(s) \/ NoEffect(s) \/ Intrude(s)
      PROVE  UNCHANGED duels
    BY <1>6 DEF Hangup, Reopen, Exit, CheckBan, NoEffect, Intrude, BanForever, worldVars
<1>7. ASSUME NEW s \in Sessions, NEW t \in ChoosableTiers, ChooseTier(s, t)
      PROVE  UNCHANGED duels
    BY <1>7 DEF ChooseTier, SetTier
<1>8. ASSUME NEW s \in Sessions, NEW st \in Stances, ChooseStance(s, st)
      PROVE  UNCHANGED duels
    BY <1>8 DEF ChooseStance, worldVars
<1>9. CASE UNCHANGED vars
    BY <1>1, <1>9 DEF vars, worldVars
<1> QED BY <1>1, <1>2, <1>3, <1>4, <1>5, <1>6, <1>7, <1>8, <1>9 DEF Next

\* A duel that no session remembers stays on the table as it is, for ever.
THEOREM AbandonedStayFrozen == Spec => AbandonedDuelsFreeze
<1>1. TypeOK /\ [Next]_vars =>
          [\A id \in DOMAIN duels :
              (\A s \in Sessions : current[s] # id) =>
                  id \in DOMAIN duels' /\ duels'[id] = duels[id]]_vars
    BY FreezeStep DEF Frozen
<1> QED BY <1>1, SessionTypes, PTL DEF Spec, AbandonedDuelsFreeze

\* What BanTakesHold asks of one step and one zeroed player.
HoldsOff(p) ==
    /\ UnderWay(p)' \subseteq UnderWay(p)
    /\ \A id \in DOMAIN duels' \ DOMAIN duels : p \notin {duels'[id].left, duels'[id].right}
    /\ \A id \in DOMAIN duels :
          duels[id].left = p /\ ~ Frozen(id) => UnderWay(p)' # UnderWay(p)

\* The step of a ban's hold.  Only the ban check lets a line pass, and it stops
\* those of the zeroed; a duel that moves is held by the session whose line moves
\* it, which is its challenger's (HeldDuelIsLive), and that line is then done.
LEMMA BanStep ==
    ASSUME TypeOK, HeldDuelIsLive, [Next]_vars, NEW p \in Players, banned[p]
    PROVE  HoldsOff(p)
<1>1. ASSUME UNCHANGED duels, UnderWay(p)' \subseteq UnderWay(p)
      PROVE  HoldsOff(p)
    BY <1>1 DEF HoldsOff, Frozen
<1>2. ASSUME NEW s \in Sessions, NEW q \in Players, Connect(s, q)
      PROVE  HoldsOff(p)
    BY <1>1, <1>2 DEF Connect, worldVars, UnderWay, TypeOK
<1>3. ASSUME NEW s \in Sessions, Hangup(s) \/ Reopen(s) \/ Exit(s) \/ NoEffect(s) \/ Intrude(s)
      PROVE  HoldsOff(p)
    BY <1>1, <1>3 DEF Hangup, Reopen, Exit, NoEffect, Intrude, BanForever, Handled,
                      worldVars, UnderWay, TypeOK
<1>4. ASSUME NEW s \in Sessions, CheckBan(s)
      PROVE  HoldsOff(p)
    BY <1>1, <1>4 DEF CheckBan, worldVars, UnderWay, TypeOK
<1>5. ASSUME NEW s \in Sessions, NEW target \in Players, Challenge(s, target)
      PROVE  HoldsOff(p)
    <2>1. p # owner[s] /\ p # target
        BY <1>5 DEF Challenge, StartDuel, MayStart
    <2>2. \A id \in DOMAIN duels' \ DOMAIN duels : duels'[id] = NewDuel(owner[s], target)
        BY <1>5 DEF Challenge, StartDuel
    <2>3. \A id \in DOMAIN duels : Frozen(id)
        BY <1>5 DEF Challenge, StartDuel, TypeOK, DuelTypeOK, Frozen
    <2>4. UnderWay(p)' \subseteq UnderWay(p)
        BY <1>5 DEF Challenge, Handled, UnderWay, TypeOK
    <2> QED BY <2>1, <2>2, <2>3, <2>4 DEF HoldsOff, NewDuel
<1>6. ASSUME NEW s \in Sessions, NEW m \in Moves, SwingOn(s, m) \/ SwingLast(s, m)
      PROVE  HoldsOff(p)
    <2>1. /\ DOMAIN duels' \subseteq DOMAIN duels
          /\ \A id \in DOMAIN duels : id # current[s] => Frozen(id)
        BY <1>6 DEF SwingOn, SwingLast, Exchange, Kill, Settle, Frozen, TypeOK, DuelTypeOK
    <2>2. /\ phase[s] = "cleared"
          /\ phase' = [phase EXCEPT ![s] = "open"]
          /\ owner' = owner
        BY <1>6 DEF SwingOn, SwingLast, Handled
    <2>3. UnderWay(p)' = UnderWay(p) \ {s}
        BY <2>2 DEF UnderWay, TypeOK
    <2>4. ASSUME NEW id \in DOMAIN duels, duels[id].left = p, ~ Frozen(id)
          PROVE  s \in UnderWay(p)
        <3>1. id = current[s] /\ current[s] # None
            BY <1>6, <2>1, <2>4 DEF SwingOn, SwingLast
        <3>2. owner[s] = p
            BY <2>4, <3>1 DEF HeldDuelIsLive
        <3> QED BY <2>2, <3>2 DEF UnderWay
    <2> QED BY <2>1, <2>3, <2>4 DEF HoldsOff
<1>7. ASSUME NEW s \in Sessions, NEW t \in ChoosableTiers, ChooseTier(s, t)
      PROVE  HoldsOff(p)
    BY <1>1, <1>7 DEF ChooseTier, SetTier, Handled, UnderWay, TypeOK
<1>8. ASSUME NEW s \in Sessions, NEW st \in Stances, ChooseStance(s, st)
      PROVE  HoldsOff(p)
    BY <1>1, <1>8 DEF ChooseStance, Handled, worldVars, UnderWay, TypeOK
<1>9. CASE UNCHANGED vars
    BY <1>1, <1>9 DEF vars, worldVars, UnderWay
<1> QED BY <1>2, <1>3, <1>4, <1>5, <1>6, <1>7, <1>8, <1>9 DEF Next

\* A zeroed player starts and enters no more duels, and moves the old ones only
\* with lines that had passed the ban check when the ban fell (run_line).
THEOREM BansTakeHold == Spec => BanTakesHold
<1> DEFINE Off == \A p \in Players : banned[p] => HoldsOff(p)
<1>1. TypeOK /\ HeldDuelIsLive /\ [Next]_vars => [Off]_vars
    BY BanStep
<1>2. Spec => [][Off]_vars
    <2> HIDE DEF Off
    <2> QED BY <1>1, SessionTypes, HeldDuelsAreLive, PTL DEF Spec
<1> QED BY <1>2 DEF BanTakesHold, HoldsOff, Frozen
=============================================================================
