--------------------------- MODULE Rewards_proofs ---------------------------
(***************************************************************************)
(* For any number of players, sessions and days, and in whatever order the *)
(* calls are served: a streak stands for days that were claimed, and no    *)
(* day is paid twice.                                                      *)
(***************************************************************************)
EXTENDS Rewards, TLAPS

\* The share of a score that is left after n bonuses is never negative.
LEMMA DiminishedIsNat ==
    ASSUME NEW score \in Nat, NEW n \in 0 .. 4
    PROVE  Diminished(score, n) \in Nat
<1>1. CASE n = 0
    BY <1>1 DEF Diminished
<1>2. CASE n = 1
    BY <1>2 DEF Diminished
<1>3. CASE n = 2
    BY <1>3 DEF Diminished
<1>4. CASE n = 3
    BY <1>4 DEF Diminished
<1>5. CASE n = 4
    BY <1>5 DEF Diminished
<1> QED BY <1>1, <1>2, <1>3, <1>4, <1>5

\* The streak after a claim is between one and the cap.
LEMMA NextStreakRange ==
    ASSUME TypeOK, NEW p \in Players, NEW d \in Nat,
           streakDay[p] = d => streak[p] >= 1
    PROVE  NextStreak(p, d) \in 1 .. MaxStreak
BY CapsAssumption DEF TypeOK, NextStreak, AtMost

\* What a session waits with names a player and a date.
LEMMA CallFields ==
    ASSUME TypeOK, NEW s \in Sessions, asked[s] # None
    PROVE  /\ asked[s].who \in Players /\ asked[s].date \in Nat
           /\ asked[s].what = "style" => asked[s].chain \in Chains
<1>1. asked[s] \in Calls
    BY DEF TypeOK
<1>2. CASE asked[s] \in [what: {"daily"}, who: Players, date: Nat]
    BY <1>2
<1>3. CASE asked[s] \in [what: {"style"}, who: Players, date: Nat, chain: Chains]
    BY <1>3
<1> QED BY <1>1, <1>2, <1>3 DEF Calls

LEMMA ScoreIsNat == ASSUME NEW c \in Chains PROVE Score(c) \in Nat
BY ChainsAssumption DEF Score, AtMost

Inv == TypeOK /\ StreakIsEarned

\* A call that is being served takes its session off the queue.
LEMMA ServedType ==
    ASSUME TypeOK, NEW s \in Sessions, NEW what, Served(s, what)
    PROVE  asked' \in [Sessions -> Calls \cup {None}] /\ today' \in Nat
BY DEF TypeOK, Served

LEMMA DailyTyped ==
    ASSUME Inv, NEW s \in Sessions, Daily(s)
    PROVE  TypeOK'
<1> DEFINE p == asked[s].who
           d == asked[s].date
<1>1. p \in Players /\ d \in Nat
    BY CallFields DEF Daily, Served, Inv
<1>2. streakDay[p] = d => streak[p] >= 1
    BY <1>1, NoneAssumption DEF Inv, StreakIsEarned
<1>3. NextStreak(p, d) \in 1 .. MaxStreak
    BY <1>1, <1>2, NextStreakRange DEF Inv
<1>4. DailyReward(NextStreak(p, d)) \in Nat
    BY <1>3 DEF DailyReward, AtMost
<1> HIDE DEF p, d
<1>5. /\ claimed' = claimed \cup {<<p, d>>}
      /\ streak' = [streak EXCEPT ![p] = NextStreak(p, d)]
      /\ streakDay' = [streakDay EXCEPT ![p] = d]
      /\ wallet' = [wallet EXCEPT ![p] = @ + DailyReward(NextStreak(p, d))]
      /\ dailyLate' = dailyLate \cup {q \in {p} : Precedes(d, streakDay[p])}
    BY DEF Daily, p, d
<1>6. /\ wallet' \in [Players -> Nat] /\ dailyLate' \subseteq Players
      /\ streak' \in [Players -> 0 .. MaxStreak]
      /\ streakDay' \in [Players -> Nat \cup {None}]
      /\ claimed' \subseteq Players \X Nat
    BY <1>1, <1>3, <1>4, <1>5, CapsAssumption DEF Inv, TypeOK
<1>7. asked' \in [Sessions -> Calls \cup {None}] /\ today' \in Nat
    BY ServedType DEF Daily, Inv
<1> QED BY <1>6, <1>7 DEF Daily, TypeOK, Inv, style

LEMMA StyleTyped ==
    ASSUME Inv, NEW s \in Sessions, Style(s)
    PROVE  TypeOK'
<1> DEFINE p == asked[s].who
           d == asked[s].date
           c == asked[s].chain
           n == ClaimsOn(p, d)
<1>1. p \in Players /\ d \in Nat /\ c \in Chains
    BY CallFields DEF Style, Served, Inv
<1>2. n \in 0 .. 4 /\ n < StyleCap
    BY <1>1, CapsAssumption DEF Style, CapReached, ClaimsOn, Inv, TypeOK
<1>3. Diminished(Score(c), n) \in Nat
    BY <1>1, <1>2, ScoreIsNat, DiminishedIsNat
<1> HIDE DEF p, d, c, n
<1>4. /\ styleDay' = [styleDay EXCEPT ![p] = d]
      /\ styleClaims' = [styleClaims EXCEPT ![p] = n + 1]
      /\ wallet' = [wallet EXCEPT ![p] = @ + Diminished(Score(c), n)]
      /\ styleLate' = styleLate \cup {q \in {p} : Precedes(d, styleDay[p])}
    BY DEF Style, p, d, c, n
<1>5. /\ styleDay' \in [Players -> Nat \cup {None}]
      /\ styleClaims' \in [Players -> 0 .. StyleCap]
      /\ styleLate' \subseteq Players
      /\ wallet' \in [Players -> Nat]
    BY <1>1, <1>2, <1>3, <1>4, CapsAssumption DEF Inv, TypeOK
<1>6. asked' \in [Sessions -> Calls \cup {None}] /\ today' \in Nat
    BY ServedType DEF Style, Inv
<1> QED BY <1>5, <1>6 DEF Style, TypeOK, Inv, daily

\* The heart of it: a claim for the day after streak_day adds one day to a row
\* that is already claimed; any other claim starts a row of its own.
LEMMA DailyEarned ==
    ASSUME Inv, NEW s \in Sessions, Daily(s)
    PROVE  StreakIsEarned'
<1> DEFINE p == asked[s].who
           d == asked[s].date
<1>1. p \in Players /\ d \in Nat
    BY CallFields DEF Daily, Served, Inv
<1>2. streakDay[p] = d => streak[p] >= 1
    BY <1>1, NoneAssumption DEF Inv, StreakIsEarned
<1>3. NextStreak(p, d) \in 1 .. MaxStreak
    BY <1>1, <1>2, NextStreakRange DEF Inv
<1>4. <<p, d>> \notin claimed
    BY DEF Daily, AlreadyClaimed
<1>5. \A i \in 0 .. NextStreak(p, d) - 1 : <<p, d - i>> \in claimed \cup {<<p, d>>}
    <2> SUFFICES ASSUME NEW i \in 0 .. NextStreak(p, d) - 1
                 PROVE  <<p, d - i>> \in claimed \cup {<<p, d>>}
        OBVIOUS
    <2>1. CASE i = 0
        BY <1>1, <2>1
    <2>2. CASE i # 0 /\ streakDay[p] # None /\ streakDay[p] + 1 = d
        <3>1. i - 1 \in 0 .. streak[p] - 1
            BY <1>1, <1>3, <2>2 DEF NextStreak, AtMost, Inv, TypeOK
        <3>2. <<p, streakDay[p] - (i - 1)>> \in claimed
            BY <1>1, <2>2, <3>1 DEF Inv, StreakIsEarned
        <3>3. streakDay[p] \in Nat
            BY <1>1, <2>2 DEF Inv, TypeOK
        <3>4. streakDay[p] - (i - 1) = d - i
            BY <1>1, <2>2, <3>3
        <3> QED BY <3>2, <3>4
    <2>3. CASE i # 0 /\ ~ (streakDay[p] # None /\ streakDay[p] + 1 = d)
        <3>1. streakDay[p] # d
            <4> SUFFICES ASSUME streakDay[p] = d PROVE FALSE
                OBVIOUS
            <4>1. 0 \in 0 .. streak[p] - 1
                BY <1>1, <1>2 DEF Inv, TypeOK
            <4>2. <<p, streakDay[p] - 0>> \in claimed
                BY <1>1, <4>1, NoneAssumption DEF Inv, StreakIsEarned
            <4> QED BY <1>1, <1>4, <4>2
        <3>2. NextStreak(p, d) = 1
            BY <2>3, <3>1 DEF NextStreak
        <3> QED BY <2>3, <3>2
    <2> QED BY <2>1, <2>2, <2>3
<1> HIDE DEF p, d
<1>6. /\ claimed' = claimed \cup {<<p, d>>}
      /\ streak' = [streak EXCEPT ![p] = NextStreak(p, d)]
      /\ streakDay' = [streakDay EXCEPT ![p] = d]
    BY DEF Daily, p, d
<1>7. /\ streakDay'[p] = d /\ d # None /\ streak'[p] = NextStreak(p, d)
      /\ \A q \in Players \ {p} : streakDay'[q] = streakDay[q] /\ streak'[q] = streak[q]
    BY <1>1, <1>6, NoneAssumption DEF Inv, TypeOK
<1> QED BY <1>3, <1>5, <1>6, <1>7 DEF Inv, StreakIsEarned

\* Both together are inductive.
LEMMA InvStep == Inv /\ [Next]_vars => Inv'
<1> SUFFICES ASSUME Inv, [Next]_vars PROVE Inv'
    OBVIOUS
<1>1. CASE Midnight
    BY <1>1 DEF Midnight, Inv, TypeOK, StreakIsEarned, style, daily
<1>2. ASSUME NEW s \in Sessions, NEW p \in Players, AskDaily(s, p)
      PROVE  Inv'
    <2>1. asked' \in [Sessions -> Calls \cup {None}]
        BY <1>2 DEF AskDaily, Inv, TypeOK, Calls
    <2> QED BY <1>2, <2>1 DEF AskDaily, Inv, TypeOK, StreakIsEarned, style, daily
<1>3. ASSUME NEW s \in Sessions, NEW p \in Players, NEW c \in Chains, AskStyle(s, p, c)
      PROVE  Inv'
    <2>1. asked' \in [Sessions -> Calls \cup {None}]
        BY <1>3 DEF AskStyle, Inv, TypeOK, Calls
    <2> QED BY <1>3, <2>1 DEF AskStyle, Inv, TypeOK, StreakIsEarned, style, daily
<1>4. ASSUME NEW s \in Sessions, DailyAgain(s) \/ StyleCapped(s)
      PROVE  Inv'
    <2>1. asked' \in [Sessions -> Calls \cup {None}] /\ today' \in Nat
        BY <1>4, ServedType DEF DailyAgain, StyleCapped, Inv
    <2> QED BY <1>4, <2>1 DEF DailyAgain, StyleCapped, Inv, TypeOK, StreakIsEarned,
                              style, daily
<1>5. ASSUME NEW s \in Sessions, Daily(s)
      PROVE  Inv'
    BY <1>5, DailyTyped, DailyEarned DEF Inv
<1>6. ASSUME NEW s \in Sessions, Style(s)
      PROVE  Inv'
    <2>1. StreakIsEarned'
        BY <1>6 DEF Style, daily, Inv, StreakIsEarned
    <2> QED BY <1>6, <2>1, StyleTyped DEF Inv
<1>7. CASE UNCHANGED vars
    BY <1>7 DEF vars, Inv, TypeOK, StreakIsEarned, style, daily
<1> QED BY <1>1, <1>2, <1>3, <1>4, <1>5, <1>6, <1>7 DEF Next

LEMMA InvHolds == Spec => []Inv
<1>1. Init => Inv
    BY CapsAssumption DEF Init, Inv, TypeOK, StreakIsEarned
<1> QED BY <1>1, InvStep, PTL DEF Spec

\* The fields keep their types: in particular no streak and
\* no counter of style bonuses passes its cap.
THEOREM TypeCorrect == Spec => []TypeOK
BY InvHolds, PTL DEF Inv

\* Nobody's streak counts a day that was not claimed.
THEOREM StreaksAreEarned == Spec => []StreakIsEarned
BY InvHolds, PTL DEF Inv

\* A day not in the set of claimed days has not been paid, and a paid one was
\* paid once.
PaidAtMostOnce ==
    /\ dailyPaid \in [Players -> [Days -> Nat]]
    /\ \A p \in Players : \A d \in Days :
          /\ dailyPaid[p][d] <= 1
          /\ <<p, d>> \notin claimed => dailyPaid[p][d] = 0

LEMMA PaidStep == TypeOK /\ PaidAtMostOnce /\ [Next]_vars => PaidAtMostOnce'
<1> SUFFICES ASSUME TypeOK, PaidAtMostOnce, [Next]_vars PROVE PaidAtMostOnce'
    OBVIOUS
<1>1. CASE UNCHANGED daily
    BY <1>1 DEF daily, PaidAtMostOnce
<1>2. ASSUME NEW s \in Sessions, Daily(s)
      PROVE  PaidAtMostOnce'
    <2> DEFINE p == asked[s].who
               d == asked[s].date
    <2>1. p \in Players /\ d \in Nat
        BY <1>2, CallFields DEF Daily, Served
    <2>2. /\ <<p, d>> \notin claimed
          /\ claimed' = claimed \cup {<<p, d>>}
          /\ dailyPaid' = [dailyPaid EXCEPT ![p][d] = @ + 1]
        BY <1>2 DEF Daily, AlreadyClaimed
    <2> HIDE DEF p, d
    <2>3. dailyPaid' \in [Players -> [Days -> Nat]]
        <3> DEFINE row == [dailyPaid[p] EXCEPT ![d] = @ + 1]
        <3>1. row \in [Days -> Nat]
            <4>1. dailyPaid[p] \in [Days -> Nat]
                BY <2>1 DEF PaidAtMostOnce
            <4>2. CASE d \in Days
                BY <4>1, <4>2
            <4>3. CASE d \notin Days
                BY <4>1, <4>3
            <4> QED BY <4>2, <4>3
        <3> QED BY <2>1, <2>2, <3>1 DEF PaidAtMostOnce
    <2>4. ASSUME NEW q \in Players, NEW e \in Days
          PROVE  /\ dailyPaid'[q][e] <= 1
                 /\ <<q, e>> \notin claimed' => dailyPaid'[q][e] = 0
        <3>1. CASE q = p /\ e = d
            BY <2>1, <2>2, <3>1 DEF PaidAtMostOnce
        <3>2. CASE ~ (q = p /\ e = d)
            BY <2>1, <2>2, <3>2 DEF PaidAtMostOnce
        <3> QED BY <3>1, <3>2
    <2> QED BY <2>3, <2>4 DEF PaidAtMostOnce
<1>3. CASE Midnight
    BY <1>1, <1>3 DEF Midnight
<1>4. ASSUME NEW s \in Sessions, NEW p \in Players, AskDaily(s, p)
      PROVE  UNCHANGED daily
    BY <1>4 DEF AskDaily
<1>5. ASSUME NEW s \in Sessions, NEW p \in Players, NEW c \in Chains, AskStyle(s, p, c)
      PROVE  UNCHANGED daily
    BY <1>5 DEF AskStyle
<1>6. ASSUME NEW s \in Sessions, DailyAgain(s) \/ StyleCapped(s) \/ Style(s)
      PROVE  UNCHANGED daily
    BY <1>6 DEF DailyAgain, StyleCapped, Style
<1>7. CASE UNCHANGED vars
    BY <1>1, <1>7 DEF vars, daily
<1> QED BY <1>1, <1>2, <1>3, <1>4, <1>5, <1>6, <1>7 DEF Next

\* No calendar day pays a player its daily reward twice.
THEOREM DailyPaidOnce == Spec => []OneDailyPerDay
<1>1. Init => PaidAtMostOnce
    BY DEF Init, PaidAtMostOnce
<1>2. PaidAtMostOnce => OneDailyPerDay
    BY DEF PaidAtMostOnce, OneDailyPerDay
<1> QED BY <1>1, <1>2, TypeCorrect, PaidStep, PTL DEF Spec

-----------------------------------------------------------------------------
(* What holds as long as calls are served in the order of their dates.     *)

\* StreakCounts, for all the days there are, and for a player that has never
\* claimed anything as well.
CountsAll(p) ==
    /\ streakDay[p] = None => \A d \in Nat : <<p, d>> \notin claimed
    /\ streakDay[p] # None =>
          /\ streak[p] < MaxStreak => <<p, streakDay[p] - streak[p]>> \notin claimed
          /\ \A d \in Nat : <<p, d>> \in claimed => d <= streakDay[p]

Complete == \A p \in Players \ dailyLate : CountsAll(p)

\* A claim in order is for a later day than all before it: it adds one to a row
\* it follows at once, and starts a row behind a day without a claim otherwise.
LEMMA DailyComplete ==
    ASSUME Inv, Complete, NEW s \in Sessions, Daily(s)
    PROVE  Complete'
<1>1. PICK p \in Players, d \in Nat : p = asked[s].who /\ d = asked[s].date
    BY CallFields DEF Daily, Served, Inv
<1>2. /\ <<p, d>> \notin claimed
      /\ claimed' = claimed \cup {<<p, d>>}
      /\ streak' = [streak EXCEPT ![p] = NextStreak(p, d)]
      /\ streakDay' = [streakDay EXCEPT ![p] = d]
      /\ dailyLate' = dailyLate \cup {q \in {p} : Precedes(d, streakDay[p])}
    BY <1>1 DEF Daily, AlreadyClaimed
<1>3. ASSUME NEW q \in Players \ {p}, q \notin dailyLate'
      PROVE  CountsAll(q)'
    <2>1. /\ streak'[q] = streak[q] /\ streakDay'[q] = streakDay[q]
          /\ \A e : <<q, e>> \in claimed' <=> <<q, e>> \in claimed
        BY <1>2 DEF Inv, TypeOK
    <2>2. CountsAll(q)
        BY <1>2, <1>3 DEF Complete
    <2> QED BY <2>1, <2>2 DEF CountsAll
<1>4. ASSUME p \notin dailyLate'
      PROVE  CountsAll(p)'
    <2>1. CountsAll(p) /\ ~ Precedes(d, streakDay[p])
        BY <1>1, <1>2, <1>4 DEF Complete
    <2>2. /\ streakDay'[p] = d /\ d # None /\ streak'[p] = NextStreak(p, d)
          /\ streak[p] \in Nat /\ streakDay[p] \in Nat \cup {None} /\ MaxStreak \in Nat \ {0}
        BY <1>1, <1>2, NoneAssumption, CapsAssumption DEF Inv, TypeOK
    <2>3. CASE streakDay[p] = None
        <3>1. NextStreak(p, d) = 1
            BY <2>2, <2>3 DEF NextStreak
        <3>2. \A e \in Int : <<p, e>> \in claimed' => e = d
            BY <1>2, <2>1, <2>3, NoneAssumption DEF CountsAll, Inv, TypeOK
        <3> QED BY <1>1, <2>2, <3>1, <3>2 DEF CountsAll
    <2>4. CASE streakDay[p] # None
        <3>1. streakDay[p] \in Nat /\ streakDay[p] <= d /\ streakDay[p] # d
            <4>1. streakDay[p] \in Nat /\ streakDay[p] <= d
                BY <1>1, <2>1, <2>2, <2>4 DEF Precedes
            <4>2. 0 \in 0 .. streak[p] - 1 /\ <<p, streakDay[p] - 0>> \in claimed
                BY <1>1, <2>2, <2>4 DEF Inv, StreakIsEarned
            <4> QED BY <1>2, <4>1, <4>2
        <3>2. \A e \in Nat : <<p, e>> \in claimed' => e <= d
            BY <1>1, <1>2, <2>1, <2>4, <3>1 DEF CountsAll
        <3>3. CASE streakDay[p] + 1 = d
            <4>1. NextStreak(p, d) = AtMost(MaxStreak, streak[p] + 1)
                BY <2>4, <3>3 DEF NextStreak
            <4>2. ASSUME NextStreak(p, d) < MaxStreak
                  PROVE  <<p, d - NextStreak(p, d)>> \notin claimed'
                <5>1. NextStreak(p, d) = streak[p] + 1
                    BY <2>2, <4>1, <4>2 DEF AtMost
                <5>2. d - NextStreak(p, d) = streakDay[p] - streak[p] /\ streak[p] < MaxStreak
                    BY <2>2, <3>1, <3>3, <4>2, <5>1
                <5>3. d - NextStreak(p, d) # d
                    BY <1>1, <2>2, <5>1
                <5>4. <<p, streakDay[p] - streak[p]>> \notin claimed
                    BY <2>1, <2>4, <5>2 DEF CountsAll
                <5> QED BY <1>2, <5>2, <5>3, <5>4
            <4> QED BY <2>2, <3>2, <4>2 DEF CountsAll
        <3>4. CASE streakDay[p] + 1 # d
            <4>1. NextStreak(p, d) = 1
                BY <2>4, <3>1, <3>4 DEF NextStreak
            <4>2. d - 1 \in Nat /\ ~ (d - 1 <= streakDay[p]) /\ d - 1 # d
                BY <1>1, <3>1, <3>4
            <4>3. <<p, d - 1>> \notin claimed'
                BY <1>2, <2>1, <2>4, <4>2 DEF CountsAll
            <4> QED BY <2>2, <3>2, <4>1, <4>3 DEF CountsAll
        <3> QED BY <3>3, <3>4
    <2> QED BY <2>3, <2>4
<1> QED BY <1>3, <1>4 DEF Complete

\* Every other step leaves the days and the streaks alone.
LEMMA OthersKeepDaily ==
    ASSUME [Next]_vars, ~ \E s \in Sessions : Daily(s)
    PROVE  UNCHANGED daily
<1>1. ASSUME NEW s \in Sessions, NEW p \in Players, AskDaily(s, p)
      PROVE  UNCHANGED daily
    BY <1>1 DEF AskDaily
<1>2. ASSUME NEW s \in Sessions, NEW p \in Players, NEW c \in Chains, AskStyle(s, p, c)
      PROVE  UNCHANGED daily
    BY <1>2 DEF AskStyle
<1>3. ASSUME NEW s \in Sessions, DailyAgain(s) \/ StyleCapped(s) \/ Style(s)
      PROVE  UNCHANGED daily
    BY <1>3 DEF DailyAgain, StyleCapped, Style
<1>4. CASE Midnight
    BY <1>4 DEF Midnight
<1>5. CASE UNCHANGED vars
    BY <1>5 DEF vars, daily
<1> QED BY <1>1, <1>2, <1>3, <1>4, <1>5 DEF Next

LEMMA CompleteStep == Inv /\ Complete /\ [Next]_vars => Complete'
<1> SUFFICES ASSUME Inv, Complete, [Next]_vars PROVE Complete'
    OBVIOUS
<1>1. ASSUME UNCHANGED daily PROVE Complete'
    BY <1>1 DEF daily, Complete, CountsAll
<1> QED BY <1>1, DailyComplete, OthersKeepDaily

\* A row of claims served in the order of their dates is never counted short.
THEOREM StreaksAreComplete == Spec => []StreakIsComplete
<1>1. Init => Complete
    BY DEF Init, Complete, CountsAll
<1>2. Complete => StreakIsComplete
    BY DEF Complete, CountsAll, StreakIsComplete, StreakCounts, Days
<1> QED BY <1>1, <1>2, InvHolds, CompleteStep, PTL DEF Spec

\* The counter is what the last day was paid so far; no later day was paid
\* anything.
CounterTells(p) ==
    \A d \in Days :
        /\ stylePaid[p][d] <= StyleCap
        /\ (styleDay[p] = None \/ styleDay[p] < d) => stylePaid[p][d] = 0
        /\ styleDay[p] = d => stylePaid[p][d] = styleClaims[p]

Capped ==
    /\ stylePaid \in [Players -> [Days -> Nat]]
    /\ \A p \in Players \ styleLate : CounterTells(p)

LEMMA StyleKeepsCapped ==
    ASSUME TypeOK, Capped, NEW s \in Sessions, Style(s)
    PROVE  Capped'
<1>1. PICK p \in Players, d \in Nat : p = asked[s].who /\ d = asked[s].date
    BY CallFields DEF Style, Served
<1>2. PICK n \in Nat : n = ClaimsOn(p, d) /\ n < StyleCap /\ StyleCap \in Nat
    BY <1>1, CapsAssumption DEF Style, CapReached, ClaimsOn, TypeOK
<1>3. n = IF styleDay[p] = d THEN styleClaims[p] ELSE 0
    BY <1>2 DEF ClaimsOn
<1>4. /\ styleDay' = [styleDay EXCEPT ![p] = d]
      /\ styleClaims' = [styleClaims EXCEPT ![p] = n + 1]
      /\ stylePaid' = [stylePaid EXCEPT ![p][d] = @ + 1]
      /\ styleLate' = styleLate \cup {q \in {p} : Precedes(d, styleDay[p])}
    BY <1>1, <1>2 DEF Style
<1>5. stylePaid' \in [Players -> [Days -> Nat]]
    <2> DEFINE row == [stylePaid[p] EXCEPT ![d] = @ + 1]
    <2>1. stylePaid[p] \in [Days -> Nat]
        BY <1>1 DEF Capped
    <2>2. CASE d \in Days
        BY <1>1, <1>4, <2>1, <2>2 DEF Capped
    <2>3. CASE d \notin Days
        <3>1. row \in [Days -> Nat]
            BY <2>1, <2>3
        <3> QED BY <1>1, <1>4, <3>1 DEF Capped
    <2> QED BY <2>2, <2>3
<1>6. ASSUME NEW q \in Players \ {p}, q \notin styleLate'
      PROVE  CounterTells(q)'
    <2>1. /\ styleDay'[q] = styleDay[q] /\ styleClaims'[q] = styleClaims[q]
          /\ stylePaid'[q] = stylePaid[q]
        BY <1>4 DEF TypeOK, Capped
    <2>2. CounterTells(q)
        BY <1>4, <1>6 DEF Capped
    <2> QED BY <2>1, <2>2 DEF CounterTells
<1>7. ASSUME p \notin styleLate', NEW e \in Days
      PROVE  /\ stylePaid'[p][e] <= StyleCap
             /\ (styleDay'[p] = None \/ styleDay'[p] < e) => stylePaid'[p][e] = 0
             /\ styleDay'[p] = e => stylePaid'[p][e] = styleClaims'[p]
    <2>1. CounterTells(p) /\ ~ Precedes(d, styleDay[p])
        BY <1>1, <1>4, <1>7 DEF Capped
    <2>2. /\ styleDay'[p] = d /\ d # None /\ styleClaims'[p] = n + 1
          /\ styleDay[p] \in Nat \cup {None} /\ stylePaid[p] \in [Days -> Nat]
        BY <1>1, <1>4, NoneAssumption DEF TypeOK, Capped
    <2>3. e \in Int /\ (styleDay[p] = None \/ styleDay[p] <= d)
        BY <1>1, <2>1, <2>2 DEF Precedes, Days
    <2>4. CASE e = d
        <3>1. stylePaid'[p][e] = stylePaid[p][e] + 1
            BY <1>1, <1>4, <2>2, <2>4 DEF Capped
        <3>2. stylePaid[p][e] = n
            BY <1>3, <2>1, <2>2, <2>3, <2>4, <1>1 DEF CounterTells
        <3> QED BY <1>1, <1>2, <2>2, <2>4, <3>1, <3>2
    <2>5. CASE e # d
        <3>1. stylePaid'[p][e] = stylePaid[p][e]
            BY <1>1, <1>4, <2>2, <2>5 DEF Capped
        <3> QED BY <1>1, <2>1, <2>2, <2>3, <2>5, <3>1 DEF CounterTells
    <2> QED BY <2>4, <2>5
<1>8. p \notin styleLate' => CounterTells(p)'
    BY <1>7 DEF CounterTells
<1> QED BY <1>5, <1>6, <1>8 DEF Capped

\* Every other step leaves the bonuses alone.
LEMMA OthersKeepStyle ==
    ASSUME [Next]_vars, ~ \E s \in Sessions : Style(s)
    PROVE  UNCHANGED style
<1>1. ASSUME NEW s \in Sessions, NEW p \in Players, AskDaily(s, p)
      PROVE  UNCHANGED style
    BY <1>1 DEF AskDaily
<1>2. ASSUME NEW s \in Sessions, NEW p \in Players, NEW c \in Chains, AskStyle(s, p, c)
      PROVE  UNCHANGED style
    BY <1>2 DEF AskStyle
<1>3. ASSUME NEW s \in Sessions, DailyAgain(s) \/ StyleCapped(s) \/ Daily(s)
      PROVE  UNCHANGED style
    BY <1>3 DEF DailyAgain, StyleCapped, Daily
<1>4. CASE Midnight
    BY <1>4 DEF Midnight
<1>5. CASE UNCHANGED vars
    BY <1>5 DEF vars, style
<1> QED BY <1>1, <1>2, <1>3, <1>4, <1>5 DEF Next

LEMMA CappedStep == TypeOK /\ Capped /\ [Next]_vars => Capped'
<1> SUFFICES ASSUME TypeOK, Capped, [Next]_vars PROVE Capped'
    OBVIOUS
<1>1. ASSUME UNCHANGED style PROVE Capped'
    BY <1>1 DEF style, Capped, CounterTells
<1> QED BY <1>1, StyleKeepsCapped, OthersKeepStyle

\* Bonuses served in the order of their dates never pass the daily cap.
THEOREM StyleIsCapped == Spec => []StyleCapPerDay
<1>1. Init => Capped
    BY CapsAssumption DEF Init, Capped, CounterTells
<1>2. Capped => StyleCapPerDay
    BY DEF Capped, CounterTells, StyleCapPerDay
<1> QED BY <1>1, <1>2, TypeCorrect, CappedStep, PTL DEF Spec
=============================================================================
