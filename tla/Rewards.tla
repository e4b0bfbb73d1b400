------------------------------ MODULE Rewards ------------------------------
(***************************************************************************)
(* The rewards a player collects per calendar day: claim_daily_reward and  *)
(* style_bonus of crates/world/src/lib.rs, as the sessions of the server   *)
(* call them ("daily", and any shell line that ends well).                 *)
(* Both read the date BEFORE they queue for the world's write lock: the    *)
(* server passes Utc::now() to claim_daily_reward, style_bonus calls it on *)
(* its first line.  So a call is two steps, Ask and then Daily or Style,   *)
(* and the calls of two sessions may be served in another order than that  *)
(* of their dates, around midnight.                                        *)
(***************************************************************************)
EXTENDS Integers, FiniteSets

CONSTANTS
    Players,
    Sessions,  \* connections, each with at most one call in flight
    None,      \* no call in flight; no day yet
    Chains,    \* the shell lines tried: [depth, tools] of their pipelines
    MaxStreak, \* where a streak is capped (the code: 7)
    StyleCap,  \* style bonuses paid per day (the code: 5)
    MaxDay     \* bound on the calendar

ASSUME NoneAssumption == None \notin Nat
ASSUME ChainsAssumption == Chains \subseteq [depth: Nat, tools: Nat]
\* Beyond five bonuses the code's factor 1.0 - n * 0.2 would turn negative.
ASSUME CapsAssumption == MaxStreak \in Nat \ {0} /\ StyleCap \in 1 .. 5

VARIABLES
    today,                       \* the clock's date
    wallet, achievements,        \* PlayerProfile
    streak, streakDay,           \* PlayerProfile::streak, streak_day
    styleDay, styleClaims,       \* last_style_bonus_day, daily_style_bonus_claims
    claimed,                     \* WorldState::daily_claimed
    asked,                       \* the call each session waits with
    dailyPaid, stylePaid,        \* history: payments by player and date,
    dailyLate, styleLate         \* and the players a payment of which had an
                                 \* earlier date than the payment before it

style == <<styleDay, styleClaims, stylePaid, styleLate>>
daily == <<streak, streakDay, claimed, dailyPaid, dailyLate>>
vars == <<today, wallet, achievements, asked, style, daily>>

Days == 0 .. MaxDay

Calls == [what: {"daily"}, who: Players, date: Nat]
           \cup [what: {"style"}, who: Players, date: Nat, chain: Chains]

\* style_metrics: a line counts from two commands in a pipe or three programs.
Stylish(c) == c.depth >= 2 \/ c.tools >= 3

AtMost(bound, n) == IF n > bound THEN bound ELSE n

DailyReward(n) == 50 + AtMost(120, n * 15)

\* Mutant of NextStreak: the cap is missing.
NextStreakUncapped(p, date) ==
    IF streakDay[p] # None /\ streakDay[p] + 1 = date
    THEN streak[p] + 1
    ELSE IF streakDay[p] = date THEN streak[p] ELSE 1

\* Mutant of NextStreak: the cap is one day short.
NextStreakOneShort(p, date) ==
    IF streakDay[p] # None /\ streakDay[p] + 1 = date
    THEN AtMost(MaxStreak - 1, streak[p] + 1)
    ELSE IF streakDay[p] = date THEN streak[p] ELSE 1

\* Mutant of NextStreak: any later day carries the streak on.
NextStreakOverGaps(p, date) ==
    IF streakDay[p] # None /\ streakDay[p] < date
    THEN AtMost(MaxStreak, streak[p] + 1)
    ELSE IF streakDay[p] = date THEN streak[p] ELSE 1

\* The streak is capped; a claim for any other day than the next restarts it.
NextStreak(p, date) ==
    IF streakDay[p] # None /\ streakDay[p] + 1 = date
    THEN AtMost(MaxStreak, streak[p] + 1)
    ELSE IF streakDay[p] = date THEN streak[p] ELSE 1

Score(c) == AtMost(75, c.depth * 8 + c.tools * 5)

\* (score * (1.0 - n * 0.2)) as i64, in doubles: 1.0 - 0.6000... and 1.0 - 0.8
\* fall short of 2/5 and 1/5, so the fourth and fifth bonus of a day lose a
\* chip whenever the exact product is a whole number.
Diminished(score, n) ==
    LET exact == (score * (5 - n)) \div 5
        whole == (score * (5 - n)) % 5 = 0
    IN  IF n \in {3, 4} /\ whole /\ score > 0 THEN exact - 1 ELSE exact

Feats(c) ==
    {a \in {"Pipe Dream", "Gremlin Grep", "Redirection Wizard"} :
        \/ a = "Pipe Dream" /\ c.depth >= 3
        \/ a = "Gremlin Grep" /\ c.tools >= 4
        \/ a = "Redirection Wizard" /\ c.depth >= 3 /\ c.tools >= 3}

Init ==
    /\ today = 0
    /\ wallet = [p \in Players |-> 500]
    /\ achievements = [p \in Players |-> {}]
    /\ streak = [p \in Players |-> 0]
    /\ streakDay = [p \in Players |-> None]
    /\ styleDay = [p \in Players |-> None]
    /\ styleClaims = [p \in Players |-> 0]
    /\ claimed = {}
    /\ asked = [s \in Sessions |-> None]
    /\ dailyPaid = [p \in Players |-> [d \in Days |-> 0]]
    /\ stylePaid = [p \in Players |-> [d \in Days |-> 0]]
    /\ dailyLate = {}
    /\ styleLate = {}

Midnight ==
    /\ today < MaxDay
    /\ today' = today + 1
    /\ UNCHANGED <<wallet, achievements, asked, style, daily>>

\* A session takes the date and queues for the lock.
AskDaily(s, p) ==
    /\ asked[s] = None
    /\ asked' = [asked EXCEPT ![s] = [what |-> "daily", who |-> p, date |-> today]]
    /\ UNCHANGED <<today, wallet, achievements, style, daily>>

AskStyle(s, p, c) ==
    /\ asked[s] = None
    /\ Stylish(c)
    /\ asked' = [asked EXCEPT ![s] =
                    [what |-> "style", who |-> p, date |-> today, chain |-> c]]
    /\ UNCHANGED <<today, wallet, achievements, style, daily>>

Served(s, what) ==
    /\ asked[s] # None
    /\ asked[s].what = what
    /\ asked' = [asked EXCEPT ![s] = None]
    /\ UNCHANGED today

Precedes(date, day) == day # None /\ date < day

\* Mutant of AlreadyClaimed: only the last day claimed is looked at.
AlreadyClaimedLast(p, date) == streakDay[p] = date

\* Every day claimed is remembered, not only the last one.
AlreadyClaimed(p, date) == <<p, date>> \in claimed

\* The day was claimed before: the reward is 0 and nothing changes.
DailyAgain(s) ==
    /\ Served(s, "daily")
    /\ AlreadyClaimed(asked[s].who, asked[s].date)
    /\ UNCHANGED <<wallet, achievements, style, daily>>

Daily(s) ==
    /\ Served(s, "daily")
    /\ LET p == asked[s].who
           d == asked[s].date
       IN  /\ ~ AlreadyClaimed(p, d)
           /\ claimed' = claimed \cup {<<p, d>>}
           /\ streak' = [streak EXCEPT ![p] = NextStreak(p, d)]
           /\ streakDay' = [streakDay EXCEPT ![p] = d]
           /\ wallet' = [wallet EXCEPT ![p] = @ + DailyReward(NextStreak(p, d))]
           /\ dailyPaid' = [dailyPaid EXCEPT ![p][d] = @ + 1]
           /\ dailyLate' = dailyLate \cup {q \in {p} : Precedes(d, streakDay[p])}
    /\ UNCHANGED <<achievements, style>>

\* The bonuses counted so far today, once the counter is reset for a new day.
ClaimsOn(p, date) == IF styleDay[p] = date THEN styleClaims[p] ELSE 0

\* Mutant of CapReached: one bonus too many.
CapReachedLate(n) == n > StyleCap

CapReached(n) == n >= StyleCap

\* The cap is reached: nothing is paid, and the counter was already today's.
StyleCapped(s) ==
    /\ Served(s, "style")
    /\ CapReached(ClaimsOn(asked[s].who, asked[s].date))
    /\ UNCHANGED <<wallet, achievements, style, daily>>

Style(s) ==
    /\ Served(s, "style")
    /\ LET p == asked[s].who
           d == asked[s].date
           c == asked[s].chain
           n == ClaimsOn(p, d)
       IN  /\ ~ CapReached(n)
           /\ styleDay' = [styleDay EXCEPT ![p] = d]
           /\ styleClaims' = [styleClaims EXCEPT ![p] = n + 1]
           /\ wallet' = [wallet EXCEPT ![p] = @ + Diminished(Score(c), n)]
           /\ achievements' = [achievements EXCEPT ![p] = @ \cup Feats(c)]
           /\ stylePaid' = [stylePaid EXCEPT ![p][d] = @ + 1]
           /\ styleLate' = styleLate \cup {q \in {p} : Precedes(d, styleDay[p])}
    /\ UNCHANGED daily

Next ==
    \/ Midnight
    \/ \E s \in Sessions, p \in Players : AskDaily(s, p)
    \/ \E s \in Sessions, p \in Players, c \in Chains : AskStyle(s, p, c)
    \/ \E s \in Sessions : DailyAgain(s)
    \/ \E s \in Sessions : Daily(s)
    \/ \E s \in Sessions : StyleCapped(s)
    \/ \E s \in Sessions : Style(s)

Spec == Init /\ [][Next]_vars

(***************************************************************************)
(* Properties.                                                             *)
(***************************************************************************)
\* Every field has its type.
TypeOK ==
    /\ today \in Nat
    /\ wallet \in [Players -> Nat]
    /\ streak \in [Players -> 0 .. MaxStreak]
    /\ streakDay \in [Players -> Nat \cup {None}]
    /\ styleDay \in [Players -> Nat \cup {None}]
    /\ styleClaims \in [Players -> 0 .. StyleCap]
    /\ claimed \subseteq Players \X Nat
    /\ asked \in [Sessions -> Calls \cup {None}]
    /\ dailyLate \subseteq Players /\ styleLate \subseteq Players

\* A streak is never longer than the row of days it stands for: the last
\* "streak" days up to streak_day were all claimed.  However late a call is
\* served, nobody gets a streak for days that were not claimed.
StreakIsEarned ==
    \A p \in Players :
        /\ streakDay[p] = None => streak[p] = 0
        /\ streakDay[p] # None =>
               /\ streak[p] >= 1
               /\ \A i \in 0 .. streak[p] - 1 : <<p, streakDay[p] - i>> \in claimed

\* No calendar day pays its daily reward twice, whatever the order in which
\* the calls of several sessions are served.
OneDailyPerDay == \A p \in Players : \A d \in Days : dailyPaid[p][d] <= 1

\* The streak counts every claimed day of the row that ends with the latest
\* claim, up to the cap: a day claimed right before the row would have extended
\* it, and no claim is later than streak_day (NextStreak).
StreakCounts(p) ==
    streakDay[p] # None =>
        /\ streak[p] < MaxStreak => <<p, streakDay[p] - streak[p]>> \notin claimed
        /\ \A d \in Days : <<p, d>> \in claimed => d <= streakDay[p]

\* As long as a player's claims are served in the order of their dates, the
\* streak is complete: an unbroken row of claims is never counted short.
StreakIsComplete == \A p \in Players \ dailyLate : StreakCounts(p)

\* As long as a player's bonuses are served in the order of their dates, no day
\* pays more of them than the cap (style_bonus_daily_cap).
StyleCapPerDay ==
    \A p \in Players \ styleLate : \A d \in Days : stylePaid[p][d] <= StyleCap
=============================================================================
