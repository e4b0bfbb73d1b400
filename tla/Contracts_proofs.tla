-------------------------- MODULE Contracts_proofs --------------------------
(***************************************************************************)
(* For any number of players, sessions and missions, wherever a statement  *)
(* of the database fails and whenever the server stops: memory, database   *)
(* and mail agree as far as they can, nothing is completed that has not    *)
(* been on the screen, and a stored ban is only lifted by a login.         *)
(***************************************************************************)
EXTENDS Contracts, TLAPS

Profile == [banned : BOOLEAN, active : SUBSET Missions, completed : SUBSET Missions,
            reputation : 0..MaxReputation, mailbox : [Missions -> 0..MaxReputation]]

Session == [open : BOOLEAN, who : Players \cup {None}, log : SUBSET AllWords,
            fresh : BOOLEAN, doing : Missions \cup {None}]

\* A mission that brings letters brings them no more often than it pays.
MailIsEarned == \A p \in Players, m \in Missions : profile[p].mailbox[m] <= profile[p].reputation

\* No row is from a run of the server that is still to come.
RowsArePast == \A i \in DOMAIN players : i[2] <= era

\* A submit that waits for the lock has an owner, who has had the mission's
\* words on the screen.
DoingIsShown ==
    \A s \in Sessions :
        session[s].doing # None => session[s].who # None /\ Words(session[s].doing) \subseteq session[s].log

Inv == TypeOK /\ MailIsEarned /\ RowsArePast /\ DoingIsShown /\ PaperTrail

\* The types once more, as the steps below need them.
LEMMA TypesApart ==
    TypeOK <=> /\ era \in 0..MaxRestarts
               /\ profile \in [Players -> Profile] /\ session \in [Sessions -> Session]
               /\ DOMAIN players \subseteq Ids /\ players \in [DOMAIN players -> BOOLEAN]
               /\ mission_progress \subseteq (DOMAIN players) \X Missions
BY DEF TypeOK, Profile, Session

LEMMA PayIsPositive == ASSUME NEW m PROVE Pay(m) \in Nat \ {0}
BY DEF Pay

LEMMA WordsAreWords ==
    ASSUME NEW m \in Missions PROVE Words(m) \subseteq AllWords
BY DEF AllWords

LEMMA NewProfileTyped == NewProfile \in Profile
BY ContractsAssumption DEF NewProfile, Profile

LEMMA ClosedTyped == Closed \in Session /\ Closed.doing = None /\ Closed.who = None /\ ~ Closed.open
BY DEF Closed, Session

\* A completion: what changes in a profile, stored or not, mailed or not.
LEMMA CreditedTyped ==
    ASSUME NEW pr \in Profile, NEW m \in Missions, pr.reputation + Pay(m) <= MaxReputation
    PROVE  /\ Credited(pr, m) \in Profile
           /\ Credited(pr, m).completed = pr.completed \cup {m}
           /\ Credited(pr, m).mailbox = pr.mailbox
           /\ Credited(pr, m).banned = pr.banned
           /\ Credited(pr, m).reputation = pr.reputation + Pay(m)
<1>1. pr.reputation \in 0..MaxReputation /\ Pay(m) \in Nat \ {0} /\ MaxReputation \in Nat
    BY PayIsPositive, ContractsAssumption DEF Profile
<1>2. pr.reputation + Pay(m) \in 0..MaxReputation
    BY <1>1
<1> QED BY <1>2 DEF Credited, Profile

LEMMA MailedTyped ==
    ASSUME NEW pr \in Profile, NEW m \in Missions, pr.mailbox[m] < MaxReputation
    PROVE  /\ Mailed(pr, m) \in Profile
           /\ Mailed(pr, m).completed = pr.completed
           /\ Mailed(pr, m).banned = pr.banned
           /\ Mailed(pr, m).reputation = pr.reputation
           /\ \A n \in Missions \ {m} : Mailed(pr, m).mailbox[n] = pr.mailbox[n]
           /\ Letters(m) = {} => Mailed(pr, m).mailbox[m] = pr.mailbox[m]
           /\ Letters(m) # {} => Mailed(pr, m).mailbox[m] = pr.mailbox[m] + 1
<1>1. CASE Letters(m) = {}
    BY <1>1 DEF Mailed
<1>2. CASE Letters(m) # {}
    <2>1. pr.mailbox[m] \in 0..MaxReputation /\ pr.mailbox[m] + 1 \in 0..MaxReputation
        BY ContractsAssumption DEF Profile
    <2>2. Mailed(pr, m) = [pr EXCEPT !.mailbox[m] = @ + 1]
        BY <1>2 DEF Mailed
    <2> QED BY <1>2, <2>1, <2>2 DEF Profile
<1> QED BY <1>1, <1>2

\* The row of a login.
LEMMA RowTyped ==
    ASSUME TypeOK, NEW p \in Players, NEW b \in BOOLEAN
    PROVE  /\ DOMAIN Row(p, b) = DOMAIN players \cup {Id(p)}
           /\ DOMAIN Row(p, b) \subseteq Ids /\ Row(p, b) \in [DOMAIN Row(p, b) -> BOOLEAN]
           /\ Row(p, b)[Id(p)] = b
           /\ \A i \in DOMAIN players \ {Id(p)} : Row(p, b)[i] = players[i]
<1>1. Id(p) \in Ids /\ DOMAIN players \subseteq Ids
    BY DEF Id, Ids, TypeOK
<1> HIDE DEF Id
<1>2. Row(p, b) = [i \in DOMAIN players \cup {Id(p)} |-> IF i = Id(p) THEN b ELSE players[i]]
    BY DEF Row
<1> HIDE DEF Row
<1>3. players \in [DOMAIN players -> BOOLEAN]
    BY DEF TypeOK
<1> QED BY <1>1, <1>2, <1>3

------------------------------------------------------------------------------
(* The steps *)

\* What a step leaves to show when it changes one session, and no profile, row
\* or entry.
LEMMA SessionStep ==
    ASSUME Inv, NEW s \in Sessions, NEW new \in Session,
           session' = [session EXCEPT ![s] = new],
           new.doing # None => new.who # None /\ Words(new.doing) \subseteq new.log,
           new.who # None => Id(new.who) \in DOMAIN players,
           UNCHANGED <<era, profile, players, mission_progress>>
    PROVE  Inv'
<1>1. session \in [Sessions -> Session]
    BY TypesApart DEF Inv
<1>2. /\ session' \in [Sessions -> Session] /\ session'[s] = new
      /\ \A t \in Sessions \ {s} : session'[t] = session[t]
    BY <1>1
<1>3. TypeOK'
    BY <1>2, TypesApart DEF Inv, TypeOK, Session
<1>4. DoingIsShown'
    BY <1>2 DEF Inv, DoingIsShown
<1>5. MailIsEarned' /\ RowsArePast'
    BY DEF Inv, MailIsEarned, RowsArePast
<1>6. PaperTrail'
    <2>1. \A t \in Sessions : session'[t].who # None => Id(session'[t].who) \in DOMAIN players
        BY <1>2 DEF Inv, PaperTrail
    <2> QED BY <2>1 DEF Inv, PaperTrail, Id
<1> QED BY <1>3, <1>4, <1>5, <1>6 DEF Inv

\* A ban, in memory and perhaps in the rows.
LEMMA BanStep ==
    ASSUME Inv, NEW p \in Players, BanForever(p)
    PROVE  Inv'
<1>1. profile \in [Players -> Profile] /\ players \in [DOMAIN players -> BOOLEAN]
    BY TypesApart DEF Inv
<1>2. /\ profile' = [profile EXCEPT ![p].banned = TRUE]
      /\ UNCHANGED <<era, session, mission_progress>>
    BY DEF BanForever
<1>3. DOMAIN players' = DOMAIN players /\ players' \in [DOMAIN players -> BOOLEAN]
    BY <1>1 DEF BanForever
<1>4. /\ profile' \in [Players -> Profile]
      /\ \A q \in Players : /\ profile'[q].completed = profile[q].completed
                            /\ profile'[q].mailbox = profile[q].mailbox
                            /\ profile'[q].reputation = profile[q].reputation
    BY <1>1, <1>2 DEF Profile
<1>5. TypeOK'
    BY <1>2, <1>3, <1>4 DEF Inv, TypeOK, Profile
<1>6. MailIsEarned' /\ RowsArePast' /\ DoingIsShown'
    BY <1>2, <1>3, <1>4 DEF Inv, MailIsEarned, RowsArePast, DoingIsShown
<1>7. PaperTrail'
    BY <1>2, <1>3, <1>4 DEF Inv, PaperTrail, Id
<1> QED BY <1>5, <1>6, <1>7 DEF Inv

LEMMA ConnectStep ==
    ASSUME Inv, NEW s \in Sessions, NEW p \in Players, Connect(s, p)
    PROVE  Inv'
<1>1. PICK stored \in {"both", "row", "none"} :
         /\ players' = IF stored = "none" THEN players ELSE Row(p, profile[p].banned)
         /\ session' = [session EXCEPT ![s] = [Closed EXCEPT
                            !.open = TRUE, !.who = IF stored = "both" THEN p ELSE None]]
    BY DEF Connect
<1> DEFINE new == [Closed EXCEPT !.open = TRUE, !.who = IF stored = "both" THEN p ELSE None]
<1>2. /\ new \in Session /\ new.doing = None /\ new.who = IF stored = "both" THEN p ELSE None
    BY ClosedTyped DEF Session
<1>3. profile[p].banned \in BOOLEAN /\ TypeOK
    BY DEF Inv, TypeOK
<1>4. /\ DOMAIN players \subseteq DOMAIN players'
      /\ DOMAIN players' \subseteq DOMAIN players \cup {Id(p)}
      /\ DOMAIN players' \subseteq Ids /\ players' \in [DOMAIN players' -> BOOLEAN]
      /\ stored = "both" => Id(p) \in DOMAIN players'
    BY <1>1, <1>3, RowTyped DEF TypeOK
<1>5. UNCHANGED <<era, profile, mission_progress>>
    BY DEF Connect
<1>6. session \in [Sessions -> Session] /\ session' = [session EXCEPT ![s] = new]
    BY <1>1, TypesApart DEF Inv
<1> HIDE DEF new
<1>7. /\ session' \in [Sessions -> Session] /\ session'[s] = new
      /\ \A t \in Sessions \ {s} : session'[t] = session[t]
    BY <1>2, <1>6
<1>8. TypeOK'
    BY <1>3, <1>4, <1>5, <1>7 DEF TypeOK, Session
<1>9. DoingIsShown' /\ MailIsEarned'
    BY <1>2, <1>5, <1>7 DEF Inv, DoingIsShown, MailIsEarned
<1>10. RowsArePast'
    <2>1. Id(p)[2] = era /\ era <= era
        BY <1>3 DEF Id, TypeOK
    <2> QED BY <1>4, <1>5, <2>1 DEF Inv, RowsArePast
<1>11. PaperTrail'
    <2>1. \A t \in Sessions : session'[t].who # None => Id(session'[t].who) \in DOMAIN players'
        BY <1>2, <1>4, <1>7 DEF Inv, PaperTrail
    <2> QED BY <1>5, <2>1 DEF Inv, PaperTrail, Id
<1> QED BY <1>8, <1>9, <1>10, <1>11 DEF Inv

\* The memory, the entries and one session of a completion.
LEMMA CompletionIs ==
    ASSUME Inv, NEW s \in Sessions, NEW p \in Players, Complete(s, p)
    PROVE  \E m \in Missions :
              /\ m = session[s].doing /\ session[s].who = p /\ Words(m) \subseteq session[s].log
              /\ profile[p].reputation + Pay(m) <= MaxReputation
              /\ session' = [session EXCEPT ![s].doing = None]
              /\ UNCHANGED <<era, players>>
              /\ \/ /\ Id(p) \in DOMAIN players
                    /\ mission_progress' = mission_progress \cup {<<Id(p), m>>}
                    /\ \/ profile' = [profile EXCEPT ![p] = Mailed(Credited(@, m), m)]
                       \/ profile' = [profile EXCEPT ![p] = Credited(@, m)]
                 \/ /\ profile' = [profile EXCEPT ![p] = Credited(@, m)]
                    /\ UNCHANGED mission_progress
<1>1. session[s].doing \in Missions
    BY DEF Complete, Inv, TypeOK
<1>2. Words(session[s].doing) \subseteq session[s].log
    BY DEF Complete, Inv, DoingIsShown
<1> QED BY <1>1, <1>2 DEF Complete

\* One letter more for one payment more.
LEMMA PaidOnceMore ==
    ASSUME NEW mails \in Nat, NEW more \in {mails, mails + 1}, NEW pay \in Nat, NEW rep \in Nat,
           mails * pay <= rep
    PROVE  more * pay <= rep + pay
<1>1. (mails + 1) * pay = mails * pay + pay /\ mails * pay \in Nat
    OBVIOUS
<1> QED BY <1>1

LEMMA CompleteStep ==
    ASSUME Inv, NEW s \in Sessions, NEW p \in Players, Complete(s, p)
    PROVE  Inv'
<1>1. PICK m \in Missions :
         /\ m = session[s].doing /\ session[s].who = p /\ Words(m) \subseteq session[s].log
         /\ profile[p].reputation + Pay(m) <= MaxReputation
         /\ session' = [session EXCEPT ![s].doing = None]
         /\ UNCHANGED <<era, players>>
         /\ \/ /\ Id(p) \in DOMAIN players
               /\ mission_progress' = mission_progress \cup {<<Id(p), m>>}
               /\ \/ profile' = [profile EXCEPT ![p] = Mailed(Credited(@, m), m)]
                  \/ profile' = [profile EXCEPT ![p] = Credited(@, m)]
            \/ /\ profile' = [profile EXCEPT ![p] = Credited(@, m)]
               /\ UNCHANGED mission_progress
    BY CompletionIs
<1> DEFINE c == Credited(profile[p], m)
<1>2. /\ profile \in [Players -> Profile] /\ session \in [Sessions -> Session] /\ TypeOK
      /\ profile[p] \in Profile
    BY TypesApart DEF Inv
<1>3. /\ c \in Profile /\ c.completed = profile[p].completed \cup {m}
      /\ c.mailbox = profile[p].mailbox /\ c.reputation = profile[p].reputation + Pay(m)
    BY <1>1, <1>2, CreditedTyped
<1> HIDE DEF c
<1>4. /\ Pay(m) \in Nat \ {0} /\ MaxReputation \in Nat
      /\ profile[p].reputation \in Nat /\ profile[p].reputation + Pay(m) <= MaxReputation
      /\ \A n \in Missions : profile[p].mailbox[n] \in Nat
                              /\ profile[p].mailbox[n] <= profile[p].reputation
    BY <1>1, <1>2, PayIsPositive, ContractsAssumption DEF Inv, MailIsEarned, Profile
<1>5. c.mailbox[m] < MaxReputation
    BY <1>3, <1>4
<1>6. /\ Mailed(c, m) \in Profile /\ Mailed(c, m).completed = c.completed
      /\ Mailed(c, m).reputation = c.reputation
      /\ \A n \in Missions \ {m} : Mailed(c, m).mailbox[n] = c.mailbox[n]
      /\ Letters(m) = {} => Mailed(c, m).mailbox[m] = c.mailbox[m]
      /\ Letters(m) # {} => Mailed(c, m).mailbox[m] = c.mailbox[m] + 1
    BY <1>3, <1>5, MailedTyped
\* Sessions: this one waits no longer.
<1>7. /\ session' \in [Sessions -> Session] /\ session'[s].doing = None
      /\ \A t \in Sessions : session'[t].who = session[t].who /\ session'[t].log = session[t].log
      /\ \A t \in Sessions \ {s} : session'[t].doing = session[t].doing
    BY <1>1, <1>2 DEF Session
<1>8. DoingIsShown'
    BY <1>7 DEF Inv, DoingIsShown
\* Profiles: the new one is credited, and mailed at most if it is stored.
<1>9. PICK new \in Profile :
         /\ profile' = [profile EXCEPT ![p] = new]
         /\ new.completed = profile[p].completed \cup {m}
         /\ new.reputation = profile[p].reputation + Pay(m)
         /\ \A n \in Missions \ {m} : new.mailbox[n] = profile[p].mailbox[n]
         /\ \/ /\ Id(p) \in DOMAIN players
               /\ mission_progress' = mission_progress \cup {<<Id(p), m>>}
               /\ new.mailbox[m] \in {profile[p].mailbox[m], profile[p].mailbox[m] + 1}
            \/ /\ mission_progress' = mission_progress
               /\ new.mailbox[m] = profile[p].mailbox[m]
    <2>1. CASE /\ Id(p) \in DOMAIN players
               /\ mission_progress' = mission_progress \cup {<<Id(p), m>>}
               /\ profile' = [profile EXCEPT ![p] = Mailed(Credited(@, m), m)]
        <3>1. Mailed(c, m).mailbox[m] \in {profile[p].mailbox[m], profile[p].mailbox[m] + 1}
            BY <1>3, <1>6
        <3>2. profile' = [profile EXCEPT ![p] = Mailed(c, m)]
            BY <2>1 DEF c
        <3> QED BY <1>3, <1>6, <2>1, <3>1, <3>2
    <2>2. CASE profile' = [profile EXCEPT ![p] = Credited(@, m)]
        <3>1. profile' = [profile EXCEPT ![p] = c]
            BY <2>2 DEF c
        <3> QED BY <1>1, <1>3, <3>1
    <2> QED BY <1>1, <2>1, <2>2
<1>10. /\ profile' \in [Players -> Profile] /\ profile'[p] = new
       /\ \A q \in Players \ {p} : profile'[q] = profile[q]
    BY <1>2, <1>9
<1>11. mission_progress' \subseteq (DOMAIN players) \X Missions
    BY <1>2, <1>9 DEF TypeOK
<1>12. TypeOK'
    BY <1>1, <1>2, <1>7, <1>10, <1>11 DEF TypeOK, Profile, Session
<1>13. MailIsEarned' /\ RowsArePast'
    <2>1. ASSUME NEW n \in Missions PROVE new.mailbox[n] <= new.reputation
        <3>1. /\ profile[p].mailbox[n] \in Nat /\ profile[p].mailbox[n] <= profile[p].reputation
              /\ new.mailbox[n] \in Nat
            BY <1>4 DEF Profile
        <3>2. new.mailbox[n] \in {profile[p].mailbox[n], profile[p].mailbox[n] + 1}
            <4>1. CASE n = m
                BY <1>9, <3>1, <4>1
            <4>2. CASE n # m
                BY <1>9, <3>1, <4>2
            <4> QED BY <4>1, <4>2
        <3> QED BY <1>4, <1>9, <3>1, <3>2
    <2> QED BY <1>1, <1>10, <2>1 DEF Inv, MailIsEarned, RowsArePast
<1>14. PaperTrail'
    <2>1. \A t \in Sessions : session'[t].who # None => Id(session'[t].who) \in DOMAIN players
        BY <1>7 DEF Inv, PaperTrail
    <2>2. ASSUME NEW q \in Players, NEW n \in Missions
          PROVE  /\ <<Id(q), n>> \in mission_progress' => n \in profile'[q].completed
                 /\ profile'[q].mailbox[n] > 0 => <<Id(q), n>> \in mission_progress'
                 /\ profile'[q].mailbox[n] * Pay(n) <= profile'[q].reputation
        <3>1. /\ <<Id(q), n>> \in mission_progress => n \in profile[q].completed
              /\ profile[q].mailbox[n] > 0 => <<Id(q), n>> \in mission_progress
              /\ profile[q].mailbox[n] * Pay(n) <= profile[q].reputation
            BY DEF Inv, PaperTrail
        <3>2. CASE q # p
            <4>1. <<Id(q), n>> # <<Id(p), m>>
                BY <3>2 DEF Id
            <4> QED BY <1>9, <1>10, <3>1, <3>2, <4>1
        <3>3. CASE q = p /\ n = m
            <4>1. /\ <<Id(p), m>> \in mission_progress' => m \in new.completed
                  /\ new.mailbox[m] > 0 => <<Id(p), m>> \in mission_progress'
                BY <1>4, <1>9, <3>1, <3>3
            <4>2. new.mailbox[m] * Pay(m) <= new.reputation
                BY <1>4, <1>9, <3>1, <3>3, PaidOnceMore
            <4> QED BY <1>1, <1>10, <3>3, <4>1, <4>2 DEF Id
        <3>4. CASE q = p /\ n # m
            <4>1. <<Id(p), n>> # <<Id(p), m>> /\ new.mailbox[n] = profile[p].mailbox[n]
                BY <1>9, <3>4
            <4>2. /\ <<Id(p), n>> \in mission_progress' => n \in new.completed
                  /\ new.mailbox[n] > 0 => <<Id(p), n>> \in mission_progress'
                BY <1>9, <3>1, <3>4, <4>1
            <4>3. new.mailbox[n] * Pay(n) <= new.reputation
                <5>1. profile[p].mailbox[n] * Pay(n) \in Int
                    BY <1>4, PayIsPositive
                <5> QED BY <1>4, <1>9, <3>1, <3>4, <4>1, <5>1
            <4> QED BY <1>1, <1>10, <3>4, <4>2, <4>3 DEF Id
        <3> QED BY <3>2, <3>3, <3>4
    <2> QED BY <1>1, <2>1, <2>2 DEF PaperTrail, Id
<1> QED BY <1>8, <1>12, <1>13, <1>14 DEF Inv

LEMMA RunSuggestedStep ==
    ASSUME Inv, NEW s \in Sessions, NEW p \in Players, NEW m \in Codes, RunSuggested(s, p, m)
    PROVE  Inv'
<1>1. CASE Task(m).outcome = "Banned"
    BY <1>1, BanStep DEF RunSuggested
<1>2. CASE Task(m).outcome # "Banned"
    <2> DEFINE new == [session[s] EXCEPT !.log = @ \cup Shown(m)]
    <2>1. session \in [Sessions -> Session] /\ session[s] \in Session
        BY TypesApart DEF Inv
    <2>2. Shown(m) \subseteq AllWords
        BY WordsAreWords DEF Shown, Missions
    <2>3. /\ new \in Session /\ new.who = session[s].who /\ new.doing = None
        BY <2>1, <2>2 DEF Session, RunSuggested, Reads
    <2>4. /\ session' = [session EXCEPT ![s] = new]
          /\ UNCHANGED <<era, profile, players, mission_progress>>
        BY <1>2 DEF RunSuggested
    <2>5. new.who # None => Id(new.who) \in DOMAIN players
        BY <2>3 DEF Inv, PaperTrail
    <2> HIDE DEF new
    <2> QED BY <2>3, <2>4, <2>5, SessionStep
<1> QED BY <1>1, <1>2

LEMMA RunOtherStep ==
    ASSUME Inv, NEW s \in Sessions, NEW p \in Players, RunOther(s, p)
    PROVE  Inv'
<1>1. CASE BanForever(p)
    BY <1>1, BanStep
<1>2. CASE \E log \in SUBSET AllWords :
              /\ session' = [session EXCEPT ![s].log = log, ![s].fresh = FALSE]
              /\ UNCHANGED <<era, profile, players, mission_progress>>
    <2>1. PICK log \in SUBSET AllWords :
              /\ session' = [session EXCEPT ![s].log = log, ![s].fresh = FALSE]
              /\ UNCHANGED <<era, profile, players, mission_progress>>
        BY <1>2
    <2> DEFINE new == [session[s] EXCEPT !.log = log, !.fresh = FALSE]
    <2>2. session \in [Sessions -> Session] /\ session[s] \in Session
        BY TypesApart DEF Inv
    <2>3. /\ new \in Session /\ new.who = session[s].who /\ new.doing = None
        BY <2>2 DEF Session, RunOther, Reads
    <2>4. session' = [session EXCEPT ![s] = new]
        BY <2>1, <2>2 DEF Session
    <2>5. new.who # None => Id(new.who) \in DOMAIN players
        BY <2>3 DEF Inv, PaperTrail
    <2> HIDE DEF new
    <2> QED BY <2>1, <2>3, <2>4, <2>5, SessionStep
<1> QED BY <1>1, <1>2 DEF RunOther

LEMMA SubmitStep ==
    ASSUME Inv, NEW s \in Sessions, NEW p \in Players, NEW m \in Missions, Submit(s, p, m)
    PROVE  Inv'
<1> DEFINE new == [session[s] EXCEPT !.doing = m]
<1>1. session \in [Sessions -> Session] /\ session[s] \in Session
    BY TypesApart DEF Inv
<1>2. /\ new \in Session /\ new.who = p /\ new.doing = m /\ new.log = session[s].log
      /\ Words(m) \subseteq new.log
    BY <1>1 DEF Session, Submit, Reads, Validates
<1>3. /\ session' = [session EXCEPT ![s] = new]
      /\ UNCHANGED <<era, profile, players, mission_progress>>
    BY DEF Submit
<1>4. p # None /\ Id(p) \in DOMAIN players
    BY ContractsAssumption DEF Inv, PaperTrail, Submit, Reads
<1> HIDE DEF new
<1> QED BY <1>2, <1>3, <1>4, SessionStep

LEMMA HangupStep ==
    ASSUME Inv, NEW s \in Sessions, Hangup(s)
    PROVE  Inv'
BY ClosedTyped, SessionStep DEF Hangup

LEMMA AcceptStep ==
    ASSUME Inv, NEW s \in Sessions, NEW p \in Players, NEW m \in Missions, Accept(s, p, m)
    PROVE  Inv'
<1>1. profile \in [Players -> Profile]
    BY TypesApart DEF Inv
<1>2. /\ profile' = [profile EXCEPT ![p].active = @ \cup {m}]
      /\ UNCHANGED <<era, session, players, mission_progress>>
    BY DEF Accept
<1>3. /\ profile' \in [Players -> Profile]
      /\ \A q \in Players : /\ profile'[q].completed = profile[q].completed
                            /\ profile'[q].mailbox = profile[q].mailbox
                            /\ profile'[q].reputation = profile[q].reputation
    BY <1>1, <1>2 DEF Profile
<1>4. TypeOK'
    BY <1>2, <1>3 DEF Inv, TypeOK, Profile
<1>5. MailIsEarned' /\ RowsArePast' /\ DoingIsShown' /\ PaperTrail'
    BY <1>2, <1>3 DEF Inv, MailIsEarned, RowsArePast, DoingIsShown, PaperTrail, Id
<1> QED BY <1>4, <1>5 DEF Inv

LEMMA AdminBanStep ==
    ASSUME Inv, NEW p \in Players, AdminBan(p)
    PROVE  Inv'
<1>1. /\ players' = [i \in DOMAIN players |-> players[i] \/ i[1] = p]
      /\ UNCHANGED <<era, profile, session, mission_progress>>
    BY DEF AdminBan
<1>2. DOMAIN players' = DOMAIN players /\ players' \in [DOMAIN players -> BOOLEAN]
    BY <1>1 DEF Inv, TypeOK
<1>3. TypeOK'
    BY <1>1, <1>2 DEF Inv, TypeOK
<1>4. MailIsEarned' /\ RowsArePast' /\ DoingIsShown' /\ PaperTrail'
    BY <1>1, <1>2 DEF Inv, MailIsEarned, RowsArePast, DoingIsShown, PaperTrail, Id
<1> QED BY <1>3, <1>4 DEF Inv

\* An empty memory agrees with tables full of rows of the past.
JustStarted ==
    /\ profile = [p \in Players |-> NewProfile] /\ session = [s \in Sessions |-> Closed]
    /\ \A i \in DOMAIN players : i[2] < era
    /\ era \in Nat
    /\ mission_progress \subseteq (DOMAIN players) \X Missions

LEMMA EmptyMemory == JustStarted => MailIsEarned /\ DoingIsShown /\ PaperTrail
<1> SUFFICES ASSUME JustStarted PROVE MailIsEarned /\ DoingIsShown /\ PaperTrail
    OBVIOUS
<1> USE DEF JustStarted
<1>1. \A p \in Players, m \in Missions : <<Id(p), m>> \notin mission_progress
    <2>1. \A p \in Players : Id(p) \notin DOMAIN players
        BY DEF Id
    <2> QED BY <2>1
<1>2. \A p \in Players, m \in Missions : profile[p].mailbox[m] = 0 /\ profile[p].reputation = 0
    BY DEF NewProfile
<1>3. \A s \in Sessions : session[s].doing = None /\ session[s].who = None
    BY ClosedTyped
<1>4. \A m \in Missions : 0 * Pay(m) = 0
    BY PayIsPositive
<1> QED BY <1>1, <1>2, <1>3, <1>4 DEF MailIsEarned, DoingIsShown, PaperTrail

LEMMA RestartStep ==
    ASSUME Inv, Restart
    PROVE  Inv'
<1>1. /\ era' = era + 1 /\ UNCHANGED <<players, mission_progress>>
      /\ profile' = [p \in Players |-> NewProfile] /\ session' = [s \in Sessions |-> Closed]
    BY DEF Restart
<1>2. era \in 0..MaxRestarts /\ era' \in 0..MaxRestarts /\ MaxRestarts \in Nat
    BY ContractsAssumption DEF Restart, Inv, TypeOK
<1>3. \A i \in DOMAIN players : i[2] \in Nat /\ i[2] <= era
    BY <1>2 DEF Inv, TypeOK, Ids, RowsArePast
<1>4. TypeOK'
    BY <1>1, <1>2, NewProfileTyped, ClosedTyped DEF Inv, TypeOK, Profile, Session
<1>5. RowsArePast'
    BY <1>1, <1>2, <1>3 DEF RowsArePast
<1>6. mission_progress \subseteq (DOMAIN players) \X Missions
    BY DEF Inv, TypeOK
<1>7. JustStarted'
    BY <1>1, <1>2, <1>3, <1>6 DEF JustStarted
<1>8. MailIsEarned' /\ DoingIsShown' /\ PaperTrail'
    BY <1>7, EmptyMemory, PTL
<1> QED BY <1>4, <1>5, <1>8 DEF Inv

LEMMA InvInit == Init => Inv
<1> SUFFICES ASSUME Init PROVE Inv
    OBVIOUS
<1>1. DOMAIN players = {}
    BY DEF Init
<1>2. TypeOK
    BY <1>1, ContractsAssumption, NewProfileTyped, ClosedTyped DEF Init, TypeOK, Profile, Session
<1>3. MailIsEarned /\ DoingIsShown /\ PaperTrail
    BY <1>1, EmptyMemory DEF Init, JustStarted
<1> QED BY <1>1, <1>2, <1>3 DEF Inv, RowsArePast

LEMMA InvStep == Inv /\ [Next]_vars => Inv'
<1> SUFFICES ASSUME Inv, [Next]_vars PROVE Inv'
    OBVIOUS
<1>1. ASSUME NEW s \in Sessions, Hangup(s) PROVE Inv'
    BY <1>1, HangupStep
<1>2. ASSUME NEW s \in Sessions, NEW p \in Players, Connect(s, p) PROVE Inv'
    BY <1>2, ConnectStep
<1>3. ASSUME NEW s \in Sessions, NEW p \in Players, Line(s, p) PROVE Inv'
    BY <1>3, RunSuggestedStep, RunOtherStep, AcceptStep, SubmitStep, CompleteStep DEF Line
<1>4. ASSUME NEW p \in Players, AdminBan(p) PROVE Inv'
    BY <1>4, AdminBanStep
<1>5. CASE Restart
    BY <1>5, RestartStep
<1>6. CASE UNCHANGED vars
    BY <1>6 DEF vars, Inv, TypeOK, MailIsEarned, RowsArePast, DoingIsShown, PaperTrail, Id
<1> QED BY <1>1, <1>2, <1>3, <1>4, <1>5, <1>6 DEF Next

LEMMA InvHolds == Spec => []Inv
BY InvInit, InvStep, PTL DEF Spec

------------------------------------------------------------------------------

\* Profiles, sessions and tables keep their types, and no letter comes so
\* often that its counter leaves its range (crates/world/src/lib.rs,
\* PlayerProfile and complete_mission).
THEOREM TypeCorrect == Spec => []TypeOK
<1>1. Inv => TypeOK
    BY DEF Inv
<1> QED BY <1>1, InvHolds, PTL

\* complete_mission: what is stored is completed, the mail of a mission has
\* only come when it is stored and no more often than it paid, and a session that knows its player has a
\* row to refer to, whichever statements fail and whenever the server stops.
THEOREM RecordsAgree == Spec => []PaperTrail
<1>1. Inv => PaperTrail
    BY DEF Inv
<1> QED BY <1>1, InvHolds, PTL

\* submit takes the lock twice: nothing can be completed in between, by other
\* sessions of the player or after a restart, that was not on the screen.
THEOREM OnlyShownWorkCounts == Spec => ShownWork
<1> DEFINE WasShown == \A p \in Players : \A m \in profile'[p].completed \ profile[p].completed :
                \E s \in Sessions : session[s].who = p /\ Words(m) \subseteq session[s].log
<1>1. Inv /\ [Next]_vars => [WasShown]_vars
    <2> SUFFICES ASSUME Inv, Next, NEW p \in Players,
                        NEW m \in profile'[p].completed \ profile[p].completed
                 PROVE  \E s \in Sessions : session[s].who = p /\ Words(m) \subseteq session[s].log
        OBVIOUS
    <2>0. profile \in [Players -> Profile]
        BY TypesApart DEF Inv
    <2>1. ASSUME NEW s \in Sessions, NEW q \in Players, BanForever(q) PROVE FALSE
        BY <2>0, <2>1 DEF BanForever, Profile
    <2>2. ASSUME NEW s \in Sessions, NEW q \in Players, NEW n \in Missions, Accept(s, q, n) PROVE FALSE
        BY <2>0, <2>2 DEF Accept, Profile
    <2>3. CASE Restart
        BY <2>3 DEF Restart, NewProfile
    <2>4. ASSUME NEW s \in Sessions, NEW q \in Players, Complete(s, q)
          PROVE  \E t \in Sessions : session[t].who = p /\ Words(m) \subseteq session[t].log
        <3>1. PICK n \in Missions :
                 /\ session[s].who = q /\ Words(n) \subseteq session[s].log
                 /\ profile[q].reputation + Pay(n) <= MaxReputation
                 /\ \/ profile' = [profile EXCEPT ![q] = Mailed(Credited(@, n), n)]
                    \/ profile' = [profile EXCEPT ![q] = Credited(@, n)]
            BY <2>4, CompletionIs
        <3>2. /\ Credited(profile[q], n).completed = profile[q].completed \cup {n}
              /\ Mailed(Credited(profile[q], n), n).completed = profile[q].completed \cup {n}
            BY DEF Credited, Mailed
        <3>3. profile'[q].completed = profile[q].completed \cup {n}
            BY <2>0, <3>1, <3>2
        <3>4. \A r \in Players \ {q} : profile'[r] = profile[r]
            BY <2>0, <3>1
        <3> QED BY <3>1, <3>3, <3>4
    <2>5. ASSUME profile' = profile PROVE FALSE
        BY <2>5
    <2>6. ASSUME NEW s \in Sessions, NEW q \in Players, Line(s, q)
          PROVE  \E t \in Sessions : session[t].who = p /\ Words(m) \subseteq session[t].log
        BY <2>1, <2>2, <2>4, <2>5, <2>6 DEF Line, RunSuggested, RunOther, Submit
    <2> QED BY <2>3, <2>5, <2>6 DEF Next, Hangup, Connect, AdminBan
<1> QED BY <1>1, InvHolds, PTL DEF Spec, ShownWork

\* upsert_profile overwrites the column banned with what is in memory, and the
\* admin ban and the guard's only ever set it: a stored ban is lifted by
\* nothing but a login in this run of the server of a player who is not banned
\* in memory.
THEOREM OnlyLoginsLiftBans == Spec => StoredBansStay
<1>1. Inv /\ [Next]_vars =>
        [\A i \in DOMAIN players : players[i] /\ ~players'[i] =>
            /\ i[2] = era /\ ~profile[i[1]].banned
            /\ \E s \in Sessions : ~session[s].open /\ session'[s].open]_vars
    <2> SUFFICES ASSUME Inv, Next, NEW i \in DOMAIN players, players[i], ~players'[i]
                 PROVE  /\ i[2] = era /\ ~profile[i[1]].banned
                        /\ \E s \in Sessions : ~session[s].open /\ session'[s].open
        OBVIOUS
    <2>1. ASSUME NEW s \in Sessions, NEW p \in Players, Connect(s, p)
          PROVE  /\ i[2] = era /\ ~profile[i[1]].banned
                 /\ \E t \in Sessions : ~session[t].open /\ session'[t].open
        <3>1. players' = Row(p, profile[p].banned)
            BY <2>1 DEF Connect
        <3>2. i = Id(p) /\ ~profile[p].banned
            BY <3>1, RowTyped DEF Inv, TypeOK
        <3>3. ~session[s].open /\ session'[s].open
            BY <2>1 DEF Connect, Inv, TypeOK, Closed
        <3> QED BY <3>2, <3>3 DEF Id
    <2>2. ASSUME NEW p \in Players, BanForever(p) PROVE FALSE
        BY <2>2 DEF BanForever
    <2>3. ASSUME NEW p \in Players, AdminBan(p) PROVE FALSE
        BY <2>3 DEF AdminBan
    <2>4. ASSUME players' = players PROVE FALSE
        BY <2>4
    <2>5. ASSUME NEW s \in Sessions, NEW p \in Players, Line(s, p) PROVE FALSE
        BY <2>2, <2>4, <2>5 DEF Line, RunSuggested, RunOther, Accept, Submit, Complete
    <2> QED BY <2>1, <2>3, <2>4, <2>5 DEF Next, Hangup, Restart
<1> QED BY <1>1, InvHolds, PTL DEF Spec, StoredBansStay
=============================================================================
