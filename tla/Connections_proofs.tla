------------------------- MODULE Connections_proofs -------------------------
(***************************************************************************)
(* For any number of players, sessions and keys: whoever is in NetCity has *)
(* earned it.  The argument is monotonicity: the three lock phases of      *)
(* mode_switch may be far apart, but what a phase has seen stays true.     *)
(* The ban is the exception, and is therefore asked for once more.         *)
(* Whoever writes the world is alone, and nobody queues with a guard in    *)
(* hand.  And what a connection makes of the bytes it is sent: the lines   *)
(* that were typed, each once, and those refused that the limit refuses.   *)
(***************************************************************************)
EXTENDS NetCityGate, WorldLock, Terminal, SequenceTheorems, FiniteSetTheorems, TLAPS

\* What a mode_switch in flight has established so far.
Underway ==
    \A s \in Sessions :
        /\ step[s] # "idle" => captured[s] \subseteq observed[owner[s]]
        /\ step[s] = "switch" =>
               /\ {"keys-vault", "starter"} \subseteq completed[owner[s]]
               /\ captured[s] \cap registered[owner[s]] # {}

Inv == TypeOK /\ Underway /\ NetCityIsEarned

\* A player's missions, keys and sightings only ever grow.
Grows ==
    \A p \in Players : /\ completed[p] \subseteq completed'[p]
                       /\ registered[p] \subseteq registered'[p]
                       /\ observed[p] \subseteq observed'[p]

LEMMA GrowsKeepsEarned ==
    ASSUME Grows, NEW p \in Players, Earned(p) PROVE Earned(p)'
BY DEF Grows, Earned

\* Typing, one action at a time.
LEMMA TypeStep == TypeOK /\ [Next]_vars => TypeOK'
<1> SUFFICES ASSUME TypeOK, [Next]_vars PROVE TypeOK'
    OBVIOUS
<1> USE DEF TypeOK, profile, session
<1>1. ASSUME NEW s \in Sessions, NEW p \in Players, NEW keys \in SUBSET Keys, Login(s, p, keys)
      PROVE  TypeOK'
    <2>1. {KeyFp[k] : k \in keys} \in SUBSET Fingerprints
        BY DEF Fingerprints
    <2> QED BY <1>1, <2>1, NoneAssumption DEF Login, Modes, Steps
<1>2. ASSUME NEW s \in Sessions, Hangup(s)
      PROVE  TypeOK'
    BY <1>2 DEF Hangup, Idle, Modes
<1>3. ASSUME NEW s \in Sessions, NEW line \in Lines, Register(s, line)
      PROVE  TypeOK'
    BY <1>3 DEF Register, Fingerprints
<1>4. ASSUME NEW s \in Sessions, NEW m \in Missions, Submit(s, m)
      PROVE  TypeOK'
    BY <1>4 DEF Submit
<1>5. ASSUME NEW s \in Sessions, Ban(s)
      PROVE  TypeOK'
    BY <1>5 DEF Ban
<1>6. ASSUME NEW s \in Sessions, NEW m \in Modes, SwitchElsewhere(s, m)
      PROVE  TypeOK'
    BY <1>6 DEF SwitchElsewhere, WriteMode, Idle
<1>7. ASSUME NEW s \in Sessions, RedlineExpired(s)
      PROVE  TypeOK'
    BY <1>7 DEF RedlineExpired, Modes
<1>8. ASSUME NEW s \in Sessions, ReadObserved(s)
      PROVE  TypeOK'
    BY <1>8 DEF ReadObserved, Idle, Steps
<1>9. ASSUME NEW s \in Sessions, AskGate(s)
      PROVE  TypeOK'
    BY <1>9 DEF AskGate, Steps
<1>10. ASSUME NEW s \in Sessions, EnterNetCity(s)
      PROVE  TypeOK'
    <2>1. owner[s] \in Players
        BY <1>10 DEF EnterNetCity
    <2> QED BY <1>10, <2>1, NoneAssumption DEF EnterNetCity, WriteMode, Done, Modes, Steps
<1>11. ASSUME NEW s \in Sessions, TurnedAway(s)
      PROVE  TypeOK'
    BY <1>11 DEF TurnedAway, Done, Steps
<1>12. CASE UNCHANGED vars
    BY <1>12 DEF vars
<1> QED BY <1>1, <1>2, <1>3, <1>4, <1>5, <1>6, <1>7, <1>8, <1>9, <1>10, <1>11, <1>12 DEF Next

LEMMA GrowsStep == TypeOK /\ [Next]_vars => Grows
<1> SUFFICES ASSUME TypeOK, [Next]_vars PROVE Grows
    OBVIOUS
<1>1. ASSUME NEW s \in Sessions, NEW p \in Players, NEW keys \in SUBSET Keys, Login(s, p, keys)
      PROVE  Grows
    BY <1>1 DEF Login, Grows, TypeOK
<1>2. ASSUME NEW s \in Sessions, NEW line \in Lines, Register(s, line)
      PROVE  Grows
    BY <1>2 DEF Register, Grows, TypeOK
<1>3. ASSUME NEW s \in Sessions, NEW m \in Missions, Submit(s, m)
      PROVE  Grows
    BY <1>3 DEF Submit, Grows, TypeOK
<1>4. ASSUME UNCHANGED <<completed, registered, observed>>
      PROVE  Grows
    BY <1>4 DEF Grows
<1>5. ASSUME NEW s \in Sessions, NEW m \in Modes,
             SwitchElsewhere(s, m) \/ EnterNetCity(s)
      PROVE  Grows
    BY <1>4, <1>5 DEF SwitchElsewhere, EnterNetCity, WriteMode
<1>6. ASSUME NEW s \in Sessions,
             \/ Hangup(s) \/ Ban(s) \/ RedlineExpired(s)
             \/ ReadObserved(s) \/ AskGate(s) \/ TurnedAway(s)
      PROVE  Grows
    BY <1>4, <1>6 DEF Hangup, Ban, RedlineExpired, ReadObserved, AskGate, TurnedAway, profile
<1>7. ASSUME NEW s \in Sessions, EnterNetCity(s)
      PROVE  Grows
    BY <1>4, <1>7 DEF EnterNetCity, WriteMode
<1>8. CASE UNCHANGED vars
    BY <1>4, <1>8 DEF vars, profile
<1> QED BY <1>1, <1>2, <1>3, <1>5, <1>6, <1>7, <1>8 DEF Next

\* The phases of mode_switch establish what Underway says, and no other
\* session can take it away.
LEMMA UnderwayStep == TypeOK /\ Underway /\ [Next]_vars => Underway'
<1> SUFFICES ASSUME TypeOK, Underway, [Next]_vars PROVE Underway'
    OBVIOUS
<1>1. Grows
    BY GrowsStep
<1>2. ASSUME NEW t \in Sessions,
             owner'[t] = owner[t] \/ step'[t] = "idle",
             step'[t] = step[t] \/ step'[t] = "idle",
             captured'[t] = captured[t] \/ step'[t] = "idle"
      PROVE  /\ step'[t] # "idle" => captured'[t] \subseteq observed'[owner'[t]]
             /\ step'[t] = "switch" =>
                    /\ {"keys-vault", "starter"} \subseteq completed'[owner'[t]]
                    /\ captured'[t] \cap registered'[owner'[t]] # {}
    <2> SUFFICES ASSUME step'[t] # "idle"
                 PROVE  /\ captured'[t] \subseteq observed'[owner'[t]]
                        /\ step'[t] = "switch" =>
                               /\ {"keys-vault", "starter"} \subseteq completed'[owner'[t]]
                               /\ captured'[t] \cap registered'[owner'[t]] # {}
        OBVIOUS
    <2>1. owner[t] \in Players
        BY <1>2 DEF TypeOK
    <2> QED BY <1>1, <1>2, <2>1 DEF Underway, Grows
<1>3. ASSUME NEW s \in Sessions, NEW p \in Players, NEW keys \in SUBSET Keys, Login(s, p, keys)
      PROVE  Underway'
    BY <1>2, <1>3 DEF Login, TypeOK, Underway
<1>4. ASSUME NEW s \in Sessions, Hangup(s)
      PROVE  Underway'
    BY <1>2, <1>4 DEF Hangup, Idle, TypeOK, Underway
<1>5. ASSUME UNCHANGED <<owner, step, captured>>
      PROVE  Underway'
    BY <1>2, <1>5 DEF Underway
<1>6. ASSUME NEW s \in Sessions, ReadObserved(s)
      PROVE  Underway'
    <2>1. owner[s] \in Players
        BY <1>6 DEF ReadObserved, Idle, TypeOK
    <2>2. \A t \in Sessions \ {s} : step'[t] = step[t] /\ captured'[t] = captured[t]
        BY <1>6 DEF ReadObserved, TypeOK
    <2>3. /\ step'[s] = "gate" /\ captured'[s] = observed[owner[s]]
          /\ owner' = owner /\ observed' = observed
        BY <1>6 DEF ReadObserved, TypeOK, session, profile
    <2> QED BY <1>2, <2>1, <2>2, <2>3 DEF Underway
<1>7. ASSUME NEW s \in Sessions, AskGate(s)
      PROVE  Underway'
    <2>1. owner[s] \in Players
        BY <1>7 DEF AskGate, TypeOK
    <2>2. /\ UNCHANGED <<completed, registered, observed, owner, captured>>
          /\ \A t \in Sessions \ {s} : step'[t] = step[t]
          /\ step'[s] = IF GateOpen(owner[s], captured[s]) THEN "switch" ELSE "idle"
        BY <1>7 DEF AskGate, TypeOK, session, profile
    <2>3. captured[s] \subseteq observed[owner[s]]
        BY <1>7 DEF AskGate, Underway
    <2> QED BY <1>2, <2>1, <2>2, <2>3 DEF Underway, GateOpen
<1>8. ASSUME NEW s \in Sessions, EnterNetCity(s) \/ TurnedAway(s)
      PROVE  Underway'
    <2>1. /\ owner' = owner /\ step'[s] = "idle"
          /\ \A t \in Sessions \ {s} : step'[t] = step[t] /\ captured'[t] = captured[t]
        BY <1>8 DEF EnterNetCity, TurnedAway, WriteMode, Done, TypeOK, session
    <2> QED BY <1>2, <2>1 DEF Underway
<1>9. ASSUME NEW s \in Sessions, NEW line \in Lines, Register(s, line)
      PROVE  Underway'
    BY <1>5, <1>9 DEF Register, session
<1>10. ASSUME NEW s \in Sessions, NEW m \in Missions, Submit(s, m)
      PROVE  Underway'
    BY <1>5, <1>10 DEF Submit, session
<1>11. ASSUME NEW s \in Sessions, Ban(s) \/ RedlineExpired(s)
      PROVE  Underway'
    BY <1>5, <1>11 DEF Ban, RedlineExpired, session
<1>12. ASSUME NEW s \in Sessions, NEW m \in Modes, SwitchElsewhere(s, m)
      PROVE  Underway'
    BY <1>5, <1>12 DEF SwitchElsewhere, WriteMode
<1>13. CASE UNCHANGED vars
    BY <1>5, <1>13 DEF vars, session
<1> QED BY <1>3, <1>4, <1>6, <1>7, <1>8, <1>9, <1>10, <1>11, <1>12, <1>13 DEF Next

\* Only EnterNetCity puts anyone into NetCity, after a gate that was open.
LEMMA EarnedStep == Inv /\ [Next]_vars => NetCityIsEarned'
<1> SUFFICES ASSUME Inv, [Next]_vars PROVE NetCityIsEarned'
    OBVIOUS
<1>1. \A p \in Players : Earned(p) => Earned(p)'
    BY GrowsStep, GrowsKeepsEarned DEF Inv
<1>2. ASSUME \A p \in Players : profileMode'[p] = "NetCity" => profileMode[p] = "NetCity",
             \A t \in Sessions : mode'[t] = "NetCity" =>
                                     mode[t] = "NetCity" /\ owner'[t] = owner[t]
      PROVE  NetCityIsEarned'
    <2>1. \A t \in Sessions : mode[t] = "NetCity" => owner[t] \in Players
        BY DEF Inv, TypeOK
    <2>2. \A p \in Players : profileMode'[p] = "NetCity" => Earned(p)'
        BY <1>1, <1>2 DEF Inv, NetCityIsEarned
    <2>3. \A t \in Sessions : mode'[t] = "NetCity" => Earned(owner[t])'
        <3> SUFFICES ASSUME NEW t \in Sessions, mode'[t] = "NetCity" PROVE Earned(owner[t])'
            OBVIOUS
        <3>1. owner[t] \in Players /\ Earned(owner[t]) /\ owner'[t] = owner[t]
            BY <1>2, <2>1 DEF Inv, NetCityIsEarned
        <3> QED BY <1>1, <3>1 DEF Earned
    <2> QED BY <2>2, <2>3 DEF NetCityIsEarned
<1>3. ASSUME NEW s \in Sessions, EnterNetCity(s)
      PROVE  NetCityIsEarned'
    <2>1. owner[s] \in Players
        BY <1>3 DEF EnterNetCity, Inv, TypeOK
    <2>2. Earned(owner[s])
        BY <1>3, <2>1 DEF EnterNetCity, Inv, Underway, Earned
    <2>3. /\ UNCHANGED <<completed, registered, observed, owner>>
          /\ \A p \in Players \ {owner[s]} : profileMode'[p] = profileMode[p]
          /\ \A t \in Sessions \ {s} : mode'[t] = mode[t]
        BY <1>3 DEF EnterNetCity, WriteMode, Inv, TypeOK
    <2>4. \A p \in Players : Earned(p)' <=> Earned(p)
        BY <2>3 DEF Earned
    <2>5. \A t \in Sessions : Earned(owner[t])' <=> Earned(owner[t])
        BY <2>3 DEF Earned
    <2> QED BY <2>1, <2>2, <2>3, <2>4, <2>5 DEF Inv, NetCityIsEarned
<1>4. ASSUME NEW s \in Sessions, NEW p \in Players, NEW keys \in SUBSET Keys, Login(s, p, keys)
      PROVE  NetCityIsEarned'
    BY <1>2, <1>4 DEF Login, Inv, TypeOK
<1>5. ASSUME NEW s \in Sessions, Hangup(s)
      PROVE  NetCityIsEarned'
    BY <1>2, <1>5 DEF Hangup, Inv, TypeOK, profile
<1>6. ASSUME NEW s \in Sessions, NEW m \in Modes, SwitchElsewhere(s, m)
      PROVE  NetCityIsEarned'
    BY <1>2, <1>6 DEF SwitchElsewhere, WriteMode, Inv, TypeOK
<1>7. ASSUME NEW s \in Sessions, RedlineExpired(s)
      PROVE  NetCityIsEarned'
    BY <1>2, <1>7 DEF RedlineExpired, Inv, TypeOK
<1>8. ASSUME UNCHANGED <<profileMode, mode, owner>>
      PROVE  NetCityIsEarned'
    BY <1>2, <1>8
<1>9. ASSUME NEW s \in Sessions, NEW line \in Lines, Register(s, line)
      PROVE  NetCityIsEarned'
    BY <1>8, <1>9 DEF Register, session
<1>10. ASSUME NEW s \in Sessions, NEW m \in Missions, Submit(s, m)
      PROVE  NetCityIsEarned'
    BY <1>8, <1>10 DEF Submit, session
<1>11. ASSUME NEW s \in Sessions, Ban(s) \/ ReadObserved(s) \/ AskGate(s) \/ TurnedAway(s)
      PROVE  NetCityIsEarned'
    BY <1>8, <1>11 DEF Ban, ReadObserved, AskGate, TurnedAway, session, profile
<1>12. CASE UNCHANGED vars
    BY <1>8, <1>12 DEF vars, session, profile
<1> QED BY <1>3, <1>4, <1>5, <1>6, <1>7, <1>9, <1>10, <1>11, <1>12 DEF Next

LEMMA InvHolds == Spec => []Inv
<1>1. Init => Inv
    BY NoneAssumption DEF Init, Inv, TypeOK, Underway, NetCityIsEarned, Modes, Steps
<1>2. Inv /\ [Next]_vars => Inv'
    BY TypeStep, UnderwayStep, EarnedStep DEF Inv
<1> QED BY <1>1, <1>2, PTL DEF Spec

\* The fields keep their types, and a session without a player is idle.
THEOREM TypeCorrect == Spec => []TypeOK
BY InvHolds, PTL DEF Inv

\* Nobody is in NetCity who has not completed KEYS VAULT and a starter mission
\* and been seen with a registered key.
THEOREM NetCityEarned == Spec => []NetCityIsEarned
BY InvHolds, PTL DEF Inv

\* What a step does to the modes of a banned player.
Out(p) ==
    /\ profileMode'[p] = profileMode[p]
    /\ \A s \in Sessions : owner[s] = p /\ mode[s] # mode'[s] => mode'[s] = "Training"

LEMMA BannedStep ==
    ASSUME TypeOK, [Next]_vars, NEW p \in Players, banned[p]
    PROVE  Out(p)
<1>1. ASSUME UNCHANGED <<profileMode, mode>> PROVE Out(p)
    BY <1>1 DEF Out
<1>2. ASSUME NEW s \in Sessions, NEW m \in Modes, owner[s] \in Players, WriteMode(s, m)
      PROVE  Out(p)
    \* The write asks for the ban again: it is another player's.
    BY <1>2 DEF WriteMode, Out, TypeOK
<1>3. ASSUME NEW s \in Sessions, NEW q \in Players, NEW keys \in SUBSET Keys, Login(s, q, keys)
      PROVE  Out(p)
    BY <1>3 DEF Login, Out, TypeOK
<1>4. ASSUME NEW s \in Sessions, Hangup(s) PROVE Out(p)
    BY <1>4 DEF Hangup, Out, TypeOK, profile
<1>5. ASSUME NEW s \in Sessions, NEW m \in Modes, SwitchElsewhere(s, m) PROVE Out(p)
    <2>1. owner[s] \in Players
        BY <1>5 DEF SwitchElsewhere, Idle, TypeOK
    <2> QED BY <1>2, <1>5, <2>1 DEF SwitchElsewhere
<1>6. ASSUME NEW s \in Sessions, RedlineExpired(s) PROVE Out(p)
    BY <1>6 DEF RedlineExpired, Out, TypeOK
<1>7. ASSUME NEW s \in Sessions, EnterNetCity(s) PROVE Out(p)
    <2>1. owner[s] \in Players /\ "NetCity" \in Modes
        BY <1>7 DEF EnterNetCity, TypeOK, Modes
    <2> QED BY <1>2, <1>7, <2>1 DEF EnterNetCity
<1>8. ASSUME NEW s \in Sessions,
             \/ \E line \in Lines : Register(s, line)
             \/ \E m \in Missions : Submit(s, m)
             \/ Ban(s) \/ ReadObserved(s) \/ AskGate(s) \/ TurnedAway(s)
      PROVE  Out(p)
    BY <1>1, <1>8 DEF Register, Submit, Ban, ReadObserved, AskGate, TurnedAway, profile, session
<1>9. CASE UNCHANGED vars
    BY <1>1, <1>9 DEF vars, profile, session
<1> QED BY <1>3, <1>4, <1>5, <1>6, <1>7, <1>8, <1>9 DEF Next

\* A ban that falls between the gate and the write of a mode_switch is still
\* seen: a banned player's profile is not moved any more, and its sessions only
\* ever go back to training.
THEOREM BannedAreKeptOut == Spec => BannedStaysOut
<1>1. TypeOK /\ [Next]_vars
          => [\A p \in Players : banned[p] =>
                /\ profileMode'[p] = profileMode[p]
                /\ \A s \in Sessions :
                      owner[s] = p /\ mode[s] # mode'[s] => mode'[s] = "Training"]_vars
    BY BannedStep DEF Out
<1> QED BY <1>1, TypeCorrect, PTL DEF Spec, BannedStaysOut

------------------------------------------------------------------------------
(***************************************************************************)
(* The lock that those steps of mode_switch queue for, and every other     *)
(* call of the world service with them.  For any number of sessions: a     *)
(* writer is alone, and nobody queues with a guard in hand.  Neither       *)
(* depends on the order of the queue; both depend on every phase dropping  *)
(* its guard, which the lines' programs do.                                *)
(***************************************************************************)

Busy == {"holding", "saving"}

\* The phases the code has: none keeps its guard.
Plain == {Look, Change, Save}

\* A session holds a guard only while it works under it, and only for a phase
\* that is still on its list; a writer is the only one to hold any.
GuardsInHand ==
    /\ todo \in [Sessions -> Seq(Plain)]
    /\ phase \in [Sessions -> Places]
    /\ readers \in [Sessions -> 0 .. 1]
    /\ writer \in Sessions \cup {None}
    /\ \A s \in Sessions :
          /\ phase[s] \in Busy \cup {"waiting"} => todo[s] # <<>>
          /\ readers[s] = 1 => phase[s] \in Busy
          /\ writer = s => phase[s] \in Busy
          /\ writer # None => readers[s] = 0

LEMMA ProgramsArePlain == Programs \subseteq Seq(Plain)
BY DEF Programs, EnterCity, Plain

LEMMA PlainKeepsNothing == \A ph \in Plain : ~ ph.keeps
BY DEF Plain, Look, Change, Save

\* The guard is given back, and everybody else keeps theirs.
LEMMA DropStep ==
    ASSUME GuardsInHand, NEW s \in Sessions, Drop(s), Goes(s, "running"),
           todo' \in [Sessions -> Seq(Plain)],
           \A t \in Sessions \ {s} : todo'[t] = todo[t]
    PROVE  GuardsInHand'
<1>1. /\ phase' \in [Sessions -> Places]
      /\ readers' \in [Sessions -> 0 .. 1]
      /\ writer' \in Sessions \cup {None}
    BY DEF GuardsInHand, Drop, Goes, Places
<1>2. phase'[s] = "running" /\ readers'[s] = 0 /\ writer' # s
    BY NobodyAssumption DEF GuardsInHand, Drop, Goes
<1>3. \A t \in Sessions \ {s} : phase'[t] = phase[t] /\ readers'[t] = readers[t]
    BY DEF GuardsInHand, Drop, Goes
<1>4. writer' # None => writer' = writer
    BY DEF Drop
<1>5. ASSUME NEW t \in Sessions
      PROVE  /\ phase'[t] \in Busy \cup {"waiting"} => todo'[t] # <<>>
             /\ readers'[t] = 1 => phase'[t] \in Busy
             /\ writer' = t => phase'[t] \in Busy
             /\ writer' # None => readers'[t] = 0
    <2>1. CASE t = s
        BY <1>2, <2>1 DEF Busy
    <2>2. CASE t # s
        <3>1. writer' = t => writer = t
            BY <1>4, NobodyAssumption
        <3> QED BY <1>3, <1>4, <2>2, <3>1 DEF GuardsInHand
    <2> QED BY <2>1, <2>2
<1> QED BY <1>1, <1>5 DEF GuardsInHand

LEMMA GrantStep ==
    ASSUME GuardsInHand, NEW s \in Sessions, Grant(s)
    PROVE  GuardsInHand'
<1>1. /\ phase[s] = "waiting" /\ phase' = [phase EXCEPT ![s] = "holding"]
      /\ todo' = todo /\ writer = None /\ readers[s] = 0
    BY DEF Grant, Goes, FitsIn, GuardsInHand, Busy
<1>2. CASE Head(todo[s]).mode = "read"
    <2>1. readers' = [readers EXCEPT ![s] = 1] /\ writer' = None
        BY <1>1, <1>2 DEF Grant
    <2> QED BY <1>1, <2>1 DEF GuardsInHand, Busy, Places
<1>3. CASE Head(todo[s]).mode # "read"
    <2>1. Head(todo[s]) \in Plain
        BY <1>1, HeadTailProperties DEF GuardsInHand
    <2>2. Head(todo[s]).mode = "write"
        BY <1>3, <2>1 DEF Plain, Look, Change, Save
    <2>3. readers' = readers /\ writer' = s /\ \A t \in Sessions : readers[t] = 0
        BY <1>3, <2>2 DEF Grant, FitsIn
    <2> QED BY <1>1, <2>3 DEF GuardsInHand, Busy, Places
<1> QED BY <1>2, <1>3

LEMMA GuardsStep == GuardsInHand /\ [LockNext]_lockVars => GuardsInHand'
<1> SUFFICES ASSUME GuardsInHand, [LockNext]_lockVars PROVE GuardsInHand'
    OBVIOUS
<1>1. ASSUME NEW s \in Sessions, NEW program \in Programs, Receive(s, program)
      PROVE  GuardsInHand'
    <2>1. todo' \in [Sessions -> Seq(Plain)]
        BY <1>1, ProgramsArePlain DEF Receive, GuardsInHand
    <2> QED BY <1>1, <2>1 DEF Receive, Goes, lock, GuardsInHand, Busy, Places
<1>2. ASSUME NEW s \in Sessions, Ask(s)
      PROVE  GuardsInHand'
    BY <1>2 DEF Ask, Goes, GuardsInHand, Busy, Places
<1>3. ASSUME NEW s \in Sessions, Grant(s)
      PROVE  GuardsInHand'
    BY <1>3, GrantStep
<1>4. ASSUME NEW s \in Sessions, AwaitDatabase(s)
      PROVE  GuardsInHand'
    BY <1>4 DEF AwaitDatabase, Goes, lock, GuardsInHand, Busy, Places
<1>5. ASSUME NEW s \in Sessions, EndPhase(s)
      PROVE  GuardsInHand'
    <2>1. todo[s] \in Seq(Plain) /\ todo[s] # <<>>
        BY <1>5 DEF EndPhase, GuardsInHand, Busy
    <2>2. Head(todo[s]) \in Plain /\ Tail(todo[s]) \in Seq(Plain)
        BY <2>1, HeadTailProperties
    <2>3. Drop(s)
        BY <1>5, <2>2, PlainKeepsNothing DEF EndPhase
    <2>4. /\ todo' \in [Sessions -> Seq(Plain)]
          /\ \A t \in Sessions \ {s} : todo'[t] = todo[t]
        BY <1>5, <2>2 DEF EndPhase, GuardsInHand
    <2> QED BY <1>5, <2>3, <2>4, DropStep DEF EndPhase
<1>6. ASSUME NEW s \in Sessions, GiveUp(s)
      PROVE  GuardsInHand'
    <2>1. /\ todo' \in [Sessions -> Seq(Plain)]
          /\ \A t \in Sessions \ {s} : todo'[t] = todo[t]
        BY <1>6 DEF GiveUp, GuardsInHand
    <2> QED BY <1>6, <2>1, DropStep DEF GiveUp
<1>7. ASSUME NEW s \in Sessions, Prompt(s)
      PROVE  GuardsInHand'
    BY <1>7 DEF Prompt, Goes, lock, GuardsInHand, Busy, Places
<1>8. CASE UNCHANGED lockVars
    BY <1>8 DEF lockVars, lock, GuardsInHand
<1> QED BY <1>1, <1>2, <1>3, <1>4, <1>5, <1>6, <1>7, <1>8 DEF LockNext, Proceed

LEMMA GuardsHold == LockSpec => []GuardsInHand
<1>1. LockInit => GuardsInHand
    BY NobodyAssumption DEF LockInit, GuardsInHand, Places, Busy
<1> QED BY <1>1, GuardsStep, PTL DEF LockSpec

\* Who writes is alone, however long it waits for the database.
THEOREM WritersAreAlone == LockSpec => []Exclusion
<1>1. GuardsInHand => Exclusion
    BY DEF GuardsInHand, Exclusion
<1> QED BY <1>1, GuardsHold, PTL

\* Nobody queues for the lock with a guard in hand, so no two sessions can
\* come to wait for each other.
THEOREM NobodyHoldsAndWaits == LockSpec => []NoHoldAndWait
<1>1. GuardsInHand => NoHoldAndWait
    BY DEF GuardsInHand, NoHoldAndWait, Busy
<1> QED BY <1>1, GuardsHold, PTL

-----------------------------------------------------------------------------
(***************************************************************************)
(* The line editor.  EditorAgrees says what the lines are of all the bytes *)
(* typed; the proof asks what one more byte changes.  What is left after   *)
(* it (Left) depends on how often bytes were erased, so a byte is told to  *)
(* stand by counting: after a place that outlived all erasures there are   *)
(* as many bytes left as were printed there and not erased (Counted).      *)
(***************************************************************************)

LEMMA Least ==
    ASSUME NEW T, T \subseteq Nat, T # {}
    PROVE  \E x \in T : \A y \in T : x <= y
<1> DEFINE R == OpToRel(<, Nat)
<1>1. IsWellFoundedOn(R, Nat)
    BY NatLessThanWellFounded
<1> HIDE DEF R
<1>2. PICK x \in T : \A y \in T : ~ (<<y, x>> \in R)
    BY <1>1, WFMin, Zenon
<1>3. ASSUME NEW y \in T, y < x PROVE <<y, x>> \in R
  <2>1. <<y, x>> \in Nat \X Nat
    OBVIOUS
  <2> QED BY <2>1, <1>3 DEF R, OpToRel
<1>4. ASSUME NEW y \in T PROVE x <= y
  <2>1. ~ (y < x)
    BY <1>2, <1>3
  <2> QED BY <2>1
<1> QED BY <1>4

-----------------------------------------------------------------------------
(* What is left of the bytes, a byte at a time *)

LEMMA Greatest ==
    ASSUME NEW N \in Nat, NEW S \in SUBSET (1..N), S # {}
    PROVE  \E m \in S : \A j \in S : j <= m
<1> DEFINE B == {n \in Nat : \A j \in S : j <= n}
<1>1. B \subseteq Nat /\ N \in B
    OBVIOUS
<1>2. PICK m \in B : \A n \in B : m <= n
    <2> HIDE DEF B
    <2> QED BY <1>1, Least
<1>3. m \in S
    <2>1. SUFFICES ASSUME m \notin S PROVE FALSE
        OBVIOUS
    <2>2. m \in Nat /\ \A j \in S : j \in Nat /\ j >= 1 /\ j <= m /\ j # m
        BY <2>1
    <2>6. PICK j \in S : TRUE
        OBVIOUS
    <2>3. m - 1 \in Nat /\ \A k \in S : k <= m - 1
        BY <2>2, <2>6
    <2>4. m - 1 \in B
        BY <2>3
    <2>5. ~ (m <= m - 1)
        BY <2>2
    <2> HIDE DEF B
    <2> QED BY <1>2, <2>4, <2>5
<1> QED BY <1>3

LEMMA PartsOfInterval ==
    ASSUME NEW i \in Int, NEW k \in Int, NEW S, S \subseteq i..k
    PROVE  IsFiniteSet(S) /\ Cardinality(S) \in Nat
<1>1. IsFiniteSet(i..k)
    BY FS_Interval
<1>2. IsFiniteSet(S)
    BY <1>1, FS_Subset
<1> QED BY <1>2, FS_CardinalityType

Prints(t, j) == t[j] \notin Controls /\ ~Swallowed(t, j)

LEMMA CountTypes ==
    ASSUME NEW t, NEW i \in Int, NEW k \in Int
    PROVE  /\ IsFiniteSet(Printed(t, i, k)) /\ Cardinality(Printed(t, i, k)) \in Nat
           /\ IsFiniteSet(Erasures(t, i, k)) /\ Cardinality(Erasures(t, i, k)) \in Nat
           /\ i > k => Cardinality(Printed(t, i, k)) = 0 /\ Cardinality(Erasures(t, i, k)) = 0
<1>1. Printed(t, i, k) \subseteq i..k /\ Erasures(t, i, k) \subseteq i..k
    BY DEF Printed, Erasures
<1>2. i > k => Printed(t, i, k) = {} /\ Erasures(t, i, k) = {}
    BY <1>1
<1> QED BY <1>1, <1>2, PartsOfInterval, FS_EmptySet

\* The next byte counts on one side or on neither.
LEMMA CountNext ==
    ASSUME NEW t, NEW i \in Int, NEW k \in Int, i <= k + 1
    PROVE  /\ Cardinality(Printed(t, i, k + 1)) =
                Cardinality(Printed(t, i, k)) + IF Prints(t, k + 1) THEN 1 ELSE 0
           /\ Cardinality(Erasures(t, i, k + 1)) =
                Cardinality(Erasures(t, i, k)) + IF t[k + 1] = "DEL" THEN 1 ELSE 0
<1>1. i..k + 1 = (i..k) \cup {k + 1} /\ k + 1 \notin i..k
    OBVIOUS
<1>2. /\ IsFiniteSet(Printed(t, i, k)) /\ Cardinality(Printed(t, i, k)) \in Nat
      /\ IsFiniteSet(Erasures(t, i, k)) /\ Cardinality(Erasures(t, i, k)) \in Nat
      /\ k + 1 \notin Printed(t, i, k) /\ k + 1 \notin Erasures(t, i, k)
    BY <1>1, CountTypes DEF Printed, Erasures
<1>3. CASE Prints(t, k + 1)
    <2>1. Printed(t, i, k + 1) = Printed(t, i, k) \cup {k + 1}
        BY <1>1, <1>3 DEF Printed, Prints
    <2>2. Cardinality(Printed(t, i, k + 1)) = Cardinality(Printed(t, i, k)) + 1
        BY <1>2, <2>1, FS_AddElement
    <2>3. Erasures(t, i, k + 1) = Erasures(t, i, k) /\ t[k + 1] # "DEL"
        BY <1>1, <1>3 DEF Erasures, Prints, Controls
    <2> QED BY <1>2, <1>3, <2>2, <2>3
<1>4. CASE t[k + 1] = "DEL"
    <2>1. Erasures(t, i, k + 1) = Erasures(t, i, k) \cup {k + 1}
        BY <1>1, <1>4 DEF Erasures
    <2>2. Cardinality(Erasures(t, i, k + 1)) = Cardinality(Erasures(t, i, k)) + 1
        BY <1>2, <2>1, FS_AddElement
    <2>3. Printed(t, i, k + 1) = Printed(t, i, k) /\ ~Prints(t, k + 1)
        BY <1>1, <1>4 DEF Printed, Prints, Controls
    <2> QED BY <1>2, <1>4, <2>2, <2>3
<1>5. CASE ~Prints(t, k + 1) /\ t[k + 1] # "DEL"
    <2>1. Printed(t, i, k + 1) = Printed(t, i, k) /\ Erasures(t, i, k + 1) = Erasures(t, i, k)
        BY <1>1, <1>5 DEF Printed, Prints, Erasures
    <2> QED BY <1>2, <1>5, <2>1
<1> QED BY <1>3, <1>4, <1>5

LEMMA OutlivesNext ==
    ASSUME NEW t, NEW i \in Int, NEW k \in Int, i <= k
    PROVE  /\ Outlives(t, i, k + 1) <=>
                /\ Outlives(t, i, k)
                /\ Cardinality(Erasures(t, i + 1, k + 1)) <= Cardinality(Printed(t, i + 1, k + 1))
           /\ Outlives(t, i, k) =>
                Cardinality(Erasures(t, i + 1, k)) <= Cardinality(Printed(t, i + 1, k))
<1>1. i+1..k+1 = (i+1..k) \cup {k + 1}
    OBVIOUS
<1>2. CASE i = k
    <2>1. Cardinality(Erasures(t, i + 1, k)) = 0 /\ Cardinality(Printed(t, i + 1, k)) = 0
        <3>1. i + 1 \in Int /\ i + 1 > k
            BY <1>2
        <3> QED BY <3>1, CountTypes
    <2> QED BY <1>1, <2>1 DEF Outlives
<1>3. CASE i # k
    <2>1. k \in i+1..k
        BY <1>3
    <2> QED BY <1>1, <2>1 DEF Outlives
<1> QED BY <1>2, <1>3

\* The part of what the editor saw that lies before a byte is untouched by it.
Stands(t, u, N) ==
    \A i \in 1..N :
        /\ u[i] = t[i]
        /\ Swallowed(u, i) <=> Swallowed(t, i)
        /\ Paired(u, i) <=> Paired(t, i)
        /\ i \in Ends(u) <=> i \in Ends(t)
        /\ i \in Cuts(u) <=> i \in Cuts(t)

Appended(t, b, u) == t \in Seq(Bytes) /\ b \in Bytes /\ u = Append(t, b)

LEMMA PrefixStands ==
    ASSUME NEW t, NEW b, NEW u, Appended(t, b, u)
    PROVE  /\ u \in Seq(Bytes) /\ Len(t) \in Nat /\ Len(u) = Len(t) + 1 /\ u[Len(t) + 1] = b
           /\ DOMAIN t = 1..Len(t) /\ DOMAIN u = 1..Len(t) + 1
           /\ Stands(t, u, Len(t))
<1> DEFINE N == Len(t)
<1>1. /\ u \in Seq(Bytes) /\ Len(u) = N + 1 /\ u[N + 1] = b /\ \A i \in 1..N : u[i] = t[i]
      /\ N \in Nat /\ DOMAIN t = 1..N
    BY AppendProperties, LenProperties DEF Appended
<1>2. DOMAIN u = 1..N + 1
    BY <1>1, LenProperties
<1> HIDE DEF N
<1>3. ASSUME NEW i \in 1..N PROVE Swallowed(u, i) <=> Swallowed(t, i)
    <2>1. \A e \in 1..i-1 : e \in 1..N /\ u[e] = t[e] /\ \A k \in e+1..i-1 : k \in 1..N /\ u[k] = t[k]
        BY <1>1
    <2>2. u[i] = t[i]
        BY <1>1
    <2> QED BY <2>1, <2>2 DEF Swallowed
<1>4. ASSUME NEW i \in 1..N PROVE Paired(u, i) <=> Paired(t, i)
    <2>1. i > 1 => i - 1 \in 1..N
        BY <1>1
    <2> QED BY <1>1, <2>1 DEF Paired
<1>5. ASSUME NEW i \in 1..N PROVE i \in Ends(u) <=> i \in Ends(t)
    BY <1>1, <1>2, <1>4 DEF Ends
<1>6. ASSUME NEW i \in 1..N PROVE i \in Cuts(u) <=> i \in Cuts(t)
    BY <1>1, <1>2, <1>5 DEF Cuts
<1>7. Stands(t, u, N)
    BY <1>1, <1>3, <1>4, <1>5, <1>6 DEF Stands
<1> QED BY <1>1, <1>2, <1>7 DEF N

LEMMA LeftStands ==
    ASSUME NEW N \in Nat, NEW t, NEW u, Stands(t, u, N)
    PROVE  /\ \A i \in 1..N + 1, k \in 0..N :
                /\ Printed(u, i, k) = Printed(t, i, k) /\ Erasures(u, i, k) = Erasures(t, i, k)
                /\ Cuts(u) \cap i..k = Cuts(t) \cap i..k
           /\ \A i \in 0..N, k \in 0..N : Outlives(u, i, k) <=> Outlives(t, i, k)
           /\ \A k \in 0..N : Left(u, k) = Left(t, k)
<1>1. /\ \A i \in 1..N : u[i] = t[i]
      /\ \A i \in 1..N : Swallowed(u, i) <=> Swallowed(t, i)
      /\ \A i \in 1..N : i \in Cuts(u) <=> i \in Cuts(t)
    BY DEF Stands
<1>2. ASSUME NEW i \in 1..N + 1, NEW k \in 0..N
      PROVE  /\ Printed(u, i, k) = Printed(t, i, k) /\ Erasures(u, i, k) = Erasures(t, i, k)
             /\ Cuts(u) \cap i..k = Cuts(t) \cap i..k
    <2>1. \A j \in i..k : j \in 1..N
        BY <1>1
    <2>2. Printed(u, i, k) = Printed(t, i, k)
        BY <1>1, <2>1 DEF Printed
    <2>3. Erasures(u, i, k) = Erasures(t, i, k)
        BY <1>1, <2>1 DEF Erasures
    <2>4. Cuts(u) \cap i..k = Cuts(t) \cap i..k
        BY <1>1, <2>1
    <2> QED BY <2>2, <2>3, <2>4
<1>3. ASSUME NEW i \in 0..N, NEW k \in 0..N PROVE Outlives(u, i, k) <=> Outlives(t, i, k)
    <2>1. \A j \in i+1..k : i + 1 \in 1..N + 1 /\ j \in 0..N
        BY <1>1
    <2> QED BY <1>2, <2>1 DEF Outlives
<1>4. ASSUME NEW k \in 0..N PROVE Left(u, k) = Left(t, k)
    <2>1. Printed(u, 1, k) = Printed(t, 1, k)
        BY <1>1, <1>2
    <2>2. \A i \in Printed(t, 1, k) : i \in 1..N /\ i \in 1..N + 1 /\ i \in 0..N
        BY <1>1 DEF Printed
    <2> QED BY <1>2, <1>3, <2>1, <2>2 DEF Left
<1> QED BY <1>2, <1>3, <1>4

\* What the next byte does to what is left.
LEMMA LeftNext ==
    ASSUME NEW t, NEW N \in Nat
    PROVE  /\ Left(t, N) \subseteq 1..N
           /\ \A i \in 1..N : i \in Left(t, N + 1) <=>
                /\ i \in Left(t, N) /\ N + 1 \notin Cuts(t)
                /\ Cardinality(Erasures(t, i + 1, N + 1)) <= Cardinality(Printed(t, i + 1, N + 1))
           /\ N + 1 \in Left(t, N + 1) <=> Prints(t, N + 1) /\ N + 1 \notin Cuts(t)
<1>1. Left(t, N) \subseteq 1..N
    BY DEF Left, Printed
<1>2. ASSUME NEW i \in 1..N
      PROVE  i \in Left(t, N + 1) <=>
                /\ i \in Left(t, N) /\ N + 1 \notin Cuts(t)
                /\ Cardinality(Erasures(t, i + 1, N + 1)) <= Cardinality(Printed(t, i + 1, N + 1))
    <2>1. i..N+1 = (i..N) \cup {N + 1}
        OBVIOUS
    <2>2. i \in Printed(t, 1, N + 1) <=> i \in Printed(t, 1, N)
        BY DEF Printed
    <2>3. Outlives(t, i, N + 1) <=>
            /\ Outlives(t, i, N)
            /\ Cardinality(Erasures(t, i + 1, N + 1)) <= Cardinality(Printed(t, i + 1, N + 1))
        BY OutlivesNext
    <2>4. Cuts(t) \cap i..N+1 = {} <=> Cuts(t) \cap i..N = {} /\ N + 1 \notin Cuts(t)
        BY <2>1
    <2> QED BY <2>2, <2>3, <2>4 DEF Left
<1>3. N + 1 \in Left(t, N + 1) <=> Prints(t, N + 1) /\ N + 1 \notin Cuts(t)
    <2>1. (N + 1)..(N + 1) = {N + 1} /\ (N + 1) + 1..N + 1 = {} /\ N + 1 \in 1..N + 1
        OBVIOUS
    <2>2. Outlives(t, N + 1, N + 1)
        BY <2>1 DEF Outlives
    <2> QED BY <2>1, <2>2 DEF Left, Printed, Prints
<1> QED BY <1>1, <1>2, <1>3

\* As many bytes are left after a place that has outlived all erasures as were
\* printed there and not erased.
After(S, i) == {j \in S : j > i}
Counted(t) ==
    \A i \in 0..Len(t) :
        Outlives(t, i, Len(t)) /\ Cuts(t) \cap i+1..Len(t) = {} =>
            Cardinality(Printed(t, i + 1, Len(t))) =
                Cardinality(Erasures(t, i + 1, Len(t))) + Cardinality(After(Left(t, Len(t)), i))

\* What a byte b that is appended to t gives is told by what is left of u.
LEMMA CountedNext ==
    ASSUME NEW t, NEW b, NEW u, Appended(t, b, u), Counted(t)
    PROVE  /\ Counted(u)
           /\ Len(t) + 1 \in Cuts(u) => Left(u, Len(t) + 1) = {}
           /\ Len(t) + 1 \notin Cuts(u) /\ Prints(u, Len(t) + 1) =>
                Left(u, Len(t) + 1) = Left(t, Len(t)) \cup {Len(t) + 1}
           /\ Len(t) + 1 \notin Cuts(u) /\ b # "DEL" /\ ~Prints(u, Len(t) + 1) =>
                Left(u, Len(t) + 1) = Left(t, Len(t))
           /\ Len(t) + 1 \notin Cuts(u) /\ b = "DEL" =>
                IF Left(t, Len(t)) = {} THEN Left(u, Len(t) + 1) = {}
                ELSE \A m \in Left(t, Len(t)) : (\A j \in Left(t, Len(t)) : j <= m) =>
                        Left(u, Len(t) + 1) = Left(t, Len(t)) \ {m}
<1> DEFINE N == Len(t)
           L == Left(t, N)
           R == Left(u, N + 1)
           P(i) == Cardinality(Printed(u, i + 1, N))
           E(i) == Cardinality(Erasures(u, i + 1, N))
           P1(i) == Cardinality(Printed(u, i + 1, N + 1))
           E1(i) == Cardinality(Erasures(u, i + 1, N + 1))
<1>1. N \in Nat /\ Len(u) = N + 1 /\ u[N + 1] = b /\ Stands(t, u, N)
    BY PrefixStands
<1>2. /\ \A i \in 1..N + 1, k \in 0..N :
            /\ Printed(u, i, k) = Printed(t, i, k) /\ Erasures(u, i, k) = Erasures(t, i, k)
            /\ Cuts(u) \cap i..k = Cuts(t) \cap i..k
      /\ \A i \in 0..N, k \in 0..N : Outlives(u, i, k) <=> Outlives(t, i, k)
      /\ \A k \in 0..N : Left(u, k) = Left(t, k)
    <2> HIDE DEF N
    <2> QED BY <1>1, LeftStands
<1>3. Left(u, N) = L /\ L \subseteq 1..N
    BY <1>1, <1>2, LeftNext
<1>4. ASSUME NEW i \in 1..N
      PROVE  i \in R <=> i \in L /\ N + 1 \notin Cuts(u) /\ E1(i) <= P1(i)
    BY <1>1, <1>3, LeftNext
<1>5. N + 1 \in R <=> Prints(u, N + 1) /\ N + 1 \notin Cuts(u)
    BY <1>1, LeftNext
<1>6. R \subseteq 1..N + 1
    BY DEF Left, Printed
<1>7. ASSUME NEW i \in 0..N
      PROVE  /\ P(i) \in Nat /\ E(i) \in Nat
             /\ P1(i) = P(i) + IF Prints(u, N + 1) THEN 1 ELSE 0
             /\ E1(i) = E(i) + IF b = "DEL" THEN 1 ELSE 0
    <2>1. i + 1 \in Int /\ N \in Int /\ i + 1 <= N + 1
        BY <1>1
    <2> QED BY <1>1, <2>1, CountTypes, CountNext
<1>8. ASSUME NEW i \in 0..N, Outlives(u, i, N), Cuts(u) \cap i+1..N = {}
      PROVE  P(i) = E(i) + Cardinality(After(L, i))
    <2>1. i + 1 \in 1..N + 1 /\ N \in 0..N /\ i \in 0..N
        BY <1>1
    <2> QED BY <1>2, <1>8, <2>1 DEF Counted
<1>9. ASSUME NEW i \in 0..N
      PROVE  Outlives(u, i, N + 1) <=> Outlives(u, i, N) /\ E1(i) <= P1(i)
    BY <1>1, OutlivesNext
<1>10. ASSUME NEW i \in 0..N, Outlives(u, i, N) PROVE E(i) <= P(i)
    BY <1>1, <1>10, OutlivesNext
<1>11. ASSUME NEW i \in L PROVE Outlives(u, i, N) /\ Cuts(u) \cap i+1..N = {} /\ i \in 1..N /\ i \in 0..N
    <2>1. i \in 1..N /\ i \in 0..N /\ i \in Left(u, N)
        BY <1>1, <1>3
    <2>2. i+1..N \subseteq i..N
        BY <2>1
    <2> QED BY <2>1, <2>2 DEF Left
<1>12. Prints(u, N + 1) => b # "DEL"
    BY <1>1 DEF Prints, Controls
<1>13. ASSUME NEW i \in 0..N PROVE IsFiniteSet(After(L, i)) /\ Cardinality(After(L, i)) \in Nat /\ After(L, i) \subseteq 1..N
    <2>1. After(L, i) \subseteq 1..N
        BY <1>3 DEF After
    <2>2. 1 \in Int /\ N \in Int
        BY <1>1
    <2> QED BY <2>1, <2>2, PartsOfInterval
<1> HIDE DEF N, L, R, P, E, P1, E1
<1>20. ASSUME N + 1 \in Cuts(u) PROVE R = {}
    <2>1. \A i \in 1..N + 1 : i \in 1..N \/ i = N + 1
        BY <1>1
    <2> QED BY <1>4, <1>5, <1>6, <1>20, <2>1
<1>21. ASSUME N + 1 \notin Cuts(u), Prints(u, N + 1) PROVE R = L \cup {N + 1}
    <2>1. ASSUME NEW i \in 1..N PROVE i \in R <=> i \in L
        <3>1. CASE i \in L
            <4>1. E(i) <= P(i)
                BY <1>10, <1>11, <3>1
            <4>2. E1(i) <= P1(i)
                BY <1>7, <1>11, <1>12, <1>21, <3>1, <4>1
            <4> QED BY <1>4, <1>21, <3>1, <4>2
        <3>2. CASE i \notin L
            BY <1>4, <3>2
        <3> QED BY <3>1, <3>2
    <2>2. N + 1 \in R
        BY <1>5, <1>21
    <2>3. 1..N + 1 = (1..N) \cup {N + 1}
        BY <1>1
    <2> QED BY <1>3, <1>6, <2>1, <2>2, <2>3
<1>22. ASSUME N + 1 \notin Cuts(u), b # "DEL", ~Prints(u, N + 1) PROVE R = L
    <2>1. ASSUME NEW i \in 1..N PROVE i \in R <=> i \in L
        <3>1. CASE i \in L
            <4>1. E(i) <= P(i)
                BY <1>10, <1>11, <3>1
            <4>2. E1(i) <= P1(i)
                BY <1>7, <1>11, <1>22, <3>1, <4>1
            <4> QED BY <1>4, <1>22, <3>1, <4>2
        <3>2. CASE i \notin L
            BY <1>4, <3>2
        <3> QED BY <3>1, <3>2
    <2>2. N + 1 \notin R
        BY <1>5, <1>22
    <2>3. 1..N + 1 = (1..N) \cup {N + 1}
        BY <1>1
    <2> QED BY <1>3, <1>6, <2>1, <2>2, <2>3
<1>23. ASSUME N + 1 \notin Cuts(u), b = "DEL", NEW i \in L
       PROVE  i \in R <=> After(L, i) # {}
    <2>1. P(i) = E(i) + Cardinality(After(L, i))
        BY <1>8, <1>11
    <2>2. E1(i) = E(i) + 1 /\ P1(i) = P(i) /\ P(i) \in Nat /\ E(i) \in Nat
        BY <1>7, <1>11, <1>12, <1>23
    <2>3. Cardinality(After(L, i)) \in Nat /\ (Cardinality(After(L, i)) = 0 <=> After(L, i) = {})
        BY <1>11, <1>13, FS_EmptySet
    <2> QED BY <1>4, <1>11, <1>23, <2>1, <2>2, <2>3
<1>24. ASSUME N + 1 \notin Cuts(u), b = "DEL" PROVE R \subseteq L
    <2>1. N + 1 \notin R
        BY <1>5, <1>12, <1>24
    <2>2. 1..N + 1 = (1..N) \cup {N + 1}
        BY <1>1
    <2> QED BY <1>4, <1>6, <2>1, <2>2
<1>25. ASSUME N + 1 \notin Cuts(u), b = "DEL", NEW m \in L, \A j \in L : j <= m PROVE R = L \ {m}
    <2>1. m \notin R
        <3>1. After(L, m) = {}
            <4>1. \A j \in L : j \in Nat /\ ~ (j > m)
                BY <1>1, <1>3, <1>25
            <4> QED BY <4>1 DEF After
        <3> QED BY <1>23, <1>25, <3>1
    <2>2. ASSUME NEW i \in L, i # m PROVE i \in R
        <3>1. m > i
            BY <1>3, <1>25, <2>2
        <3>2. m \in After(L, i)
            BY <3>1 DEF After
        <3> QED BY <1>23, <1>25, <3>2
    <2> QED BY <1>24, <1>25, <2>1, <2>2
<1>30. ASSUME NEW i \in 0..N + 1, Outlives(u, i, N + 1), Cuts(u) \cap i+1..N+1 = {}
       PROVE  P1(i) = E1(i) + Cardinality(After(R, i))
    <2>1. CASE i = N + 1
        <3>1. After(R, i) = {}
            <4>1. \A j \in R : ~ (j > i)
                BY <1>1, <1>6, <2>1
            <4> QED BY <4>1 DEF After
        <3>2. i + 1 \in Int /\ N + 1 \in Int /\ i + 1 > N + 1
            BY <1>1, <2>1
        <3>3. P1(i) = 0 /\ E1(i) = 0
            BY <3>2, CountTypes DEF P1, E1
        <3> QED BY <3>1, <3>3, FS_EmptySet
    <2>2. CASE i # N + 1
        <3>1. i \in 0..N /\ i+1..N \subseteq i+1..N+1 /\ N + 1 \in i+1..N+1
            BY <1>1, <2>2
        <3>2. Outlives(u, i, N) /\ Cuts(u) \cap i+1..N = {} /\ N + 1 \notin Cuts(u) /\ E1(i) <= P1(i)
            BY <1>9, <1>30, <3>1
        <3>3. P(i) = E(i) + Cardinality(After(L, i))
            BY <1>8, <3>1, <3>2
        <3>4. /\ P(i) \in Nat /\ E(i) \in Nat
              /\ P1(i) = P(i) + IF Prints(u, N + 1) THEN 1 ELSE 0
              /\ E1(i) = E(i) + IF b = "DEL" THEN 1 ELSE 0
              /\ IsFiniteSet(After(L, i)) /\ Cardinality(After(L, i)) \in Nat
            BY <1>7, <1>13, <3>1
        <3>5. CASE Prints(u, N + 1)
            <4>1. After(R, i) = After(L, i) \cup {N + 1} /\ N + 1 \notin After(L, i)
                BY <1>1, <1>3, <1>21, <3>1, <3>2, <3>5 DEF After
            <4>2. Cardinality(After(R, i)) = Cardinality(After(L, i)) + 1
                BY <3>4, <4>1, FS_AddElement
            <4> QED BY <1>12, <3>3, <3>4, <3>5, <4>2
        <3>6. CASE ~Prints(u, N + 1) /\ b # "DEL"
            <4>1. R = L
                BY <1>22, <3>2, <3>6
            <4> QED BY <3>3, <3>4, <3>6, <4>1
        <3>7. CASE ~Prints(u, N + 1) /\ b = "DEL"
            <4>1. Cardinality(After(L, i)) # 0
                BY <3>2, <3>3, <3>4, <3>7
            <4>2. PICK j \in After(L, i) : TRUE
                BY <4>1, FS_EmptySet
            <4>3. j \in L /\ j > i
                BY <4>2 DEF After
            <4>4. PICK m \in L : \A k \in L : k <= m
                BY <1>1, <1>3, <4>3, Greatest
            <4>5. R = L \ {m}
                BY <1>25, <3>2, <3>7, <4>4
            <4>6. m > i
                BY <1>3, <3>1, <4>3, <4>4
            <4>7. After(R, i) = After(L, i) \ {m} /\ m \in After(L, i)
                BY <4>5, <4>6 DEF After
            <4>8. Cardinality(After(R, i)) = Cardinality(After(L, i)) - 1
                BY <3>4, <4>7, FS_RemoveElement
            <4> QED BY <3>3, <3>4, <3>7, <4>8
        <3> QED BY <3>5, <3>6, <3>7
    <2> QED BY <2>1, <2>2
<1>31. Counted(u)
    BY <1>1, <1>30 DEF Counted, P1, E1, R
<1>32. ASSUME N + 1 \notin Cuts(u), b = "DEL"
       PROVE  IF L = {} THEN R = {} ELSE \A m \in L : (\A j \in L : j <= m) => R = L \ {m}
    BY <1>24, <1>25, <1>32
<1> QED BY <1>20, <1>21, <1>22, <1>31, <1>32 DEF N, L, R

-----------------------------------------------------------------------------
(* A text and the places of its bytes *)

LEMMA RankFacts ==
    ASSUME NEW N \in Nat, NEW S, S \subseteq 1..N
    PROVE  /\ IsFiniteSet(S) /\ Cardinality(S) \in Nat
           /\ \A i \in S : Rank(S, i) \in 1..Cardinality(S)
           /\ \A i \in 1..N : Rank(S \cup {N + 1}, i) = Rank(S, i)
           /\ Rank(S \cup {N + 1}, N + 1) = Cardinality(S) + 1
           /\ Cardinality(S \cup {N + 1}) = Cardinality(S) + 1
<1>1. IsFiniteSet(S) /\ Cardinality(S) \in Nat
    <2>1. 1 \in Int /\ N \in Int
        OBVIOUS
    <2> QED BY <2>1, PartsOfInterval
<1>2. ASSUME NEW i \in S PROVE Rank(S, i) \in 1..Cardinality(S)
    <2> DEFINE B == {j \in S : j <= i}
    <2>1. B \subseteq S /\ B # {}
        <3>1. i \in B
            OBVIOUS
        <3> QED BY <3>1
    <2> HIDE DEF B
    <2>2. IsFiniteSet(B) /\ Cardinality(B) <= Cardinality(S)
        BY <1>1, <2>1, FS_Subset
    <2>3. Cardinality(B) \in Nat /\ Cardinality(B) # 0
        BY <2>1, <2>2, FS_EmptySet, FS_CardinalityType
    <2> QED BY <1>1, <2>2, <2>3 DEF Rank, B
<1>3. ASSUME NEW i \in 1..N PROVE Rank(S \cup {N + 1}, i) = Rank(S, i)
    <2>1. {j \in S \cup {N + 1} : j <= i} = {j \in S : j <= i}
        <3>1. ~ (N + 1 <= i)
            OBVIOUS
        <3> QED BY <3>1
    <2> QED BY <2>1 DEF Rank
<1>4. N + 1 \notin S
    OBVIOUS
<1>5. Cardinality(S \cup {N + 1}) = Cardinality(S) + 1
    BY <1>1, <1>4, FS_AddElement
<1>6. {j \in S \cup {N + 1} : j <= N + 1} = S \cup {N + 1}
    <2>1. \A j \in S \cup {N + 1} : j <= N + 1
        OBVIOUS
    <2> QED BY <2>1
<1> QED BY <1>1, <1>2, <1>3, <1>5, <1>6 DEF Rank

\* The last of the places has the last rank, and takes nothing from the others.
LEMMA RankOfLast ==
    ASSUME NEW N \in Nat, NEW S, S \subseteq 1..N, NEW m \in S, \A j \in S : j <= m
    PROVE  /\ Cardinality(S) >= 1 /\ Cardinality(S \ {m}) = Cardinality(S) - 1
           /\ \A i \in S \ {m} : Rank(S \ {m}, i) = Rank(S, i)
<1>1. IsFiniteSet(S) /\ Cardinality(S) \in Nat
    <2>1. 1 \in Int /\ N \in Int
        OBVIOUS
    <2> QED BY <2>1, PartsOfInterval
<1>2. Cardinality(S) # 0
    BY <1>1, FS_EmptySet
<1>3. Cardinality(S \ {m}) = Cardinality(S) - 1
    BY <1>1, FS_RemoveElement
<1>4. ASSUME NEW i \in S \ {m} PROVE Rank(S \ {m}, i) = Rank(S, i)
    <2>1. ~ (m <= i)
        OBVIOUS
    <2>2. {j \in S \ {m} : j <= i} = {j \in S : j <= i}
        BY <2>1
    <2> QED BY <2>2 DEF Rank
<1> QED BY <1>1, <1>2, <1>3, <1>4

LEMMA SpellsNone ==
    ASSUME NEW t
    PROVE  /\ Spells(<<>>, t, {})
           /\ \A N \in Nat : \A S : \A T : \A text \in Seq(T) :
                S \subseteq 1..N /\ Spells(text, t, S) => (text = <<>> <=> S = {})
<1>1. Spells(<<>>, t, {})
    BY FS_EmptySet, EmptySeq DEF Spells
<1>2. ASSUME NEW N \in Nat, NEW S, NEW T, NEW text \in Seq(T), S \subseteq 1..N, Spells(text, t, S)
      PROVE  text = <<>> <=> S = {}
    <2>1. IsFiniteSet(S) /\ Len(text) = Cardinality(S)
        BY <1>2, PartsOfInterval DEF Spells
    <2>2. Cardinality(S) = 0 <=> S = {}
        BY <2>1, FS_EmptySet
    <2>3. text = <<>> <=> Len(text) = 0
        BY EmptySeq
    <2> QED BY <2>1, <2>2, <2>3
<1> QED BY <1>1, <1>2

LEMMA SpellsStands ==
    ASSUME NEW N \in Nat, NEW t, NEW u, Stands(t, u, N), NEW S, S \subseteq 1..N,
           NEW text, Spells(text, t, S)
    PROVE  Spells(text, u, S)
BY DEF Spells, Stands

LEMMA SpellsMore ==
    ASSUME NEW N \in Nat, NEW t, NEW u, Stands(t, u, N), NEW S, S \subseteq 1..N,
           NEW T, NEW text \in Seq(T), NEW b \in T, u[N + 1] = b, Spells(text, t, S)
    PROVE  Spells(Append(text, b), u, S \cup {N + 1})
<1> DEFINE K == Cardinality(S)
           new == Append(text, b)
<1>1. K \in Nat /\ Len(text) = K /\ \A i \in S : text[Rank(S, i)] = t[i]
    BY RankFacts DEF Spells
<1>2. Len(new) = K + 1 /\ new[K + 1] = b /\ \A k \in 1..K : new[k] = text[k]
    BY <1>1, AppendProperties
<1> HIDE DEF new
<1>3. Cardinality(S \cup {N + 1}) = K + 1
    BY RankFacts
<1>4. ASSUME NEW i \in S PROVE new[Rank(S \cup {N + 1}, i)] = u[i]
    <2>1. Rank(S \cup {N + 1}, i) = Rank(S, i) /\ Rank(S, i) \in 1..K
        BY RankFacts
    <2>2. u[i] = t[i]
        BY DEF Stands
    <2> QED BY <1>1, <1>2, <2>1, <2>2
<1>5. new[Rank(S \cup {N + 1}, N + 1)] = u[N + 1]
    <2>1. Rank(S \cup {N + 1}, N + 1) = K + 1
        BY RankFacts
    <2> QED BY <1>2, <2>1
<1> QED BY <1>2, <1>3, <1>4, <1>5 DEF Spells, new

LEMMA SpellsLess ==
    ASSUME NEW N \in Nat, NEW t, NEW S, S \subseteq 1..N, NEW m \in S, \A j \in S : j <= m,
           NEW T, NEW text \in Seq(T), Spells(text, t, S)
    PROVE  Spells(SubSeq(text, 1, Len(text) - 1), t, S \ {m})
<1> DEFINE K == Cardinality(S)
           new == SubSeq(text, 1, Len(text) - 1)
<1>1. /\ K \in Nat /\ Len(text) = K /\ \A i \in S : text[Rank(S, i)] = t[i]
      /\ K >= 1 /\ Cardinality(S \ {m}) = K - 1
    BY RankFacts, RankOfLast DEF Spells
<1>2. Len(new) = K - 1 /\ \A k \in 1..K-1 : new[k] = text[k]
    <2>1. 1 \in 1..Len(text)+1 /\ Len(text) - 1 \in 0..Len(text)
        BY <1>1
    <2> QED BY <1>1, <2>1, SubSeqProperties
<1> HIDE DEF new
<1>3. ASSUME NEW i \in S \ {m} PROVE new[Rank(S \ {m}, i)] = t[i]
    <2>1. Rank(S \ {m}, i) = Rank(S, i)
        BY RankOfLast
    <2>2. Rank(S \ {m}, i) \in 1..Cardinality(S \ {m})
        <3>1. S \ {m} \subseteq 1..N
            OBVIOUS
        <3> HIDE DEF K
        <3> QED BY <3>1, RankFacts
    <2> QED BY <1>1, <1>2, <2>1, <2>2
<1> QED BY <1>1, <1>2, <1>3 DEF Spells, new

-----------------------------------------------------------------------------
(* What the editor keeps of the bytes it has seen *)

\* The terminal's sequence that begins at p has not ended.
GoesOn(t, p) == p \in 1..Len(t) /\ t[p] = "ESC" /\ \A k \in p+1..Len(t) : t[k] \in Blanks

EscapeTells(escape, t) ==
    /\ escape \in Nat
    /\ escape # 0 => \E p \in 1..Len(t) : GoesOn(t, p) /\ escape = EscapeLimit - (Len(t) - p)
    /\ \A p \in 1..Len(t) :
            GoesOn(t, p) /\ Len(t) - p < EscapeLimit => escape = EscapeLimit - (Len(t) - p)

AfterReturn(t) == Len(t) >= 1 /\ t[Len(t)] = "CR"

\* The sequence that goes on takes the next ordinary byte, and no other does.
LEMMA SwallowedIs ==
    ASSUME NEW t, NEW b, NEW u, Appended(t, b, u),
           NEW escape, EscapeTells(escape, t)
    PROVE  Prints(u, Len(t) + 1) <=> b \notin Controls /\ escape = 0
<1> DEFINE N == Len(t)
<1>1. N \in Nat /\ u[N + 1] = b /\ Stands(t, u, N)
    BY PrefixStands
<1>2. /\ escape \in Nat
      /\ escape # 0 => \E p \in 1..N : GoesOn(t, p) /\ escape = EscapeLimit - (N - p)
      /\ \A p \in 1..N : GoesOn(t, p) /\ N - p < EscapeLimit => escape = EscapeLimit - (N - p)
    BY DEF EscapeTells
<1>3. EscapeLimit \in Nat
    BY TerminalAssumption
<1>4. \A p \in 1..N : GoesOn(t, p) <=> u[p] = "ESC" /\ \A k \in p+1..N : u[k] \in Blanks
    <2>1. \A p \in 1..N : u[p] = t[p] /\ \A k \in p+1..N : u[k] = t[k]
        BY <1>1 DEF Stands
    <2> QED BY <2>1 DEF GoesOn
<1> HIDE DEF N
<1>5. Swallowed(u, N + 1) <=>
        b \notin Controls /\ \E p \in 1..N : GoesOn(t, p) /\ (N + 1) - p <= EscapeLimit
    <2>1. (N + 1) - 1 = N
        BY <1>1
    <2> DEFINE Taken(m) == \E p \in 1..m : /\ u[p] = "ESC" /\ (N + 1) - p <= EscapeLimit
                                           /\ \A k \in p+1..m : u[k] \in Blanks
    <2>2. Swallowed(u, N + 1) <=> u[N + 1] \notin Controls /\ Taken((N + 1) - 1)
        BY DEF Swallowed
    <2>3. Taken(N) <=> \E p \in 1..N : GoesOn(t, p) /\ (N + 1) - p <= EscapeLimit
        BY <1>4
    <2> HIDE DEF Taken
    <2> QED BY <1>1, <2>1, <2>2, <2>3
<1>6. (\E p \in 1..N : GoesOn(t, p) /\ (N + 1) - p <= EscapeLimit) <=> escape # 0
    <2>1. ASSUME NEW p \in 1..N, GoesOn(t, p), (N + 1) - p <= EscapeLimit PROVE escape # 0
        <3>1. N - p < EscapeLimit
            BY <1>1, <1>3, <2>1
        <3>2. escape = EscapeLimit - (N - p)
            BY <1>2, <2>1, <3>1
        <3> QED BY <1>1, <1>3, <3>1, <3>2
    <2>2. ASSUME NEW p \in 1..N, escape # 0, escape = EscapeLimit - (N - p)
          PROVE  (N + 1) - p <= EscapeLimit
        BY <1>1, <1>2, <1>3, <2>2
    <2> QED BY <1>2, <2>1, <2>2
<1> QED BY <1>1, <1>5, <1>6 DEF Prints, N

LEMMA EscapeNext ==
    ASSUME NEW t, NEW b, NEW u, Appended(t, b, u),
           NEW escape, EscapeTells(escape, t)
    PROVE  /\ b \in (Controls \ {"ESC"}) \cup Letters => EscapeTells(0, u)
           /\ b = "ESC" => EscapeTells(EscapeLimit, u)
           /\ b \in Blanks /\ escape = 0 => EscapeTells(0, u)
           /\ b \in Blanks /\ escape # 0 => EscapeTells(escape - 1, u)
           /\ AfterReturn(t) => escape = 0
<1> DEFINE N == Len(t)
<1>1. N \in Nat /\ Len(u) = N + 1 /\ u[N + 1] = b /\ Stands(t, u, N)
    BY PrefixStands
<1>2. /\ escape \in Nat
      /\ escape # 0 => \E p \in 1..N : GoesOn(t, p) /\ escape = EscapeLimit - (N - p)
      /\ \A p \in 1..N : GoesOn(t, p) /\ N - p < EscapeLimit => escape = EscapeLimit - (N - p)
    BY DEF EscapeTells
<1>3. /\ EscapeLimit \in Nat /\ EscapeLimit # 0
      /\ Blanks \cap Controls = {} /\ Letters \cap Blanks = {} /\ Letters \cap Controls = {}
      /\ "ESC" \in Controls /\ "CR" \in Controls
    BY TerminalAssumption DEF Controls
<1>4. ASSUME NEW p \in 1..N PROVE GoesOn(u, p) <=> GoesOn(t, p) /\ b \in Blanks
    <2>1. u[p] = t[p] /\ p \in 1..N + 1
        BY <1>1 DEF Stands
    <2>2. \A k \in p+1..N : u[k] = t[k]
        BY <1>1 DEF Stands
    <2>3. p+1..N+1 = (p+1..N) \cup {N + 1}
        BY <1>1
    <2> HIDE DEF N
    <2>4. GoesOn(u, p) <=> u[p] = "ESC" /\ \A k \in p+1..N+1 : u[k] \in Blanks
        BY <1>1, <2>1 DEF GoesOn
    <2>5. GoesOn(t, p) <=> t[p] = "ESC" /\ \A k \in p+1..N : t[k] \in Blanks
        BY DEF GoesOn, N
    <2> QED BY <1>1, <2>1, <2>2, <2>3, <2>4, <2>5
<1>5. GoesOn(u, N + 1) <=> b = "ESC"
    <2>1. (N + 1) + 1..N + 1 = {} /\ N + 1 \in 1..N + 1
        BY <1>1
    <2> QED BY <1>1, <2>1 DEF GoesOn
<1>6. ASSUME AfterReturn(t) PROVE escape = 0
    <2>1. N >= 1 /\ t[N] = "CR"
        BY <1>6 DEF AfterReturn
    <2>2. ASSUME NEW p \in 1..N, GoesOn(t, p) PROVE FALSE
        <3>1. CASE p = N
            BY <2>1, <2>2, <3>1 DEF GoesOn
        <3>2. CASE p # N
            <4>1. N \in p+1..N
                BY <1>1, <3>2
            <4> QED BY <1>3, <2>1, <2>2, <4>1 DEF GoesOn
        <3> QED BY <3>1, <3>2
    <2> QED BY <1>2, <2>2
<1> HIDE DEF N
<1>7. \A p \in 1..N + 1 : p \in 1..N \/ p = N + 1
    BY <1>1
<1>8. ASSUME b \in (Controls \ {"ESC"}) \cup Letters PROVE EscapeTells(0, u)
    BY <1>1, <1>3, <1>4, <1>5, <1>7, <1>8 DEF EscapeTells
<1>9. ASSUME b = "ESC" PROVE EscapeTells(EscapeLimit, u)
    <2>1. N + 1 \in 1..N + 1 /\ EscapeLimit = EscapeLimit - ((N + 1) - (N + 1)) /\ GoesOn(u, N + 1)
        BY <1>1, <1>3, <1>5, <1>9
    <2>2. \A p \in 1..N : ~ GoesOn(u, p)
        BY <1>3, <1>4, <1>9
    <2> QED BY <1>1, <1>3, <1>7, <2>1, <2>2 DEF EscapeTells
<1>10. ASSUME b \in Blanks PROVE b # "ESC" /\ ~ GoesOn(u, N + 1) /\ \A p \in 1..N : GoesOn(u, p) <=> GoesOn(t, p)
    BY <1>3, <1>4, <1>5, <1>10
<1>11. ASSUME b \in Blanks, escape = 0 PROVE EscapeTells(0, u)
    <2>1. ASSUME NEW p \in 1..N + 1, GoesOn(u, p), (N + 1) - p < EscapeLimit PROVE FALSE
        <3>1. p \in 1..N /\ GoesOn(t, p)
            BY <1>7, <1>10, <1>11, <2>1
        <3>2. N - p < EscapeLimit
            BY <1>1, <1>3, <2>1, <3>1
        <3>3. escape = EscapeLimit - (N - p)
            BY <1>2, <3>1, <3>2
        <3> QED BY <1>1, <1>3, <1>11, <3>1, <3>2, <3>3
    <2> QED BY <1>1, <2>1 DEF EscapeTells
<1>12. ASSUME b \in Blanks, escape # 0 PROVE EscapeTells(escape - 1, u)
    <2>1. PICK p \in 1..N : GoesOn(t, p) /\ escape = EscapeLimit - (N - p)
        BY <1>2, <1>12
    <2>2. p \in 1..N + 1 /\ GoesOn(u, p) /\ escape - 1 = EscapeLimit - ((N + 1) - p) /\ escape - 1 \in Nat
        BY <1>1, <1>2, <1>3, <1>10, <1>12, <2>1
    <2>3. ASSUME NEW q \in 1..N + 1, GoesOn(u, q), (N + 1) - q < EscapeLimit
          PROVE  escape - 1 = EscapeLimit - ((N + 1) - q)
        <3>1. q \in 1..N /\ GoesOn(t, q)
            BY <1>7, <1>10, <1>12, <2>3
        <3>2. N - q < EscapeLimit
            BY <1>1, <1>3, <2>3, <3>1
        <3>3. escape = EscapeLimit - (N - q)
            BY <1>2, <3>1, <3>2
        <3> QED BY <1>1, <1>3, <3>1, <3>3
    <2> QED BY <1>1, <2>2, <2>3 DEF EscapeTells
<1> QED BY <1>6, <1>8, <1>9, <1>11, <1>12

\* What ends a line and what cuts it off.
LEMMA CutIs ==
    ASSUME NEW t, NEW b, NEW u, Appended(t, b, u)
    PROVE  /\ Len(t) + 1 \in Ends(u) <=> b = "CR" \/ (b = "LF" /\ ~AfterReturn(t))
           /\ Len(t) + 1 \in Cuts(u) <=> b \in {"CR", "INT"} \/ (b = "LF" /\ ~AfterReturn(t))
           /\ Ends(u) \subseteq 1..Len(t) + 1 /\ Ends(t) \subseteq 1..Len(t)
           /\ AfterReturn(u) <=> b = "CR"
<1> DEFINE N == Len(t)
<1>1. N \in Nat /\ Len(u) = N + 1 /\ u[N + 1] = b /\ DOMAIN u = 1..N + 1 /\ DOMAIN t = 1..N
    BY PrefixStands
<1>4. Stands(t, u, N)
    BY PrefixStands
<1> HIDE DEF N
<1>2. Paired(u, N + 1) <=> b = "LF" /\ N >= 1 /\ t[N] = "CR"
    <2>1. (N + 1) - 1 = N /\ (N + 1 > 1 <=> N >= 1) /\ (N >= 1 => u[N] = t[N])
        BY <1>1, <1>4 DEF Stands
    <2> QED BY <1>1, <2>1 DEF Paired
<1>3. N + 1 \in 1..N + 1 /\ N + 1 >= 1
    BY <1>1
<1> QED BY <1>1, <1>2, <1>3 DEF Ends, Cuts, AfterReturn, N

LEMMA FilledNext ==
    ASSUME NEW t, NEW b, NEW u, Appended(t, b, u)
    PROVE  /\ Filled(t) \subseteq 1..Len(t)
           /\ \A e \in 1..Len(t) + 1 : Left(u, e - 1) = Left(t, e - 1) /\ Left(t, e - 1) \subseteq 1..Len(t)
           /\ Len(t) + 1 \in Ends(u) /\ Left(t, Len(t)) # {} => Filled(u) = Filled(t) \cup {Len(t) + 1}
           /\ Len(t) + 1 \notin Ends(u) \/ Left(t, Len(t)) = {} => Filled(u) = Filled(t)
<1> DEFINE N == Len(t)
<1>1. /\ N \in Nat /\ Stands(t, u, N) /\ Ends(u) \subseteq 1..N + 1 /\ Ends(t) \subseteq 1..N
    BY PrefixStands, CutIs
<1> HIDE DEF N
<1>2. ASSUME NEW e \in 1..N + 1 PROVE Left(u, e - 1) = Left(t, e - 1) /\ Left(t, e - 1) \subseteq 1..N
    <2>1. e - 1 \in 0..N
        BY <1>1
    <2>2. Left(u, e - 1) = Left(t, e - 1)
        BY <1>1, <2>1, LeftStands
    <2>3. Left(t, e - 1) \subseteq 1..(e - 1)
        BY DEF Left, Printed
    <2> QED BY <1>1, <2>1, <2>2, <2>3
<1>3. ASSUME NEW e \in 1..N PROVE e \in Filled(u) <=> e \in Filled(t)
    <2>1. e \in 1..N + 1 /\ (e \in Ends(u) <=> e \in Ends(t))
        BY <1>1 DEF Stands
    <2> QED BY <1>2, <2>1 DEF Filled
<1>4. N + 1 \in Filled(u) <=> N + 1 \in Ends(u) /\ Left(t, N) # {}
    <2>1. N + 1 \in 1..N + 1 /\ (N + 1) - 1 = N
        BY <1>1
    <2> QED BY <1>2, <2>1 DEF Filled
<1>5. Filled(u) \subseteq 1..N + 1 /\ Filled(t) \subseteq 1..N
    BY <1>1 DEF Filled
<1>6. 1..N + 1 = (1..N) \cup {N + 1}
    BY <1>1
<1> QED BY <1>2, <1>3, <1>4, <1>5, <1>6 DEF N

LinesSpelt(ls, t) ==
    /\ Len(ls) = Cardinality(Filled(t))
    /\ \A e \in Filled(t) : Spells(ls[Rank(Filled(t), e)], t, Left(t, e - 1))

\* A byte that ends nothing leaves the lines; one that does adds the buffer.
LEMMA LinesNext ==
    ASSUME NEW t, NEW b, NEW u, Appended(t, b, u),
           NEW ls \in Seq(Seq(Bytes)), NEW buffer \in Seq(Bytes),
           Spells(buffer, t, Left(t, Len(t))), LinesSpelt(ls, t)
    PROVE  /\ Len(t) + 1 \in Ends(u) /\ buffer # <<>> => LinesSpelt(Append(ls, buffer), u)
           /\ Len(t) + 1 \notin Ends(u) \/ buffer = <<>> => LinesSpelt(ls, u)
<1> DEFINE N == Len(t)
           F == Filled(t)
           new == Append(ls, buffer)
<1>1. N \in Nat /\ Stands(t, u, N)
    BY PrefixStands
<1>2. /\ F \subseteq 1..N
      /\ \A e \in 1..N + 1 : Left(u, e - 1) = Left(t, e - 1) /\ Left(t, e - 1) \subseteq 1..N
      /\ N + 1 \in Ends(u) /\ Left(t, N) # {} => Filled(u) = F \cup {N + 1}
      /\ N + 1 \notin Ends(u) \/ Left(t, N) = {} => Filled(u) = F
    BY FilledNext
<1>3. buffer = <<>> <=> Left(t, N) = {}
    <2>1. Left(t, N) \subseteq 1..N
        BY DEF Left, Printed
    <2> QED BY <1>1, <2>1, SpellsNone
<1>4. Len(ls) = Cardinality(F) /\ \A e \in F : Spells(ls[Rank(F, e)], t, Left(t, e - 1))
    BY DEF LinesSpelt
<1>5. Cardinality(F) \in Nat
    BY <1>1, <1>2, RankFacts
<1>6. Len(new) = Len(ls) + 1 /\ new[Len(ls) + 1] = buffer /\ \A k \in 1..Len(ls) : new[k] = ls[k]
    BY AppendProperties
<1>7. Spells(buffer, t, Left(t, N))
    OBVIOUS
<1> HIDE DEF N, F, new
<1>8. ASSUME NEW e \in F PROVE Spells(ls[Rank(F, e)], u, Left(u, e - 1)) /\ Rank(F, e) \in 1..Len(ls)
    <2>3. e \in 1..N + 1
        BY <1>1, <1>2
    <2>4. Rank(F, e) \in 1..Cardinality(F)
        BY <1>1, <1>2, RankFacts
    <2>1. e \in 1..N + 1 /\ Rank(F, e) \in 1..Len(ls)
        BY <1>4, <2>3, <2>4
    <2>2. Spells(ls[Rank(F, e)], t, Left(t, e - 1)) /\ Left(t, e - 1) \subseteq 1..N /\ Left(u, e - 1) = Left(t, e - 1)
        BY <1>2, <1>4, <2>1
    <2> QED BY <1>1, <2>1, <2>2, SpellsStands
<1>9. ASSUME Filled(u) = F PROVE LinesSpelt(ls, u)
    BY <1>4, <1>8, <1>9 DEF LinesSpelt
<1>10. ASSUME Filled(u) = F \cup {N + 1} PROVE LinesSpelt(new, u)
    <2>1. /\ \A i \in 1..N : Rank(F \cup {N + 1}, i) = Rank(F, i)
          /\ Rank(F \cup {N + 1}, N + 1) = Cardinality(F) + 1
          /\ Cardinality(F \cup {N + 1}) = Cardinality(F) + 1
        BY <1>1, <1>2, RankFacts
    <2>2. Len(new) = Cardinality(Filled(u))
        BY <1>4, <1>6, <1>10, <2>1
    <2>3. ASSUME NEW e \in F PROVE Spells(new[Rank(Filled(u), e)], u, Left(u, e - 1))
        <3>1. Rank(Filled(u), e) = Rank(F, e) /\ new[Rank(F, e)] = ls[Rank(F, e)]
            BY <1>2, <1>6, <1>8, <1>10, <2>1
        <3> QED BY <1>8, <3>1
    <2>4. Spells(new[Rank(Filled(u), N + 1)], u, Left(u, (N + 1) - 1))
        <3>1. N + 1 \in 1..N + 1 /\ (N + 1) - 1 = N
            BY <1>1
        <3>2. Left(u, N) = Left(t, N) /\ Left(t, N) \subseteq 1..N
            BY <1>2, <3>1
        <3>3. new[Rank(Filled(u), N + 1)] = buffer
            BY <1>4, <1>6, <1>10, <2>1
        <3>4. Spells(buffer, u, Left(t, N))
            BY <1>1, <1>7, <3>2, SpellsStands
        <3> QED BY <3>1, <3>2, <3>3, <3>4
    <2> QED BY <1>10, <2>2, <2>3, <2>4 DEF LinesSpelt
<1> QED BY <1>2, <1>3, <1>9, <1>10 DEF N, new

Editors == [buffer : Seq(Bytes), lf : BOOLEAN, escape : Nat]
Editor(buffer, lf, escape) == [buffer |-> buffer, lf |-> lf, escape |-> escape]
Ended(ls, buffer) == IF buffer = <<>> THEN ls ELSE Append(ls, buffer)
Escaping(b, escape) == IF b \in Letters THEN 0 ELSE escape - 1

LEMMA EditorIs ==
    ASSUME NEW buffer, NEW lf, NEW escape
    PROVE  /\ Editor(buffer, lf, escape).buffer = buffer
           /\ Editor(buffer, lf, escape).escape = escape
           /\ buffer \in Seq(Bytes) /\ lf \in BOOLEAN /\ escape \in Nat => Editor(buffer, lf, escape) \in Editors
BY DEF Editor, Editors

LEMMA WithFlag ==
    ASSUME NEW e \in Editors, NEW y PROVE [e EXCEPT !.lf = y] = Editor(e.buffer, y, e.escape)
BY DEF Editors, Editor

LEMMA WithEscape ==
    ASSUME NEW e \in Editors, NEW x PROVE [e EXCEPT !.escape = x] = Editor(e.buffer, e.lf, x)
BY DEF Editors, Editor

LEMMA WithBuffer ==
    ASSUME NEW e \in Editors, NEW x PROVE [e EXCEPT !.buffer = x] = Editor(x, e.lf, e.escape)
BY DEF Editors, Editor

LEMMA WithBoth ==
    ASSUME NEW e \in Editors, NEW y, NEW x
    PROVE  [e EXCEPT !.lf = y, !.escape = x] = Editor(e.buffer, y, x)
<1> DEFINE f == [e EXCEPT !.lf = y]
<1>1. [e EXCEPT !.lf = y, !.escape = x] = [f EXCEPT !.escape = x]
    OBVIOUS
<1>2. f = Editor(e.buffer, y, e.escape)
    BY WithFlag, Zenon
<1> HIDE DEF f
<1> QED BY <1>1, <1>2 DEF Editor

EditorTells(e, ls, t) ==
    /\ e.lf <=> AfterReturn(t)
    /\ EscapeTells(e.escape, t)
    /\ Counted(t)
    /\ Spells(e.buffer, t, Left(t, Len(t)))
    /\ LinesSpelt(ls, t)

LEMMA ByteTells ==
    ASSUME NEW t, NEW b, NEW u, Appended(t, b, u),
           NEW e \in Editors, NEW ls \in Seq(Seq(Bytes)), EditorTells(e, ls, t)
    PROVE  /\ b = "CR" => EditorTells(Editor(<<>>, TRUE, 0), Ended(ls, e.buffer), u)
           /\ b = "LF" /\ ~e.lf =>
                EditorTells(Editor(<<>>, FALSE, 0), Ended(ls, e.buffer), u)
           /\ b = "LF" /\ e.lf => EditorTells(Editor(e.buffer, FALSE, e.escape), ls, u)
           /\ b = "INT" => EditorTells(Editor(<<>>, FALSE, 0), ls, u)
           /\ b = "DEL" => EditorTells(Editor(Erased(e.buffer), FALSE, 0), ls, u)
           /\ b = "ESC" => EditorTells(Editor(e.buffer, FALSE, EscapeLimit), ls, u)
           /\ b \notin Controls /\ e.escape = 0 => EditorTells(Editor(Append(e.buffer, b), FALSE, 0), ls, u)
           /\ b \notin Controls /\ e.escape # 0 =>
                EditorTells(Editor(e.buffer, FALSE, Escaping(b, e.escape)), ls, u)
<1> DEFINE N == Len(t)
           L == Left(t, N)
           R == Left(u, N + 1)
           E == N + 1 \in Ends(u)
           C == N + 1 \in Cuts(u)
<1>1. N \in Nat /\ Len(u) = N + 1 /\ u[N + 1] = b
    BY PrefixStands
<1>2. Stands(t, u, N)
    BY PrefixStands
<1>3. (e.lf <=> AfterReturn(t)) /\ EscapeTells(e.escape, t) /\ Counted(t)
    BY DEF EditorTells
<1>4. Spells(e.buffer, t, L) /\ LinesSpelt(ls, t) /\ e.buffer \in Seq(Bytes)
    BY DEF EditorTells, Editors
<1>5. L \subseteq 1..N
    BY DEF Left, Printed
<1>6. /\ E <=> b = "CR" \/ (b = "LF" /\ ~e.lf)
      /\ C <=> b \in {"CR", "INT"} \/ (b = "LF" /\ ~e.lf)
      /\ AfterReturn(u) <=> b = "CR"
    BY <1>3, CutIs
<1>7. Prints(u, N + 1) <=> b \notin Controls /\ e.escape = 0
    BY <1>3, SwallowedIs
<1>8. /\ Counted(u)
      /\ C => R = {}
      /\ ~C /\ Prints(u, N + 1) => R = L \cup {N + 1}
      /\ ~C /\ b # "DEL" /\ ~Prints(u, N + 1) => R = L
      /\ ~C /\ b = "DEL" =>
            IF L = {} THEN R = {} ELSE \A m \in L : (\A j \in L : j <= m) => R = L \ {m}
    BY <1>3, CountedNext
<1>9. /\ b \in (Controls \ {"ESC"}) \cup Letters => EscapeTells(0, u)
      /\ b = "ESC" => EscapeTells(EscapeLimit, u)
      /\ b \in Blanks /\ e.escape = 0 => EscapeTells(0, u)
      /\ b \in Blanks /\ e.escape # 0 => EscapeTells(e.escape - 1, u)
      /\ AfterReturn(t) => e.escape = 0
    BY <1>3, EscapeNext
<1>10. /\ E /\ e.buffer # <<>> => LinesSpelt(Append(ls, e.buffer), u)
       /\ ~E \/ e.buffer = <<>> => LinesSpelt(ls, u)
    BY <1>4, LinesNext
<1>11. e.buffer = <<>> <=> L = {}
    BY <1>1, <1>4, <1>5, SpellsNone
<1>12. Spells(<<>>, u, {})
    BY SpellsNone
<1>13. Spells(e.buffer, u, L)
    <2> HIDE DEF N, L
    <2> QED BY <1>1, <1>2, <1>4, <1>5, SpellsStands
<1>17. b \in Bytes /\ (b \in Controls \/ b \in Letters \/ b \in Blanks)
    BY DEF Bytes, Appended
<1>14. Spells(Append(e.buffer, b), u, L \cup {N + 1})
    <2> HIDE DEF N, L
    <2> QED BY <1>1, <1>2, <1>4, <1>5, <1>17, SpellsMore
<1>15. ASSUME NEW m \in L, \A j \in L : j <= m PROVE Spells(SubSeq(e.buffer, 1, Len(e.buffer) - 1), u, L \ {m})
    <2>1. L \ {m} \subseteq 1..N
        BY <1>5
    <2> HIDE DEF N, L
    <2>2. Spells(SubSeq(e.buffer, 1, Len(e.buffer) - 1), t, L \ {m})
        BY <1>1, <1>4, <1>5, <1>15, SpellsLess
    <2> QED BY <1>1, <1>2, <2>1, <2>2, SpellsStands
<1>16. L # {} => \E m \in L : \A j \in L : j <= m
    BY <1>1, <1>5, Greatest
<1>18. /\ Letters \cap Blanks = {} /\ Controls \cap Letters = {} /\ Controls \cap Blanks = {}
       /\ Controls = {"CR", "LF", "INT", "DEL", "ESC"}
    BY TerminalAssumption DEF Controls
<1>19. ASSUME NEW buf, NEW esc, NEW nls,
              b # "CR", EscapeTells(esc, u), Spells(buf, u, R), LinesSpelt(nls, u)
       PROVE  EditorTells(Editor(buf, FALSE, esc), nls, u)
    <2> DEFINE d == Editor(buf, FALSE, esc)
    <2>1. ~d.lf /\ d.buffer = buf /\ d.escape = esc
        BY DEF Editor
    <2> HIDE DEF d
    <2>2. EditorTells(d, nls, u)
        BY <1>1, <1>6, <1>8, <1>19, <2>1 DEF EditorTells
    <2> QED BY <2>2 DEF d
<1>27. ASSUME NEW buf, NEW esc, NEW nls,
              b = "CR", EscapeTells(esc, u), Spells(buf, u, R), LinesSpelt(nls, u)
       PROVE  EditorTells(Editor(buf, TRUE, esc), nls, u)
    <2> DEFINE d == Editor(buf, TRUE, esc)
    <2>1. d.lf /\ d.buffer = buf /\ d.escape = esc
        BY DEF Editor
    <2> HIDE DEF d
    <2>2. EditorTells(d, nls, u)
        BY <1>1, <1>6, <1>8, <1>27, <2>1 DEF EditorTells
    <2> QED BY <2>2 DEF d
<1> HIDE DEF N, L, R, E, C
<1>20. ASSUME b = "CR" \/ (b = "LF" /\ ~e.lf)
       PROVE  /\ b = "CR" => EditorTells(Editor(<<>>, TRUE, 0), Ended(ls, e.buffer), u)
              /\ b = "LF" => EditorTells(Editor(<<>>, FALSE, 0), Ended(ls, e.buffer), u)
    <2>1. EscapeTells(0, u) /\ R = {}
        BY <1>6, <1>8, <1>9, <1>18, <1>20
    <2>2. LinesSpelt(Ended(ls, e.buffer), u)
        BY <1>6, <1>10, <1>20 DEF Ended
    <2> QED BY <1>12, <1>19, <1>20, <1>27, <2>1, <2>2
<1>21. ASSUME b = "LF", e.lf PROVE EditorTells(Editor(e.buffer, FALSE, e.escape), ls, u)
    <2>1. EscapeTells(e.escape, u) /\ R = L /\ LinesSpelt(ls, u) /\ b # "CR"
        BY <1>3, <1>6, <1>7, <1>8, <1>9, <1>10, <1>18, <1>21
    <2> QED BY <1>13, <1>19, <2>1
<1>22. ASSUME b = "INT" PROVE EditorTells(Editor(<<>>, FALSE, 0), ls, u)
    <2>1. EscapeTells(0, u) /\ R = {} /\ LinesSpelt(ls, u) /\ b # "CR"
        BY <1>6, <1>8, <1>9, <1>10, <1>18, <1>22
    <2> QED BY <1>12, <1>19, <2>1
<1>23. ASSUME b = "DEL" PROVE EditorTells(Editor(Erased(e.buffer), FALSE, 0), ls, u)
    <2>1. EscapeTells(0, u) /\ LinesSpelt(ls, u) /\ b # "CR" /\ ~C
        BY <1>6, <1>9, <1>10, <1>18, <1>23
    <2>2. Spells(Erased(e.buffer), u, R)
        <3>1. CASE L = {}
            BY <1>8, <1>11, <1>12, <1>23, <2>1, <3>1 DEF Erased
        <3>2. CASE L # {}
            <4>1. PICK m \in L : \A j \in L : j <= m
                BY <1>16, <3>2
            <4>2. R = L \ {m}
                BY <1>8, <1>23, <2>1, <3>2, <4>1
            <4> QED BY <1>11, <1>15, <3>2, <4>1, <4>2 DEF Erased
        <3> QED BY <3>1, <3>2
    <2> QED BY <1>19, <2>1, <2>2
<1>24. ASSUME b = "ESC" PROVE EditorTells(Editor(e.buffer, FALSE, EscapeLimit), ls, u)
    <2>1. EscapeTells(EscapeLimit, u) /\ R = L /\ LinesSpelt(ls, u) /\ b # "CR"
        BY <1>6, <1>7, <1>8, <1>9, <1>10, <1>18, <1>24
    <2> QED BY <1>13, <1>19, <2>1
<1>25. ASSUME b \notin Controls, e.escape = 0 PROVE EditorTells(Editor(Append(e.buffer, b), FALSE, 0), ls, u)
    <2>1. EscapeTells(0, u) /\ R = L \cup {N + 1} /\ LinesSpelt(ls, u) /\ b # "CR"
        BY <1>6, <1>7, <1>8, <1>9, <1>10, <1>17, <1>18, <1>25
    <2> QED BY <1>14, <1>19, <2>1
<1>26. ASSUME b \notin Controls, e.escape # 0
       PROVE  EditorTells(Editor(e.buffer, FALSE, Escaping(b, e.escape)), ls, u)
    <2>1. R = L /\ LinesSpelt(ls, u) /\ b # "CR"
        BY <1>6, <1>7, <1>8, <1>10, <1>18, <1>26
    <2>2. EscapeTells(Escaping(b, e.escape), u)
        BY <1>9, <1>17, <1>18, <1>26 DEF Escaping
    <2> QED BY <1>13, <1>19, <2>1, <2>2
<1> QED BY <1>20, <1>21, <1>22, <1>23, <1>24, <1>25, <1>26

-----------------------------------------------------------------------------
(* The operations on the state of a connection *)

Parts == {"editor", "gate", "typed", "lines", "rated", "closed"}

EditorKeeps(s) ==
    /\ DOMAIN s = Parts
    /\ s.editor \in Editors /\ s.typed \in Seq(Bytes) /\ s.lines \in Seq(Seq(Bytes))
    /\ EditorTells(s.editor, s.lines, s.typed)

\* What a line is does not come back to the editor.
LEMMA RunLeavesEditor ==
    ASSUME NEW s, DOMAIN s = Parts, NEW line
    PROVE  /\ DOMAIN Run(s, line) = Parts
           /\ Run(s, line).editor = s.editor
           /\ Run(s, line).typed = s.typed /\ Run(s, line).lines = s.lines
<1>1. /\ DOMAIN Rated(s, line) = Parts
      /\ Rated(s, line).editor = s.editor
      /\ Rated(s, line).typed = s.typed /\ Rated(s, line).lines = s.lines
    BY DEF Rated, Parts
<1>2. CASE line = <<>>
    BY <1>2 DEF Run
<1>3. CASE Closes(line)
    <2>1. Run(s, line) = [s EXCEPT !.closed = TRUE]
        BY <1>3 DEF Run, Closes
    <2> QED BY <2>1 DEF Parts
<1>4. CASE line # <<>> /\ ~Closes(line) /\ s.gate.secret # "none"
    <2>1. Run(s, line) = [s EXCEPT !.gate.secret = "none"]
        BY <1>4 DEF Run
    <2> QED BY <2>1 DEF Parts
<1>5. CASE line # <<>> /\ ~Closes(line) /\ s.gate.secret = "none"
    <2>1. Run(s, line) = Rated(s, line)
        BY <1>5 DEF Run
    <2> QED BY <1>1, <2>1
<1> QED BY <1>2, <1>3, <1>4, <1>5

\* What an operation makes of the editor, the bytes being those it has seen.
Edited(s, r, e, ls) == DOMAIN r = Parts /\ r.typed = s.typed /\ r.editor = e /\ r.lines = ls

LEMMA SubmitIs ==
    ASSUME NEW s, DOMAIN s = Parts, s.editor \in Editors
    PROVE  Edited(s, SubmitLine(s), Editor(<<>>, s.editor.lf, s.editor.escape), Ended(s.lines, s.editor.buffer))
<1>1. CASE s.editor.buffer = <<>>
    <2>1. SubmitLine(s) = s /\ Ended(s.lines, s.editor.buffer) = s.lines
        BY <1>1 DEF SubmitLine, Ended
    <2>2. s.editor = Editor(<<>>, s.editor.lf, s.editor.escape)
        BY <1>1 DEF Editors, Editor
    <2> QED BY <2>1, <2>2 DEF Edited
<1>2. CASE s.editor.buffer # <<>>
    <2> DEFINE v == [s EXCEPT !.editor.buffer = <<>>, !.lines = Append(@, s.editor.buffer)]
    <2>1. DOMAIN v = Parts /\ v.typed = s.typed /\ v.lines = Ended(s.lines, s.editor.buffer)
        BY <1>2 DEF Parts, Ended
    <2>2. v.editor = [s.editor EXCEPT !.buffer = <<>>]
        BY DEF Parts
    <2>3. v.editor = Editor(<<>>, s.editor.lf, s.editor.escape)
        BY <2>2, WithBuffer, Zenon
    <2>4. SubmitLine(s) = Run(v, Trim(s.editor.buffer))
        BY <1>2 DEF SubmitLine
    <2> HIDE DEF v
    <2> QED BY <2>1, <2>3, <2>4, RunLeavesEditor DEF Edited
<1> QED BY <1>1, <1>2

LEMMA EditIs ==
    ASSUME NEW s, DOMAIN s = Parts, NEW e \in Editors, s.editor = e, NEW b \in Bytes
    PROVE  /\ b = "CR" => Edited(s, Edit(s, b), Editor(<<>>, TRUE, 0), Ended(s.lines, e.buffer))
           /\ b = "LF" /\ ~e.lf => Edited(s, Edit(s, b), Editor(<<>>, FALSE, 0), Ended(s.lines, e.buffer))
           /\ b = "LF" /\ e.lf => Edited(s, Edit(s, b), Editor(e.buffer, FALSE, e.escape), s.lines)
           /\ b = "INT" => Edited(s, Edit(s, b), Editor(<<>>, FALSE, 0), s.lines)
           /\ b = "DEL" => Edited(s, Edit(s, b), Editor(Erased(e.buffer), FALSE, 0), s.lines)
           /\ b = "ESC" => Edited(s, Edit(s, b), Editor(e.buffer, FALSE, EscapeLimit), s.lines)
           /\ b \notin Controls /\ e.escape = 0 =>
                Edited(s, Edit(s, b), Editor(Append(e.buffer, b), FALSE, 0), s.lines)
           /\ b \notin Controls /\ e.escape # 0 =>
                Edited(s, Edit(s, b), Editor(e.buffer, FALSE, Escaping(b, e.escape)), s.lines)
<1>1. ASSUME NEW w, DOMAIN w = Parts, w.typed = s.typed, w.lines = s.lines, NEW lf \in BOOLEAN,
             w.editor = Editor(e.buffer, lf, 0)
      PROVE  Edited(s, SubmitLine(w), Editor(<<>>, lf, 0), Ended(s.lines, e.buffer))
    <2>1. e.buffer \in Seq(Bytes)
        BY DEF Editors
    <2>2. w.editor \in Editors /\ w.editor.buffer = e.buffer /\ w.editor.escape = 0 /\ w.editor.lf = lf
        BY <1>1, <2>1 DEF Editors, Editor
    <2>3. Edited(w, SubmitLine(w), Editor(<<>>, w.editor.lf, w.editor.escape), Ended(w.lines, w.editor.buffer))
        BY <1>1, <2>2, SubmitIs
    <2> QED BY <1>1, <2>2, <2>3 DEF Edited
<1>2. ASSUME b = "CR"
      PROVE  Edited(s, Edit(s, b), Editor(<<>>, TRUE, 0), Ended(s.lines, e.buffer))
    <2> DEFINE w == [s EXCEPT !.editor.lf = TRUE, !.editor.escape = 0]
    <2>1. DOMAIN w = Parts /\ w.typed = s.typed /\ w.lines = s.lines
        BY DEF Parts
    <2>2. w.editor = [e EXCEPT !.lf = TRUE, !.escape = 0]
        BY DEF Parts
    <2>3. w.editor = Editor(e.buffer, TRUE, 0)
        BY <2>2, WithBoth, Zenon
    <2>4. Edit(s, b) = SubmitLine(w)
        BY <1>2 DEF Edit
    <2> HIDE DEF w
    <2> QED BY <1>1, <2>1, <2>3, <2>4
<1>3. ASSUME b = "LF", ~e.lf
      PROVE  Edited(s, Edit(s, b), Editor(<<>>, FALSE, 0), Ended(s.lines, e.buffer))
    <2> DEFINE w == [s EXCEPT !.editor.escape = 0]
    <2>1. DOMAIN w = Parts /\ w.typed = s.typed /\ w.lines = s.lines
        BY DEF Parts
    <2>2. w.editor = [e EXCEPT !.escape = 0] /\ e.lf = FALSE
        BY <1>3 DEF Parts, Editors
    <2>5. [e EXCEPT !.escape = 0] = Editor(e.buffer, e.lf, 0)
        BY WithEscape, Zenon
    <2>3. w.editor = Editor(e.buffer, FALSE, 0)
        BY <2>2, <2>5
    <2>4. Edit(s, b) = SubmitLine(w)
        BY <1>3 DEF Edit, OnLineFeed
    <2> HIDE DEF w
    <2> QED BY <1>1, <2>1, <2>3, <2>4
<1>4. ASSUME b = "LF", e.lf
      PROVE  Edited(s, Edit(s, b), Editor(e.buffer, FALSE, e.escape), s.lines)
    <2>1. Edit(s, b) = [s EXCEPT !.editor.lf = FALSE]
        BY <1>4 DEF Edit, OnLineFeed
    <2>2. Edit(s, b).editor = [e EXCEPT !.lf = FALSE]
        BY <2>1 DEF Parts
    <2>3. Edit(s, b).editor = Editor(e.buffer, FALSE, e.escape)
        BY <2>2, WithFlag, Zenon
    <2> QED BY <2>1, <2>3 DEF Edited, Parts
<1>5. ASSUME b = "INT" PROVE Edited(s, Edit(s, b), Editor(<<>>, FALSE, 0), s.lines)
    <2>1. Edit(s, b) = [s EXCEPT !.editor = Editor(<<>>, FALSE, 0)]
        BY <1>5 DEF Edit, Editor
    <2> QED BY <2>1 DEF Edited, Parts
<1>6. ASSUME b = "DEL" PROVE Edited(s, Edit(s, b), Editor(Erased(e.buffer), FALSE, 0), s.lines)
    <2>1. Edit(s, b) = [s EXCEPT !.editor = Editor(Erased(e.buffer), FALSE, 0)]
        BY <1>6 DEF Edit, Editor
    <2> QED BY <2>1 DEF Edited, Parts
<1>7. ASSUME b = "ESC" PROVE Edited(s, Edit(s, b), Editor(e.buffer, FALSE, EscapeLimit), s.lines)
    <2>1. Edit(s, b) = [s EXCEPT !.editor = [e EXCEPT !.lf = FALSE, !.escape = EscapeLimit]]
        BY <1>7 DEF Edit
    <2>2. [e EXCEPT !.lf = FALSE, !.escape = EscapeLimit] = Editor(e.buffer, FALSE, EscapeLimit)
        BY WithBoth, Zenon
    <2> QED BY <2>1, <2>2 DEF Edited, Parts
<1>8. ASSUME b \notin Controls
      PROVE  /\ e.escape = 0 => Edited(s, Edit(s, b), Editor(Append(e.buffer, b), FALSE, 0), s.lines)
             /\ e.escape # 0 => Edited(s, Edit(s, b), Editor(e.buffer, FALSE, Escaping(b, e.escape)), s.lines)
    <2> DEFINE f == [e EXCEPT !.lf = FALSE]
    <2>1. Edit(s, b) = OnOrdinary(s, b)
        BY <1>8 DEF Edit, Controls
    <2>3. f.buffer = e.buffer /\ f.escape = e.escape /\ f.lf = FALSE /\ f \in Editors
        BY DEF Editors
    <2>4. Edit(s, b) =
            IF f.escape = 0 THEN [s EXCEPT !.editor = [f EXCEPT !.buffer = Append(f.buffer, b)]]
            ELSE [s EXCEPT !.editor = [f EXCEPT !.escape = Escaping(b, f.escape)]]
        BY <2>1 DEF OnOrdinary, Escaping
    <2> HIDE DEF f
    <2>5. [f EXCEPT !.buffer = Append(e.buffer, b)] = Editor(Append(e.buffer, b), FALSE, e.escape)
        <3>1. [f EXCEPT !.buffer = Append(e.buffer, b)] = Editor(Append(e.buffer, b), f.lf, f.escape)
            BY <2>3, WithBuffer, Zenon
        <3> QED BY <2>3, <3>1
    <2>6. [f EXCEPT !.escape = Escaping(b, e.escape)] = Editor(e.buffer, FALSE, Escaping(b, e.escape))
        <3>1. [f EXCEPT !.escape = Escaping(b, e.escape)] = Editor(f.buffer, f.lf, Escaping(b, e.escape))
            BY <2>3, WithEscape, Zenon
        <3> QED BY <2>3, <3>1
    <2>7. ASSUME e.escape = 0 PROVE Edit(s, b) = [s EXCEPT !.editor = Editor(Append(e.buffer, b), FALSE, 0)]
        BY <2>3, <2>4, <2>5, <2>7
    <2>8. ASSUME e.escape # 0
          PROVE  Edit(s, b) = [s EXCEPT !.editor = Editor(e.buffer, FALSE, Escaping(b, e.escape))]
        BY <2>3, <2>4, <2>6, <2>8
    <2> QED BY <2>7, <2>8 DEF Edited, Parts
<1> QED BY <1>2, <1>3, <1>4, <1>5, <1>6, <1>7, <1>8

LEMMA ErasedTyped ==
    ASSUME NEW T, NEW buffer \in Seq(T) PROVE Erased(buffer) \in Seq(T)
<1>1. CASE buffer = <<>>
    BY <1>1 DEF Erased
<1>2. CASE buffer # <<>>
    <2>1. Len(buffer) \in Nat /\ \A i \in 1..(Len(buffer) - 1) : buffer[i] \in T
        BY LenProperties
    <2>2. SubSeq(buffer, 1, Len(buffer) - 1) \in Seq(T)
        BY <2>1, SubSeqProperties
    <2> QED BY <1>2, <2>2 DEF Erased
<1> QED BY <1>1, <1>2

LEMMA ByteKeeps ==
    ASSUME NEW s, EditorKeeps(s), NEW b \in Bytes
    PROVE  EditorKeeps(Byte(s, b))
<1>1. SUFFICES ASSUME ~s.closed PROVE EditorKeeps(Byte(s, b))
    BY DEF Byte
<1> DEFINE t == s.typed
           u == Append(t, b)
           e == s.editor
           v == [s EXCEPT !.typed = Append(@, b)]
           r == Edit(v, b)
<1>2. /\ DOMAIN s = Parts /\ e \in Editors /\ t \in Seq(Bytes) /\ s.lines \in Seq(Seq(Bytes))
      /\ EditorTells(e, s.lines, t)
    BY DEF EditorKeeps
<1>3. e.buffer \in Seq(Bytes) /\ e.lf \in BOOLEAN /\ e.escape \in Nat
    BY <1>2 DEF Editors
<1>4. DOMAIN v = Parts /\ v.typed = u /\ v.editor = e /\ v.lines = s.lines
    BY <1>2 DEF Parts
<1>5. Byte(s, b) = r
    BY <1>1 DEF Byte
<1>6. u \in Seq(Bytes) /\ Appended(t, b, u)
    BY <1>2, AppendProperties DEF Appended
<1>7. Ended(s.lines, e.buffer) \in Seq(Seq(Bytes))
    BY <1>2, <1>3, AppendProperties DEF Ended
<1>8. <<>> \in Seq(Bytes) /\ Erased(e.buffer) \in Seq(Bytes) /\ Append(e.buffer, b) \in Seq(Bytes)
    BY <1>3, EmptySeq, ErasedTyped, AppendProperties
<1>9. EscapeLimit \in Nat /\ 0 \in Nat
    BY TerminalAssumption
<1> HIDE DEF r, u, v, t, e
<1>10. ASSUME NEW buffer \in Seq(Bytes), NEW escape \in Nat, NEW ls \in Seq(Seq(Bytes)),
              Edited(v, r, Editor(buffer, FALSE, escape), ls), EditorTells(Editor(buffer, FALSE, escape), ls, u)
       PROVE  EditorKeeps(Byte(s, b))
    <2>1. Editor(buffer, FALSE, escape) \in Editors
        BY DEF Editor, Editors
    <2> QED BY <1>4, <1>5, <1>6, <1>10, <2>1 DEF EditorKeeps, Edited
<1>11. CASE b = "CR"
    <2>1. Editor(<<>>, TRUE, 0) \in Editors
        BY <1>8 DEF Editor, Editors
    <2>2. Edited(v, r, Editor(<<>>, TRUE, 0), Ended(s.lines, e.buffer))
        BY <1>2, <1>4, <1>11, EditIs DEF r
    <2>3. EditorTells(Editor(<<>>, TRUE, 0), Ended(s.lines, e.buffer), u)
        BY <1>2, <1>6, <1>11, ByteTells
    <2> QED BY <1>4, <1>5, <1>6, <1>7, <2>1, <2>2, <2>3 DEF EditorKeeps, Edited
<1>12. CASE b = "LF" /\ ~e.lf
    <2>1. Edited(v, r, Editor(<<>>, FALSE, 0), Ended(s.lines, e.buffer))
        BY <1>2, <1>4, <1>12, EditIs DEF r
    <2>2. EditorTells(Editor(<<>>, FALSE, 0), Ended(s.lines, e.buffer), u)
        BY <1>2, <1>6, <1>12, ByteTells
    <2> QED BY <1>7, <1>8, <1>9, <1>10, <2>1, <2>2
<1>13. CASE b = "LF" /\ e.lf
    <2>1. Edited(v, r, Editor(e.buffer, FALSE, e.escape), s.lines)
        BY <1>2, <1>4, <1>13, EditIs DEF r
    <2>2. EditorTells(Editor(e.buffer, FALSE, e.escape), s.lines, u)
        BY <1>2, <1>6, <1>13, ByteTells
    <2> QED BY <1>2, <1>3, <1>10, <2>1, <2>2
<1>14. CASE b = "INT"
    <2>1. Edited(v, r, Editor(<<>>, FALSE, 0), s.lines)
        BY <1>2, <1>4, <1>14, EditIs DEF r
    <2>2. EditorTells(Editor(<<>>, FALSE, 0), s.lines, u)
        BY <1>2, <1>6, <1>14, ByteTells
    <2> QED BY <1>2, <1>8, <1>9, <1>10, <2>1, <2>2
<1>15. CASE b = "DEL"
    <2>1. Edited(v, r, Editor(Erased(e.buffer), FALSE, 0), s.lines)
        BY <1>2, <1>4, <1>15, EditIs DEF r
    <2>2. EditorTells(Editor(Erased(e.buffer), FALSE, 0), s.lines, u)
        BY <1>2, <1>6, <1>15, ByteTells
    <2> QED BY <1>2, <1>8, <1>9, <1>10, <2>1, <2>2
<1>16. CASE b = "ESC"
    <2>1. Edited(v, r, Editor(e.buffer, FALSE, EscapeLimit), s.lines)
        BY <1>2, <1>4, <1>16, EditIs DEF r
    <2>2. EditorTells(Editor(e.buffer, FALSE, EscapeLimit), s.lines, u)
        BY <1>2, <1>6, <1>16, ByteTells
    <2> QED BY <1>2, <1>3, <1>9, <1>10, <2>1, <2>2
<1>17. CASE b \notin Controls /\ e.escape = 0
    <2>1. Edited(v, r, Editor(Append(e.buffer, b), FALSE, 0), s.lines)
        BY <1>2, <1>4, <1>17, EditIs DEF r
    <2>2. EditorTells(Editor(Append(e.buffer, b), FALSE, 0), s.lines, u)
        BY <1>2, <1>6, <1>17, ByteTells
    <2> QED BY <1>2, <1>8, <1>9, <1>10, <2>1, <2>2
<1>18. CASE b \notin Controls /\ e.escape # 0
    <2>1. Edited(v, r, Editor(e.buffer, FALSE, Escaping(b, e.escape)), s.lines)
        BY <1>2, <1>4, <1>18, EditIs DEF r
    <2>2. EditorTells(Editor(e.buffer, FALSE, Escaping(b, e.escape)), s.lines, u)
        BY <1>2, <1>6, <1>18, ByteTells
    <2>3. Escaping(b, e.escape) \in Nat
        BY <1>3, <1>18 DEF Escaping
    <2> QED BY <1>2, <1>3, <1>10, <2>1, <2>2, <2>3
<1>19. b \in Controls => b \in {"CR", "LF", "INT", "DEL", "ESC"}
    BY DEF Controls
<1> QED BY <1>11, <1>12, <1>13, <1>14, <1>15, <1>16, <1>17, <1>18, <1>19

-----------------------------------------------------------------------------
(* The packets *)

\* The connection after each of the first n bytes of a packet.
BytesTaken(packet, n, f) ==
    f = [k \in 0..n |-> IF k = 0 THEN Here ELSE Byte(f[k - 1], packet[k])]

LEMMA BytesTakenExists ==
    ASSUME NEW packet, NEW n \in Nat
    PROVE  \E f : BytesTaken(packet, n, f)
<1> DEFINE bad == {m \in Nat : ~ \E f : BytesTaken(packet, m, f)}
<1>1. SUFFICES ASSUME bad # {} PROVE FALSE
    OBVIOUS
<1>2. PICK m \in bad : \A k \in bad : m <= k
    <2>1. bad \subseteq Nat
        OBVIOUS
    <2> HIDE DEF bad
    <2> QED BY <1>1, <2>1, Least
<1>3. CASE m = 0
    <2> DEFINE f == [k \in 0..0 |-> Here]
    <2>1. f = [k \in 0..0 |-> IF k = 0 THEN Here ELSE Byte(f[k - 1], packet[k])]
        OBVIOUS
    <2> QED BY <1>3, <2>1 DEF BytesTaken
<1>4. CASE m # 0
    <2>1. m - 1 \in Nat /\ m - 1 \notin bad
        <3>1. m \in Nat
            OBVIOUS
        <3> HIDE DEF bad
        <3> QED BY <1>2, <1>4, <3>1
    <2>2. PICK g : BytesTaken(packet, m - 1, g)
        BY <2>1
    <2> DEFINE h == [k \in 0..m |-> IF k = m THEN Byte(g[m - 1], packet[m]) ELSE g[k]]
    <2>3. ASSUME NEW k \in 0..m
          PROVE  h[k] = IF k = 0 THEN Here ELSE Byte(h[k - 1], packet[k])
        <3>1. CASE k = m
            BY <1>4, <2>1, <3>1
        <3>2. CASE k # m
            <4>1. k \in 0..(m - 1) /\ h[k] = g[k] /\ (k # 0 => h[k - 1] = g[k - 1])
                BY <2>1, <3>2
            <4>2. g[k] = IF k = 0 THEN Here ELSE Byte(g[k - 1], packet[k])
                BY <2>2, <4>1 DEF BytesTaken
            <4> HIDE DEF h
            <4> QED BY <4>1, <4>2
        <3> QED BY <3>1, <3>2
    <2>4. h = [k \in 0..m |-> h[k]]
        OBVIOUS
    <2> HIDE DEF h
    <2> QED BY <2>3, <2>4 DEF BytesTaken
<1> QED BY <1>3, <1>4

LEMMA DataIs ==
    ASSUME NEW n \in 1..MaxPacket, NEW packet \in [1..n -> Bytes], NEW c, data(c, packet)
    PROVE  /\ now' = now
           /\ \E f : /\ f[0] = Here
                     /\ \A k \in 1..n : packet[k] \in Bytes /\ f[k] = Byte(f[k - 1], packet[k])
                     /\ Leaves(f[n])
<1>1. n \in Nat /\ Len(packet) = n
    BY TerminalAssumption
<1> DEFINE f == CHOOSE f : BytesTaken(packet, Len(packet), f)
<1>2. BytesTaken(packet, n, f)
    BY <1>1, BytesTakenExists, Zenon
<1>3. Leaves(f[n]) /\ now' = now
    BY <1>1 DEF data, BytesTaken
<1> HIDE DEF f
<1>4. f[0] = Here
    BY <1>1, <1>2 DEF BytesTaken
<1>5. ASSUME NEW k \in 1..n PROVE packet[k] \in Bytes /\ f[k] = Byte(f[k - 1], packet[k])
    <2>1. k \in 0..n /\ k # 0 /\ packet[k] \in Bytes
        BY <1>1
    <2> QED BY <1>2, <2>1 DEF BytesTaken
<1> QED BY <1>3, <1>4, <1>5

EditorKept == EditorKeeps(Here)

LEMMA EditorInit == TerminalInit => EditorKept
<1> SUFFICES ASSUME TerminalInit PROVE EditorKept
    OBVIOUS
<1>1. typed = <<>> /\ lines = <<>> /\ editor = Editor(<<>>, FALSE, 0)
    BY DEF TerminalInit, Editor
<1>2. Len(<<>>) = 0 /\ <<>> \in Seq(Bytes) /\ <<>> \in Seq(Seq(Bytes))
    BY EmptySeq
<1>3. Left(<<>>, 0) = {} /\ Filled(<<>>) = {}
    <2>1. Left(<<>>, 0) \subseteq 1..0
        BY DEF Left, Printed
    <2>2. Filled(<<>>) \subseteq DOMAIN <<>>
        BY DEF Filled, Ends
    <2> QED BY <2>1, <2>2
<1>4. EscapeTells(0, <<>>) /\ ~AfterReturn(<<>>)
    BY <1>2 DEF EscapeTells, AfterReturn
<1>5. Counted(<<>>)
    <2>1. ASSUME NEW i \in 0..0
          PROVE  Cardinality(Printed(<<>>, i + 1, 0)) =
                    Cardinality(Erasures(<<>>, i + 1, 0)) + Cardinality(After(Left(<<>>, 0), i))
        <3>1. i + 1 \in Int /\ 0 \in Int /\ i + 1 > 0
            OBVIOUS
        <3>2. Cardinality(Printed(<<>>, i + 1, 0)) = 0 /\ Cardinality(Erasures(<<>>, i + 1, 0)) = 0
            BY <3>1, CountTypes
        <3>3. After(Left(<<>>, 0), i) = {} /\ Cardinality({}) = 0
            BY <1>3, FS_EmptySet DEF After
        <3>4. Cardinality(After(Left(<<>>, 0), i)) = 0
            BY <3>3, Zenon
        <3> QED BY <3>2, <3>4
    <2> QED BY <1>2, <2>1 DEF Counted
<1>6. Spells(<<>>, <<>>, {})
    BY SpellsNone
<1>7. LinesSpelt(<<>>, <<>>)
    BY <1>2, <1>3, FS_EmptySet DEF LinesSpelt
<1> DEFINE e == Editor(<<>>, FALSE, 0)
<1>8. e \in Editors /\ e.buffer = <<>> /\ ~e.lf /\ e.escape = 0
    BY <1>2 DEF Editor, Editors
<1> HIDE DEF e
<1>9. EditorTells(e, <<>>, <<>>)
    BY <1>2, <1>3, <1>4, <1>5, <1>6, <1>7, <1>8 DEF EditorTells
<1>10. DOMAIN Here = Parts /\ Here.editor = e /\ Here.typed = <<>> /\ Here.lines = <<>>
    BY <1>1 DEF Here, Parts, e
<1> QED BY <1>2, <1>8, <1>9, <1>10 DEF EditorKept, EditorKeeps

\* What is kept does not depend on the rest of the connection.
LEMMA EditorPasses ==
    ASSUME NEW s, EditorKeeps(s), NEW r, DOMAIN r = Parts,
           r.editor = s.editor, r.typed = s.typed, r.lines = s.lines
    PROVE  EditorKeeps(r)
BY DEF EditorKeeps

LEMMA EditorStep == EditorKept /\ [TerminalNext]_terminalVars => EditorKept'
<1> SUFFICES ASSUME EditorKept, [TerminalNext]_terminalVars PROVE EditorKept'
    OBVIOUS
<1>1. /\ DOMAIN Here' = Parts /\ Here'.editor = editor' /\ Here'.typed = typed' /\ Here'.lines = lines'
      /\ DOMAIN Here = Parts /\ Here.editor = editor /\ Here.typed = typed /\ Here.lines = lines
    BY DEF Here, Parts
<1>2. EditorKeeps(Here)
    BY DEF EditorKept
<1>3. ASSUME NEW s, EditorKeeps(s), Leaves(s) PROVE EditorKept'
    <2>1. EditorKeeps(Here')
        BY <1>1, <1>3, EditorPasses DEF Leaves
    <2> QED BY <2>1 DEF EditorKept
<1>4. ASSUME NEW c \in open, NEW n \in 1..MaxPacket, NEW packet \in [1..n -> Bytes], data(c, packet)
      PROVE  EditorKept'
    <2>1. PICK f : /\ f[0] = Here /\ Leaves(f[n])
                   /\ \A k \in 1..n : packet[k] \in Bytes /\ f[k] = Byte(f[k - 1], packet[k])
        BY <1>4, DataIs
    <2> DEFINE bad == {k \in 0..n : ~ EditorKeeps(f[k])}
    <2>2. ASSUME bad # {} PROVE FALSE
        <3>1. PICK k \in bad : \A j \in bad : k <= j
            <4>1. bad \subseteq Nat
                OBVIOUS
            <4> HIDE DEF bad
            <4> QED BY <2>2, <4>1, Least
        <3>2. k # 0
            BY <1>2, <2>1
        <3>3. k \in 1..n /\ k - 1 \in 0..n /\ k - 1 \notin bad
            BY <3>1, <3>2
        <3>4. EditorKeeps(f[k - 1])
            BY <3>3
        <3>5. EditorKeeps(f[k])
            BY <2>1, <3>3, <3>4, ByteKeeps
        <3> QED BY <3>5
    <2>3. n \in 0..n
        OBVIOUS
    <2>4. EditorKeeps(f[n])
        BY <2>2, <2>3
    <2> QED BY <1>3, <2>1, <2>4
<1>5. ASSUME NEW c \in open, NEW line \in ExecLines, exec_request(c, line) PROVE EditorKept'
    <2> DEFINE s == Run(Here, Trim(line))
    <2>1. Leaves(s)
        BY <1>5 DEF exec_request
    <2>2. DOMAIN s = Parts /\ s.editor = Here.editor /\ s.typed = Here.typed /\ s.lines = Here.lines
        BY <1>1, RunLeavesEditor
    <2> HIDE DEF s
    <2>3. EditorKeeps(s)
        BY <1>2, <2>2, EditorPasses
    <2> QED BY <1>3, <2>1, <2>3
<1>6. CASE BeZeroed \/ Tick \/ UNCHANGED terminalVars
    <2>1. editor' = editor /\ typed' = typed /\ lines' = lines
        BY <1>6 DEF BeZeroed, Tick, terminalVars
    <2>2. EditorKeeps(Here')
        BY <1>1, <1>2, <2>1, EditorPasses
    <2> QED BY <2>2 DEF EditorKept
<1> QED BY <1>4, <1>5, <1>6 DEF TerminalNext

\* The lines that run are what was typed, and the buffer holds the rest.
THEOREM LinesAreTyped == TerminalSpec => []EditorAgrees
<1>1. EditorKept => EditorAgrees
    BY DEF EditorKept, EditorKeeps, EditorTells, LinesSpelt, Here, EditorAgrees
<1> QED BY <1>1, EditorInit, EditorStep, PTL DEF TerminalSpec

-----------------------------------------------------------------------------
(* The rate limit *)

Rates == [time : Nat, ran : BOOLEAN]

\* The lines that count when the next is rated after R at the time `at`.
Counting(R, n, at) == {j \in 1..n : R[j].ran /\ at - R[j].time <= Second}

Sharp(R) == \A i \in 1..Len(R) : R[i].ran <=> Cardinality(Counting(R, i - 1, R[i].time)) < Burst

\* The window holds, oldest first, when lines ran; idx tells which.
Tells(w, R, at, idx) ==
    /\ idx \in [1..Len(w) -> 1..Len(R)]
    /\ \A k, m \in 1..Len(w) : idx[k] = idx[m] => k = m
    /\ \A k \in 1..Len(w) : R[idx[k]].ran /\ R[idx[k]].time = w[k]
    /\ \A j \in Counting(R, Len(R), at) : \E k \in 1..Len(w) : idx[k] = j

Kept(w, R, at) ==
    /\ \A k \in 1..Len(w) : w[k] <= at
    /\ \A k \in 1..Len(w) : \A j \in 1..k : w[j] <= w[k]
    /\ \E idx : Tells(w, R, at, idx)

LEMMA RecentIs ==
    ASSUME NEW w \in Seq(Nat), now \in Nat
    PROVE  \E d \in 1..Len(w) + 1 :
                /\ Recent(w) = SubSeq(w, d, Len(w))
                /\ d <= Len(w) => now - w[d] <= Second
                /\ \A j \in 1..d-1 : now - w[j] > Second
<1> DEFINE N == Len(w)
           First(i) == /\ i <= N => now - w[i] <= Second
                       /\ \A j \in 1..i-1 : now - w[j] > Second
           young == {i \in 1..N + 1 : i <= N => now - w[i] <= Second}
<1>1. N \in Nat /\ Second \in Nat /\ \A i \in 1..N : w[i] \in Nat
    BY LenProperties, TerminalAssumption
<1>2. \E i \in 1..N + 1 : First(i)
    <2>1. young \subseteq Nat /\ N + 1 \in young
        BY <1>1
    <2> HIDE DEF N
    <2>2. PICK i \in young : \A j \in young : i <= j
        <3> HIDE DEF young
        <3> QED BY <2>1, Least
    <2>3. ASSUME NEW j \in 1..i-1 PROVE now - w[j] > Second
        <3>1. j \in 1..N + 1 /\ j < i /\ j <= N /\ i \in Nat
            BY <1>1
        <3>2. j \notin young
            <4> HIDE DEF young
            <4> QED BY <2>2, <3>1
        <3> QED BY <1>1, <3>1, <3>2
    <2> QED BY <2>3
<1>3. Recent(w) = SubSeq(w, CHOOSE i \in 1..N + 1 : First(i), N)
    BY DEF Recent
<1> DEFINE d == CHOOSE i \in 1..N + 1 : First(i)
<1>4. d \in 1..N + 1 /\ First(d)
    <2> HIDE DEF First, N
    <2> QED BY <1>2
<1> HIDE DEF d
<1>5. Recent(w) = SubSeq(w, d, N)
    BY <1>3 DEF d
<1> QED BY <1>4, <1>5

\* What is left of the window, and how much of it: as many lines as count.
LEMMA RecentCounts ==
    ASSUME NEW w \in Seq(Nat), now \in Nat, NEW R \in Seq(Rates), NEW idx,
           Tells(w, R, now, idx), Kept(w, R, now)
    PROVE  /\ Recent(w) \in Seq(Nat) /\ Kept(Recent(w), R, now)
           /\ Len(Recent(w)) = Cardinality(Counting(R, Len(R), now))
<1> DEFINE N == Len(w)
           v == Recent(w)
           C == Counting(R, Len(R), now)
<1>1. N \in Nat /\ Second \in Nat /\ \A i \in 1..N : w[i] \in Nat
    BY LenProperties, TerminalAssumption
<1>2. PICK d \in 1..N + 1 :
            /\ v = SubSeq(w, d, N)
            /\ d <= N => now - w[d] <= Second
            /\ \A j \in 1..d-1 : now - w[j] > Second
    BY RecentIs
<1> DEFINE M == N - d + 1
<1>3. /\ v \in Seq(Nat) /\ M \in Nat /\ Len(v) = M
      /\ \A k \in 1..M : v[k] = w[d + k - 1] /\ d + k - 1 \in d..N /\ d + k - 1 \in 1..N
    <2>1. d \in Int /\ N \in Int /\ \A i \in d..N : w[i] \in Nat
        BY <1>1
    <2>2. v \in Seq(Nat) /\ Len(v) = (IF d <= N THEN N - d + 1 ELSE 0) /\ \A i \in 1..N-d+1 : v[i] = w[d + i - 1]
        BY <1>2, <2>1, SubSeqProperties
    <2> QED BY <1>1, <2>2
<1>4. /\ \A k \in 1..N : w[k] <= now
      /\ \A k \in 1..N : \A j \in 1..k : w[j] <= w[k]
    BY DEF Kept
<1>5. /\ idx \in [1..N -> 1..Len(R)]
      /\ \A k, m \in 1..N : idx[k] = idx[m] => k = m
      /\ \A k \in 1..N : R[idx[k]].ran /\ R[idx[k]].time = w[k]
      /\ \A j \in C : \E k \in 1..N : idx[k] = j
    BY DEF Tells
<1> HIDE DEF N, v
<1>6. \A k \in d..N : k \in 1..N /\ now - w[k] <= Second
    <2> SUFFICES ASSUME NEW k \in d..N PROVE k \in 1..N /\ now - w[k] <= Second
        OBVIOUS
    <2>1. k \in 1..N /\ d \in 1..k /\ d \in 1..N
        BY <1>1
    <2>2. w[d] <= w[k] /\ now - w[d] <= Second
        BY <1>2, <1>4, <2>1
    <2> QED BY <1>1, <2>1, <2>2
<1>7. ASSUME NEW j \in C PROVE \E k \in d..N : idx[k] = j
    <2>1. PICK k \in 1..N : idx[k] = j
        BY <1>5
    <2>2. now - w[k] <= Second
        BY <1>5, <2>1 DEF Counting
    <2>3. ~ (k \in 1..d-1)
        <3>1. ASSUME k \in 1..d-1 PROVE FALSE
            <4>1. now - w[k] > Second
                BY <1>2, <3>1
            <4> QED BY <1>1, <2>2, <4>1
        <3> QED BY <3>1
    <2>4. k \in d..N
        BY <1>1, <2>3
    <2> QED BY <2>1, <2>4
<1>8. ASSUME NEW k \in d..N PROVE idx[k] \in C
    BY <1>5, <1>6 DEF Counting
<1> DEFINE f == [k \in 1..M |-> idx[d + k - 1]]
<1>9. /\ f \in [1..M -> C]
      /\ \A k, m \in 1..M : f[k] = f[m] => k = m
      /\ \A j \in C : \E k \in 1..M : f[k] = j
    <2>1. f \in [1..M -> C]
        BY <1>3, <1>8
    <2>2. ASSUME NEW k \in 1..M, NEW m \in 1..M, f[k] = f[m] PROVE k = m
        <3>1. d + k - 1 = d + m - 1
            BY <1>3, <1>5, <2>2
        <3> QED BY <1>1, <1>3, <3>1
    <2>3. ASSUME NEW j \in C PROVE \E k \in 1..M : f[k] = j
        <3>1. PICK k \in d..N : idx[k] = j
            BY <1>7
        <3>2. k - d + 1 \in 1..M /\ d + (k - d + 1) - 1 = k
            BY <1>1
        <3>3. f[k - d + 1] = j
            BY <3>1, <3>2
        <3> QED BY <3>2, <3>3
    <2> QED BY <2>1, <2>2, <2>3
<1> HIDE DEF M, C, f
<1>10. M = Cardinality(C)
    <2>1. f \in Bijection(1..M, C)
        BY <1>9 DEF Bijection, Injection, IsInjective, Surjection
    <2>2. ExistsBijection(1..M, C)
        BY <2>1 DEF ExistsBijection
    <2>3. IsFiniteSet(1..M) /\ Cardinality(1..M) = M
        <3>1. 1 \in Int /\ M \in Int /\ M \in Nat
            BY <1>3
        <3>2. IsFiniteSet(1..M) /\ Cardinality(1..M) = IF 1 > M THEN 0 ELSE M - 1 + 1
            BY <3>1, FS_Interval
        <3> QED BY <3>1, <3>2
    <2> QED BY <2>2, <2>3, FS_Bijection
<1>11. Tells(v, R, now, f)
    <2>1. f \in [1..M -> 1..Len(R)]
        BY <1>9 DEF C, Counting
    <2>2. ASSUME NEW k \in 1..M PROVE R[f[k]].ran /\ R[f[k]].time = v[k]
        <3>1. f[k] = idx[d + k - 1]
            BY DEF f
        <3> QED BY <1>3, <1>5, <3>1
    <2> QED BY <1>3, <1>9, <2>1, <2>2 DEF Tells, C
<1>12. /\ \A k \in 1..M : v[k] <= now
       /\ \A k \in 1..M : \A j \in 1..k : v[j] <= v[k]
    <2>1. ASSUME NEW k \in 1..M, NEW j \in 1..k PROVE v[j] <= v[k]
        <3>1. j \in 1..M /\ d + j - 1 \in 1..(d + k - 1)
            BY <1>3
        <3> QED BY <1>3, <1>4, <3>1
    <2> QED BY <1>3, <1>4, <2>1
<1> QED BY <1>3, <1>10, <1>11, <1>12 DEF Kept, C, v

\* One more line is rated: it counts from then on if it ran.
LEMMA RatedSharp ==
    ASSUME NEW w \in Seq(Nat), now \in Nat, NEW R \in Seq(Rates), Kept(w, R, now), Sharp(R),
           NEW r \in Rates, r.time = now, r.ran <=> Len(Recent(w)) < Burst
    PROVE  /\ Sharp(Append(R, r))
           /\ r.ran => Kept(Append(Recent(w), now), Append(R, r), now)
           /\ ~r.ran => Kept(Recent(w), Append(R, r), now)
<1> DEFINE N == Len(R)
           S == Append(R, r)
           v == Recent(w)
<1>1. /\ N \in Nat /\ S \in Seq(Rates) /\ Len(S) = N + 1 /\ S[N + 1] = r /\ \A i \in 1..N : S[i] = R[i]
    BY LenProperties, AppendProperties
<1>2. v \in Seq(Nat) /\ Kept(v, R, now) /\ Len(v) = Cardinality(Counting(R, N, now))
    <2>1. PICK idx : Tells(w, R, now, idx)
        BY DEF Kept
    <2> QED BY <2>1, RecentCounts
<1> HIDE DEF N, S, v
<1>3. Second \in Nat
    BY TerminalAssumption
<1>4. \A n \in 0..N : \A at : Counting(S, n, at) = Counting(R, n, at)
    <2>1. \A n \in 0..N : \A j \in 1..n : S[j] = R[j]
        BY <1>1
    <2> QED BY <2>1 DEF Counting
<1>5. Sharp(S)
    <2>1. ASSUME NEW i \in 1..N PROVE S[i].ran <=> Cardinality(Counting(S, i - 1, S[i].time)) < Burst
        <3>1. i - 1 \in 0..N /\ S[i] = R[i]
            BY <1>1
        <3>2. R[i].ran <=> Cardinality(Counting(R, i - 1, R[i].time)) < Burst
            BY DEF Sharp, N
        <3> QED BY <1>4, <3>1, <3>2
    <2>2. S[N + 1].ran <=> Cardinality(Counting(S, (N + 1) - 1, S[N + 1].time)) < Burst
        <3>1. (N + 1) - 1 = N /\ N \in 0..N /\ S[N + 1] = r
            BY <1>1
        <3>2. Counting(S, N, now) = Counting(R, N, now)
            BY <1>4, <3>1
        <3> QED BY <1>2, <3>1, <3>2 DEF v
    <2>3. \A i \in 1..N + 1 : i \in 1..N \/ i = N + 1
        BY <1>1
    <2> QED BY <1>1, <2>1, <2>2, <2>3 DEF Sharp
<1> DEFINE M == Len(v)
<1>6. /\ M \in Nat /\ \A k \in 1..M : v[k] \in Nat
      /\ \A k \in 1..M : v[k] <= now
      /\ \A k \in 1..M : \A j \in 1..k : v[j] <= v[k]
    BY <1>2, LenProperties DEF Kept
<1>7. PICK idx : Tells(v, R, now, idx)
    BY <1>2 DEF Kept
<1>8. /\ idx \in [1..M -> 1..N]
      /\ \A k, m \in 1..M : idx[k] = idx[m] => k = m
      /\ \A k \in 1..M : R[idx[k]].ran /\ R[idx[k]].time = v[k]
      /\ \A j \in Counting(R, N, now) : \E k \in 1..M : idx[k] = j
    BY <1>7 DEF Tells, N
<1>9. /\ \A k \in 1..M : S[idx[k]].ran /\ S[idx[k]].time = v[k]
      /\ \A j \in Counting(S, N + 1, now) : j = N + 1 \/ j \in Counting(R, N, now)
      /\ N + 1 \in Counting(S, N + 1, now) => r.ran
    <2>1. \A k \in 1..M : S[idx[k]] = R[idx[k]]
        BY <1>1, <1>8
    <2>2. \A j \in 1..N + 1 : j = N + 1 \/ j \in 1..N
        BY <1>1
    <2> QED BY <1>1, <1>8, <2>1, <2>2 DEF Counting
<1>10. ASSUME ~r.ran PROVE Kept(v, S, now)
    <2>1. idx \in [1..M -> 1..N + 1]
        BY <1>1, <1>8
    <2>2. \A j \in Counting(S, N + 1, now) : \E k \in 1..M : idx[k] = j
        BY <1>8, <1>9, <1>10
    <2>3. Tells(v, S, now, idx)
        BY <1>1, <1>8, <1>9, <2>1, <2>2 DEF Tells
    <2> QED BY <1>6, <2>3 DEF Kept
<1>11. ASSUME r.ran PROVE Kept(Append(v, now), S, now)
    <2> DEFINE x == Append(v, now)
               f == [k \in 1..M + 1 |-> IF k = M + 1 THEN N + 1 ELSE idx[k]]
    <2>1. Len(x) = M + 1 /\ x[M + 1] = now /\ \A k \in 1..M : x[k] = v[k]
        BY <1>2, AppendProperties
    <2>2. M + 1 \in 1..M + 1 /\ \A k \in 1..M : k # M + 1 /\ k \in 1..M + 1
        BY <1>6
    <2>3. \A k \in 1..M + 1 : k \in 1..M \/ k = M + 1
        BY <1>6
    <2>4. f[M + 1] = N + 1 /\ \A k \in 1..M : f[k] = idx[k] /\ idx[k] \in 1..N /\ idx[k] # N + 1
        <3>1. f[M + 1] = N + 1
            BY <2>2
        <3>2. ASSUME NEW k \in 1..M PROVE f[k] = idx[k] /\ idx[k] \in 1..N /\ idx[k] # N + 1
            <4>1. f[k] = idx[k]
                BY <2>2
            <4> QED BY <1>1, <1>8, <4>1
        <3> QED BY <3>1, <3>2
    <2>5. f \in [1..M + 1 -> 1..N + 1]
        BY <1>1, <1>8, <2>3
    <2> HIDE DEF x, f, M
    <2>6. \A k, m \in 1..M + 1 : f[k] = f[m] => k = m
        BY <1>8, <2>3, <2>4
    <2>7. ASSUME NEW k \in 1..M + 1 PROVE S[f[k]].ran /\ S[f[k]].time = x[k]
        <3>1. CASE k = M + 1
            BY <1>1, <1>11, <2>1, <2>4, <3>1
        <3>2. CASE k \in 1..M
            BY <1>9, <2>1, <2>4, <3>2
        <3> QED BY <2>3, <3>1, <3>2
    <2>8. ASSUME NEW j \in Counting(S, N + 1, now) PROVE \E k \in 1..M + 1 : f[k] = j
        <3>1. CASE j = N + 1
            BY <2>2, <2>4, <3>1
        <3>2. CASE j \in Counting(R, N, now)
            BY <1>8, <2>2, <2>4, <3>2
        <3> QED BY <1>9, <3>1, <3>2
    <2>9. Tells(x, S, now, f)
        BY <1>1, <2>1, <2>5, <2>6, <2>7, <2>8 DEF Tells
    <2>10. ASSUME NEW k \in 1..M + 1 PROVE x[k] <= now /\ \A j \in 1..k : x[j] <= x[k]
        <3>1. CASE k = M + 1
            <4>1. \A j \in 1..M + 1 : x[j] <= now
                <5> SUFFICES ASSUME NEW j \in 1..M + 1 PROVE x[j] <= now
                    OBVIOUS
                <5>1. CASE j = M + 1
                    BY <2>1, <5>1
                <5>2. CASE j \in 1..M
                    BY <1>6, <2>1, <5>2 DEF M
                <5> QED BY <2>3, <5>1, <5>2
            <4> QED BY <2>1, <3>1, <4>1
        <3>2. CASE k \in 1..M
            <4>1. \A j \in 1..k : j \in 1..M
                BY <1>6, <3>2 DEF M
            <4> QED BY <1>6, <2>1, <3>2, <4>1 DEF M
        <3> QED BY <2>3, <3>1, <3>2
    <2> QED BY <2>1, <2>9, <2>10 DEF Kept, x
<1> QED BY <1>5, <1>10, <1>11 DEF S, v

LEMMA KeptLater ==
    ASSUME NEW w \in Seq(Nat), NEW R \in Seq(Rates), NEW at \in Nat, Kept(w, R, at)
    PROVE  Kept(w, R, at + 1)
<1>1. Second \in Nat /\ Len(w) \in Nat /\ Len(R) \in Nat /\ \A i \in 1..Len(R) : R[i].time \in Nat
    <2>1. \A i \in 1..Len(R) : R[i] \in Rates
        BY LenProperties
    <2>2. \A x \in Rates : x.time \in Nat
        BY DEF Rates
    <2> QED BY <2>1, <2>2, LenProperties, TerminalAssumption
<1>2. \A k \in 1..Len(w) : w[k] \in Nat /\ w[k] <= at + 1
    BY <1>1, LenProperties DEF Kept
<1>3. Counting(R, Len(R), at + 1) \subseteq Counting(R, Len(R), at)
    BY <1>1 DEF Counting
<1>4. PICK idx : Tells(w, R, at, idx)
    BY DEF Kept
<1>5. Tells(w, R, at + 1, idx)
    BY <1>3, <1>4 DEF Tells
<1> QED BY <1>2, <1>5 DEF Kept

LimitKeeps(s, at) ==
    /\ DOMAIN s = Parts /\ DOMAIN s.gate = {"secret", "window"}
    /\ s.gate.window \in Seq(Nat) /\ s.rated \in Seq(Rates)
    /\ Kept(s.gate.window, s.rated, at) /\ Sharp(s.rated)

\* What is kept does not depend on the rest of the connection.
LEMMA LimitPasses ==
    ASSUME NEW at, NEW s, LimitKeeps(s, at), NEW r, DOMAIN r = Parts,
           DOMAIN r.gate = {"secret", "window"}, r.gate.window = s.gate.window, r.rated = s.rated
    PROVE  LimitKeeps(r, at)
BY DEF LimitKeeps

LEMMA RatedKeeps ==
    ASSUME NEW s, LimitKeeps(s, now), now \in Nat, NEW line
    PROVE  LimitKeeps(Rated(s, line), now)
<1> DEFINE w == s.gate.window
           v == Recent(w)
           fits == Len(v) < Burst
           r == [time |-> now, ran |-> fits]
           t == Rated(s, line)
<1>1. /\ DOMAIN s = Parts /\ DOMAIN s.gate = {"secret", "window"}
      /\ w \in Seq(Nat) /\ s.rated \in Seq(Rates) /\ Kept(w, s.rated, now) /\ Sharp(s.rated)
    BY DEF LimitKeeps
<1>2. r \in Rates /\ r.time = now /\ (r.ran <=> Len(v) < Burst)
    <2>1. fits \in BOOLEAN
        OBVIOUS
    <2> HIDE DEF fits
    <2>2. r.time = now /\ r.ran = fits /\ r \in Rates
        BY <2>1 DEF Rates
    <2>3. fits <=> Len(v) < Burst
        BY DEF fits
    <2> QED BY <2>2, <2>3
<1>3. /\ DOMAIN t = Parts /\ DOMAIN t.gate = {"secret", "window"}
      /\ t.gate.window = IF Len(v) < Burst THEN Append(v, now) ELSE v
      /\ t.rated = Append(s.rated, r)
    BY <1>1 DEF Rated, Parts
<1>4. v \in Seq(Nat)
    <2>1. PICK idx : Tells(w, s.rated, now, idx)
        BY <1>1 DEF Kept
    <2> QED BY <1>1, <2>1, RecentCounts
<1> HIDE DEF r, t, w
<1>5. /\ Sharp(Append(s.rated, r))
      /\ r.ran => Kept(Append(v, now), Append(s.rated, r), now)
      /\ ~r.ran => Kept(v, Append(s.rated, r), now)
    BY <1>1, <1>2, RatedSharp
<1> HIDE DEF v
<1>6. Append(s.rated, r) \in Seq(Rates) /\ Append(v, now) \in Seq(Nat)
    BY <1>1, <1>2, <1>4, AppendProperties
<1>7. CASE r.ran
    BY <1>2, <1>3, <1>5, <1>6, <1>7 DEF LimitKeeps, t
<1>8. CASE ~r.ran
    BY <1>2, <1>3, <1>4, <1>5, <1>6, <1>8 DEF LimitKeeps, t
<1> QED BY <1>7, <1>8

LEMMA RunKeepsLimit ==
    ASSUME NEW s, LimitKeeps(s, now), now \in Nat, NEW line
    PROVE  LimitKeeps(Run(s, line), now)
<1>1. DOMAIN s = Parts /\ DOMAIN s.gate = {"secret", "window"}
    BY DEF LimitKeeps
<1>2. CASE line = <<>>
    <2>1. Run(s, line) = s
        BY <1>2 DEF Run, Closes
    <2> QED BY <2>1
<1>3. CASE Closes(line)
    <2> DEFINE r == [s EXCEPT !.closed = TRUE]
    <2>1. Run(s, line) = r
        BY <1>3 DEF Run, Closes
    <2>2. DOMAIN r = Parts /\ r.gate = s.gate /\ r.rated = s.rated
        BY <1>1 DEF Parts
    <2> HIDE DEF r
    <2> QED BY <1>1, <2>1, <2>2, LimitPasses
<1>4. CASE line # <<>> /\ ~Closes(line) /\ s.gate.secret # "none"
    <2> DEFINE r == [s EXCEPT !.gate.secret = "none"]
    <2>1. Run(s, line) = r
        BY <1>4 DEF Run
    <2>2. /\ DOMAIN r = Parts /\ DOMAIN r.gate = {"secret", "window"}
          /\ r.gate.window = s.gate.window /\ r.rated = s.rated
        BY <1>1 DEF Parts
    <2> HIDE DEF r
    <2> QED BY <1>1, <2>1, <2>2, LimitPasses
<1>5. CASE line # <<>> /\ ~Closes(line) /\ s.gate.secret = "none"
    <2>1. Run(s, line) = Rated(s, line)
        BY <1>5 DEF Run
    <2> QED BY <2>1, RatedKeeps
<1> QED BY <1>2, <1>3, <1>4, <1>5

LEMMA SubmitKeepsLimit ==
    ASSUME NEW s, LimitKeeps(s, now), now \in Nat
    PROVE  LimitKeeps(SubmitLine(s), now)
<1> DEFINE v == [s EXCEPT !.editor.buffer = <<>>, !.lines = Append(@, s.editor.buffer)]
<1>1. DOMAIN s = Parts /\ DOMAIN s.gate = {"secret", "window"}
    BY DEF LimitKeeps
<1>2. DOMAIN v = Parts /\ v.gate = s.gate /\ v.rated = s.rated
    BY <1>1 DEF Parts
<1>3. SubmitLine(s) = s \/ SubmitLine(s) = Run(v, Trim(s.editor.buffer))
    BY DEF SubmitLine
<1> HIDE DEF v
<1>4. LimitKeeps(v, now)
    BY <1>1, <1>2, LimitPasses
<1> QED BY <1>3, <1>4, RunKeepsLimit

LEMMA ByteKeepsLimit ==
    ASSUME NEW s, LimitKeeps(s, now), now \in Nat, NEW b
    PROVE  LimitKeeps(Byte(s, b), now)
<1> DEFINE v == [s EXCEPT !.typed = Append(@, b)]
<1>1. DOMAIN s = Parts /\ DOMAIN s.gate = {"secret", "window"}
    BY DEF LimitKeeps
<1>2. DOMAIN v = Parts /\ v.gate = s.gate /\ v.rated = s.rated
    BY <1>1 DEF Parts
<1>3. Byte(s, b) = s \/ Byte(s, b) = Edit(v, b)
    BY DEF Byte
<1> HIDE DEF v
<1>4. LimitKeeps(v, now)
    BY <1>1, <1>2, LimitPasses
<1>5. ASSUME NEW x PROVE LimitKeeps([v EXCEPT !.editor = x], now)
    <2> DEFINE r == [v EXCEPT !.editor = x]
    <2>1. DOMAIN r = Parts /\ r.gate = v.gate /\ r.rated = v.rated /\ DOMAIN v.gate = {"secret", "window"}
        BY <1>1, <1>2 DEF Parts
    <2> HIDE DEF r
    <2>2. LimitKeeps(r, now)
        BY <1>4, <2>1, LimitPasses
    <2> QED BY <2>2 DEF r
<1>6. CASE b = "CR"
    <2>1. Edit(v, b) = SubmitLine([v EXCEPT !.editor = [v.editor EXCEPT !.lf = TRUE, !.escape = 0]])
        BY <1>2, <1>6 DEF Edit, Parts
    <2> QED BY <1>3, <1>5, <2>1, SubmitKeepsLimit
<1>7. CASE b = "LF"
    <2>1. Edit(v, b) = OnLineFeed(v)
        BY <1>7 DEF Edit
    <2>2. \/ Edit(v, b) = [v EXCEPT !.editor = [v.editor EXCEPT !.lf = FALSE]]
          \/ Edit(v, b) = SubmitLine([v EXCEPT !.editor = [v.editor EXCEPT !.escape = 0]])
        BY <2>1 DEF OnLineFeed
    <2> QED BY <1>3, <1>5, <2>2, SubmitKeepsLimit
<1>8. CASE b \notin {"CR", "LF"}
    <2>1. \E x : Edit(v, b) = [v EXCEPT !.editor = x]
        BY <1>8 DEF Edit, OnOrdinary
    <2> QED BY <1>3, <1>5, <2>1
<1> QED BY <1>3, <1>6, <1>7, <1>8

LimitKept == now \in Nat /\ LimitKeeps(Here, now)

LEMMA LimitInit == TerminalInit => LimitKept
<1> SUFFICES ASSUME TerminalInit PROVE LimitKept
    OBVIOUS
<1>1. PICK x \in {"none", "passphrase"} : gate = [secret |-> x, window |-> <<>>]
    BY DEF TerminalInit
<1>2. now = 0 /\ rated = <<>>
    BY DEF TerminalInit
<1>3. /\ DOMAIN Here = Parts /\ DOMAIN Here.gate = {"secret", "window"}
      /\ Here.gate.window = <<>> /\ Here.rated = <<>>
    BY <1>1, <1>2 DEF Here, Parts
<1>4. Len(<<>>) = 0 /\ <<>> \in Seq(Nat) /\ <<>> \in Seq(Rates)
    BY EmptySeq
<1>5. Sharp(<<>>)
    BY <1>4 DEF Sharp
<1>6. Kept(<<>>, <<>>, 0)
    <2> DEFINE idx == [k \in 1..0 |-> 0]
    <2>1. idx \in [1..0 -> 1..0]
        OBVIOUS
    <2>2. Counting(<<>>, 0, 0) = {}
        BY DEF Counting
    <2> HIDE DEF idx
    <2>3. Tells(<<>>, <<>>, 0, idx)
        BY <1>4, <2>1, <2>2 DEF Tells
    <2> QED BY <1>4, <2>3 DEF Kept
<1> QED BY <1>2, <1>3, <1>4, <1>5, <1>6 DEF LimitKept, LimitKeeps

LEMMA LimitStep == LimitKept /\ [TerminalNext]_terminalVars => LimitKept'
<1> SUFFICES ASSUME LimitKept, [TerminalNext]_terminalVars PROVE LimitKept'
    OBVIOUS
<1>1. /\ DOMAIN Here' = Parts /\ Here'.gate = gate' /\ Here'.rated = rated'
      /\ DOMAIN Here = Parts /\ Here.gate = gate /\ Here.rated = rated
    BY DEF Here, Parts
<1>2. now \in Nat /\ LimitKeeps(Here, now)
    BY DEF LimitKept
<1>3. ASSUME NEW s, LimitKeeps(s, now), Leaves(s), now' = now PROVE LimitKept'
    <2>1. DOMAIN s.gate = {"secret", "window"}
        BY <1>3 DEF LimitKeeps
    <2>2. LimitKeeps(Here', now)
        BY <1>1, <1>3, <2>1, LimitPasses DEF Leaves
    <2> QED BY <1>2, <1>3, <2>2 DEF LimitKept
<1>4. ASSUME NEW c \in open, NEW n \in 1..MaxPacket, NEW packet \in [1..n -> Bytes], data(c, packet)
      PROVE  LimitKept'
    <2>1. PICK f : /\ f[0] = Here /\ Leaves(f[n])
                   /\ \A k \in 1..n : packet[k] \in Bytes /\ f[k] = Byte(f[k - 1], packet[k])
        BY <1>4, DataIs
    <2>5. now' = now
        BY <1>4, DataIs
    <2> DEFINE bad == {k \in 0..n : ~ LimitKeeps(f[k], now)}
    <2>2. ASSUME bad # {} PROVE FALSE
        <3>1. PICK k \in bad : \A j \in bad : k <= j
            <4>1. bad \subseteq Nat
                OBVIOUS
            <4> HIDE DEF bad
            <4> QED BY <2>2, <4>1, Least
        <3>2. k # 0
            BY <1>2, <2>1
        <3>3. k \in 1..n /\ k - 1 \in 0..n /\ k - 1 \notin bad
            BY <3>1, <3>2
        <3>4. LimitKeeps(f[k - 1], now)
            BY <3>3
        <3>5. LimitKeeps(f[k], now)
            BY <1>2, <2>1, <3>3, <3>4, ByteKeepsLimit
        <3> QED BY <3>5
    <2>3. n \in 0..n
        OBVIOUS
    <2>4. LimitKeeps(f[n], now)
        BY <2>2, <2>3
    <2> QED BY <1>3, <2>1, <2>4, <2>5
<1>5. ASSUME NEW c \in open, NEW line \in ExecLines, exec_request(c, line) PROVE LimitKept'
    <2> DEFINE s == Run(Here, Trim(line))
    <2>1. Leaves(s) /\ now' = now
        BY <1>5 DEF exec_request
    <2>2. LimitKeeps(s, now)
        BY <1>2, RunKeepsLimit
    <2> HIDE DEF s
    <2> QED BY <1>3, <2>1, <2>2
<1>6. CASE BeZeroed \/ UNCHANGED terminalVars
    <2>1. gate' = gate /\ rated' = rated /\ now' = now
        BY <1>6 DEF BeZeroed, terminalVars
    <2>2. DOMAIN Here.gate = {"secret", "window"}
        BY <1>2 DEF LimitKeeps
    <2>3. LimitKeeps(Here', now)
        BY <1>1, <1>2, <2>1, <2>2, LimitPasses
    <2> QED BY <1>2, <2>1, <2>3 DEF LimitKept
<1>7. CASE Tick
    <2>1. gate' = gate /\ rated' = rated /\ now' = now + 1
        BY <1>7 DEF Tick
    <2>2. /\ DOMAIN gate = {"secret", "window"} /\ gate.window \in Seq(Nat) /\ rated \in Seq(Rates)
          /\ Kept(gate.window, rated, now) /\ Sharp(rated)
        BY <1>1, <1>2 DEF LimitKeeps
    <2>3. Kept(gate.window, rated, now + 1)
        BY <1>2, <2>2, KeptLater
    <2>4. LimitKeeps(Here', now + 1)
        BY <1>1, <2>1, <2>2, <2>3 DEF LimitKeeps
    <2> QED BY <1>2, <2>1, <2>4 DEF LimitKept
<1> QED BY <1>4, <1>5, <1>6, <1>7 DEF TerminalNext

\* A line is refused exactly when the limit is reached in the second before it.
THEOREM RefusalsAreSharp == TerminalSpec => []LimitIsSharp
<1>1. LimitKept => LimitIsSharp
    <2> SUFFICES ASSUME LimitKept PROVE LimitIsSharp
        OBVIOUS
    <2>1. Sharp(rated) /\ rated \in Seq(Rates)
        BY DEF LimitKept, LimitKeeps, Here
    <2>2. DOMAIN rated = 1..Len(rated)
        BY <2>1, LenProperties
    <2> QED BY <2>1, <2>2 DEF Sharp, Counting, LimitIsSharp
<1> QED BY <1>1, LimitInit, LimitStep, PTL DEF TerminalSpec
=============================================================================
