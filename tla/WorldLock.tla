----------------------------- MODULE WorldLock -----------------------------
(***************************************************************************)
(* The one lock of the world service: every call of WorldService runs      *)
(* under a guard of RwLock<WorldState>, and the sessions queue for it.     *)
(* The lock is tokio's: requests are served first come, first served, so   *)
(* a reader that arrives behind a waiting writer waits as well.            *)
(* A line is a sequence of phases.  Each takes one guard, works under it   *)
(* and drops it, and the writing calls that have a database await it with  *)
(* the guard in hand.  What the other modules take as one atomic step is   *)
(* a phase here, whatever it does to the data.                             *)
(***************************************************************************)
EXTENDS Connections, Integers, Sequences, FiniteSets

VARIABLES
    todo,     \* the phases a session's line still has before it
    phase,    \* where the session stands in the first of them
    queue,    \* requests for the lock in their order
    readers,  \* read guards held by each session
    writer    \* who holds the write guard

lock == <<queue, readers, writer>>
lockVars == <<todo, phase, lock>>

Places == {"idle", "running", "waiting", "holding", "saving"}

(***************************************************************************)
(* The lines.  A phase reads or writes, may await the database under its   *)
(* guard, and may keep the guard for the phase that follows - which no     *)
(* call of the code does.                                                  *)
(***************************************************************************)
Phase == [mode: {"read", "write"}, saves: BOOLEAN, keeps: BOOLEAN]

Look   == [mode |-> "read",  saves |-> FALSE, keeps |-> FALSE]
Change == [mode |-> "write", saves |-> FALSE, keeps |-> FALSE]
Save   == [mode |-> "write", saves |-> TRUE,  keeps |-> FALSE]

\* Mutant of EnterCity: the gate is asked with the first guard still in hand.
EnterCityNested == <<Look, [Look EXCEPT !.keeps = TRUE], Look, Change>>

\* "mode netcity": the ban check of every line, then mode_switch reads the
\* fingerprints, netcity_gate_reason reads the profile, and the mode is written.
EnterCity == <<Look, Look, Look, Change>>

\* A login; lines that show something, change something, or change it in the
\* database too (keyvault, submit, a ban); "tutorial", which reads its step in
\* one call and writes the next in another.
Programs == {<<Save>>, <<Look, Look>>, <<Look, Change>>, <<Look, Save>>,
             <<Look, Look, Change>>, EnterCity}

LockInit ==
    /\ todo = [s \in Sessions |-> <<>>]
    /\ phase = [s \in Sessions |-> "idle"]
    /\ queue = <<>>
    /\ readers = [s \in Sessions |-> 0]
    /\ writer = None

Goes(s, place) == phase' = [phase EXCEPT ![s] = place]

Receive(s, program) ==
    /\ phase[s] = "idle"
    /\ todo' = [todo EXCEPT ![s] = program]
    /\ Goes(s, "running")
    /\ UNCHANGED lock

(***************************************************************************)
(* The lock.                                                               *)
(***************************************************************************)
Ask(s) ==
    /\ phase[s] = "running"
    /\ todo[s] # <<>>
    /\ queue' = Append(queue, s)
    /\ Goes(s, "waiting")
    /\ UNCHANGED <<todo, readers, writer>>

\* Mutant of AtTurn: readers overtake whoever waits before them.
AtTurnOrReads(s) == s = Head(queue) \/ Head(todo[s]).mode = "read"

AtTurn(s) == s = Head(queue)

FitsIn(mode) ==
    /\ writer = None
    /\ mode = "write" => \A s \in Sessions : readers[s] = 0

Grant(s) ==
    /\ phase[s] = "waiting"
    /\ AtTurn(s)
    /\ FitsIn(Head(todo[s]).mode)
    /\ queue' = SelectSeq(queue, LAMBDA t : t # s)
    /\ IF Head(todo[s]).mode = "read"
       THEN readers' = [readers EXCEPT ![s] = @ + 1] /\ UNCHANGED writer
       ELSE writer' = s /\ UNCHANGED readers
    /\ Goes(s, "holding")
    /\ UNCHANGED todo

(***************************************************************************)
(* Under the guard.                                                        *)
(***************************************************************************)

\* Dropping is the end of a scope: of a phase, or of the whole call.
Drop(s) ==
    /\ readers' = [readers EXCEPT ![s] = 0]
    /\ writer' = IF writer = s THEN None ELSE writer
    /\ UNCHANGED queue

AwaitDatabase(s) ==
    /\ phase[s] = "holding"
    /\ Head(todo[s]).saves
    /\ Goes(s, "saving")
    /\ UNCHANGED <<todo, lock>>

\* The phase is done - with an answer of the database, if it has asked.
EndPhase(s) ==
    /\ \/ phase[s] = "holding" /\ ~ Head(todo[s]).saves
       \/ phase[s] = "saving"
    /\ todo' = [todo EXCEPT ![s] = Tail(@)]
    /\ IF Head(todo[s]).keeps THEN UNCHANGED lock ELSE Drop(s)
    /\ Goes(s, "running")

\* An early return or an error, of the database or of the call itself: the
\* rest of the line is skipped.
GiveUp(s) ==
    /\ phase[s] \in {"holding", "saving"}
    /\ todo' = [todo EXCEPT ![s] = <<>>]
    /\ Drop(s)
    /\ Goes(s, "running")

Prompt(s) ==
    /\ phase[s] = "running"
    /\ todo[s] = <<>>
    /\ Goes(s, "idle")
    /\ UNCHANGED <<todo, lock>>

Proceed(s) ==
    \/ Ask(s)
    \/ Grant(s)
    \/ AwaitDatabase(s)
    \/ EndPhase(s)
    \/ GiveUp(s)
    \/ Prompt(s)

LockNext == \E s \in Sessions :
    \/ \E program \in Programs : Receive(s, program)
    \/ Proceed(s)

\* Tokio polls every task that can go on, its semaphore hands the permits out
\* in order, and the database is assumed to answer or to fail.
Fairness == \A s \in Sessions : WF_lockVars(Proceed(s))

LockSpec == LockInit /\ [][LockNext]_lockVars /\ Fairness

(***************************************************************************)
(* Properties.                                                             *)
(***************************************************************************)
\* The state has its types; nobody holds a read guard twice.
LockTypeOK ==
    /\ todo \in [Sessions -> Seq(Phase)]
    /\ phase \in [Sessions -> Places]
    /\ queue \in Seq(Sessions)
    /\ readers \in [Sessions -> 0 .. 1]
    /\ writer \in Sessions \cup {None}

\* Who writes is alone, also while it waits for the database: what a call has
\* read under its write guard is still so when it writes.
Exclusion == writer # None => \A s \in Sessions : readers[s] = 0

\* Nobody queues for the lock with a guard in hand.  In a fair queue this is
\* what keeps two sessions from waiting for each other: a second read guard
\* would wait behind a writer that waits for the first one (mode_switch).
NoHoldAndWait ==
    \A s \in Sessions : phase[s] = "waiting" => readers[s] = 0 /\ writer # s

\* Every line comes to its prompt, whatever the other sessions keep asking for.
EveryLineAnswered == \A s \in Sessions : phase[s] # "idle" ~> phase[s] = "idle"
=============================================================================
