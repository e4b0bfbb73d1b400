------------------------------- MODULE Shell -------------------------------
(***************************************************************************)
(* The shell of one session, ShellState of                                 *)
(* crates/ssh_hunt_server/src/main.rs, under the lines that get past the   *)
(* game commands and the intrusion guard in run_line.  What such a line    *)
(* leaves behind is kept from one to the next: the file system, the        *)
(* working directory, the variables, the last status and the history,      *)
(* which is also written to a file that the lines themselves can reach.    *)
(***************************************************************************)
EXTENDS ShellEngine

CONSTANTS
    TypedLines,    \* the lines that are typed
    Samples,       \* the lines that are parsed, next to each other
    HistoryLimit,  \* run_line keeps that many lines (500)
    MaxTyped       \* bound: lines in a run

ASSUME ShellAssumption ==
    /\ TypedLines \subseteq Seq(STRING) /\ Samples \subseteq Seq(STRING)
    /\ HistoryLimit \in Nat \ {0} /\ MaxTyped \in Nat

VARIABLES vfs, cwd, env, last_exit, history,
    typed  \* how many lines there have been, for the bound

shellVars == <<vfs, cwd, env, last_exit, history, typed>>

Home == <<"home", "player">>

\* Of the files of bootstrap only the directories that matter here are kept.
ShellInit ==
    /\ vfs = MkdirP(MkdirP(NewTree, Home).tree, <<"tmp">>).tree
    /\ cwd = Home
    /\ env = [v \in {"?"} |-> "0"]
    /\ last_exit = 0
    /\ history = <<>>
    /\ typed = 0

Context == [tree |-> vfs, cwd |-> cwd, env |-> env]

\* Mutant of Remembered: one line too many is kept.
RememberedOneMore(tokens) ==
    LET all == Append(history, tokens)
    IN  IF Len(all) > HistoryLimit + 1 THEN Tail(all) ELSE all

Remembered(tokens) ==
    LET all == Append(history, tokens)
    IN  IF Len(all) > HistoryLimit THEN Tail(all) ELSE all

\* Mutant of Saved: a line is added to the file, not the file written anew.
SavedAppended(t, hist) == WriteFile(t, HistoryPath, <<hist[Len(hist)]>>, TRUE).tree

\* The history file; nobody is told if it cannot be written.
Saved(t, hist) == WriteFile(t, HistoryPath, hist, FALSE).tree

\* A line that cannot be parsed ends run_line at once and leaves no trace.
RunLine(tokens) ==
    /\ ~Refuses(Context, tokens)
    /\ \E r \in {Execute(Context, tokens)} :
        /\ history' = Remembered(tokens)
        /\ vfs' = Saved(r.ctx.tree, history')
        /\ cwd' = r.ctx.cwd
        /\ env' = r.ctx.env
        /\ last_exit' = r.exit

ShellNext ==
    /\ typed < MaxTyped
    /\ typed' = typed + 1
    /\ \E tokens \in TypedLines : RunLine(tokens)

ShellSpec == ShellInit /\ [][ShellNext]_shellVars

-----------------------------------------------------------------------------

\* If there is a history file it tells the history, to the line: whatever the
\* lines do to it, write over it, move it away or take its directory, run_line
\* puts it right before the next one.
HistoryFile ==
    history # <<>> /\ IsFile(vfs, HistoryPath) =>
        /\ vfs[HistoryPath].data = history
        /\ Len(history) <= HistoryLimit

\* After a line with a command in it "$?" is the status of the session, also
\* when the line itself sets "?".  (A line without any, '' or "> f", sets the
\* status to 0 and leaves "$?".)
StatusAgrees ==
    [][LET tokens == history'[Len(history')]
       IN  /\ Expanded(tokens, env) # <<>>
           /\ IsBinding(tokens) \/ Parse(Expanded(tokens, env)).segments # <<>>
           => env'["?"] = ToString(last_exit')]_shellVars

\* Two lines with an operator between them are parsed as each of them alone:
\* no word and no redirection crosses the operator, if the first line ends in
\* a command.  (The redirection of "a | > f", which has none, does cross.)
Whole(tokens) == ~Parse(tokens).err /\ Parse(tokens).segments # <<>>
EndsInCommand(tokens) ==
    \E i \in DOMAIN tokens :
        /\ tokens[i] \notin ChainOps \cup Redirects \cup {"|"}
        /\ i > 1 => tokens[i - 1] \notin Redirects
        /\ \A j \in i+1..Len(tokens) : tokens[j] \notin ChainOps \cup {"|"}
ParsesSegmentwise ==
    typed = 0 => \A a \in Samples, b \in Samples, op \in ChainOps :
        Whole(a) /\ EndsInCommand(a) /\ Whole(b) =>
            LET both == Parse(a \o <<op>> \o b)
            IN  ~both.err /\ both.segments =
                    Parse(a).segments \o [Parse(b).segments EXCEPT ![1].op = op]
=============================================================================
