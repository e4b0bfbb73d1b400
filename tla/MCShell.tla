------------------------------ MODULE MCShell ------------------------------
(* The instance of Shell that TLC checks. *)
EXTENDS Shell

LOCAL All == INSTANCE SequencesExt

MCPathOf ==
    "/tmp" :> [absolute |-> TRUE, parts |-> <<"tmp">>]
    @@ "/tmp/.history" :> [absolute |-> TRUE, parts |-> HistoryPath]
    @@ ".." :> [absolute |-> FALSE, parts |-> <<"..">>]
    @@ "d/f" :> [absolute |-> FALSE, parts |-> <<"d", "f">>]
MCVariables == "$?" :> "?" @@ "$x" :> "x"
MCBindings == "x=|" :> <<"x", "|">> @@ "?=7" :> <<"?", "7">>

\* One line for each thing a line can do to the state or to the history file.
MCLines == {
    <<"cd", "..", "&&", "pwd">>, <<"mkdir", "d", ";", "cd", "d">>,
    <<"touch", "f", "missing/f", "g">>,
    <<"echo", "$?", ">", "f", "||", "false">>,
    <<"cat", "<", "f", "|", "tee", "-a", "/tmp/.history">>,
    <<"cat", "f", "|", ">", "f", ";", "pwd">>,
    <<"test", "-f", "f", "&&", "rm", "f", "||", "nosuch">>,
    <<"cp", "f", "g", ";", "diff", "f", "g", ";", "mv", "g", "/tmp/.history">>,
    <<"rm", "-r", "/tmp">>, <<"mkdir", "/tmp/.history">>,
    <<"pwd", ";", "history", "|", "grep", "-v", "cd", ">", "f">>,
    <<"x=|">>, <<"echo", "$x", "tee", "f">>, <<"export", "?=7">>,
    <<">", "f">>, <<"|">>}

MCSamples == All!BoundedSeq({"w", "|", ";", ">", "<"}, 3)
=============================================================================
