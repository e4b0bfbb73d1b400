------------------------------ MODULE Terminal ------------------------------
(***************************************************************************)
(* One SSH connection of crates/ssh_hunt_server/src/main.rs: the line      *)
(* editor that makes lines of the bytes of its packets (data and           *)
(* submit_line), the commands that a client sends whole (exec_request),    *)
(* and the first gates that run_line puts before a line: the ban, a secret *)
(* that is awaited and the rate limit.  The channels of a connection share *)
(* one editor and one limit.                                               *)
(***************************************************************************)
EXTENDS Integers, Sequences, FiniteSets

CONSTANTS
    Channels,
    Letters, Blanks,      \* ordinary bytes: those that end an escape sequence, and spaces
    ExitLine, KeyLine,    \* "exit" and "keyvault register"
    ExecLines,            \* what clients send whole
    EscapeLimit,          \* bytes an escape sequence may go on for (8)
    Burst, Second,        \* so many lines in so much time
    MaxPacket, MaxTyped, MaxTime  \* bounds: bytes in a packet, in a run, and time

\* CR, LF, Ctrl-C, backspace and ESC.
Controls == {"CR", "LF", "INT", "DEL", "ESC"}
Bytes == Controls \cup Letters \cup Blanks

ASSUME TerminalAssumption ==
    /\ Letters \cap Blanks = {} /\ Controls \cap (Letters \cup Blanks) = {}
    /\ ExitLine # <<>>
    /\ EscapeLimit \in Nat \ {0} /\ Burst \in Nat \ {0} /\ Second \in Nat \ {0}
    /\ MaxPacket \in Nat /\ MaxTyped \in Nat /\ MaxTime \in Nat

VARIABLES
    open,     \* the channels that are
    editor,   \* line_buffer, pending_lf_after_cr and escape_sequence_remaining
    gate,     \* the secret that is awaited, and command_window
    zeroed,   \* whether the connection's player is banned
    now,
    typed,    \* history: the bytes the editor has handled,
    lines,    \*          the lines it has submitted,
    rated     \*          and the lines the rate limit has let run or refused

terminalVars == <<open, editor, gate, zeroed, now, typed, lines, rated>>

TerminalInit ==
    /\ open = Channels
    /\ editor = [buffer |-> <<>>, lf |-> FALSE, escape |-> 0]
    /\ \E s \in {"none", "passphrase"} : gate = [secret |-> s, window |-> <<>>]
    /\ zeroed \in BOOLEAN
    /\ now = 0
    /\ typed = <<>> /\ lines = <<>> /\ rated = <<>>

-----------------------------------------------------------------------------
(* run_line, up to the rate limit, on the state s of a connection *)

Trim(line) ==
    LET ink == {i \in DOMAIN line : line[i] \notin Blanks}
    IN  IF ink = {} THEN <<>>
        ELSE LET first == CHOOSE i \in ink : \A j \in ink : i <= j
                 last == CHOOSE i \in ink : \A j \in ink : i >= j
             IN  SubSeq(line, first, last)

\* Mutant of Recent: a line of exactly a second ago is forgotten.
RecentStrictly(window) ==
    LET first == CHOOSE i \in 1..Len(window) + 1 :
                    /\ i <= Len(window) => now - window[i] < Second
                    /\ \A j \in 1..i-1 : now - window[j] >= Second
    IN  SubSeq(window, first, Len(window))

\* What is too old goes from the front, up to the first that is not.
Recent(window) ==
    LET first == CHOOSE i \in 1..Len(window) + 1 :
                    /\ i <= Len(window) => now - window[i] <= Second
                    /\ \A j \in 1..i-1 : now - window[j] > Second
    IN  SubSeq(window, first, Len(window))

Rated(s, line) ==
    LET window == Recent(s.gate.window)
        ran == Len(window) < Burst
    IN  [s EXCEPT !.gate.window = IF ran THEN Append(window, now) ELSE window,
                  !.gate.secret = IF ran /\ line = KeyLine THEN "key" ELSE "none",
                  !.rated = Append(@, [time |-> now, ran |-> ran])]

\* What closes the channel: "exit", and any line of a banned player.
Closes(line) == line # <<>> /\ (line = ExitLine \/ zeroed)

\* A secret that is awaited takes the line, whatever it is, past the limit.
Run(s, line) ==
    CASE line = <<>> -> s
      [] Closes(line) -> [s EXCEPT !.closed = TRUE]
      [] line # <<>> /\ ~Closes(line) /\ s.gate.secret # "none" -> [s EXCEPT !.gate.secret = "none"]
      [] OTHER -> Rated(s, line)

-----------------------------------------------------------------------------
(* data, byte by byte *)

SubmitLine(s) ==
    IF s.editor.buffer = <<>> THEN s
    ELSE Run([s EXCEPT !.editor.buffer = <<>>, !.lines = Append(@, s.editor.buffer)],
             Trim(s.editor.buffer))

OnLineFeed(s) ==
    IF s.editor.lf THEN [s EXCEPT !.editor.lf = FALSE]
    ELSE SubmitLine([s EXCEPT !.editor.escape = 0])

\* The last byte of the line goes, if there is one.
Erased(buffer) == IF buffer = <<>> THEN buffer ELSE SubSeq(buffer, 1, Len(buffer) - 1)

\* Mutant of OnOrdinary: a letter ends the sequence and is kept.
OnOrdinaryKept(s, b) ==
    LET e == [s.editor EXCEPT !.lf = FALSE]
    IN  IF e.escape = 0 \/ b \in Letters
        THEN [s EXCEPT !.editor = [e EXCEPT !.buffer = Append(@, b), !.escape = 0]]
        ELSE [s EXCEPT !.editor = [e EXCEPT !.escape = @ - 1]]

\* An escape sequence goes on to its first letter, or until it is too long.
OnOrdinary(s, b) ==
    LET e == [s.editor EXCEPT !.lf = FALSE]
    IN  IF e.escape = 0 THEN [s EXCEPT !.editor = [e EXCEPT !.buffer = Append(@, b)]]
        ELSE [s EXCEPT !.editor = [e EXCEPT !.escape = IF b \in Letters THEN 0 ELSE @ - 1]]

Edit(s, b) ==
    CASE b = "CR" -> SubmitLine([s EXCEPT !.editor.lf = TRUE, !.editor.escape = 0])
      [] b = "LF" -> OnLineFeed(s)
      [] b = "INT" -> [s EXCEPT !.editor = [buffer |-> <<>>, lf |-> FALSE, escape |-> 0]]
      [] b = "DEL" -> [s EXCEPT !.editor = [buffer |-> Erased(@.buffer), lf |-> FALSE, escape |-> 0]]
      [] b = "ESC" -> [s EXCEPT !.editor = [@ EXCEPT !.lf = FALSE, !.escape = EscapeLimit]]
      [] OTHER -> OnOrdinary(s, b)

\* The rest of a packet is dropped once a line has closed the channel.
Byte(s, b) == IF s.closed THEN s ELSE Edit([s EXCEPT !.typed = Append(@, b)], b)

-----------------------------------------------------------------------------

Here == [editor |-> editor, gate |-> gate, typed |-> typed, lines |-> lines, rated |-> rated,
         closed |-> FALSE]

Leaves(s) ==
    /\ editor' = s.editor /\ gate' = s.gate
    /\ typed' = s.typed /\ lines' = s.lines /\ rated' = s.rated

data(c, packet) ==
    LET after[n \in 0..Len(packet)] == IF n = 0 THEN Here ELSE Byte(after[n - 1], packet[n])
        s == after[Len(packet)]
    IN  /\ Len(typed) + Len(packet) <= MaxTyped
        /\ Leaves(s)
        /\ open' = IF s.closed THEN open \ {c} ELSE open
        /\ UNCHANGED <<zeroed, now>>

\* The channel of a command closes after it, and the editor is not asked.
exec_request(c, line) ==
    /\ Leaves(Run(Here, Trim(line)))
    /\ open' = open \ {c}
    /\ UNCHANGED <<zeroed, now>>

\* Another connection of the player, or what the last line tried, has it banned.
BeZeroed ==
    /\ ~zeroed
    /\ zeroed' = TRUE
    /\ UNCHANGED <<open, editor, gate, now, typed, lines, rated>>

Tick ==
    /\ now < MaxTime
    /\ now' = now + 1
    /\ UNCHANGED <<open, editor, gate, zeroed, typed, lines, rated>>

TerminalNext ==
    \/ \E c \in open, n \in 1..MaxPacket : \E packet \in [1..n -> Bytes] : data(c, packet)
    \/ \E c \in open, line \in ExecLines : exec_request(c, line)
    \/ BeZeroed
    \/ Tick

TerminalSpec == TerminalInit /\ [][TerminalNext]_terminalVars

-----------------------------------------------------------------------------

\* Of the bytes t: one that an escape sequence takes, a line feed that belongs
\* to the carriage return before it, and what ends a line.
Swallowed(t, i) ==
    /\ t[i] \notin Controls
    /\ \E e \in 1..i-1 :
        /\ t[e] = "ESC"
        /\ i - e <= EscapeLimit
        /\ \A k \in e+1..i-1 : t[k] \in Blanks
Paired(t, i) == t[i] = "LF" /\ i > 1 /\ t[i - 1] = "CR"
Ends(t) == {i \in DOMAIN t : t[i] \in {"CR", "LF"} /\ ~Paired(t, i)}
Cuts(t) == Ends(t) \cup {i \in DOMAIN t : t[i] = "INT"}

\* What is left of the bytes up to `to`: those after the last cut that have
\* not been erased, a byte being erased by the erasure that finds no younger
\* byte to erase.
Printed(t, from, to) == {i \in from..to : t[i] \notin Controls /\ ~Swallowed(t, i)}
Erasures(t, from, to) == {i \in from..to : t[i] = "DEL"}
Outlives(t, i, to) ==
    \A k \in i+1..to : Cardinality(Erasures(t, i + 1, k)) <= Cardinality(Printed(t, i + 1, k))
Left(t, to) == {i \in Printed(t, 1, to) : Cuts(t) \cap i..to = {} /\ Outlives(t, i, to)}

\* The text is made of the bytes at the places S, in order.
Rank(S, i) == Cardinality({j \in S : j <= i})
Spells(text, t, S) ==
    /\ Len(text) = Cardinality(S)
    /\ \A i \in S : text[Rank(S, i)] = t[i]

\* The ends of lines with something in them.
Filled(t) == {e \in Ends(t) : Left(t, e - 1) # {}}

\* However the bytes are cut into packets, spread over the channels and mixed
\* with commands: the lines submitted are, in order and none twice, the texts
\* that stood before each end of line, those that were empty left out, and the
\* buffer holds the text since.  CR LF ends one line, LF LF two; of an escape
\* sequence the bytes up to its first letter are left out, at most EscapeLimit of
\* them, also when the packets split it.  (What follows that letter is text: of
\* ESC O P, a function key, the P stays.)
EditorAgrees ==
    /\ Spells(editor.buffer, typed, Left(typed, Len(typed)))
    /\ Len(lines) = Cardinality(Filled(typed))
    /\ \A e \in Filled(typed) : Spells(lines[Rank(Filled(typed), e)], typed, Left(typed, e - 1))

\* A line is refused exactly if as many lines as the limit allows ran in the
\* second before it: no second, wherever it starts, sees more of them, and the
\* refused ones do not count, so that typing on does not prolong the refusal.
LimitIsSharp ==
    \A i \in DOMAIN rated :
        LET before == {j \in 1..i-1 : rated[j].ran /\ rated[i].time - rated[j].time <= Second}
        IN  rated[i].ran <=> Cardinality(before) < Burst
=============================================================================
