SPECIFICATION TerminalSpec
CONSTANTS
    Channels = {c1, c2}
    Letters = {"a"}
    Blanks = {" "}
    ExitLine <- MCExitLine
    KeyLine <- MCKeyLine
    ExecLines <- MCExecLines
    EscapeLimit = 2
    Burst = 1
    Second = 1
    MaxPacket = 2
    MaxTyped = 5
    MaxTime = 2
SYMMETRY Symmetry
INVARIANTS EditorAgrees LimitIsSharp
\* All channels may be closed.
CHECK_DEADLOCK FALSE
