SPECIFICATION ShellSpec
CONSTANTS
    EmptyName = ""
    PathOf <- MCPathOf
    Variables <- MCVariables
    Bindings <- MCBindings
    TypedLines <- MCLines
    Samples <- MCSamples
    HistoryLimit = 2
    MaxTyped = 5
INVARIANTS HistoryFile ParsesSegmentwise
PROPERTY StatusAgrees
\* A session may end after any line.
CHECK_DEADLOCK FALSE
