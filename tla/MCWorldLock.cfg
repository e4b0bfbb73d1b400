SPECIFICATION LockSpec
CONSTANTS
    Sessions = {s1, s2, s3}
    None = None
INVARIANT NoHoldAndWait
PROPERTY EveryLineAnswered
