SPECIFICATION Spec
CONSTANTS
    Players = {p1}
    Sessions = {s1, s2}
    None = None
    Chains <- OneChain
    MaxStreak = 2
    StyleCap = 2
    MaxDay = 3
SYMMETRY Symmetry
INVARIANTS TypeOK StreakIsEarned OneDailyPerDay StreakIsComplete StyleCapPerDay
