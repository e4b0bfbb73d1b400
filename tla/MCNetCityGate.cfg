SPECIFICATION Spec
CONSTANTS
    Players = {p1}
    Sessions = {s1, s2}
    None = None
    Lines = {k1, k2}
    Keys = {k1, k2}
    LineFp <- SameFp
    KeyFp <- SameFp
SYMMETRY Symmetry
INVARIANTS TypeOK NetCityIsEarned
PROPERTY BannedStaysOut
