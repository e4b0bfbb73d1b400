SPECIFICATION Spec
CONSTANTS
    EmptyName = EmptyName
    Players = {p1}
    Sessions = {s1, s2}
    None = None
    Codes <- OneOfTwo
    Secret = "secret"
    SecretReputation = 30
    MaxReputation = 50
    MaxRestarts = 1
SYMMETRY Symmetry
INVARIANTS TypeOK PaperTrail
PROPERTIES ShownWork StoredBansStay
