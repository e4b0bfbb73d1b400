SPECIFICATION Spec
CONSTANTS
    EmptyName = EmptyName
    Players = {p1}
    Sessions = {s1}
    None = None
    Codes <- Misleading
    Secret = "secret"
    SecretReputation = 60
    MaxReputation = 60
    MaxRestarts = 0
PROPERTY SuggestionsWork
