SPECIFICATION Spec
CONSTANTS
    Players = {p1, p2}
    Sessions = {s1, s2}
    None = None
    Npcs = {"VLT", "APX"}
    Replaceable = {"VLT"}
    ChoosableTiers = {"Hardcore"}
    StartHp = 20
    BaseHp = 20
    PoolSize = 3
    Blows = {20}
    BonusDamage = 10
    NpcBlows = {40}
    RewardWallet = 30
    RewardRep = 5
    Commands = {c1}
    MaxHacks = 2
SYMMETRY Symmetry
INVARIANTS TypeOK HacksStand LedgerIsConsistent LedgerPays
