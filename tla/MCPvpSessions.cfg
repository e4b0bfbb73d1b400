SPECIFICATION Spec
CONSTANTS
    Players = {alice, bob}
    ChoosableTiers = {"Hardcore"}
    StartHp = 20
    AttackDamage = {30}
    ScriptDamage = {10}
    MaxDuels = 2
    Sessions = {s1, s2}
    None = None
SYMMETRY Symmetry
INVARIANTS TypeOK HeldDuelIsLive ChallengerUntouched BothStanding BooksBalance
PROPERTIES AbandonedDuelsFreeze BanTakesHold ImplementsDuels
