SPECIFICATION Spec
CONSTANTS
    Players = {p1}
    Sessions = {s1, s2}
    None = None
    StartWallet = 120
    Prices = {30}
    Buyouts = {}
    Bids = {}
    Floor = 25
    Fee = 10
    MaxPerWindow = 2
    Window = 2
    Lifetime = 2
    MaxTime = 6
    MaxListings = 7
SYMMETRY Symmetry
INVARIANT ListingsAreThrottled
