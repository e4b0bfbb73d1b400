SPECIFICATION Spec
CONSTANTS
    Players = {p1, p2}
    Sessions = {s1, s2}
    None = None
    StartWallet = 120
    Prices = {10, 30}
    Buyouts <- Asked
    Bids = {31, 50}
    Floor = 25
    Fee = 10
    MaxPerWindow = 1
    Window = 1
    Lifetime = 1
    MaxTime = 2
    MaxListings = 3
SYMMETRY Symmetry
INVARIANTS TypeOK BooksBalance
PROPERTIES DebtsAreOwn TermsStand
