SPECIFICATION Spec
CONSTANTS
    Players = {p1, p2, g1}
    Guests = {g1}
    NoOwner = NoOwner
    Value = 2
    Profit = 1
    Period = 2
    StartMoney = 2
    MaxTime = 3
    MaxMoney = 1
    MaxDoubts = 1
SYMMETRY Symmetry
INVARIANTS
    TypeOK
    PropertySaved
    
    ProfitEarned
