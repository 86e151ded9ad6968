SPECIFICATION Spec
CONSTANTS
    t1 = t1
    t2 = t2
    t3 = t3
    Teams <- MCTeams
    MaxId = 4
SYMMETRY Symmetry
INVARIANTS
    TypeOK
    UniqueIds
    NoReuseInUse
    NoIdLost
    ZeroMeansExhausted
