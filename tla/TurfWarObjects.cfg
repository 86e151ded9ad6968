SPECIFICATION Spec
CONSTANTS
    Teams = {red, blue}
    NoTeam = NoTeam
    Players = {p1, p2}
    TurfWarLast = 2
    TurfWarTimeout = 1
    MaxObjects = 2
    MaxKills = 0
    Lossy = FALSE
SYMMETRY Symmetry
INVARIANTS
    OwnerSaved
