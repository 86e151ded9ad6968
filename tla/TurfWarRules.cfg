SPECIFICATION Spec
CONSTANTS
    Teams = {red, blue}
    NoTeam = NoTeam
    Players = {p1, p2}
    TurfWarLast = 1
    TurfWarTimeout = 1
    MaxObjects = 1
    MaxKills = 1
    Lossy = FALSE
SYMMETRY Symmetry
INVARIANTS
    WarHasAnEnd
    TrueMeansAttackerWins
    TimeoutOnlyUnanswered
    ScoreStartsLevel
