SPECIFICATION FairSpec
CONSTANTS
    Teams = {red, blue}
    NoTeam = NoTeam
    Players = {p1, p2}
    TurfWarLast = 2
    TurfWarTimeout = 1
    MaxObjects = 1
    MaxKills = 0
    Lossy = FALSE
INVARIANTS
    CallsDoNotCross
PROPERTIES
    WarsEnd
