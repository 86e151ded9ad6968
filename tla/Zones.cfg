SPECIFICATION Spec
CONSTANTS
    p1 = p1
    Docs = {d1, d2}
    Teams = {red, blue}
    NoTeam = NoTeam
    Players = {p1, p2}
    Leader <- MCLeader
    MaxMarks = 3
SYMMETRY Symmetry
CONSTRAINT FewLists
INVARIANTS
    TypeOK
    MarksLeadHome
    ListIsRight
    EverythingLoaded
