SPECIFICATION Spec
CONSTANTS
    Slots = {s1, s2, s3}
    Admins = {s1}
    NoSlot = NoSlot
    MaxCheckpoints = 2
    CountDownFrom = 1
SYMMETRY Symmetry
INVARIANTS
    TypeOK
    JoinedIsRacer
    RanksInOrder
    DoneRaceIsRemoved
