SPECIFICATION Spec
CONSTANTS
    Threads = {main, pool}
    Items = {zone}
    Values = {old, new}
    None = None
    Nobody = Nobody
    MaxConnections = 2
    MaxCalls = 3
SYMMETRY Symmetry
CHECK_DEADLOCK FALSE
INVARIANTS
    TypeOK
    NormalReturnTookEffect
    RepliesMatchWaiters
    ItemMatchesDocument
PROPERTIES
    ImplementsStore
