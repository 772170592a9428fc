SPECIFICATION Spec
CONSTANTS
    Runtimes = {r1, r2}
    Objects = {o}
    Undefined = undefined
    RT_ID_MASK = 3
    SLOT_GEN_MAX = 2
    SLOT_INITIAL_CAP = 1
    SLOT_INDEX_LIMIT = 3
    MaxOpened = 2
    MaxOwned = 3
    MaxCalls = 2
    MaxArgs = 0
    MaxTaken = 1
SYMMETRY Symmetric
INVARIANTS
    OwnedExact
    SlotsAccounted
    ScopedRight
CHECK_DEADLOCK FALSE
