SPECIFICATION Spec
CONSTANTS
    Objects = {"instance", "proto"}
    Prototype <- MCPrototype
    None = "none"
    a = a
    b = b
    u = u
    Keys = {a, b}
    Values = {u}
    Flags = {0, 1}
    Plain = 0
    ReadOnly = 1
    Cleared = "cleared"
    Pinned = {a, b}
    KeyRefs = 1
    MaxShapes = 3
    AllocFails = TRUE
    MaxRecycles = 3
    LinkMask = 15
    GenMask = 7
    Caches = {"mega"}
SYMMETRY SymmetricKeys
CHECK_DEADLOCK FALSE
INVARIANTS
    FreeListSound
    CachesRight
