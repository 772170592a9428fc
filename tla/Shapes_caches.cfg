SPECIFICATION Spec
CONSTANTS
    Objects = {"instance"}
    Prototype <- MCPrototype
    None = "none"
    a = a
    b = b
    u = u
    Keys = {a, b}
    Values = {u}
    Flags = {0, 1}
    Plain = 0
    ReadOnly = 1
    Cleared = "cleared"
    Pinned = {a, b}
    KeyRefs = 1
    MaxShapes = 4
    AllocFails = FALSE
    MaxRecycles = 3
    LinkMask = 15
    GenMask = 7
    Caches = {"getprop", "put", "mega"}
SYMMETRY SymmetricKeys
CHECK_DEADLOCK FALSE
INVARIANTS
    CachesRight
