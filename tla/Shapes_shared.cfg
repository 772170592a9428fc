SPECIFICATION Spec
CONSTANTS
    Objects = {"instance", "proto"}
    Prototype <- MCPrototype
    None = "none"
    a = a
    b = b
    u = u
    v = v
    Keys = {a, b}
    Values = {u, v}
    Flags = {0, 1}
    Plain = 0
    ReadOnly = 1
    Cleared = "cleared"
    Pinned = {a, b}
    KeyRefs = 1
    MaxShapes = 4
    AllocFails = FALSE
    MaxRecycles = 3
    LinkMask = 15
    GenMask = 7
    Caches = {}
SYMMETRY Symmetric
CHECK_DEADLOCK FALSE
INVARIANTS
    PrivateUnshared

    
