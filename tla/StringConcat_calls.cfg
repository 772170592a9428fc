SPECIFICATION Spec
CONSTANTS
    MaxStrings = 3
    MaxLen = 3
    AccumMin = 2
    Chunks = {a}
    Bindings = {s, k}
    ConstBindings = {k}
    Locals = {l}
    Slots = {}
    AssignOther = TRUE
    RhsCalls = TRUE
INVARIANTS
    CountsExact
PROPERTIES
    InternedFrozen
