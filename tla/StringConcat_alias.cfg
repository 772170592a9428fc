SPECIFICATION Spec
CONSTANTS
    MaxStrings = 3
    MaxLen = 5
    AccumMin = 2
    Chunks = {a}
    Bindings = {s}
    ConstBindings = {}
    Locals = {}
    Slots = {x}
    AssignOther = FALSE
    RhsCalls = FALSE
INVARIANTS
    AppendUnobservable
    KeysCanonical
