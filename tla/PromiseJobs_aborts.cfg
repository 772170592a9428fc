SPECIFICATION Spec
CONSTANTS
    MaxPromises = 3
    MaxCells = 3
    MaxOps = 3
    MaxEntries = 3
    Plain = {v1}
    Thenable = {t1}
    Poison = {z1}
    Error = err
    Interrupted = intr
    InterruptSites = {"script", "handler", "thenable", "executor"}
    InlineDrains = FALSE
    TrackerEvals = TRUE
INVARIANTS
    ExactlyOneSettler
CHECK_DEADLOCK FALSE
