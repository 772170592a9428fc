SPECIFICATION Spec
CONSTANTS
    MaxPromises = 4
    MaxCells = 4
    MaxOps = 4
    MaxEntries = 2
    Plain = {v1}
    Thenable = {t1}
    Poison = {z1}
    Error = err
    Interrupted = intr
    InterruptSites = {}
    InlineDrains = TRUE
    TrackerEvals = TRUE
INVARIANTS
    StackDiscipline
    FollowersAgree
CHECK_DEADLOCK FALSE
