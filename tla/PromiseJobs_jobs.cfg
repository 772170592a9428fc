SPECIFICATION FairSpec
CONSTANTS
    MaxPromises = 4
    MaxCells = 4
    MaxOps = 4
    MaxEntries = 2
    Plain = {v1}
    Thenable = {t1}
    Poison = {z1}
    Error = err
    Interrupted = intr
    InterruptSites = {"script", "handler"}
    InlineDrains = FALSE
    TrackerEvals = FALSE
CHECK_DEADLOCK FALSE
INVARIANTS
    TypeOK
    NoStrandedReactions
    
    UnhandledReported
    InterruptSettlesNothing
    InterruptSurfaces
PROPERTIES
    SettledForGood
    ReportsAfterTick
    JobsAreFifo
    HostCallsReturn
