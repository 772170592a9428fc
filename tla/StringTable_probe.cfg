SPECIFICATION Spec
CONSTANTS
    MaxStrings = 3
    Contents = {0, 1}
    Large = {}
    InitialSize = 4
    MaxSize = 8
    MaxHeld = 1
    ResetSlack = 1
    RegistryFails = TRUE
CHECK_DEADLOCK FALSE
INVARIANTS
    
    OneOwner
    HoldersLive
    KeysInterned
PROPERTIES
    SweepCollects
