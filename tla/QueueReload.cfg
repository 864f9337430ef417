CONSTANTS
    c1 = c1
    c2 = c2
    NoSave = NoSave
    Callers <- TwoCallers
    MaxAttempts = 2
    MaxPending = 2
    MaxEdits = 1
    Worlds <- MCWorlds
SPECIFICATION Spec
CHECK_DEADLOCK FALSE
PROPERTIES
    ReloadKeepsEdits
