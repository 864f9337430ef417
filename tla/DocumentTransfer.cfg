CONSTANTS
    c1 = c1
    c2 = c2
    NoSave = NoSave
    Callers <- TwoCallers
    MaxAttempts = 2
    MaxPending = 2
    MaxEdits = 3
    Worlds <- MCWorlds
SPECIFICATION FairTransferSpec
CHECK_DEADLOCK FALSE
INVARIANTS
    TransferTypeOK
    LastIsNewest
    NothingLostUnseen
    QueueIsDriven
    ConfirmedIsSaved
    ImportStays
PROPERTIES
    ReloadLosesOnlyFailed
    EditsSettle
    FlushesReturn
