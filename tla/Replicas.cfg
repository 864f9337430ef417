SPECIFICATION Spec
CONSTANTS
    d1 = d1
    d2 = d2
    Devices = {d1, d2}
    d3 = d3
    Skew = 2
    Window = 1
    BackupRestore = 1
    Writer <- MCWriter2
    Worlds <- MCWorlds2
    MaxRevision = 3
    MaxNow = 8
    EditUntil = 4
    MaxWrites = 3
INVARIANTS
    TypeOK
    RevisionOrdersHistory
PROPERTIES
    NoCausalUndo
    Convergence
    RestoreOutlivesOlderDeletes
