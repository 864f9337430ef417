SPECIFICATION Spec
CONSTANTS
    d1 = d1
    d2 = d2
    Devices = {d1, d2, d3}
    d3 = d3
    Skew = 2
    Window = 0
    BackupRestore = 1
    Writer <- MCWriter3
    Worlds <- MCAligned3
    MaxRevision = 9
    MaxNow = 3
    EditUntil = 3
    MaxWrites = 4
PROPERTY Convergence
