CONSTANTS
    d1 = d1
    d2 = d2
    i1 = i1
    i2 = i2
    i3 = i3
    Devices <- TwoDevices
    Items <- ThreeItems
    Author <- TwoAndOne
    Desktop <- TwoDevices
    Backends = {"file", "fenced"}
    MaxRev = 1
    MaxFaults = 1
    MaxCrashes = 1
SPECIFICATION Spec
CHECK_DEADLOCK FALSE
SYMMETRY Swap
CONSTRAINT Small
VIEW View
INVARIANTS
    TypeOK
    SuccessMeansPublished
PROPERTIES
    RemoteNeverRegresses
    ImplementsShared
    DiskKeepsEdits
    OnlyFinalizeLosesEdits
