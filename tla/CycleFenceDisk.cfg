CONSTANTS
    d1 = d1
    d2 = d2
    i1 = i1
    i2 = i2
    i3 = i3
    Devices <- TwoDevices
    Items <- TwoItems
    Author <- OneEach
    Desktop <- NoDevice
    Backends = {"fenced"}
    MaxRev = 1
    MaxFaults = 0
    MaxCrashes = 0
SPECIFICATION Spec
CHECK_DEADLOCK FALSE
PROPERTIES
    DiskKeepsEdits
