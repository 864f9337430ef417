CONSTANTS
    d1 = d1
    d2 = d2
    i1 = i1
    i2 = i2
    i3 = i3
    Devices <- TwoDevices
    Items <- TwoItems
    Author <- OneEach
    Desktop <- FirstOnly
    Backends = {"file", "merging"}
    MaxRev = 1
    MaxFaults = 1
    MaxCrashes = 1
SPECIFICATION FairSpec
CHECK_DEADLOCK FALSE
CONSTRAINT OneTrouble
PROPERTIES
    Convergence
