SPECIFICATION Spec
CONSTANTS
    Skew = 2
    Window = 1
    BackupRestore = 1
    Now = 2
    Revs = {0, 1, 2}
    Writers = {0, 1, 2}
    Contents = {0, 1}
    Times <- MCTimes
INVARIANT PeersAgree
PROPERTIES
    LaterOperationWins
    DominantDeleteStays
    DominantLiveStays
