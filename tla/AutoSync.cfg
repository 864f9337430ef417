CONSTANTS
    Platforms = {TRUE, FALSE}
    MaxEdits = 2
    MaxFaults = 2
    MaxManual = 1
    MaxSuspends = 2
SPECIFICATION FairSpec
CHECK_DEADLOCK FALSE
INVARIANTS
    TypeOK
    CooldownHasRetry
PROPERTIES
    AutoWaitsOutCooldown
    EditsArePushed
