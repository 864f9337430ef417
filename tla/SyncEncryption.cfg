SPECIFICATION Spec
CONSTANTS
    a = a
    b = b
    p = p
    q = q
    Devices = {a, b}
    Nobody = Nobody
    Passphrases = {p, q}
    Salts <- MCSalts
    Worlds <- MCWorlds
    MaxEdits = 1
INVARIANTS
    TypeOK
    NothingLost
    MixtureIsJournaled
    KeyMatchesSalt
PROPERTIES
    CommitsWhatIsThere
    NoDowngrade
    RetryFinishes
CHECK_DEADLOCK FALSE
