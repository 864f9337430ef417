SPECIFICATION Spec
CONSTANTS
    a = a
    b = b
    p = p
    q = q
    Devices = {a, b}
    Nobody = Nobody
    Passphrases = {p, q}
    Salts <- MCSalts
    Worlds <- MCDesktop
    MaxEdits = 1
PROPERTY RetryFinishes
CHECK_DEADLOCK FALSE
