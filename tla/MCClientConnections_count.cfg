SPECIFICATION Spec
CONSTANTS
    Threads = {t1}
    NoOne = NoOne
    MAX_SERVER_CONNECTIONS = 2
    NConns = 1
    MaxHeld = 1
    Faults = {}
INVARIANT CountNonNegative
CHECK_DEADLOCK FALSE
