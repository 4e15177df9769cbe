SPECIFICATION Spec
CONSTANTS
    Threads = {t1, t2}
    NoOne = NoOne
    MAX_SERVER_CONNECTIONS = 2
    NConns = 2
    MaxHeld = 2
    Faults = {"setup", "thread", "name", "error", "slow", "spurious"}
SYMMETRY Symmetry
INVARIANTS
    TableSound
    NoOrphan
    CountTracksTable
    SendSafeUnlessRaced
    HolderGoesOn
CHECK_DEADLOCK FALSE
