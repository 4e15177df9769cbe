SPECIFICATION Spec
CONSTANTS
    NWorkers = 2
    NConns = 2
    NChildren = 2
    MAX_SERVER_CONNECTIONS = 2
INVARIANTS
    ListIsLive
    EofFinds
    QuietCloseIsSafe
    CascadeComplete
PROPERTIES
    CascadeOnlyOwn
CHECK_DEADLOCK FALSE
