SPECIFICATION FairWaitsSpec
CONSTANTS
    Degree = 3
    Total = 5
    Seconds = 1
    Nanoseconds = 3
    Micros = 2
    Nanos = 2
INVARIANTS
    EdgesAgree
    OnceAndTopDown
    ReturnCodeTrue
    NoLostReport
    SubtreeDone
PROPERTIES
    ReachesAll
    WaitReturns
CHECK_DEADLOCK FALSE
