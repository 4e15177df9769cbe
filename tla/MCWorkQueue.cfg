SPECIFICATION FairSpec
CONSTANTS
    ThreadCount = 3
    MaxUnits = 4
INVARIANTS
    NoLostWakeup
    LinkedNotFreed
PROPERTIES
    ImplementsPool
    QueuedUnitRuns
    PoolShutsDown
