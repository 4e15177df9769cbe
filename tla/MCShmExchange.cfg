SPECIFICATION FairSpec
CONSTANTS
    ProcessCount = 2
    PayloadMax = 3
    CountMod = 3
INVARIANTS
    NeverMissed
    NoOverwrite
PROPERTIES
    ImplementsSlot
    WritesGoThrough
