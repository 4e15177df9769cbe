SPECIFICATION Spec
CONSTANTS
    ProcessCount = 2
    MaxInits = 2
    MaxWrites = 1
    MaxReplaced = 1
INVARIANTS
    InvitedSucceeds
    KeepsUp
    MapsOnce
PROPERTY DetachUnlinksOwn
CHECK_DEADLOCK FALSE
