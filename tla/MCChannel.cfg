SPECIFICATION FairChannelSpec
CONSTANTS
    Senders = {s1, s2}
    NoOne = NoOne
    MaxMsgs = 4
    Size = 2
INVARIANTS
    OnlyOvertakenLost
    HandledInOrder
    ExitNeedsCrowding
PROPERTY LinkedIsHandled
CHECK_DEADLOCK FALSE
