SPECIFICATION FramingSpec
CONSTANTS
    Conns = {c1, c2}
    Size = 3
    Length = 6
SYMMETRY Symmetry
INVARIANTS
    WholeUntilHarm
    SplitRealigns
CHECK_DEADLOCK FALSE
