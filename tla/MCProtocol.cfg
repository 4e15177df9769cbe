SPECIFICATION ProtocolSpec
CONSTANTS
    Modulus = 4
    Numbers = {1, 2}
    Strings <- MCStrings
    MaxApplications = 2
    Others <- MCOthers
INVARIANTS
    FieldsIntact
    WholeOrCrash
CHECK_DEADLOCK FALSE
