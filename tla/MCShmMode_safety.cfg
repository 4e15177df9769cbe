SPECIFICATION Spec
CONSTANTS
    ProcessCount = 2
    Modes = {0, 1}
    CountMod = 3
    MaxSets = 3
PROPERTIES
    AgreementWasReported
    SettledPollExact
