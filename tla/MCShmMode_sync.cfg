SPECIFICATION Spec
CONSTANTS
    ProcessCount = 2
    Modes = {0, 1}
    CountMod = 16
    MaxSets = 1
PROPERTY OutOfSyncReported
