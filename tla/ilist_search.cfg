SPECIFICATION Spec
CONSTANTS
    Half = 4
    Devs = {0, 3}
    InodeNumbers = {0, 1, 3}
    Entry <- MCEntry
    InitialCapacity = 2
    MaxEntries = 5
    Qsort <- Msort
CHECK_DEADLOCK FALSE
INVARIANTS TypeOK RoomForNext FoundIffListed
PROPERTIES IsASet
