SPECIFICATION Spec
CONSTANTS
    Half = 4
    Devs = {0}
    InodeNumbers = {0, 2, 3, 5, 6}
    Entry <- MCEntry
    InitialCapacity = 2
    MaxEntries = 4
    Qsort <- Msort
CHECK_DEADLOCK FALSE
INVARIANTS FoundIffListed
