SPECIFICATION FairSpec
CONSTANTS
    t1 = t1
    t2 = t2
    t3 = t3
    Threads = {t1, t2}
    Main = t1
    Versioned = FALSE
    InOrder = TRUE
    list1 = list1
    list2 = list2
    Lists = {list1, list2}
    NULL = NULL
    FileChanges = 2
    FdLimit = 2
    MaxCalls = 2
CHECK_DEADLOCK FALSE
PROPERTIES CallsReturn
