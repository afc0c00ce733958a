SPECIFICATION FairSpec
CONSTANTS
    s1 = s1
    s2 = s2
    s3 = s3
    f1 = f1
    f2 = f2
    f3 = f3
    None = None
    Sessions = {s1, s2}
    Reusing = {s2}
    Files = {f1, f2, f3}
    Chunks = 3
CHECK_DEADLOCK FALSE
INVARIANTS TypeOK WholeList ListAvailable
PROPERTIES DeleterEnds
