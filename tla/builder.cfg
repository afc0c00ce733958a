SPECIFICATION Spec
CONSTANTS
    s1 = s1
    s2 = s2
    None = None
    Sessions = {s1, s2}
    Ops = {"build", "login", "execute", "update", "create"}
    SavingOps = {"execute"}
    StaleOps = {"build", "login", "execute"}
    KilledOps = {"build", "login"}
    Leftover = {s2}
    Etch = {s1}
    NoCow = FALSE
    Truncates = FALSE
    MtabReadable = TRUE
CHECK_DEADLOCK FALSE
INVARIANTS TypeOK HostIntact OnlyInstalled BaseKept SaveReported
PROPERTIES RunningUndisturbed
