SPECIFICATION Spec
CONSTANTS
    p1 = p1
    p2 = p2
    i1 = i1
    i2 = i2
    f1 = f1
    f2 = f2
    t1 = t1
    t2 = t2
    None = None
    Procs = {p1, p2}
    Ignoring = {}
    Blocking = {p2}
    Paths <- MCPaths
    LinkTo <- MCLinkTo
    Temps = {t1, t2}
    Inodes = {i1, i2, f1, f2}
    Ilist = {i1, i2}
    FirstInode <- MCFirstInode
    Requests <- CoreRequests
    Removable = {"file", "new"}
    MaxCalls = 3
SYMMETRY Symmetry
CHECK_DEADLOCK FALSE
INVARIANTS TypeOK OriginalsIntact MaskRestored CopyUnseen WritesLand
PROPERTIES BreakInvisible
