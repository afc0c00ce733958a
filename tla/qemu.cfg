SPECIFICATION Spec
CONSTANTS
    s1 = s1
    s2 = s2
    None = None
    Sessions = {s1, s2}
    Ops = {"create", "login"}
    Creators = {s1}
    MaxMishaps = 1
    Archs = {"amd64", "s390x"}
    HostArch = "amd64"
    KvmExists = TRUE
    Codes = {0, 1}
CHECK_DEADLOCK FALSE
INVARIANTS TypeOK ImagesAtRest SavedWhole NothingLeft
PROPERTIES ForkQemuRuns Answered
