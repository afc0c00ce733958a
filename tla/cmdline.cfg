SPECIFICATION Spec
CONSTANTS
    MaxLine = 9
    MaxFiles = 3
    MaxOptions = 4
    MaxArgs = 2
    PairOptions = {"--debbuildopts"}
    WordOptions = {"--override-config", "--binary-arch"}
    Settings = {"--debbuildopts", "--binary-arch", "--mirror"}
    Configured <- OnePlace
    Files = {"f1", "f2"}
    Null = Null
CHECK_DEADLOCK FALSE
INVARIANTS TypeOK LineTerminated LineFaithful OverrideHeeded InputsKept ConfigurationFound
