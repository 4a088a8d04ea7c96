SPECIFICATION FairDevSpec
CONSTANTS
    MaxSaves = 3
    MaxHtmlSaves = 1
    MaxRestarts = 1
    Compiles = {0, 1, 3}
    CrateOf <- OneName
    Backends = {"rust", "gc"}
    Torn = Torn
    Missing = Missing
INVARIANTS
    DevTypeOK
    SettledPageIsFresh
    GoodBuildKeepsServing
PROPERTIES
    BuildsMoveForward
    WatchedSavesAreBuilt
\* zuc dev exits when its first build fails.
CHECK_DEADLOCK FALSE
