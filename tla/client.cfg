SPECIFICATION ClientSpec
CONSTANTS
    Models <- DistinctModels
    Subs <- DistinctSubs
    View <- DistinctView
    CmdLists <- MCCmdLists
    Keys = {"every1", "every2", "topic"}
    EveryKeys = {"every1", "every2"}
    SubMsgs = {"A", "B"}
    EventNames = {"click"}
    MaxId = 8
INVARIANTS
    ClientTypeOK
    TimersMatchLedger
    InFlightIsPending
PROPERTY
    KeepsContract
\* An application with no listener, timer or request at work is at rest.
CHECK_DEADLOCK FALSE
