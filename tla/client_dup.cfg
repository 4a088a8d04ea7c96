SPECIFICATION ClientSpec
CONSTANTS
    Models <- RepeatingModels
    Subs <- RepeatingSubs
    View <- RepeatingView
    CmdLists <- MCCmdLists
    Keys = {"every1", "every2", "topic"}
    EveryKeys = {"every1", "every2"}
    SubMsgs = {"A", "B"}
    EventNames = {"click"}
    MaxId = 4
INVARIANT
    OneTimerPerKey
\* An application with no listener, timer or request at work is at rest.
CHECK_DEADLOCK FALSE
