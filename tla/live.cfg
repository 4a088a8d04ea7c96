SPECIFICATION FairLiveSpec
CONSTANTS
    Models <- MCModels
    Subs <- MCSubs
    View <- MCView
    CmdLists <- MCCmdLists
    Keys = {"every1", "every2", "topic"}
    EveryKeys = {"every1", "every2"}
    SubMsgs = {"A"}
    EventNames = {"click"}
    MaxId = 5
    Items = {"x", "y"}
    ItemEvent = "click"
    ItemsOf <- MCItemsOf
    MaxFrames = 2
    MaxDrops = 1
INVARIANTS
    LiveTypeOK
    ScreenCatchesUp
    CommandsInOnePlace
    TimersCatchUp
    TicksReachTheirSub
PROPERTIES
    LiveCommandsSettle
    PageComesBack
