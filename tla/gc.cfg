SPECIFICATION PageSpec
CONSTANTS
    GcModels <- MCModels
    Msgs <- MCMsgs
    HandlerMsgs <- MCHandlerMsgs
    NSites = 3
    SiteKind <- SiteKindOf
    SiteMsg <- SiteMsgOf
    InitSites <- InitSitesOf
    ArmSites <- ArmSitesOf
    NSubs = 2
    SubKey <- SubKeyOf
    SubMsg <- SubMsgOf
    Wanted <- WantedOf
    Wrap = 64
    MaxHandles = 9
    Template <- MCTemplate
    Parts <- MCParts
    Height <- MCHeight
    Bodies <- MCBodies
    Items <- MCItems
    EventNames = {"click", "input"}
INVARIANTS
    GcTypeOK
    TimersAreWanted
    ContinuationRecovered
    OneCommandPerId
    TreeOnScreen
    HandlersAgree
PROPERTY
    GcKeepsContract
\* With nothing wanted, in flight or listened to, the page is at rest.
CHECK_DEADLOCK FALSE
