SPECIFICATION LiveTurnSpec
CONSTANTS
    VNodes <- MCVNodes
    Height <- MCHeight
    Turns <- AllTurns
    Sessions <- MCSessions
    Radix = 8
    Utf8 <- MCUtf8
    MaxNumber = 170000
    MaxPath = 2
    MaxU32 = 4095
    MaxU16 = 511
    Payloads <- MCPayloads
    Now <- MCNow
INVARIANTS
    PatchesFit
    ScreenShowsTree
    KeyedNodesSurvive
    EventReachesItsListener
PROPERTY
    WireIsLossless
\* The behaviours end when the page has said something.
CHECK_DEADLOCK FALSE
