SPECIFICATION ZucSpec
CONSTANTS
    MaxDepth = 8
    Programs <- MCHintPrograms
INVARIANTS
    AcceptedCompiles
CHECK_DEADLOCK FALSE
