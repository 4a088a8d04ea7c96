SPECIFICATION ZucSpec
CONSTANTS
    MaxDepth = 8
    Programs <- MCPrograms
INVARIANTS
    ParsesAsWritten
    AcceptedCompiles
    AcceptsTheWellTyped
CHECK_DEADLOCK FALSE
