SPECIFICATION Spec
CONSTANTS
    d1 = d1
    d2 = d2
    d3 = d3
    None = None
    Devices <- Two
    Upgrading <- Two
    Replacing <- Second
    Movers <- First
    Watching <- First
    Faults <- Divided
    MaxConflicts = 1
    MaxRestarts = 1
    MaxMoves = 1
    MaxNaps = 1
    MaxSpends = 1
CHECK_DEADLOCK FALSE
INVARIANTS
    TypeOK
    OneHolderPerSeq
PROPERTIES
    RecordOnlyGrows
