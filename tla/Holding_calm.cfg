SPECIFICATION Spec
CONSTANTS
    d1 = d1
    d2 = d2
    d3 = d3
    None = None
    Devices <- Three
    Upgrading <- First
    Replacing <- Nobody
    Movers <- Others
    Watching <- Nobody
    Faults <- Calm
    MaxConflicts = 1
    MaxRestarts = 2
    MaxMoves = 1
    MaxNaps = 1
    MaxSpends = 3
CHECK_DEADLOCK FALSE
INVARIANTS
    ClearedIsHolder
PROPERTIES
    NoBlindSpend
