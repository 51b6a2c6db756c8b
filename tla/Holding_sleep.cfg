SPECIFICATION Spec
CONSTANTS
    d1 = d1
    d2 = d2
    d3 = d3
    None = None
    Devices <- Two
    Upgrading <- First
    Replacing <- Nobody
    Movers <- Two
    Watching <- First
    Faults <- Naps
    MaxConflicts = 3
    MaxRestarts = 2
    MaxMoves = 1
    MaxNaps = 2
    MaxSpends = 2
CHECK_DEADLOCK FALSE
INVARIANTS
    ClearedIsHolder
    ReleasedIsFlushed
PROPERTIES
    SeqNeverFalls
