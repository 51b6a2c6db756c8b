SPECIFICATION FairSpec
CONSTANTS
    d1 = d1
    d2 = d2
    d3 = d3
    None = None
    Devices <- Two
    Upgrading <- First
    Replacing <- Nobody
    Movers <- Second
    Watching <- First
    Faults <- RacingRestarts
    MaxConflicts = 1
    MaxRestarts = 1
    MaxMoves = 1
    MaxNaps = 1
    MaxSpends = 1
CHECK_DEADLOCK FALSE
PROPERTIES
    DisplacedLearns
    MoveSettles
