SPECIFICATION FairSpec
CONSTANTS
    Bsv = {"maker"}
    FeeLeg = "taker"
    Clocks <- RightClocks
    TakerWindow = 1
    SeenBy = 2
    FundBy = 3
    ClaimBy = 4
    T2 = 5
    T1 = 6
    End = 6
    Mute = {}
    Lossy = FALSE
    Outages = TRUE
    Conflicts = TRUE
    Short = {"taker", "maker"}
    Cuts <- BsvResumedCuts
    MaxCuts = 1
 
PROPERTY EveryLockIsSpent
CHECK_DEADLOCK FALSE
