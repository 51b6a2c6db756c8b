SPECIFICATION Spec
CONSTANTS
    Bsv = {"taker"}
    FeeLeg = "taker"
    Clocks <- WrongClocks
    TakerWindow = 1
    SeenBy = 2
    FundBy = 3
    ClaimBy = 4
    T2 = 5
    T1 = 6
    End = 7
    Mute = {"own"}
    Lossy = TRUE
    Outages = TRUE
    Conflicts = FALSE
    Short = {"taker", "maker"}
    Cuts <- BsvResumedCuts
    MaxCuts = 1
INVARIANT TypeOK
INVARIANT OutcomesHold
INVARIANT FeeNotLeft
 
PROPERTY ClaimInTime
PROPERTY AtomicPromise
CHECK_DEADLOCK FALSE
