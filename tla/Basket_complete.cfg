CONSTANTS
    IngestCalls = {}
    HealCalls = {}
    SpendCalls = {s1}
    HistoryCalls = {h1}
    RecomposeCalls = {r1}
    Starved = {}
    Leases = {}
    NoCall = NoCall
    MaxEpoch = 0
SPECIFICATION ReadSpec
CONSTANTS
    MaxReads = 3
    NoRead = NoRead
INVARIANTS ReadTypeOK CompleteReadUntouched
CHECK_DEADLOCK FALSE
