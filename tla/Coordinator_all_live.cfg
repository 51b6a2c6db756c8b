CONSTANTS
    IngestCalls = {i1,i2}
    HealCalls = {}
    SpendCalls = {s1}
    HistoryCalls = {h1}
    RecomposeCalls = {r1}
    Starved = {}
    Leases = {l1}
    NoCall = NoCall
    MaxEpoch = 0
SPECIFICATION FairBodiesSpec
PROPERTY QueuedCallSettles
CHECK_DEADLOCK FALSE
