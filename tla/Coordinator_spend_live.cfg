\* Two payments beside an ingest and a starved backup over one account switch.
CONSTANTS
    IngestCalls = {i1}
    HealCalls = {}
    SpendCalls = {s1,s2}
    HistoryCalls = {h1}
    RecomposeCalls = {}
    Starved = {h1}
    Leases = {}
    NoCall = NoCall
    MaxEpoch = 1
SPECIFICATION FairSpec
INVARIANTS QueueOrder NoGhostHold
PROPERTY SpendAnswered
CHECK_DEADLOCK FALSE
