\* One call of each kind and a second ingest over one account switch.
CONSTANTS
    IngestCalls = {i1, i2}
    HealCalls = {n1}
    SpendCalls = {s1}
    HistoryCalls = {h1}
    RecomposeCalls = {r1}
    Starved = {}
    Leases = {}
    NoCall = NoCall
    MaxEpoch = 1
SPECIFICATION Spec
SYMMETRY CallSymmetry
INVARIANTS TypeOK RegionExclusion DepthIsOccupancy
PROPERTY ImplementsArbiter
CHECK_DEADLOCK FALSE
