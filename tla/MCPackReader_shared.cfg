CONSTANTS
    Callers = {c1, c2}
    Concurrency = 1
    ItemsPerRecord = 1
    TotalItems = 3
    Offsets <- ThreeRecords
    BufSize = 4
    Decoders = {d1, d2}
    Requests <- Mixed
    Faults = {"open", "read", "corrupt", "fn", "ctx"}
SPECIFICATION FairSpec
INVARIANTS
    NilMeansAll
    DecodersOwned
    NotLeaked
PROPERTIES
    CallsReturn
