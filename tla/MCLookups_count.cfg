CONSTANTS
    c1 = c1
    c2 = c2
    None = None
    OutOfRange = OutOfRange
    NotThere = NotThere
    Clients = {c1, c2}
    Concurrency = 2
    Keys <- K
    Ranked <- ThreeKeys
    Fingerprint <- Fingerprints
    Requests <- AllCalls
    Faults = {"mphf", "data", "query", "read", "ctx"}
    Scenarios = {"list"}
    ListFaults = {"count"}
SPECIFICATION LookupsSpec
INVARIANTS
    OutOfRangeMeansOut
