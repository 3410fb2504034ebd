CONSTANTS
    Callers = {c1}
    Concurrency = 2
    ItemsPerRecord = 2
    TotalItems = 7
    Offsets <- FourRecords
    BufSize = 5
    Decoders = {d1, d2}
    Requests <- Everything
    Faults = {"ctx", "fn"}
SPECIFICATION StoreSpec
SYMMETRY Symmetry
INVARIANTS
    DeliveredOnce
    ErrorHasCause
    NoRace
PROPERTIES
    ImplementsReader
