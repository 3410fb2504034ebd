CONSTANTS
    Clients = {c1, c2}
    Concurrency = 3
    KeyOrder <- FourKeys
    Indexed = {"a", "c", "d"}
    Damaged = {"c"}
    Requests <- Batches
    Faults = {"open", "get"}
    None = None
SPECIFICATION LiveSpec
INVARIANTS
    NoRace
    Released
PROPERTIES
    ImplementsReader
    CallsReturn
