CONSTANTS
    Workers = {w1, w2, w3}
    ItemsPerRecord = 2
    Format = "Compressed"
    ContentHash = TRUE
    Slices = {s1, s2, s3, s4, s5, s6, s7}
    NoSlice = NoSlice
    UintMax = 5
    MaxItems = 6
    MaxEncodeFaults = 1
    WriteMayFail = TRUE
SPECIFICATION Spec
INVARIANTS
    PrefixInOrder
    SealedComplete
    SealedHash
    SlicesOwned
    FinalFate
    NoPanic
PROPERTIES
    ErrorIsFinal
    ImplementsItemFile
