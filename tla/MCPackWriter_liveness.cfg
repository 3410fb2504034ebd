CONSTANTS
    Workers = {w1, w2}
    ItemsPerRecord = 1
    Format = "Compressed"
    ContentHash = FALSE
    Slices = {s1, s2, s3, s4, s5}
    NoSlice = NoSlice
    UintMax = 9
    MaxItems = 7
    MaxEncodeFaults = 1
    WriteMayFail = FALSE
SPECIFICATION ClosingSpec
PROPERTIES
    CallReturns
    GoroutinesEnd
    CompleteOrRemoved
