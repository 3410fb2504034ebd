CONSTANTS
    Workers = {w1}
    ItemsPerRecord = 3
    Format = "Compressed"
    ContentHash = TRUE
    Slices = {s1, s2, s3}
    NoSlice = NoSlice
    UintMax = 7
    MaxItems = 8
    MaxEncodeFaults = 1
    WriteMayFail = TRUE
SPECIFICATION Spec
INVARIANT
    SealedHash
