CONSTANTS
    w1 = w1
    w2 = w2
    w3 = w3
    Writers = {w1, w2, w3}
    Readers = {r1}
    RecordCount <- Lengths
    Overwrite = {w3}
    Checked = {w1, w3}
    MaxCrashes = 1
    None = None
    Hole = Hole
    Absent = Absent
    Partial = Partial
    Nil = Nil
    NoContract = NoContract
CHECK_DEADLOCK FALSE
SPECIFICATION CrashesSpec
INVARIANTS
    ReadsItsFile
    VerifyTrue
    FinishedWhole
    EmptyOrWhole
    FinishTrue
PROPERTIES
    IndexWhole
