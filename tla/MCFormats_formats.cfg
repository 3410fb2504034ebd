CONSTANTS
    Groups <- AllWidths
    Flipped = Flipped
CHECK_DEADLOCK FALSE
SPECIFICATION FormatsSpec
INVARIANTS
    InBounds
    RoundTrip
    FilesRight
PROPERTIES
    EventsRight
