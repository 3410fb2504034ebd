CONSTANTS
    Groups <- AllWidths
    Flipped = Flipped
CHECK_DEADLOCK FALSE
SPECIFICATION FormatsSpec
INVARIANT
    DamageRefused
