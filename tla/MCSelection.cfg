SPECIFICATION FairSpec
CONSTANTS
    None = None
    Lists <- All
    Views <- SomeViews
    Ticks = 1
    MaxPresses = 2
INVARIANTS TypeOK SelectedShown OneBulk
PROPERTIES HeldToTheEnd Reenabled
CHECK_DEADLOCK FALSE
