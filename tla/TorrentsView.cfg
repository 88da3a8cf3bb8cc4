SPECIFICATION ViewSpec
CONSTANTS
    t1 = t1
    t2 = t2
    t3 = t3
    u1 = u1
    u2 = u2
    None = None
    Torrents <- ThreeTorrents
    Cleanings <- AllCleanings
    Urls = {u1, u2}
    NewSettings <- TheSettings
    MaxRevision = 2
    MaxTime = 2
    Magnets = TRUE
SYMMETRY Symmetry
VIEW WithoutGhosts
CONSTRAINT SmallWhenUsed
ACTION_CONSTRAINT UntouchedOtherwise
INVARIANTS
    SelectionIsKnown
    WindowIsTrue
    OptionsAreTrue
    OwnRemovalsAreKnown
PROPERTIES
    LimitKeepsTheYoungest
    PausesAreNotCounted
CHECK_DEADLOCK FALSE
