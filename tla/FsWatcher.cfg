SPECIFICATION FairSpec
CONSTANTS
    None = None
    MaxChanges = 2
    MaxFiles = 3
    MaxUnread = 2
    Leaves <- MayMove
INVARIANTS
    LoadedWithOwnSettings
    NothingMissed
PROPERTY FilesLoaded
CHECK_DEADLOCK FALSE
