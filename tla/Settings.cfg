SPECIFICATION SpecWindow
CONSTANTS
    good = good
    bad = bad
    folder = folder
    relative = relative
    Rules <- AllRules
    BadRules <- NoRules
    Limits <- SomeLimits
    OldFiles <- SomeFiles
    OldClientFiles <- SomeClientFiles
    Columns <- SomeColumns
    Paths = {folder}
    NoPath = NoPath
    BadPaths = {relative}
    DefaultPath = DefaultPath
    MinInterval = 40
    Sizes = {1, 2}
    DefaultSize = 2
    NoWindow = NoWindow
    NoFile = NoFile
    Closed = Closed
    Kilobyte = 2
    MaxSpeed = 3
    MaxBytes = 2
    DiskFails = TRUE
CONSTRAINT FewUsed
INVARIANTS SettingsInForce WatcherFollowsSettings ClosingSaves Reachable
PROPERTIES RestartKeepsSettings
