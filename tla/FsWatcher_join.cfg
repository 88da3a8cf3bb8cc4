SPECIFICATION FairSpec
CONSTANTS
    None = None
    MaxChanges = 1
    MaxFiles = 1
    MaxUnread = 1
    Leaves <- Stays
PROPERTY UnsetReturns
CHECK_DEADLOCK FALSE
