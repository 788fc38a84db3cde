CONSTANTS
    Length = 3
    warn_level = 75
    normal_level = 50
    Lengths <- ShorterOrLonger
    MaxMsgs = 4
    MaxLosses = 0
SPECIFICATION ReloadSpec
PROPERTY
    ResizeKeepsOldest
CHECK_DEADLOCK FALSE
