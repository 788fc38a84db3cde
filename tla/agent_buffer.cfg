CONSTANTS
    Length = 4
    warn_level = 75
    normal_level = 50
    Lengths = {}
    MaxMsgs = 9
    MaxLosses = 1
SPECIFICATION LiveSpec
INVARIANTS
    TypeOK
    NoStaleAlarm
PROPERTIES
    BufferIsFifo
    FloodEnds
CHECK_DEADLOCK FALSE
