CONSTANTS
    r = r
    t1 = t1
    Receiver = r
    Senders <- OneSender
    EventBodies <- Bodies
    ChunkSize = 1
    BufferSize = 3
    MaxConns = 2
    MaxFrames = 3
SPECIFICATION LiveSpec
PROPERTY Reconnects
CHECK_DEADLOCK FALSE
