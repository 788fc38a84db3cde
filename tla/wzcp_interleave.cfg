CONSTANTS
    r = r
    t1 = t1
    Receiver = r
    Senders <- OneSender
    EventBodies <- Bodies
    ChunkSize = 2
    BufferSize = 4
    MaxConns = 2
    MaxFrames = 4
SPECIFICATION Spec
PROPERTY StreamAccepted
CHECK_DEADLOCK FALSE
