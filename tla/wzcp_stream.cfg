CONSTANTS
    r = r
    t1 = t1
    Receiver = r
    Senders <- NoSender
    EventBodies <- Bodies
    ChunkSize = 2
    BufferSize = 4
    MaxConns = 2
    MaxFrames = 4
SPECIFICATION LiveSpec
INVARIANTS
    TypeOK
    HandshakeSound
PROPERTIES
    StreamAccepted
    StreamIsChannel
    FrameArrives
CHECK_DEADLOCK FALSE
