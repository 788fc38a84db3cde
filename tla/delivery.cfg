CONSTANTS
    f1 = f1
    f2 = f2
    x = x
    y = y
    z = z
    w = w
    c1 = c1
    c2 = c2
    k = k
    Keys = {k}
    NoKey = NoKey
    Tags <- Protocols
    Flushes <- TwoFlushes
    Chunk <- TwoChunks
    Collections = {c1, c2}
    AgentOf <- MixedAgents
    TagOf <- MixedTags
    Rules <- Site
    MaxRows = 2
    Rooms <- EitherRoom
    RetryLimit = 1
    Hazards <- AllHazards
SPECIFICATION LiveSpec
INVARIANTS
    TypeOK
    AckedStored
    RawFirst
    CopiesBounded
    AgentWithinFrame
PROPERTIES
    ChunkSettles
CHECK_DEADLOCK FALSE
