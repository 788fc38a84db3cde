CONSTANTS
    f1 = f1
    f2 = f2
    x = x
    y = y
    z = z
    w = w
    c1 = c1
    c2 = c2
    k = k
    Keys = {k}
    NoKey = NoKey
    Tags <- Protocols
    Flushes <- OneFlush
    Chunk <- TwoRows
    Collections = {c1}
    AgentOf <- MixedAgents
    TagOf <- SameTag
    Rules <- Deduped
    MaxRows = 2
    Rooms <- WideRoom
    RetryLimit = 1
    Hazards <- DbHazard
SPECIFICATION Spec
INVARIANT
    AckedStored
CHECK_DEADLOCK FALSE
