CONSTANTS
    a1 = a1
    f1 = f1
    f2 = f2
    None = None
    Agents <- OneAgent
    FBs <- TwoFBs
    MaxConns <- Slots
    Hazards <- NoHazards
SPECIFICATION LiveSpec
INVARIANTS
    TypeOK
    NoOrphanOnline
PROPERTIES
    GoneAgentOffline
    StatusSettles
CHECK_DEADLOCK FALSE
