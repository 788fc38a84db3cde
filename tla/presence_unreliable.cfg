CONSTANTS
    a1 = a1
    f1 = f1
    f2 = f2
    None = None
    Agents <- OneAgent
    FBs <- OneFB
    MaxConns <- OneSlots
    Hazards <- Unreliable
SPECIFICATION LiveSpec
PROPERTY StatusSettles
CHECK_DEADLOCK FALSE
