CONSTANTS
    a1 = a1
    c1 = c1
    c2 = c2
    None = None
    Agents <- OneAgent
    Conns <- TwoConns
    HeartbeatFlushInterval = 2
    MaxClock = 3
SPECIFICATION LiveSpec
INVARIANTS
    TypeOK
    OnlineHasSession
    CleanEntryIsStored
    HeartbeatLagBounded
PROPERTIES
    CleanShutdown
    SilentDeathStored
    OfflineOnlyByLateClose
    CacheIsWriteBehind
