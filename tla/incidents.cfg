CONSTANTS
    MaxAlerts = 2
    AssetOf <- OneAsset
    TacticsOf <- SomeTactics
    PoolWorkers = {"pool"}
    Others = {"sweep"}
    QueueCap = 1
    MaxIncidents = 4
    Mergers = {"m1", "m2"}
    Period = 2
    MaxLate = 1
    Budgets <- EitherBudget
SPECIFICATION LiveSpec
INVARIANTS
    TypeOK
    DuplicatesBounded
    MergeKeepsAlerts
PROPERTIES
    PairBecomesIncident
CHECK_DEADLOCK FALSE
