CONSTANTS
    MaxReports = 2
    PageSize = 1
    MaxSignals = 3
    MaxFaults = 1
    MaxSchedules = 1
SPECIFICATION LiveSpec
INVARIANTS
    TypeOK
    TaskUncut
PROPERTIES
    StopsWhenSignalled
    ReportSettles
    DueReportRuns
CHECK_DEADLOCK FALSE
