SPECIFICATION FairSpec
CONSTANTS
    a = a
    b = b
    Dag <- mcDags
    Cron <- mcCrons
    NoCron = NoCron
    Day = 2
    Month = 2
    Idle = 1
    MaxRequests = 2
INVARIANTS
    TypeOK
    OversleepsOnlyUnread
    WaitsForTheFirst
PROPERTIES
    ScheduledDagRuns
