\* Both daemon threads, three runs queued or in flight.
CONSTANTS
    Caller = {"request", "schedule"}
    MaxRuns = 3
SPECIFICATION FairSpec
INVARIANTS TypeOK FlagCoversExecutioner JoinNeverWaits RunsWithinExecutioner NothingOutlivesRun
PROPERTIES ShutdownCompletes EnsuredRunStarts
