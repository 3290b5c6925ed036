\* One DAG whose root node may be removed, one task, names listed up to twice.
CONSTANTS
    d1 = d1
    t1 = t1
    t2 = t2
    c1 = c1
    NoCron = NoCron
    Name <- TwoNames
    Dag = {d1}
    TaskName = {d1, t1}
    Cron = {c1}
    ValidCron = {c1}
    MaxCopies = 2
    MaxSequence = 2
    WritesMayFail = FALSE
SPECIFICATION Spec
INVARIANTS TypeOK GraphsAcyclic DanglingWasRepeated QueuedRunsComplete MemoryIsPersisted
PROPERTIES RefusalLeavesOnlyTask
