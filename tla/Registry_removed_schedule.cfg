\* A DAG that is removed and had a schedule.
CONSTANTS
    d1 = d1
    t1 = t1
    t2 = t2
    c1 = c1
    NoCron = NoCron
    Name <- AllNames
    Dag = {d1}
    TaskName = {t1, t2}
    Cron = {c1}
    ValidCron = {c1}
    MaxCopies = 1
    MaxSequence = 1
    WritesMayFail = FALSE
SPECIFICATION Spec
SYMMETRY TaskSymmetry
INVARIANTS RemovedDagIsNotScheduled
