\* One DAG, one task that may depend on the root or on itself.
CONSTANTS
    d1 = d1
    t1 = t1
    c1 = c1
    NoCron = NoCron
    Name <- OneDag
    Dag = {d1}
    TaskName = {t1}
    Cron = {c1}
    ValidCron = {c1}
    MaxCopies = 1
    MaxSequence = 1
    WritesMayFail = FALSE
    MaxRequests = 1
SPECIFICATION FairPanelSpec
INVARIANTS ShownIsKnown
PROPERTIES SelectionsAreHarmless SubmittedIsAnswered
