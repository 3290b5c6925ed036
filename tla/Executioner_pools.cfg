\* Two runs of five shapes of graphs, two DAG threads, two task threads.
CONSTANTS
    a = a
    b = b
    c = c
    Name <- Tasks
    Run = {1, 2}
    Graph <- Shapes
    MaxDagConcurrency = 2
    MaxTaskConcurrency = 2
SPECIFICATION FairSpec
INVARIANTS TypeOK DependenciesFirst NoRunIsGivenUp TasksRunOnce InFlightCounts
PROPERTIES ImplementsDagRun DispatchedRunsEnd
