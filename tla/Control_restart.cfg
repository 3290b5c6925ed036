\* The request thread alone, one run.
CONSTANTS
    Caller = {"request"}
    MaxRuns = 1
SPECIFICATION Spec
INVARIANTS IdleShutdownIsHarmless
