\* The request thread alone, one run executed now.
CONSTANTS
    Caller = {"request"}
    MaxRuns = 1
SPECIFICATION FairSpec
PROPERTIES DueRunStarts
