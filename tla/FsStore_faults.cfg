SPECIFICATION Spec
CONSTANTS
    d1 = d1
    t1 = t1
    v1 = v1
    m1 = m1
    c1 = c1
    DagKey <- mcDags
    TaskKey <- mcTasks
    Value <- mcValues
    Meta <- mcMeta
    Content <- mcContent
    Absent = Absent
    Damaged = Damaged
    NoBlob = NoBlob
    NoMeta = NoMeta
    Anything = Anything
    MaxVersion = 2
    DiskMayFail = TRUE
INVARIANTS
    TypeOK
    ListedTwiceAfterInterruption
    BlobsAreWhole
PROPERTIES
    ImplementsDocumentMap
    CasReplacesWhatWasRead
