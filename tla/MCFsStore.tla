----------------------------- MODULE MCFsStore ------------------------------
\* FsStore for TLC: one DAG, one task, one blob.  Entries differ in versions,
\* blobs and metadata, so that one value is enough.
EXTENDS FsStore

CONSTANTS d1, t1, v1, m1, c1

mcDags == {d1}
mcTasks == {t1}
mcValues == {v1}
mcMeta == {m1}
mcContent == {c1}

=============================================================================
