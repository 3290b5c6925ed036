---------------------------- MODULE FsStoreProofs ---------------------------
(***************************************************************************)
(* The safety properties of FsStore, for any names, contents and number of *)
(* versions.  What makes them inductive is what a write in progress knows  *)
(* of the document it will replace (WritingInv), which holds because the   *)
(* store's mutex keeps every other operation away from it, and what the    *)
(* version a caller read tells of the document (SeenInv).                  *)
(***************************************************************************)
EXTENDS FsStore, TLAPS

USE StoreAssumption

-----------------------------------------------------------------------------
(* The inductive invariant.                                                *)

Busy(s) == writing[s] # Idle

IsDocument(d) == d \notin {Absent, Damaged}

\* A blob that may be named: written to its end, or torn.
Settled(c) == c = NoBlob \/ blobs[c] = "whole" \/ c \in torn

\* The new entry e follows the document of k.
Follows(k, e) == /\ doc[k] # Damaged
                 /\ e.version = VersionOf(doc[k]) + 1
                 /\ doc[k] # Absent /\ doc[k].meta # NoMeta => e.meta # NoMeta

\* The document was not changed since the write compared its version, and its
\* temporary file holds what the write has come to.
WritingInv ==
    \A s \in Store : Busy(s) =>
        LET w == writing[s]
        IN  /\ Follows(w.key, w.entry)
            /\ w.at = "write" => tmp[w.key] = Damaged
            /\ w.at = "rename" =>
                  tmp[w.key] = w.entry \/ (tmp[w.key] = Damaged /\ diskFailed)

\* DAGs have no schedule metadata to lose.
DagInv ==
    /\ \A k \in DagKey : IsDocument(doc[k]) => doc[k].meta = NoMeta
    /\ \A s \in Store : Busy(s) /\ writing[s].key \in DagKey => writing[s].entry.meta = NoMeta

\* What a caller read is the document, or has an older version, or the
\* document was erased since, or is damaged.
SeenInv ==
    \A k \in Key : seen[k] # Anything /\ k \notin erased /\ doc[k] # Damaged =>
        seen[k] = doc[k] \/ VersionOf(seen[k]) < VersionOf(doc[k])

\* A write in progress replaces what its caller read.
ExpectedInv ==
    \A s \in Store : Busy(s) =>
        LET w == writing[s]
        IN  w.expected \in {Anything, doc[w.key]} \/ w.key \in erased

\* A temporary file that parses belongs to a write before its rename, or to
\* one that was interrupted there.
TmpInv ==
    \A k \in Key : IsDocument(tmp[k]) =>
        \/ k \in interrupted
        \/ writing[StoreOf(k)].at = "rename" /\ writing[StoreOf(k)].key = k

\* A part of a blob is being completed or was torn, and every blob that is
\* named anywhere is settled.
BlobInv ==
    /\ \A c \in Content : blobs[c] = "part" => c = putting \/ c \in torn
    /\ \A c \in held : Settled(c)
    /\ \A s \in Store : Busy(s) => Settled(writing[s].entry.blob)
    /\ \A k \in Key : /\ IsDocument(doc[k]) => Settled(doc[k].blob)
                      /\ IsDocument(tmp[k]) => Settled(tmp[k].blob)

IInv == /\ TypeOK
        /\ WritingInv
        /\ DagInv
        /\ SeenInv
        /\ ExpectedInv
        /\ TmpInv
        /\ BlobInv

-----------------------------------------------------------------------------
(* Each action preserves the parts it disturbs.                            *)

LEMMA StoreNames ==
    ASSUME NEW k \in Key
    PROVE  /\ StoreOf(k) \in Store
           /\ k \in DagKey <=> StoreOf(k) = "dags"
BY DEF StoreOf, Store

LEMMA IdleIsNoWrite == Idle \notin Write
<1>1. \A w \in Write : w.at # Idle.at
    BY DEF Write, Idle
<1> QED
    BY <1>1

LEMMA Versions ==
    ASSUME NEW d \in Entry \cup {Absent}
    PROVE  VersionOf(d) \in Nat
BY DEF VersionOf, Map!VersionOf, Entry, Map!Entry

LEMMA InitInv == Init => IInv
<1> SUFFICES ASSUME Init PROVE IInv
    OBVIOUS
<1>1. TypeOK
    BY DEF Init, TypeOK
<1>2. \A s \in Store : ~Busy(s)
    BY DEF Init, Busy
<1>3. \A k \in Key : doc[k] = Absent /\ tmp[k] = Absent
    BY DEF Init
<1>4. BlobInv
    BY <1>2, <1>3 DEF Init, BlobInv, IsDocument
<1> QED
    BY <1>1, <1>2, <1>3, <1>4
    DEF IInv, Init, WritingInv, DagInv, SeenInv, ExpectedInv, TmpInv, IsDocument, Key

\* What the two upserts have in common.
Upsert(k, e, expected) ==
    /\ BeginWrite(k, e, expected)
    /\ e \in Entry
    /\ Follows(k, e)
    /\ e.blob \in held \cup {NoBlob}
    /\ k \in DagKey => e.meta = NoMeta

LEMMA UpsertDagBegins ==
    ASSUME IInv, NEW k \in Key, NEW v \in Value,
           NEW expected \in {Anything, seen[k]}, UpsertDag(k, v, expected)
    PROVE  \E e \in Entry : Upsert(k, e, expected)
<1> DEFINE e == [version |-> VersionOf(doc[k]) + 1, value |-> v,
                 blob |-> NoBlob, meta |-> NoMeta]
<1>1. k \in DagKey /\ BeginWrite(k, e, expected) /\ doc[k] # Damaged
    BY DEF UpsertDag, BeginWrite
<1>2. doc[k] \in Entry \cup {Absent}
    BY <1>1 DEF IInv, TypeOK
<1>3. VersionOf(doc[k]) + 1 \in Nat \ {0}
    BY <1>2, Versions
<1>4. e \in Entry
    BY <1>3 DEF Entry, Map!Entry
<1>5. Follows(k, e)
    BY <1>1 DEF Follows, IInv, DagInv, IsDocument
<1> QED
    BY <1>1, <1>4, <1>5 DEF Upsert

LEMMA UpsertTaskBegins ==
    ASSUME IInv, NEW k \in Key, NEW v \in Value, NEW blob \in held \cup {NoBlob},
           NEW meta \in Meta \cup {NoMeta}, NEW expected \in {Anything, seen[k]},
           UpsertTask(k, v, blob, meta, expected)
    PROVE  \E e \in Entry : Upsert(k, e, expected)
<1> DEFINE e == [version |-> VersionOf(doc[k]) + 1, value |-> v,
                 blob |-> blob, meta |-> KeptMeta(k, meta)]
<1>1. k \in TaskKey /\ BeginWrite(k, e, expected) /\ doc[k] # Damaged
    BY DEF UpsertTask
<1>2. doc[k] \in Entry \cup {Absent}
    BY <1>1 DEF IInv, TypeOK
<1>3. VersionOf(doc[k]) + 1 \in Nat \ {0}
    BY <1>2, Versions
<1>4. KeptMeta(k, meta) \in Meta \cup {NoMeta}
    BY <1>2 DEF KeptMeta, Entry, Map!Entry
<1>5. blob \in Content \cup {NoBlob}
    BY DEF IInv, TypeOK
<1>6. e \in Entry
    BY <1>3, <1>4, <1>5 DEF Entry, Map!Entry
<1>7. Follows(k, e)
    BY <1>1 DEF Follows, KeptMeta
<1> QED
    BY <1>1, <1>6, <1>7 DEF Upsert

LEMMA UpsertStep ==
    ASSUME IInv, NEW k \in Key, NEW e \in Entry,
           NEW expected \in {Anything, seen[k]}, Upsert(k, e, expected)
    PROVE  IInv'
<1> DEFINE w == [at |-> "write", key |-> k, entry |-> e, expected |-> expected]
           t == StoreOf(k)
<1>1. /\ writing[t] = Idle /\ doc[k] # Damaged /\ VersionFits(k, expected)
      /\ tmp' = [tmp EXCEPT ![k] = Damaged]
      /\ writing' = [writing EXCEPT ![t] = w]
      /\ UNCHANGED <<doc, blobs, putting, held, seen, diskFailed, erased, interrupted, torn>>
    BY DEF Upsert, BeginWrite, ghosts
<1>2. t \in Store /\ (k \in DagKey <=> t = "dags")
    BY StoreNames
<1>3. expected \in Entry \cup {Absent, Anything}
    BY DEF IInv, TypeOK
<1>4. w \in Write
    BY <1>3 DEF Write
<1>5. /\ \A s \in Store \ {t} : writing'[s] = writing[s]
      /\ writing'[t] = w
      /\ \A j \in Key \ {k} : tmp'[j] = tmp[j]
      /\ tmp'[k] = Damaged
    BY <1>1, <1>2 DEF IInv, TypeOK
<1>6. \A s \in Store \ {t} : Busy(s) => writing[s].key # k
    BY DEF IInv, TypeOK, Busy
<1>7. TypeOK'
    BY <1>1, <1>2, <1>4, <1>5 DEF IInv, TypeOK
<1>8. WritingInv'
    <2> SUFFICES ASSUME NEW s \in Store, Busy(s)'
                 PROVE  /\ Follows(writing[s].key, writing[s].entry)'
                        /\ writing'[s].at = "write" => tmp'[writing'[s].key] = Damaged
                        /\ writing'[s].at = "rename" =>
                              \/ tmp'[writing'[s].key] = writing'[s].entry
                              \/ tmp'[writing'[s].key] = Damaged /\ diskFailed'
        BY DEF WritingInv
    <2>1. CASE s = t
        <3>1. writing'[s].key = k /\ writing'[s].entry = e /\ writing'[s].at = "write"
            BY <2>1, <1>5
        <3>2. Follows(k, e)'
            BY <1>1 DEF Upsert, Follows, VersionOf, Map!VersionOf
        <3> QED
            BY <3>1, <3>2, <1>5
    <2>2. CASE s # t
        <3>1. writing'[s] = writing[s] /\ Busy(s) /\ writing[s].key \in Key \ {k}
            <4>1. writing'[s] = writing[s] /\ Busy(s)
                BY <2>2, <1>5 DEF Busy
            <4>2. writing[s] \in Write
                BY <4>1 DEF Busy, IInv, TypeOK
            <4> QED
                BY <4>1, <4>2, <2>2, <1>6 DEF Write
        <3>2. /\ Follows(writing[s].key, writing[s].entry)
              /\ writing[s].at = "write" => tmp[writing[s].key] = Damaged
              /\ writing[s].at = "rename" =>
                    \/ tmp[writing[s].key] = writing[s].entry
                    \/ tmp[writing[s].key] = Damaged /\ diskFailed
            BY <3>1 DEF IInv, WritingInv
        <3>3. Follows(writing[s].key, writing[s].entry)'
            BY <3>1, <3>2, <1>1 DEF Follows, VersionOf, Map!VersionOf
        <3> QED
            BY <3>1, <3>2, <3>3, <1>1, <1>5
    <2> QED
        BY <2>1, <2>2
<1>9. DagInv'
    BY <1>1, <1>5 DEF IInv, DagInv, IsDocument, Busy, Upsert
<1>10. SeenInv'
    BY <1>1 DEF IInv, SeenInv, VersionOf, Map!VersionOf
<1>11. ExpectedInv'
    <2>1. expected \in {Anything, doc[k]} \/ k \in erased
        <3> SUFFICES ASSUME expected # Anything, k \notin erased
                     PROVE  expected = doc[k]
            OBVIOUS
        <3>1. seen[k] = expected /\ VersionOf(expected) = VersionOf(doc[k])
            BY <1>1 DEF VersionFits
        <3>2. VersionOf(doc[k]) \in Nat
            BY <1>1, Versions DEF IInv, TypeOK
        <3> QED
            BY <3>1, <3>2, <1>1 DEF IInv, SeenInv
    <2>2. \A s \in Store \ {t} : Busy(s)' => Busy(s) /\ writing'[s] = writing[s]
        BY <1>5 DEF Busy
    <2> QED
        BY <2>1, <2>2, <1>1, <1>5 DEF IInv, ExpectedInv
<1>12. TmpInv'
    <2> SUFFICES ASSUME NEW j \in Key, IsDocument(tmp'[j]), j \notin interrupted
                 PROVE  writing'[StoreOf(j)].at = "rename" /\ writing'[StoreOf(j)].key = j
        BY <1>1 DEF TmpInv
    <2>1. j # k /\ tmp'[j] = tmp[j]
        BY <1>5 DEF IsDocument
    <2>2. writing[StoreOf(j)].at = "rename" /\ writing[StoreOf(j)].key = j
        BY <2>1 DEF IInv, TmpInv
    <2>3. StoreOf(j) # t
        BY <2>2, <1>1 DEF Idle
    <2> QED
        BY <2>2, <2>3, <1>5, StoreNames
<1>13. BlobInv'
    BY <1>1, <1>5 DEF IInv, BlobInv, Settled, IsDocument, Busy, Upsert
<1> QED
    BY <1>7, <1>8, <1>9, <1>10, <1>11, <1>12, <1>13 DEF IInv

\* A write in progress, as the steps below find it.
LEMMA BusyStore ==
    ASSUME IInv, NEW s \in Store, Busy(s)
    PROVE  /\ writing[s] \in Write
           /\ writing[s].key \in Key /\ StoreOf(writing[s].key) = s
           /\ writing[s].entry \in Entry
           /\ Follows(writing[s].key, writing[s].entry)
BY DEF IInv, TypeOK, WritingInv, Busy, Write

\* FinishWrite and WriteFails: the write of s goes on to the rename.
LEMMA ToRename ==
    ASSUME IInv, NEW s \in Store, writing[s].at = "write",
           writing' = [writing EXCEPT ![s].at = "rename"],
           NEW d \in {writing[s].entry, Damaged},
           tmp' = [tmp EXCEPT ![writing[s].key] = d],
           diskFailed' \in {diskFailed, TRUE}, d = writing[s].entry \/ diskFailed',
           UNCHANGED <<doc, blobs, putting, held, seen, erased, interrupted, torn>>
    PROVE  IInv'
<1> DEFINE w == writing[s]
           k == w.key
<1>1. Busy(s)
    BY DEF Busy, Idle
<1>2. w \in Write /\ k \in Key /\ StoreOf(k) = s /\ w.entry \in Entry
    BY <1>1, BusyStore
<1>3. /\ writing'[s] \in Write /\ writing'[s].at = "rename"
      /\ writing'[s].key = k /\ writing'[s].entry = w.entry
      /\ writing'[s].expected = w.expected
      /\ \A t \in Store \ {s} : writing'[t] = writing[t]
      /\ writing' \in [Store -> Write \cup {Idle}]
    BY <1>2 DEF IInv, TypeOK, Write
<1>4. /\ tmp'[k] = d
      /\ \A j \in Key \ {k} : tmp'[j] = tmp[j]
      /\ tmp' \in [Key -> Entry \cup {Absent, Damaged}]
    BY <1>2 DEF IInv, TypeOK
<1>5. \A t \in Store \ {s} : Busy(t) => writing[t].key \in Key \ {k}
    BY <1>2, BusyStore
<1>6. \A t \in Store : Busy(t)' <=> Busy(t)
    BY <1>1, <1>3, IdleIsNoWrite DEF Busy
<1>7. TypeOK'
    BY <1>2, <1>3, <1>4 DEF IInv, TypeOK
<1>8. WritingInv'
    <2> SUFFICES ASSUME NEW t \in Store, Busy(t)'
                 PROVE  /\ Follows(writing[t].key, writing[t].entry)'
                        /\ writing'[t].at = "write" => tmp'[writing'[t].key] = Damaged
                        /\ writing'[t].at = "rename" =>
                              \/ tmp'[writing'[t].key] = writing'[t].entry
                              \/ tmp'[writing'[t].key] = Damaged /\ diskFailed'
        BY DEF WritingInv
    <2>1. /\ Follows(writing[t].key, writing[t].entry)
          /\ writing[t].at = "write" => tmp[writing[t].key] = Damaged
          /\ writing[t].at = "rename" =>
                \/ tmp[writing[t].key] = writing[t].entry
                \/ tmp[writing[t].key] = Damaged /\ diskFailed
        BY <1>6 DEF IInv, WritingInv
    <2>2. Follows(writing[t].key, writing[t].entry)'
        <3>1. writing'[t].key = writing[t].key /\ writing'[t].entry = writing[t].entry
            BY <1>3
        <3> QED
            BY <2>1, <3>1 DEF Follows, VersionOf, Map!VersionOf
    <2>3. CASE t = s
        BY <2>2, <2>3, <1>3, <1>4
    <2>4. CASE t # s
        BY <2>1, <2>2, <2>4, <1>3, <1>4, <1>5, <1>6
    <2> QED
        BY <2>3, <2>4
<1>9. DagInv'
    BY <1>1, <1>2, <1>3, <1>6 DEF IInv, DagInv, IsDocument
<1>10. SeenInv'
    BY DEF IInv, SeenInv, VersionOf, Map!VersionOf
<1>11. ExpectedInv'
    BY <1>1, <1>3, <1>6 DEF IInv, ExpectedInv
<1>12. TmpInv'
    <2> SUFFICES ASSUME NEW j \in Key, IsDocument(tmp'[j]), j \notin interrupted
                 PROVE  writing'[StoreOf(j)].at = "rename" /\ writing'[StoreOf(j)].key = j
        BY DEF TmpInv
    <2>1. CASE j = k
        BY <2>1, <1>2, <1>3
    <2>2. CASE j # k
        <3>1. writing[StoreOf(j)].at = "rename" /\ writing[StoreOf(j)].key = j
            BY <2>2, <1>4 DEF IInv, TmpInv, IsDocument
        <3> QED
            BY <3>1, <1>3, StoreNames
    <2> QED
        BY <2>1, <2>2
<1>13. BlobInv'
    BY <1>1, <1>2, <1>3, <1>4, <1>6 DEF IInv, BlobInv, Settled, IsDocument
<1> QED
    BY <1>7, <1>8, <1>9, <1>10, <1>11, <1>12, <1>13 DEF IInv

\* WriteFails, RenameFails: the write of s ends, and its document remains.
LEMMA ToIdle ==
    ASSUME IInv, NEW s \in Store, Busy(s),
           writing' = [writing EXCEPT ![s] = Idle],
           interrupted' \subseteq Key, interrupted \subseteq interrupted',
           writing[s].at = "rename" => writing[s].key \in interrupted',
           diskFailed' = TRUE,
           UNCHANGED <<doc, tmp, blobs, putting, held, seen, erased, torn>>
    PROVE  IInv'
<1>1. /\ writing'[s] = Idle
      /\ \A t \in Store \ {s} : writing'[t] = writing[t]
      /\ \A t \in Store : Busy(t)' <=> Busy(t) /\ t # s
    BY DEF IInv, TypeOK, Busy
<1>2. TypeOK'
    BY <1>1 DEF IInv, TypeOK
<1>3. WritingInv'
    BY <1>1 DEF IInv, WritingInv, Follows, VersionOf, Map!VersionOf
<1>4. DagInv' /\ ExpectedInv'
    BY <1>1 DEF IInv, DagInv, ExpectedInv, IsDocument
<1>5. SeenInv'
    BY DEF IInv, SeenInv, VersionOf, Map!VersionOf
<1>6. TmpInv'
    <2> SUFFICES ASSUME NEW j \in Key, IsDocument(tmp[j]), j \notin interrupted'
                 PROVE  writing'[StoreOf(j)].at = "rename" /\ writing'[StoreOf(j)].key = j
        BY DEF TmpInv, IsDocument
    <2>1. writing[StoreOf(j)].at = "rename" /\ writing[StoreOf(j)].key = j
        BY DEF IInv, TmpInv
    <2>2. StoreOf(j) # s
        BY <2>1
    <2> QED
        BY <2>1, <2>2, <1>1, StoreNames
<1>7. BlobInv'
    BY <1>1 DEF IInv, BlobInv, Settled, IsDocument
<1> QED
    BY <1>2, <1>3, <1>4, <1>5, <1>6, <1>7 DEF IInv

LEMMA FinishWriteStep ==
    ASSUME IInv, NEW s \in Store, FinishWrite(s) PROVE IInv'
BY ToRename DEF FinishWrite, ghosts

LEMMA WriteFailsStep ==
    ASSUME IInv, NEW s \in Store, WriteFails(s) PROVE IInv'
<1>1. /\ writing[s].at = "write" /\ Busy(s) /\ diskFailed' = TRUE
      /\ UNCHANGED <<doc, tmp, blobs, putting, held, seen, erased, interrupted, torn>>
    BY DEF WriteFails, files, ghosts, Busy, Idle
<1>2. CASE writing' = [writing EXCEPT ![s] = Idle]
    <2>1. interrupted' \subseteq Key /\ interrupted \subseteq interrupted'
        BY <1>1 DEF IInv, TypeOK
    <2> QED
        BY <1>1, <1>2, <2>1, ToIdle
<1>3. CASE writing' = [writing EXCEPT ![s].at = "rename"]
    <2>1. tmp[writing[s].key] = Damaged /\ writing[s].key \in Key
        BY <1>1, BusyStore DEF IInv, WritingInv
    <2>2. tmp' = [tmp EXCEPT ![writing[s].key] = Damaged]
        BY <1>1, <2>1 DEF IInv, TypeOK
    <2> QED
        BY <1>1, <1>3, <2>2, ToRename
<1> QED
    BY <1>2, <1>3 DEF WriteFails

LEMMA RenameFailsStep ==
    ASSUME IInv, NEW s \in Store, RenameFails(s) PROVE IInv'
<1>1. writing[s].at = "rename" /\ Busy(s)
    BY DEF RenameFails, Busy, Idle
<1>2. writing[s].key \in Key
    BY <1>1, BusyStore
<1>3. interrupted' = interrupted \cup {writing[s].key} /\ interrupted \subseteq Key
    BY DEF RenameFails, IInv, TypeOK
<1> QED
    BY <1>1, <1>2, <1>3, ToIdle DEF RenameFails, files

\* The document becomes what the temporary file held: the new entry, or what
\* the disk left of it.
LEMMA RenameStep == ASSUME IInv, NEW s \in Store, Rename(s) PROVE IInv'
<1> DEFINE w == writing[s]
           k == w.key
<1>1. /\ w.at = "rename" /\ Busy(s)
      /\ doc' = [doc EXCEPT ![k] = tmp[k]] /\ tmp' = [tmp EXCEPT ![k] = Absent]
      /\ interrupted' = interrupted \ {k}
      /\ writing' = [writing EXCEPT ![s] = Idle]
      /\ UNCHANGED <<blobs, putting, held, seen, diskFailed, erased, torn>>
    BY DEF Rename, Busy, Idle
<1>2. w \in Write /\ k \in Key /\ StoreOf(k) = s /\ w.entry \in Entry /\ Follows(k, w.entry)
    BY <1>1, BusyStore
<1>3. tmp[k] = w.entry \/ tmp[k] = Damaged
    BY <1>1 DEF IInv, WritingInv
<1>4. /\ writing'[s] = Idle
      /\ \A t \in Store \ {s} : writing'[t] = writing[t]
      /\ \A t \in Store : Busy(t)' <=> Busy(t) /\ t # s
    BY <1>1 DEF IInv, TypeOK, Busy
<1>5. /\ doc'[k] = tmp[k] /\ tmp'[k] = Absent
      /\ \A j \in Key \ {k} : doc'[j] = doc[j] /\ tmp'[j] = tmp[j]
    BY <1>1, <1>2 DEF IInv, TypeOK
<1>6. \A t \in Store \ {s} : Busy(t) => writing[t].key \in Key \ {k}
    BY <1>2, BusyStore
<1>7. TypeOK'
    BY <1>1, <1>2, <1>4 DEF IInv, TypeOK
<1>8. WritingInv'
    <2> SUFFICES ASSUME NEW t \in Store \ {s}, Busy(t)
                 PROVE  /\ Follows(writing[t].key, writing[t].entry)'
                        /\ writing'[t].at = "write" => tmp'[writing'[t].key] = Damaged
                        /\ writing'[t].at = "rename" =>
                              \/ tmp'[writing'[t].key] = writing'[t].entry
                              \/ tmp'[writing'[t].key] = Damaged /\ diskFailed'
        BY <1>4 DEF WritingInv
    <2>1. /\ Follows(writing[t].key, writing[t].entry)
          /\ writing[t].at = "write" => tmp[writing[t].key] = Damaged
          /\ writing[t].at = "rename" =>
                \/ tmp[writing[t].key] = writing[t].entry
                \/ tmp[writing[t].key] = Damaged /\ diskFailed
        BY DEF IInv, WritingInv
    <2>2. /\ writing'[t] = writing[t]
          /\ doc'[writing[t].key] = doc[writing[t].key]
          /\ tmp'[writing[t].key] = tmp[writing[t].key]
        BY <1>4, <1>5, <1>6
    <2>3. Follows(writing[t].key, writing[t].entry)'
        BY <2>1, <2>2 DEF Follows, VersionOf, Map!VersionOf
    <2> QED
        BY <2>1, <2>2, <2>3, <1>1
<1>9. DagInv'
    <2>1. \A j \in DagKey : IsDocument(doc'[j]) => doc'[j].meta = NoMeta
        BY <1>1, <1>2, <1>3, <1>5 DEF IInv, DagInv, IsDocument, Key
    <2> QED
        BY <2>1, <1>4 DEF IInv, DagInv, IsDocument
<1>10. SeenInv'
    <2> SUFFICES ASSUME NEW j \in Key, seen[j] # Anything, j \notin erased,
                        doc'[j] # Damaged
                 PROVE  seen[j] = doc'[j] \/ (VersionOf(seen[j]) < VersionOf(doc[j]))'
        BY <1>1 DEF SeenInv, VersionOf, Map!VersionOf
    <2>1. CASE j = k
        <3>1. doc[j] # Damaged /\ doc'[j] = w.entry
            BY <2>1, <1>2, <1>3, <1>5 DEF Follows
        <3>2. seen[j] \in Entry \cup {Absent} /\ doc[j] \in Entry \cup {Absent}
            BY <3>1 DEF IInv, TypeOK
        <3>3. VersionOf(seen[j]) \in Nat /\ VersionOf(doc[j]) \in Nat
            BY <3>2, Versions
        <3>4. VersionOf(seen[j]) <= VersionOf(doc[j])
            BY <3>1, <3>3 DEF IInv, SeenInv
        <3>5. doc'[j].version = VersionOf(doc[j]) + 1 /\ seen'[j] = seen[j]
            BY <2>1, <3>1, <1>1, <1>2 DEF Follows
        <3>6. doc'[j] # Absent
            BY <3>1, <1>2, EntryAssumption
        <3> QED
            BY <3>3, <3>4, <3>5, <3>6 DEF VersionOf, Map!VersionOf
    <2>2. CASE j # k
        BY <2>2, <1>1, <1>5 DEF IInv, SeenInv, VersionOf, Map!VersionOf
    <2> QED
        BY <2>1, <2>2
<1>11. ExpectedInv'
    BY <1>1, <1>4, <1>5, <1>6 DEF IInv, ExpectedInv
<1>12. TmpInv'
    <2> SUFFICES ASSUME NEW j \in Key, IsDocument(tmp'[j]), j \notin interrupted'
                 PROVE  writing'[StoreOf(j)].at = "rename" /\ writing'[StoreOf(j)].key = j
        BY DEF TmpInv
    <2>1. j # k /\ IsDocument(tmp[j]) /\ j \notin interrupted
        BY <1>1, <1>5 DEF IsDocument
    <2>2. writing[StoreOf(j)].at = "rename" /\ writing[StoreOf(j)].key = j
        BY <2>1 DEF IInv, TmpInv
    <2> QED
        BY <2>1, <2>2, <1>4, StoreNames
<1>13. BlobInv'
    <2>1. \A j \in Key : IsDocument(doc'[j]) => Settled(doc'[j].blob)
        BY <1>1, <1>3, <1>5 DEF IInv, BlobInv, IsDocument
    <2>2. \A j \in Key : IsDocument(tmp'[j]) => Settled(tmp'[j].blob)
        BY <1>5 DEF IInv, BlobInv, IsDocument
    <2> QED
        BY <2>1, <2>2, <1>1, <1>4 DEF IInv, BlobInv, Settled, IsDocument
<1> QED
    BY <1>7, <1>8, <1>9, <1>10, <1>11, <1>12, <1>13 DEF IInv

LEMMA EraseStep ==
    ASSUME IInv, NEW k \in Key, NEW expected \in {Anything, seen[k]}, Erase(k, expected)
    PROVE  IInv'
<1>1. /\ writing[StoreOf(k)] = Idle
      /\ doc' = [doc EXCEPT ![k] = Absent]
      /\ erased' = erased \cup {k}
      /\ UNCHANGED <<tmp, blobs, writing, putting, held, seen, diskFailed, interrupted, torn>>
    BY DEF Erase
<1>2. doc'[k] = Absent /\ \A j \in Key \ {k} : doc'[j] = doc[j]
    BY <1>1 DEF IInv, TypeOK
<1>3. \A t \in Store : Busy(t) => writing[t].key \in Key \ {k}
    BY <1>1, BusyStore DEF Busy
<1>4. \A t \in Store : Busy(t)' <=> Busy(t)
    BY <1>1 DEF Busy
<1>5. TypeOK'
    BY <1>1 DEF IInv, TypeOK
<1>6. WritingInv'
    <2> SUFFICES ASSUME NEW t \in Store, Busy(t)
                 PROVE  Follows(writing[t].key, writing[t].entry)'
        BY <1>1, <1>4 DEF IInv, WritingInv
    <2>1. doc'[writing[t].key] = doc[writing[t].key]
        BY <1>2, <1>3
    <2> QED
        BY <2>1, <1>1, BusyStore DEF Follows, VersionOf, Map!VersionOf
<1>7. DagInv' /\ TmpInv'
    BY <1>1, <1>2, <1>4 DEF IInv, DagInv, TmpInv, IsDocument, Key
<1>8. SeenInv'
    BY <1>1, <1>2 DEF IInv, SeenInv, VersionOf, Map!VersionOf
<1>9. ExpectedInv'
    BY <1>1, <1>2, <1>3, <1>4 DEF IInv, ExpectedInv
<1>10. BlobInv'
    <2>1. \A j \in Key : IsDocument(doc'[j]) => IsDocument(doc[j]) /\ doc'[j] = doc[j]
        BY <1>2 DEF IsDocument
    <2> QED
        BY <2>1, <1>1, <1>4 DEF IInv, BlobInv, Settled, IsDocument
<1> QED
    BY <1>5, <1>6, <1>7, <1>8, <1>9, <1>10 DEF IInv

LEMMA GetStep == ASSUME IInv, NEW k \in Key, Get(k) PROVE IInv'
<1>1. /\ writing[StoreOf(k)] = Idle /\ doc[k] # Damaged
      /\ seen' = [seen EXCEPT ![k] = doc[k]]
      /\ erased' = erased \ {k}
      /\ UNCHANGED <<doc, tmp, blobs, writing, putting, held, diskFailed, interrupted, torn>>
    BY DEF Get, files
<1>2. seen'[k] = doc[k] /\ \A j \in Key \ {k} : seen'[j] = seen[j]
    BY <1>1 DEF IInv, TypeOK
<1>3. \A t \in Store : (Busy(t)' <=> Busy(t)) /\ (Busy(t) => writing[t].key # k)
    BY <1>1, BusyStore DEF Busy
<1>4. TypeOK'
    BY <1>1 DEF IInv, TypeOK
<1>5. WritingInv' /\ DagInv' /\ TmpInv'
    BY <1>1, <1>3 DEF IInv, WritingInv, DagInv, TmpInv, IsDocument, Follows,
       VersionOf, Map!VersionOf
<1>6. SeenInv'
    BY <1>1, <1>2 DEF IInv, SeenInv, VersionOf, Map!VersionOf
<1>7. ExpectedInv'
    BY <1>1, <1>3 DEF IInv, ExpectedInv
<1>8. BlobInv'
    BY <1>1, <1>3 DEF IInv, BlobInv, Settled, IsDocument
<1> QED
    BY <1>4, <1>5, <1>6, <1>7, <1>8 DEF IInv

\* Steps of the blob store leave the documents alone.
LEMMA BlobFrame ==
    ASSUME IInv, UNCHANGED <<doc, tmp, writing, seen, erased, interrupted>>,
           diskFailed => diskFailed'
    PROVE  WritingInv' /\ DagInv' /\ SeenInv' /\ ExpectedInv' /\ TmpInv'
<1>1. WritingInv'
    <2> SUFFICES ASSUME NEW t \in Store, Busy(t)
                 PROVE  /\ Follows(writing[t].key, writing[t].entry)'
                        /\ writing[t].at = "write" => tmp[writing[t].key] = Damaged
                        /\ writing[t].at = "rename" =>
                              \/ tmp[writing[t].key] = writing[t].entry
                              \/ tmp[writing[t].key] = Damaged /\ diskFailed'
        BY DEF WritingInv, Busy
    <2>1. Follows(writing[t].key, writing[t].entry)'
        BY BusyStore DEF Follows, VersionOf, Map!VersionOf
    <2> QED
        BY <2>1 DEF IInv, WritingInv
<1>2. DagInv' /\ ExpectedInv' /\ TmpInv'
    BY DEF IInv, DagInv, ExpectedInv, TmpInv, IsDocument, Busy
<1>3. SeenInv'
    BY DEF IInv, SeenInv, VersionOf, Map!VersionOf
<1> QED
    BY <1>1, <1>2, <1>3

\* They do not unsettle a blob.
LEMMA BlobsKept ==
    ASSUME IInv, UNCHANGED <<doc, tmp>>,
           \A t \in Store : writing'[t] \in {writing[t], Idle},
           \A b \in Content \cup {NoBlob} : Settled(b) => Settled(b)',
           \A b \in held' : Settled(b)',
           \A b \in Content : blobs'[b] = "part" => b = putting' \/ b \in torn'
    PROVE  BlobInv'
<1>1. \A e \in Entry : e.blob \in Content \cup {NoBlob}
    BY DEF Entry, Map!Entry
<1>2. ASSUME NEW t \in Store, Busy(t)'
      PROVE  Settled(writing[t].entry.blob)'
    <2>1. writing'[t] = writing[t] /\ Busy(t)
        BY <1>2 DEF Busy
    <2>2. writing[t].entry \in Entry
        BY <2>1, BusyStore
    <2>3. Settled(writing[t].entry.blob)
        BY <2>1 DEF IInv, BlobInv
    <2> QED
        BY <2>1, <2>2, <2>3, <1>1 DEF Settled
<1>3. ASSUME NEW k \in Key, IsDocument(doc[k])
      PROVE  Settled(doc[k].blob)'
    <2>1. doc[k] \in Entry
        BY <1>3 DEF IInv, TypeOK, IsDocument
    <2>2. Settled(doc[k].blob)
        BY <1>3 DEF IInv, BlobInv
    <2> QED
        BY <2>1, <2>2, <1>1 DEF Settled
<1>4. ASSUME NEW k \in Key, IsDocument(tmp[k])
      PROVE  Settled(tmp[k].blob)'
    <2>1. tmp[k] \in Entry
        BY <1>4 DEF IInv, TypeOK, IsDocument
    <2>2. Settled(tmp[k].blob)
        BY <1>4 DEF IInv, BlobInv
    <2> QED
        BY <2>1, <2>2, <1>1 DEF Settled
<1> QED
    BY <1>2, <1>3, <1>4 DEF BlobInv, Settled, IsDocument

LEMMA PutBlobStep == ASSUME IInv, NEW c \in Content, PutBlob(c) PROVE IInv'
<1>1. UNCHANGED <<doc, tmp, writing, seen, diskFailed, erased, interrupted, torn>>
    BY DEF PutBlob, ghosts
<1>2. TypeOK'
    BY <1>1 DEF PutBlob, IInv, TypeOK
<1>3. BlobInv'
    <2>1. CASE blobs[c] = "absent"
        <3>1. /\ blobs' = [blobs EXCEPT ![c] = "part"]
              /\ putting = NoBlob /\ putting' = c /\ held' = held
            BY <2>1 DEF PutBlob
        <3>2. \A b \in Content \cup {NoBlob} : Settled(b) => Settled(b)'
            BY <2>1, <3>1, <1>1 DEF IInv, TypeOK, Settled
        <3>3. \A b \in Content : blobs'[b] = "part" => b = putting' \/ b \in torn'
            BY <3>1, <1>1 DEF IInv, TypeOK, BlobInv
        <3>4. \A b \in held' : Settled(b)'
            BY <3>1, <3>2 DEF IInv, TypeOK, BlobInv
        <3> QED
            BY <3>2, <3>3, <3>4, <1>1, BlobsKept
    <2>2. CASE blobs[c] # "absent"
        <3>1. putting = NoBlob /\ held' = held \cup {c} /\ UNCHANGED <<blobs, putting>>
            BY <2>2 DEF PutBlob
        <3>2. Settled(c)
            BY <2>2, <3>1 DEF IInv, TypeOK, BlobInv, Settled
        <3> QED
            BY <3>1, <3>2, <1>1 DEF IInv, BlobInv, Settled, IsDocument, Busy
    <2> QED
        BY <2>1, <2>2
<1> QED
    BY <1>1, <1>2, <1>3, BlobFrame DEF IInv

LEMMA FinishBlobStep == ASSUME IInv, FinishBlob PROVE IInv'
<1>1. /\ putting # NoBlob /\ putting \in Content
      /\ blobs' = [blobs EXCEPT ![putting] = "whole"]
      /\ held' = held \cup {putting} /\ putting' = NoBlob
      /\ UNCHANGED <<doc, tmp, writing, seen, diskFailed, erased, interrupted, torn>>
    BY DEF FinishBlob, ghosts, IInv, TypeOK
<1>2. TypeOK'
    BY <1>1 DEF IInv, TypeOK
<1>3. \A b \in Content \cup {NoBlob} : Settled(b) => Settled(b)'
    BY <1>1 DEF IInv, TypeOK, Settled
<1>4. \A b \in held' : Settled(b)'
    BY <1>1, <1>3 DEF IInv, TypeOK, BlobInv, Settled
<1>5. \A b \in Content : blobs'[b] = "part" => b = putting' \/ b \in torn'
    BY <1>1 DEF IInv, TypeOK, BlobInv
<1>6. BlobInv'
    BY <1>1, <1>3, <1>4, <1>5, BlobsKept
<1> QED
    BY <1>1, <1>2, <1>6, BlobFrame DEF IInv

LEMMA BlobFailsStep == ASSUME IInv, BlobFails PROVE IInv'
<1>1. /\ putting # NoBlob /\ putting \in Content
      /\ diskFailed' = TRUE /\ torn' = torn \cup {putting}
      /\ held' \in {held, held \cup {putting}} /\ putting' = NoBlob
      /\ UNCHANGED <<doc, tmp, blobs, writing, seen, erased, interrupted>>
    BY DEF BlobFails, files, IInv, TypeOK
<1>2. TypeOK'
    BY <1>1 DEF IInv, TypeOK
<1>3. \A b \in Content \cup {NoBlob} : Settled(b) => Settled(b)'
    BY <1>1 DEF Settled
<1>4. \A b \in held' : Settled(b)'
    BY <1>1, <1>3 DEF IInv, TypeOK, BlobInv, Settled
<1>5. \A b \in Content : blobs'[b] = "part" => b = putting' \/ b \in torn'
    BY <1>1 DEF IInv, BlobInv
<1>6. BlobInv'
    BY <1>1, <1>3, <1>4, <1>5, BlobsKept
<1> QED
    BY <1>1, <1>2, <1>6, BlobFrame DEF IInv

LEMMA CrashStep == ASSUME IInv, Crash PROVE IInv'
<1>1. /\ \A s \in Store : writing'[s] = Idle
      /\ putting' = NoBlob /\ held' = {} /\ erased' = {}
      /\ \A k \in Key : seen'[k] = Anything
      /\ UNCHANGED <<doc, tmp, blobs, diskFailed>>
    BY DEF Crash, files
<1>2. torn \subseteq torn' /\ torn' \subseteq Content /\ (putting # NoBlob => putting \in torn')
    BY DEF Crash, IInv, TypeOK
<1>3. /\ interrupted \subseteq interrupted' /\ interrupted' \subseteq Key
      /\ \A s \in Store : writing[s].at = "rename" => writing[s].key \in interrupted'
    <2>1. \A s \in Store : writing[s].at = "rename" => writing[s].key \in Key
        BY BusyStore DEF Busy, Idle
    <2> QED
        BY <2>1 DEF Crash, IInv, TypeOK
<1>4. TypeOK'
    BY <1>1, <1>2, <1>3 DEF Crash, IInv, TypeOK, files
<1>5. WritingInv' /\ DagInv' /\ SeenInv' /\ ExpectedInv'
    BY <1>1 DEF IInv, WritingInv, DagInv, SeenInv, ExpectedInv, Busy, IsDocument
<1>6. TmpInv'
    BY <1>1, <1>3, StoreNames DEF IInv, TmpInv, IsDocument
<1>7. BlobInv'
    <2>1. \A b \in Content \cup {NoBlob} : Settled(b) => Settled(b)'
        BY <1>1, <1>2 DEF Settled
    <2>2. \A b \in Content : blobs'[b] = "part" => b \in torn'
        BY <1>1, <1>2 DEF IInv, BlobInv
    <2> QED
        BY <2>1, <2>2, <1>1, BlobsKept
<1> QED
    BY <1>4, <1>5, <1>6, <1>7 DEF IInv

-----------------------------------------------------------------------------
LEMMA NextInv == IInv /\ [Next]_vars => IInv'
<1> SUFFICES ASSUME IInv, [Next]_vars PROVE IInv'
    OBVIOUS
<1>1. CASE \E k \in Key : \E expected \in {Anything, seen[k]} : \E v \in Value :
              UpsertDag(k, v, expected)
    BY <1>1, UpsertDagBegins, UpsertStep
<1>2. CASE \E k \in Key : \E expected \in {Anything, seen[k]} : \E v \in Value :
              \E blob \in held \cup {NoBlob}, meta \in Meta \cup {NoMeta} :
                  UpsertTask(k, v, blob, meta, expected)
    BY <1>2, UpsertTaskBegins, UpsertStep
<1>3. CASE \E k \in Key : Get(k) \/ \E expected \in {Anything, seen[k]} : Erase(k, expected)
    BY <1>3, GetStep, EraseStep
<1>4. CASE \E s \in Store : FinishWrite(s) \/ WriteFails(s) \/ Rename(s) \/ RenameFails(s)
    BY <1>4, FinishWriteStep, WriteFailsStep, RenameStep, RenameFailsStep
<1>5. CASE (\E c \in Content : PutBlob(c)) \/ FinishBlob \/ BlobFails \/ Crash
    BY <1>5, PutBlobStep, FinishBlobStep, BlobFailsStep, CrashStep
<1>6. CASE UNCHANGED vars
    <2>1. UNCHANGED <<doc, tmp, writing, seen, diskFailed, erased, interrupted,
                      blobs, putting, held, torn>>
        BY <1>6 DEF vars, files, ghosts
    <2>2. TypeOK' /\ BlobInv'
        BY <2>1 DEF IInv, TypeOK, BlobInv, Settled, IsDocument, Busy
    <2> QED
        BY <2>1, <2>2, BlobFrame DEF IInv
<1> QED
    BY <1>1, <1>2, <1>3, <1>4, <1>5, <1>6 DEF Next

LEMMA InvHolds == Spec => []IInv
BY InitInv, NextInv, PTL DEF Spec

-----------------------------------------------------------------------------
(* The documents, the temporary files and what the callers hold are of     *)
(* their types: the version of a document never leaves the naturals.       *)
THEOREM StoreTypes == Spec => []TypeOK
<1>1. IInv => TypeOK
    BY DEF IInv
<1> QED
    BY <1>1, InvHolds, PTL

(* Through every crash and every error of the disk, no blob is in a        *)
(* caller's hands or named by a file before put_blob wrote all of it,      *)
(* unless its write was torn.                                              *)
THEOREM BlobsAreSafe == Spec => []BlobsAreWhole
<1>1. IInv => BlobsAreWhole
    BY DEF IInv, TypeOK, BlobInv, BlobsAreWhole, Names, Settled, IsDocument
<1> QED
    BY <1>1, InvHolds, PTL

(* A task that list_tasks lists twice is one whose write was interrupted   *)
(* between the temporary file and its rename.                              *)
THEOREM DoublesAreInterrupted == Spec => []ListedTwiceAfterInterruption
<1>1. ASSUME IInv, writing["tasks"] = Idle, NEW t \in ListTasks, t.file = "tmp"
      PROVE  t.key \in interrupted
    <2>1. t.key \in TaskKey /\ IsDocument(tmp[t.key])
        BY <1>1 DEF ListTasks, FileOf, IsDocument
    <2>2. t.key \in Key /\ StoreOf(t.key) = "tasks"
        BY <2>1 DEF Key, StoreOf
    <2> QED
        BY <1>1, <2>1, <2>2 DEF IInv, TmpInv, Idle
<1>2. IInv => ListedTwiceAfterInterruption
    BY <1>1 DEF ListedTwiceAfterInterruption
<1> QED
    BY <1>2, InvHolds, PTL

(* A write with if_version replaces the document its caller read, unless   *)
(* that one was erased meanwhile.                                          *)
THEOREM CompareAndSwap == Spec => CasReplacesWhatWasRead
<1> DEFINE Cas == \A s \in Store :
              LET w == writing[s]
              IN  w # Idle /\ writing'[s] = Idle /\ doc' # doc
                  => w.expected \in {Anything, doc[w.key]} \/ w.key \in erased
<1>1. IInv /\ [Next]_vars => [Cas]_vars
    BY DEF IInv, ExpectedInv, Busy
<1> QED
    BY <1>1, InvHolds, PTL DEF Spec, CasReplacesWhatWasRead

-----------------------------------------------------------------------------
(* The document stores implement DocumentMap: a rename is Map!Store, or    *)
(* Map!Damage when the disk refused part of the temporary file, an erasure *)
(* is Map!Remove, an error is Map!FailDisk, and every other step stutters. *)

LEMMA RenameMaps == ASSUME IInv, NEW s \in Store, Rename(s) PROVE Map!Next
<1> DEFINE w == writing[s]
           k == w.key
<1>1. /\ w.at = "rename" /\ Busy(s)
      /\ doc' = [doc EXCEPT ![k] = tmp[k]] /\ UNCHANGED diskFailed
    BY DEF Rename, Busy, Idle
<1>2. k \in Key /\ w.entry \in Entry /\ Follows(k, w.entry)
    BY <1>1, BusyStore
<1>3. doc'[k] = tmp[k]
    BY <1>1, <1>2 DEF IInv, TypeOK
<1>4. CASE tmp[k] = w.entry
    <2>1. Map!Store(k)
        BY <1>1, <1>2, <1>3, <1>4 DEF Map!Store, Follows, Entry, VersionOf
    <2> QED
        BY <2>1, <1>2 DEF Map!Next
<1>5. CASE tmp[k] = Damaged /\ diskFailed
    <2>1. Map!Damage(k)
        BY <1>1, <1>5 DEF Map!Damage
    <2> QED
        BY <2>1, <1>2 DEF Map!Next
<1>6. tmp[k] = w.entry \/ (tmp[k] = Damaged /\ diskFailed)
    BY <1>1 DEF IInv, WritingInv
<1> QED
    BY <1>4, <1>5, <1>6

LEMMA StepMaps == IInv /\ [Next]_vars => [Map!Next]_<<doc, diskFailed>>
<1> SUFFICES ASSUME IInv, [Next]_vars
             PROVE  Map!Next \/ UNCHANGED <<doc, diskFailed>>
    OBVIOUS
<1>1. CASE \E s \in Store : Rename(s)
    BY <1>1, RenameMaps
<1>2. CASE \E k \in Key : \E expected \in {Anything, seen[k]} : Erase(k, expected)
    <2>1. PICK k \in Key : doc' = [doc EXCEPT ![k] = Absent] /\ UNCHANGED diskFailed
        BY <1>2 DEF Erase
    <2> QED
        BY <2>1 DEF Map!Next, Map!Remove
<1>3. CASE BlobFails \/ \E s \in Store : WriteFails(s) \/ RenameFails(s)
    <2>1. diskFailed' = TRUE /\ UNCHANGED doc
        BY <1>3 DEF BlobFails, WriteFails, RenameFails, files
    <2> QED
        BY <2>1 DEF Map!Next, Map!FailDisk
<1>4. CASE \E k \in Key : \E expected \in {Anything, seen[k]} : \E v \in Value :
              \/ UpsertDag(k, v, expected)
              \/ \E blob \in held \cup {NoBlob}, meta \in Meta \cup {NoMeta} :
                    UpsertTask(k, v, blob, meta, expected)
    BY <1>4 DEF UpsertDag, UpsertTask, BeginWrite
<1>5. CASE \/ \E k \in Key : Get(k)
           \/ \E s \in Store : FinishWrite(s)
           \/ \E c \in Content : PutBlob(c)
           \/ FinishBlob \/ Crash
    BY <1>5 DEF Get, FinishWrite, PutBlob, FinishBlob, Crash, files
<1>6. CASE UNCHANGED vars
    BY <1>6 DEF vars, files
<1> QED
    BY <1>1, <1>2, <1>3, <1>4, <1>5, <1>6 DEF Next

(* A reader of the stores sees a map of versioned documents, whatever      *)
(* crashes and errors come between the steps of a write.                   *)
THEOREM StoresImplementMap == Spec => ImplementsDocumentMap
<1>1. Init => Map!Init
    BY DEF Init, Map!Init
<1>2. IInv /\ [Next]_vars => [Map!Next]_<<doc, diskFailed>>
    BY StepMaps
<1> QED
    BY <1>1, <1>2, InvHolds, PTL DEF Spec, ImplementsDocumentMap, Map!Spec

=============================================================================
