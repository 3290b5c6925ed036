------------------------------ MODULE FsStore -------------------------------
(***************************************************************************)
(* fs_storage (libraries/storage): the dag store, the task store and the   *)
(* blob store on the file system, one action per file operation.           *)
(*                                                                         *)
(* Each document store has a mutex that upsert, get, list and erase hold   *)
(* throughout, so that only a crash comes between the steps of one write.  *)
(* A document is written to <name>.tmp and renamed; a blob is written in   *)
(* place under the hash of its content, without a mutex, but by one caller *)
(* at a time: the registry, under its own.  The file streams are buffered, *)
(* and what remains in the buffer is written when the stream is closed,    *)
(* where nothing looks at an error any more.                               *)
(*                                                                         *)
(* Two contents with one hash, and the loss of what the operating system   *)
(* has not yet written when the machine itself fails, are left out.        *)
(***************************************************************************)
EXTENDS Naturals, FiniteSets

CONSTANTS
    DagKey,         \* names of DAGs
    TaskKey,        \* names of tasks (of one DAG)
    Value,          \* what a document says of its DAG or task
    Meta,           \* schedule metadata
    Content,        \* contents of task files; a blob's id is its content here
    Absent, Damaged, NoBlob, NoMeta, Anything,
    MaxVersion,     \* bound: versions of a document
    DiskMayFail     \* whether the disk may refuse to write

ASSUME StoreAssumption ==
    /\ DagKey \cap TaskKey = {}
    /\ MaxVersion \in Nat
    /\ DiskMayFail \in BOOLEAN
    /\ NoBlob \notin Content
    /\ NoMeta \notin Meta

VARIABLES
    doc,            \* Key -> content of the document's file
    tmp,            \* Key -> content of its temporary file
    writing,        \* store -> the write_json_atomic it is in
    blobs,          \* Content -> "absent", "part" or "whole"
    putting,        \* the blob being written, or NoBlob
    held,           \* ids put_blob has returned to a caller
    seen,           \* Key -> the document a caller read last, or Anything
    diskFailed,     \* the disk has refused a write
    erased,         \* documents erased since the caller read them
    interrupted,    \* documents whose last write was complete but for the rename
    torn            \* blobs whose write did not end

files == <<doc, tmp, blobs>>
ghosts == <<erased, interrupted, torn>>
vars == <<files, writing, putting, held, seen, diskFailed, ghosts>>

Key == DagKey \cup TaskKey
StoreOf(k) == IF k \in DagKey THEN "dags" ELSE "tasks"
Store == {"dags", "tasks"}

Map == INSTANCE DocumentMap WITH docs <- doc
Entry == Map!Entry
VersionOf(e) == Map!VersionOf(e)

ASSUME EntryAssumption == Absent \notin Entry

Idle == [at |-> "idle"]
Write == [at : {"write", "rename"}, key : Key, entry : Entry,
          expected : Entry \cup {Absent, Anything}]

Init == /\ doc = [k \in Key |-> Absent]
        /\ tmp = [k \in Key |-> Absent]
        /\ writing = [s \in Store |-> Idle]
        /\ blobs = [c \in Content |-> "absent"]
        /\ putting = NoBlob
        /\ held = {}
        /\ seen = [k \in Key |-> Anything]
        /\ diskFailed = FALSE
        /\ erased = {}
        /\ interrupted = {}
        /\ torn = {}

-----------------------------------------------------------------------------
\* Document stores.

\* if_version is the version the caller read, or not given (Anything).
\* Mutant: it is not compared.
VersionFitsAlways(k, expected) == TRUE
VersionFits(k, expected) ==
    expected # Anything => VersionOf(expected) = VersionOf(doc[k])

\* write_json_atomic: <name>.tmp is opened, which empties it.
BeginWrite(k, entry, expected) ==
    /\ writing[StoreOf(k)] = Idle
    /\ doc[k] # Damaged
    /\ VersionFits(k, expected)
    /\ entry.version <= MaxVersion
    /\ tmp' = [tmp EXCEPT ![k] = Damaged]
    /\ writing' = [writing EXCEPT ![StoreOf(k)] =
                      [at |-> "write", key |-> k, entry |-> entry, expected |-> expected]]
    /\ UNCHANGED <<doc, blobs, putting, held, seen, diskFailed, ghosts>>

UpsertDag(k, v, expected) ==
    /\ k \in DagKey
    /\ BeginWrite(k, [version |-> VersionOf(doc[k]) + 1, value |-> v,
                      blob |-> NoBlob, meta |-> NoMeta], expected)

\* Mutant: a task's metadata is lost when none is given.
KeptMetaForgotten(k, meta) == meta
\* Without new metadata the document keeps its own; the blob's id goes.
KeptMeta(k, meta) == IF meta = NoMeta /\ doc[k] # Absent THEN doc[k].meta ELSE meta

UpsertTask(k, v, blob, meta, expected) ==
    /\ k \in TaskKey
    /\ doc[k] # Damaged
    /\ BeginWrite(k, [version |-> VersionOf(doc[k]) + 1, value |-> v,
                      blob |-> blob, meta |-> KeptMeta(k, meta)], expected)

\* The file is written and closed.
FinishWrite(s) ==
    /\ writing[s].at = "write"
    /\ tmp' = [tmp EXCEPT ![writing[s].key] = writing[s].entry]
    /\ writing' = [writing EXCEPT ![s].at = "rename"]
    /\ UNCHANGED <<doc, blobs, putting, held, seen, diskFailed, ghosts>>

\* The disk refuses: storage_error::io if the stream shows it before it is
\* closed, otherwise the rename follows.
WriteFails(s) ==
    /\ DiskMayFail
    /\ writing[s].at = "write"
    /\ diskFailed' = TRUE
    /\ \/ writing' = [writing EXCEPT ![s] = Idle]
       \/ writing' = [writing EXCEPT ![s].at = "rename"]
    /\ UNCHANGED <<files, putting, held, seen, ghosts>>

\* Mutant: the temporary file is copied.
RenameCopies(s) ==
    /\ writing[s].at = "rename"
    /\ LET k == writing[s].key
       IN  /\ doc' = [doc EXCEPT ![k] = tmp[k]]
           /\ interrupted' = interrupted \ {k}
    /\ writing' = [writing EXCEPT ![s] = Idle]
    /\ UNCHANGED <<tmp, blobs, putting, held, seen, diskFailed, erased, torn>>

Rename(s) ==
    /\ writing[s].at = "rename"
    /\ LET k == writing[s].key
       IN  /\ doc' = [doc EXCEPT ![k] = tmp[k]]
           /\ tmp' = [tmp EXCEPT ![k] = Absent]
           /\ interrupted' = interrupted \ {k}
    /\ writing' = [writing EXCEPT ![s] = Idle]
    /\ UNCHANGED <<blobs, putting, held, seen, diskFailed, erased, torn>>

RenameFails(s) ==
    /\ DiskMayFail
    /\ writing[s].at = "rename"
    /\ diskFailed' = TRUE
    /\ interrupted' = interrupted \cup {writing[s].key}
    /\ writing' = [writing EXCEPT ![s] = Idle]
    /\ UNCHANGED <<files, putting, held, seen, erased, torn>>

\* erase_dag, erase_task.  A damaged document can be erased only without
\* if_version.  The temporary file stays.
Erase(k, expected) ==
    /\ writing[StoreOf(k)] = Idle
    /\ doc[k] # Absent
    /\ doc[k] = Damaged => expected = Anything
    /\ doc[k] # Damaged => VersionFits(k, expected)
    /\ doc' = [doc EXCEPT ![k] = Absent]
    /\ erased' = erased \cup {k}
    /\ UNCHANGED <<tmp, blobs, writing, putting, held, seen, diskFailed,
                   interrupted, torn>>

\* Mutant: whether the file parsed is not looked at.
GetUnparsed(k) ==
    /\ writing[StoreOf(k)] = Idle
    /\ seen' = [seen EXCEPT ![k] = doc[k]]
    /\ erased' = erased \ {k}
    /\ UNCHANGED <<files, writing, putting, held, diskFailed, interrupted, torn>>

\* get_dag, get_task: what the caller may come back with as if_version.
Get(k) ==
    /\ writing[StoreOf(k)] = Idle
    /\ doc[k] # Damaged
    /\ seen' = [seen EXCEPT ![k] = doc[k]]
    /\ erased' = erased \ {k}
    /\ UNCHANGED <<files, writing, putting, held, diskFailed, interrupted, torn>>

\* list_dags reads every <name>/dag.json, list_tasks every regular file of
\* the directory, temporary ones too; both skip what does not parse.
ListDags == {[key |-> k, entry |-> doc[k]] : k \in {k \in DagKey : doc[k] \in Entry}}
FileOf(t) == IF t.file = "tmp" THEN tmp[t.key] ELSE doc[t.key]
ListTasks == {t \in [key : TaskKey, file : {"doc", "tmp"}] : FileOf(t) \notin {Absent, Damaged}}

Names(e, c) == e \notin {Absent, Damaged} /\ e.blob = c

-----------------------------------------------------------------------------
\* Blob store.

\* put_blob.  A file of that name is taken for the blob.
\* Mutant: the id is returned before the file is written.
PutBlobEarly(c) ==
    /\ putting = NoBlob
    /\ blobs' = [blobs EXCEPT ![c] = IF @ = "absent" THEN "part" ELSE @]
    /\ putting' = IF blobs[c] = "absent" THEN c ELSE NoBlob
    /\ held' = held \cup {c}
    /\ UNCHANGED <<doc, tmp, writing, seen, diskFailed, ghosts>>

PutBlob(c) ==
    /\ putting = NoBlob
    /\ IF blobs[c] = "absent"
       THEN /\ blobs' = [blobs EXCEPT ![c] = "part"]
            /\ putting' = c
            /\ held' = held
       ELSE /\ held' = held \cup {c}
            /\ UNCHANGED <<blobs, putting>>
    /\ UNCHANGED <<doc, tmp, writing, seen, diskFailed, ghosts>>

FinishBlob ==
    /\ putting # NoBlob
    /\ blobs' = [blobs EXCEPT ![putting] = "whole"]
    /\ held' = held \cup {putting}
    /\ putting' = NoBlob
    /\ UNCHANGED <<doc, tmp, writing, seen, diskFailed, ghosts>>

\* As for a document, the error may go unseen: the id is returned.
BlobFails ==
    /\ DiskMayFail
    /\ putting # NoBlob
    /\ diskFailed' = TRUE
    /\ held' \in {held, held \cup {putting}}
    /\ torn' = torn \cup {putting}
    /\ putting' = NoBlob
    /\ UNCHANGED <<files, writing, seen, erased, interrupted>>

-----------------------------------------------------------------------------
\* The process ends between two steps and is started again.
Crash ==
    /\ writing' = [s \in Store |-> Idle]
    /\ interrupted' = interrupted \cup
          {writing[s].key : s \in {s \in Store : writing[s].at = "rename"}}
    /\ torn' = IF putting = NoBlob THEN torn ELSE torn \cup {putting}
    /\ putting' = NoBlob
    /\ held' = {}
    /\ seen' = [k \in Key |-> Anything]
    /\ erased' = {}
    /\ UNCHANGED <<files, diskFailed>>

Next ==
    \/ \E k \in Key : \E expected \in {Anything, seen[k]} :
          \/ \E v \in Value :
                \/ UpsertDag(k, v, expected)
                \/ \E blob \in held \cup {NoBlob}, meta \in Meta \cup {NoMeta} :
                      UpsertTask(k, v, blob, meta, expected)
          \/ Erase(k, expected)
    \/ \E k \in Key : Get(k)
    \/ \E s \in Store : FinishWrite(s) \/ WriteFails(s) \/ Rename(s) \/ RenameFails(s)
    \/ \E c \in Content : PutBlob(c)
    \/ FinishBlob
    \/ BlobFails
    \/ Crash

Spec == Init /\ [][Next]_vars

-----------------------------------------------------------------------------
\* Properties.

TypeOK ==
    /\ doc \in [Key -> Entry \cup {Absent, Damaged}]
    /\ tmp \in [Key -> Entry \cup {Absent, Damaged}]
    /\ writing \in [Store -> Write \cup {Idle}]
    /\ \A s \in Store : writing[s] # Idle => StoreOf(writing[s].key) = s
    /\ blobs \in [Content -> {"absent", "part", "whole"}]
    /\ putting \in Content \cup {NoBlob}
    /\ held \subseteq Content
    /\ seen \in [Key -> Entry \cup {Absent, Anything}]
    /\ diskFailed \in BOOLEAN
    /\ erased \subseteq Key /\ interrupted \subseteq Key /\ torn \subseteq Content

\* The document stores are the map they promise: through every crash, and
\* every error of a file operation, a reader sees the last document or the
\* next one, the versions count every write, and a task keeps its schedule
\* when it is updated without one.  Only a disk that refuses to write damages
\* a document: what a stream could not write when it was closed is renamed
\* into its place all the same.
ImplementsDocumentMap == Map!Spec

\* if_version is a compare-and-swap: a write that carries the version its
\* caller read replaces the document the caller read, whatever others did in
\* between.  The exception is a document erased meanwhile: its versions begin
\* again at 1, and the caller cannot tell the new one from the old.
CasReplacesWhatWasRead ==
    [][\A s \in Store :
          LET w == writing[s]
          IN  w # Idle /\ writing'[s] = Idle /\ doc' # doc
              => w.expected \in {Anything, doc[w.key]} \/ w.key \in erased]_vars

\* list_tasks reads temporary files as tasks.  When no write is going on, one
\* that parses is what an interrupted write left: a crash or a failed rename
\* after the file was complete.  Every other task is listed once.
ListedTwiceAfterInterruption ==
    writing["tasks"] = Idle =>
        \A t \in ListTasks : t.file = "tmp" => t.key \in interrupted

\* A blob is written in place, and whatever is found under its name is taken
\* for it: a torn blob is never repaired.  No other blob is ever in a
\* caller's hands, or named by a document, before it is whole.
BlobsAreWhole ==
    \A c \in Content :
        c \in held \/ (\E k \in Key : Names(doc[k], c) \/ Names(tmp[k], c))
        => blobs[c] = "whole" \/ c \in torn

=============================================================================
