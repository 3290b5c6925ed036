---------------------------- MODULE DocumentMap -----------------------------
(***************************************************************************)
(* What the document stores of fs_storage promise: a map from names to     *)
(* versioned entries, each operation on it one step.  It is the abstract   *)
(* specification FsStore implements.                                       *)
(***************************************************************************)
EXTENDS Naturals

CONSTANTS
    Key,        \* names of documents
    Value,      \* what a caller stores
    Meta,       \* schedule metadata
    Content,    \* contents of task files, which are also the ids of their blobs
    Absent,     \* no document
    Damaged,    \* a document that does not parse
    NoBlob,
    NoMeta

VARIABLES
    docs,       \* Key -> Absent, Damaged or an entry
    diskFailed  \* the disk has refused a write

Entry == [version : Nat \ {0}, value : Value,
          blob : Content \cup {NoBlob}, meta : Meta \cup {NoMeta}]

VersionOf(e) == IF e = Absent THEN 0 ELSE e.version

Init == docs = [k \in Key |-> Absent] /\ diskFailed = FALSE

\* A write succeeds as a whole: the version counts on, metadata is not lost.
\* A damaged document cannot be overwritten.
Store(k) == /\ docs[k] # Damaged
            /\ docs'[k] \in Entry
            /\ docs'[k].version = VersionOf(docs[k]) + 1
            /\ docs[k] # Absent /\ docs[k].meta # NoMeta => docs'[k].meta # NoMeta
            /\ docs' = [docs EXCEPT ![k] = docs'[k]]
            /\ UNCHANGED diskFailed

Remove(k) == docs' = [docs EXCEPT ![k] = Absent] /\ UNCHANGED diskFailed

\* Only a disk that refuses to write damages a document.
Damage(k) == /\ diskFailed
             /\ docs' = [docs EXCEPT ![k] = Damaged]
             /\ UNCHANGED diskFailed

FailDisk == diskFailed' = TRUE /\ UNCHANGED docs

Next == (\E k \in Key : Store(k) \/ Remove(k) \/ Damage(k)) \/ FailDisk

Spec == Init /\ [][Next]_<<docs, diskFailed>>

=============================================================================
