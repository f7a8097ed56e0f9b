---------------------------- MODULE PosixWritable ----------------------------
(***************************************************************************)
(* PosixWritableFile of leveldb/util/env_posix.cc: a buffer in front of a  *)
(* file descriptor, whose data the system holds in memory until they are   *)
(* written to disk by SyncFd or on the system's own account.  Directory    *)
(* entries reach the disk in the same two ways.  The client makes its      *)
(* calls on one file in any order, and creates table files meanwhile;      *)
(* writes fail, at once or behind a part of the data, and the machine may  *)
(* crash between any two steps.  The data of the file are the numbers 1,   *)
(* 2, ... in the order in which the client appended them.                  *)
(***************************************************************************)
EXTENDS Integers, Sequences, FiniteSets

CONSTANTS
    NewTables,   \* files the client creates, to be named in the manifest
    BufferSize,  \* kWritableFileBufferSize
    MaxAppended, \* bound: data appended
    MaxErrors    \* bound: failing system calls

VARIABLES
    is_manifest,  \* the file's name starts with MANIFEST
    step,         \* where the call in progress is: the steps of Sync
    isOpen,       \* fd_ is open
    buffer,       \* buf_[0, pos_ - 1]
    os,           \* the file's data in the system
    disk,         \* its data on disk
    appended,     \* how many data the client appended
    good,         \* every call so far returned OK
    synced,       \* how many data there were at the last successful Sync
    created,      \* table in the directory -> appended when it was created
    durable,      \* the tables in the directory on disk
    begun,        \* the tables in the directory when the last Sync began
    covered,      \* the tables a successful Sync began behind
    errors,       \* failed system calls so far
    crashed       \* the machine crashed

data == <<buffer, os, disk, appended, good, synced>>
names == <<created, durable, begun, covered>>
wVars == <<is_manifest, step, isOpen, data, names, errors, crashed>>

Numbers(m, n) == [i \in 1..(n - m) |-> m + i]

WritableInit ==
    /\ is_manifest \in BOOLEAN
    /\ step = "idle"
    /\ isOpen = TRUE
    /\ buffer = <<>> /\ os = <<>> /\ disk = <<>>
    /\ appended = 0 /\ good = TRUE /\ synced = 0
    /\ created = << >> /\ durable = {} /\ begun = {} /\ covered = {}
    /\ errors = 0
    /\ crashed = FALSE

\* The client may make a call.
Calls == ~crashed /\ isOpen /\ step = "idle"

\* NewWritableFile for another file, by this client or another thread.
CreateTable(t) ==
    /\ ~crashed /\ t \notin DOMAIN created
    /\ created' = [u \in DOMAIN created \cup {t} |->
                      IF u = t THEN appended ELSE created[u]]
    /\ UNCHANGED <<is_manifest, step, isOpen, data, durable, begun, covered, errors, crashed>>

(***************************************************************************)
(* WriteUnbuffered writes all its bytes, or fails behind a part of them.   *)
(***************************************************************************)
WriteUnbuffered(bytes, ok) ==
    /\ \E n \in 0..Len(bytes) :
          /\ ok => n = Len(bytes)
          /\ os' = os \o SubSeq(bytes, 1, n)
    /\ ok \/ errors < MaxErrors
    /\ errors' = IF ok THEN errors ELSE errors + 1
    /\ good' = (good /\ ok)

KeepFailed(ok) == IF ok THEN <<>> ELSE buffer          \* a defect: pos_ kept on failure
AfterWrite(ok) == <<>>                                 \* pos_ = 0

FlushBuffer(ok) ==
    /\ WriteUnbuffered(buffer, ok)
    /\ buffer' = AfterWrite(ok)

CopySizeAll(n) == IF n > BufferSize THEN BufferSize ELSE n     \* a defect: ignores pos_
CopySize(n) == IF n > BufferSize - Len(buffer) THEN BufferSize - Len(buffer) ELSE n

\* Append of n data that fit into the buffer.
AppendFits(n) ==
    /\ Calls /\ appended + n <= MaxAppended
    /\ CopySize(n) = n
    /\ buffer' = buffer \o Numbers(appended, appended + n)
    /\ appended' = appended + n
    /\ UNCHANGED <<is_manifest, step, isOpen, os, disk, good, synced, names, errors, crashed>>

DirectFirst(full, rest) == rest \o full                \* a defect: large write before the flush
Direct(full, rest) == full \o rest

\* Append of more: the full buffer is written, then a small rest goes to the
\* buffer and a large one directly to the file.
AppendFlushes(n) ==
    /\ Calls /\ appended + n <= MaxAppended
    /\ CopySize(n) < n
    /\ LET copied == appended + CopySize(n)
           full == buffer \o Numbers(appended, copied)
           rest == Numbers(copied, appended + n)
       IN \/ \E ok \in BOOLEAN :
                /\ Len(rest) < BufferSize \/ ~ok
                /\ WriteUnbuffered(full, ok)
                /\ buffer' = IF ok THEN rest ELSE <<>>
          \/ \E ok \in BOOLEAN :
                /\ Len(rest) >= BufferSize
                /\ WriteUnbuffered(Direct(full, rest), ok)
                /\ buffer' = <<>>
    /\ appended' = appended + n
    /\ UNCHANGED <<is_manifest, step, isOpen, disk, synced, names, crashed>>

\* Flush, which log::Writer calls behind every physical record.
Flush(ok) ==
    /\ Calls /\ buffer # <<>>
    /\ FlushBuffer(ok)
    /\ UNCHANGED <<is_manifest, step, isOpen, disk, appended, synced, names, crashed>>

\* Close flushes, and closes the descriptor whatever comes of it.
Close(ok) ==
    /\ Calls
    /\ FlushBuffer(ok)
    /\ isOpen' = FALSE
    /\ UNCHANGED <<is_manifest, step, disk, appended, synced, names, crashed>>

(***************************************************************************)
(* Sync: the directory if this is the manifest, the buffer, the file.      *)
(***************************************************************************)
Failed ==
    /\ errors < MaxErrors
    /\ errors' = errors + 1
    /\ good' = FALSE
    /\ step' = "idle"

SyncedNamesNot == durable                              \* a defect: the directory is not synced
SyncedNames == IF is_manifest THEN DOMAIN created ELSE durable

SyncDirIfManifest ==
    /\ Calls
    /\ begun' = DOMAIN created
    /\ \/ step' = "flush" /\ durable' = SyncedNames /\ UNCHANGED <<good, errors>>
       \/ is_manifest /\ Failed /\ UNCHANGED durable
    /\ UNCHANGED <<is_manifest, isOpen, buffer, os, disk, appended, synced,
                   created, covered, crashed>>

SyncFlush(ok) ==
    /\ ~crashed /\ step = "flush"
    /\ FlushBuffer(ok)
    /\ step' = IF ok THEN "fd" ELSE "idle"
    /\ UNCHANGED <<is_manifest, isOpen, disk, appended, synced, names, crashed>>

\* Sync returns what SyncFd returns.
SyncFd ==
    /\ ~crashed /\ step = "fd"
    /\ \/ /\ disk' = os
          /\ step' = "idle"
          /\ synced' = IF good THEN appended ELSE synced
          /\ covered' = IF is_manifest THEN covered \cup begun ELSE covered
          /\ UNCHANGED <<good, errors>>
       \/ Failed /\ UNCHANGED <<disk, synced, covered>>
    /\ UNCHANGED <<is_manifest, isOpen, buffer, os, appended, created, durable,
                   begun, crashed>>

\* The system writes data or a directory entry to disk on its own account.
WriteBack ==
    /\ ~crashed
    /\ \/ /\ Len(disk) < Len(os)
          /\ disk' = SubSeq(os, 1, Len(disk) + 1)
          /\ UNCHANGED durable
       \/ /\ \E t \in DOMAIN created \ durable : durable' = durable \cup {t}
          /\ UNCHANGED disk
    /\ UNCHANGED <<is_manifest, step, isOpen, buffer, os, appended, good, synced,
                   created, begun, covered, errors, crashed>>

Crash ==
    /\ ~crashed /\ crashed' = TRUE
    /\ buffer' = <<>> /\ os' = disk
    /\ created' = [t \in durable |-> created[t]]
    /\ UNCHANGED <<is_manifest, step, isOpen, disk, appended, good, synced,
                   durable, begun, covered, errors>>

WritableNext ==
    \/ \E t \in NewTables : CreateTable(t)
    \/ \E n \in 1..MaxAppended : AppendFits(n)
    \/ \E n \in 1..MaxAppended : AppendFlushes(n)
    \/ \E ok \in BOOLEAN : Flush(ok)
    \/ \E ok \in BOOLEAN : Close(ok)
    \/ SyncDirIfManifest
    \/ \E ok \in BOOLEAN : SyncFlush(ok)
    \/ SyncFd
    \/ WriteBack
    \/ Crash

WritableSpec == WritableInit /\ [][WritableNext]_wVars

-----------------------------------------------------------------------------
UpTo(n) == Numbers(0, n)

(* Types: buffer, files and their synced parts; the buffer never           *)
(* overflows.                                                              *)
WritableTypeOK ==
    /\ is_manifest \in BOOLEAN /\ isOpen \in BOOLEAN /\ good \in BOOLEAN /\ crashed \in BOOLEAN
    /\ step \in {"idle", "flush", "fd"}
    /\ Len(buffer) <= BufferSize
    /\ appended \in 0..MaxAppended /\ synced \in 0..appended
    /\ created \in [DOMAIN created -> 0..MaxAppended] /\ DOMAIN created \subseteq NewTables
    /\ durable \subseteq DOMAIN created /\ begun \subseteq NewTables /\ covered \subseteq begun
    /\ errors \in 0..MaxErrors

(* As long as every call returned OK nothing is missing: file and buffer   *)
(* together are what was appended, and after Close and at the last step of *)
(* Sync the file alone is, however the appends were split over the buffer. *)
NothingDropped ==
    good /\ ~crashed =>
        /\ os \o buffer = UpTo(appended)
        /\ step = "fd" \/ ~isOpen => os = UpTo(appended)

(* Behind failed writes too, the data of the file are in the order in      *)
(* which they were appended, and none is there twice: FlushBuffer empties  *)
(* the buffer also when it failed half-way.                                *)
InOrder == \A i, j \in 1..Len(os) : i < j => os[i] < os[j]

(* What a successful Sync covered is in the file on disk from then on,     *)
(* across a crash; and the tables that were created before a successful    *)
(* Sync of the manifest began are in the directory on disk.                *)
SyncedSurvives ==
    /\ SubSeq(disk, 1, synced) = UpTo(synced)
    /\ covered \subseteq durable

(* The comment in Sync (env_posix.cc:335-339): the directory is synced     *)
(* before the manifest is flushed to disk, so that no crash leaves a       *)
(* manifest that refers to a table not yet on disk.  A table is referred   *)
(* to by data appended after its creation.                                 *)
ManifestNeverAhead ==
    is_manifest => \A t \in DOMAIN created \ durable :
                       \A i \in 1..Len(disk) : disk[i] <= created[t]
=============================================================================
