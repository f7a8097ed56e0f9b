------------------------------- MODULE Repair -------------------------------
(***************************************************************************)
(* RepairDB (leveldb/db/repair.cc) on a directory whose manifest cannot be *)
(* used.  One action per step that changes the directory; a crash of the   *)
(* process may come between any two, and repair is then run again.  All    *)
(* writes are to one user key, and a write is its sequence number.         *)
(***************************************************************************)
EXTENDS Integers, Sequences, FiniteSets, FiniteSetsExt, SequencesExt

CONSTANTS
    InitialDirs,  \* directories repair may start from: name -> contents
    BadWrite,     \* what a log record with a wrong checksum reads as
    MaxErrors,    \* bound: failing calls of the environment
    MaxCrashes    \* bound: crashes of the process

VARIABLES
    dir,          \* name -> contents
    lost,         \* name -> contents, in dbname/lost
    current,      \* the number of the manifest that CURRENT names
    phase,        \* where Run is
    logs,         \* logs_ from the one in hand on
    table_numbers,\* table_numbers_ from the one in hand on
    tables,       \* tables_: number -> max_sequence
    manifests,    \* the manifests FindFiles saw that are not yet archived
    next,         \* next_file_number_
    copy,         \* number of the table being built
    errors, crashes,
    initial       \* the directory at the start

disk == <<dir, lost, current>>
run  == <<phase, logs, table_numbers, tables, manifests, next, copy>>
repVars == <<disk, run, errors, crashes, initial>>

(***************************************************************************)
(* Names are <<kind, number>>; a file's contents are the writes that can   *)
(* be read from it, whether it can be read to its end, and the damaged     *)
(* records in it.  A manifest has the edit's fields instead.               *)
(***************************************************************************)
Contents(writes, whole) == [writes |-> writes, whole |-> whole, bad |-> {}]

With(d, name, c) == [n \in DOMAIN d \cup {name} |-> IF n = name THEN c ELSE d[n]]
Without(d, name) == [n \in DOMAIN d \ {name} |-> d[n]]
Numbered(d, kind) == {n[2] : n \in {m \in DOMAIN d : m[1] = kind}}
TableNames(n) == {<<"ldb", n>>, <<"sst", n>>}

RemovedFile(name) == dir' = Without(dir, name) /\ UNCHANGED lost   \* a defect: removes it

Moved(name) == dir' = Without(dir, name) /\ lost' = With(lost, name, dir[name])

Goto(p) == phase' = p
Fails == errors < MaxErrors /\ errors' = errors + 1
Works == UNCHANGED errors

\* ArchiveFile: a rename into lost/, whose failure is ignored.
ArchiveFile(name) ==
    \/ Works /\ Moved(name)
    \/ Fails /\ UNCHANGED <<dir, lost>>

Idle == /\ phase = "start"
        /\ logs = <<>> /\ table_numbers = <<>> /\ tables = << >>
        /\ manifests = {} /\ next = 1 /\ copy = 0

RepairInit ==
    /\ dir \in InitialDirs
    /\ lost = << >>
    /\ current = 2
    /\ Idle
    /\ errors = 0 /\ crashes = 0
    /\ initial = dir

NextNumber(numbers) == Max(numbers \cup {0}) + 1

\* FindFiles: the names come in the order of the directory, which is any order.
FindFiles ==
    /\ phase = "start"
    /\ logs' \in SetToSeqs(Numbered(dir, "log"))
    /\ \E names \in SetToSeqs({n \in DOMAIN dir : n[1] \in {"ldb", "sst"}}) :
          table_numbers' = [i \in DOMAIN names |-> names[i][2]]
    /\ manifests' = Numbered(dir, "manifest")
    /\ next' = NextNumber(UNION {Numbered(dir, k) : k \in {"log", "ldb", "sst", "tmp"}})
    /\ Goto("logs")
    /\ UNCHANGED <<disk, tables, copy, errors, crashes, initial>>

(***************************************************************************)
(* ConvertLogFilesToTables.                                                *)
(***************************************************************************)
\* The reader is made with checksum = false.
ReadLog(c) == c.writes \cup c.bad

QueuedNot(q, n) == q                                   \* a defect: the new table is not scanned
Queued(q, n) == Append(q, n)

\* ConvertLogToTable up to the new table file; an empty log makes none.
ConvertBegin ==
    /\ phase = "logs" /\ logs # <<>>
    /\ copy' = next /\ next' = next + 1
    /\ dir' = With(dir, <<"ldb", next>>, Contents({}, FALSE))
    /\ Goto("building")
    /\ UNCHANGED <<lost, current, logs, table_numbers, tables, manifests, errors, crashes, initial>>

\* BuildTable finishes and syncs the table, or removes it.
ConvertEnd ==
    /\ phase = "building"
    /\ LET found == ReadLog(dir[<<"log", Head(logs)>>])
       IN \/ /\ found # {} /\ Works
             /\ dir' = With(dir, <<"ldb", copy>>, Contents(found, TRUE))
             /\ table_numbers' = Queued(table_numbers, copy)
          \/ /\ \/ found = {} /\ Works
                \/ Fails
             /\ dir' = Without(dir, <<"ldb", copy>>)
             /\ UNCHANGED table_numbers
    /\ Goto("archiveLog")
    /\ UNCHANGED <<lost, current, logs, tables, manifests, next, copy, crashes, initial>>

ArchiveLog ==
    /\ phase = "archiveLog"
    /\ ArchiveFile(<<"log", Head(logs)>>)
    /\ logs' = Tail(logs)
    /\ Goto("logs")
    /\ UNCHANGED <<current, table_numbers, tables, manifests, next, copy, crashes, initial>>

(***************************************************************************)
(* ExtractMetaData.                                                        *)
(***************************************************************************)
Left(q) == Tail(q)

NameOf(n) == IF <<"ldb", n>> \in DOMAIN dir THEN <<"ldb", n>> ELSE <<"sst", n>>

LastOf(writes) == Max(writes \cup {0})

MaxSequenceFirst(writes) == IF writes = {} THEN 0 ELSE Min(writes)   \* a defect: the first entry's
MaxSequence(writes) == LastOf(writes)

\* ScanTable of a table that can be read to its end.
ScanWhole ==
    /\ phase = "logs" /\ logs = <<>> /\ table_numbers # <<>>
    /\ LET n == Head(table_numbers)
       IN /\ dir[NameOf(n)].whole
          /\ tables' = With(tables, n, MaxSequence(dir[NameOf(n)].writes))
    /\ table_numbers' = Left(table_numbers)
    /\ UNCHANGED <<disk, phase, logs, manifests, next, copy, errors, crashes, initial>>

\* RepairTable: the copy, not yet finished; the damaged table is left as it is
\* when the copy cannot be created.
RepairCopy ==
    /\ phase = "logs" /\ logs = <<>> /\ table_numbers # <<>>
    /\ ~dir[NameOf(Head(table_numbers))].whole
    /\ next' = next + 1
    /\ \/ /\ Works
          /\ dir' = With(dir, <<"ldb", next>>, Contents({}, FALSE))
          /\ copy' = next
          /\ Goto("archiveTable")
          /\ UNCHANGED table_numbers
       \/ /\ Fails
          /\ table_numbers' = Tail(table_numbers)
          /\ UNCHANGED <<dir, copy, phase>>
    /\ UNCHANGED <<lost, current, logs, tables, manifests, crashes, initial>>

\* The entries are in the builder now; the source is archived before Finish.
RepairArchive ==
    /\ phase = "archiveTable"
    /\ ArchiveFile(NameOf(Head(table_numbers)))
    /\ Goto("finishTable")
    /\ UNCHANGED <<current, logs, table_numbers, tables, manifests, next, copy, crashes, initial>>

\* What was copied: the entries of the source, which is in lost/ by now unless
\* that failed.
Source == LET names == TableNames(Head(table_numbers))
          IN IF names \cap DOMAIN dir # {} THEN dir[NameOf(Head(table_numbers))]
             ELSE lost[CHOOSE name \in names \cap DOMAIN lost : TRUE]

\* Finish and Close; without an entry the copy is abandoned but stays.
RepairFinish ==
    /\ phase = "finishTable"
    /\ \/ /\ Source.writes # {} /\ Works
          /\ dir' = With(dir, <<"ldb", copy>>, Contents(Source.writes, TRUE))
          /\ Goto("renameTable")
          /\ UNCHANGED table_numbers
       \/ /\ \/ Source.writes = {} /\ Works /\ UNCHANGED dir
             \/ Source.writes # {} /\ Fails /\ dir' = Without(dir, <<"ldb", copy>>)
          /\ Goto("logs")
          /\ table_numbers' = Tail(table_numbers)
    /\ UNCHANGED <<lost, current, logs, tables, manifests, next, copy, crashes, initial>>

RepairRename ==
    /\ phase = "renameTable"
    /\ LET n == Head(table_numbers)
       IN \/ /\ Works
             /\ dir' = With(Without(dir, <<"ldb", copy>>), <<"ldb", n>>, dir[<<"ldb", copy>>])
             /\ tables' = With(tables, n, MaxSequence(dir[<<"ldb", copy>>].writes))
          \/ /\ Fails
             /\ dir' = Without(dir, <<"ldb", copy>>)
             /\ UNCHANGED tables
    /\ table_numbers' = Tail(table_numbers)
    /\ Goto("logs")
    /\ UNCHANGED <<lost, current, logs, manifests, next, copy, crashes, initial>>

(***************************************************************************)
(* WriteDescriptor.                                                        *)
(***************************************************************************)
Edit == [tables |-> DOMAIN tables, next |-> next, last |-> LastOf({tables[n] : n \in DOMAIN tables})]

\* The new descriptor in a temporary file, complete or not there at all.
WriteDescriptor ==
    /\ phase = "logs" /\ logs = <<>> /\ table_numbers = <<>>
    /\ \/ Works /\ dir' = With(dir, <<"tmp", 1>>, Edit) /\ Goto("oldManifests")
       \/ Fails /\ dir' = Without(dir, <<"tmp", 1>>) /\ Goto("failed")
    /\ UNCHANGED <<lost, current, logs, table_numbers, tables, manifests, next, copy,
                   crashes, initial>>

ArchiveManifest ==
    /\ phase = "oldManifests" /\ manifests # {}
    /\ \E m \in manifests :
          /\ ArchiveFile(<<"manifest", m>>)
          /\ manifests' = manifests \ {m}
    /\ UNCHANGED <<current, phase, logs, table_numbers, tables, next, copy, crashes, initial>>

InstallManifest ==
    /\ phase = "oldManifests" /\ manifests = {}
    /\ \/ /\ Works
          /\ dir' = With(Without(dir, <<"tmp", 1>>), <<"manifest", 1>>, dir[<<"tmp", 1>>])
          /\ Goto("setCurrent")
       \/ Fails /\ dir' = Without(dir, <<"tmp", 1>>) /\ Goto("failed")
    /\ UNCHANGED <<lost, current, logs, table_numbers, tables, manifests, next, copy,
                   crashes, initial>>

SetCurrentFile ==
    /\ phase = "setCurrent"
    /\ \/ Works /\ current' = 1 /\ Goto("done")
       \/ Fails /\ UNCHANGED current /\ Goto("failed")
    /\ UNCHANGED <<dir, lost, logs, table_numbers, tables, manifests, next, copy, crashes, initial>>

\* The process ends, or RepairDB returned an error, and repair is run again.
Again ==
    /\ phase \notin {"start", "done"}
    /\ \/ crashes < MaxCrashes /\ crashes' = crashes + 1
       \/ phase = "failed" /\ UNCHANGED crashes
    /\ Goto("start")
    /\ logs' = <<>> /\ table_numbers' = <<>> /\ tables' = << >>
    /\ manifests' = {} /\ next' = 1 /\ copy' = 0
    /\ UNCHANGED <<disk, errors, initial>>

RepairNext ==
    \/ FindFiles \/ ConvertBegin \/ ConvertEnd \/ ArchiveLog
    \/ ScanWhole \/ RepairCopy \/ RepairArchive \/ RepairFinish \/ RepairRename
    \/ WriteDescriptor \/ ArchiveManifest \/ InstallManifest \/ SetCurrentFile
    \/ Again

\* Run goes on, and somebody runs repair until it succeeds.
RepairSpec == RepairInit /\ [][RepairNext]_repVars

-----------------------------------------------------------------------------
DataNames(d) == {n \in DOMAIN d : n[1] \in {"log", "ldb", "sst"}}
Writes(d) == UNION {d[n].writes : n \in DataNames(d)}
Manifest == dir[<<"manifest", 1>>]
Repaired == UNION {dir[NameOf(n)].writes : n \in Manifest.tables}

(* Types: numbers, lists and the copy of the run of RepairDB.              *)
RepairTypeOK ==
    /\ \A n \in DataNames(dir) : dir[n].whole \in BOOLEAN
    /\ phase \in {"start", "logs", "building", "archiveLog", "archiveTable", "finishTable",
                  "renameTable", "oldManifests", "setCurrent", "done", "failed"}
    /\ current \in {1, 2}
    /\ DOMAIN tables \subseteq 1..(next - 1)
    /\ copy < next \/ copy = 0
    /\ errors \in 0..MaxErrors /\ crashes \in 0..MaxCrashes

(* Whatever fails and wherever the process dies, each write that could be  *)
(* read when repair began is still in the directory or in lost/: logs and  *)
(* tables are archived, never removed.                                     *)
NothingVanishes == Writes(initial) \subseteq Writes(dir) \cup Writes(lost)

(* A repair that succeeds without an error of the environment gives back   *)
(* every write of the logs and of the undamaged tables, also when earlier  *)
(* attempts were cut off anywhere; and the readable part of the damaged    *)
(* tables too if there was no such attempt.                                *)
RepairedIsComplete ==
    phase = "done" /\ errors = 0 =>
        /\ UNION {initial[n].writes : n \in {m \in DataNames(initial) : initial[m].whole}}
             \subseteq Repaired
        /\ crashes = 0 => Writes(initial) \subseteq Repaired

(* The descriptor that a successful repair installs is sound: its tables   *)
(* exist and can be read, its last sequence covers every write in them and *)
(* its next file number is above every table and log in the directory, so  *)
(* neither a sequence number nor a file number is used twice.              *)
DescriptorSound ==
    phase = "done" =>
        /\ current = 1 /\ <<"manifest", 1>> \in DOMAIN dir
        /\ \A n \in Manifest.tables : NameOf(n) \in DOMAIN dir /\ dir[NameOf(n)].whole
        /\ \A w \in Repaired : w <= Manifest.last
        /\ \A n \in DataNames(dir) : n[2] < Manifest.next

(* ForEachOverlapping (version_set.cc) searches level 0 "from newest to    *)
(* oldest", which it tells by the file number: in the repaired database a  *)
(* table with a higher number has no older write of the key.               *)
NewestFirst ==
    phase = "done" =>
        \A m, n \in Manifest.tables :
            m < n => LastOf(dir[NameOf(m)].writes) <= LastOf(dir[NameOf(n)].writes)

(* "corruptions cause entire commits to be skipped instead of propagating  *)
(* bad information (like overly large sequence numbers)" (repair.cc:169).  *)
NoBadInformation == phase = "done" => BadWrite \notin Repaired
=============================================================================
