----------------------------- MODULE TableCache -----------------------------
(***************************************************************************)
(* The table cache (db/table_cache.cc) between readers and the removal of  *)
(* obsolete files.  A reader reads a table of the version it holds: it     *)
(* looks the table up in the LRU cache, opens the file if it is not there, *)
(* inserts it, uses it and releases the handle, at the end of Get or when  *)
(* the iterator is destroyed.  The database drops tables from its version, *)
(* and RemoveObsoleteFiles evicts and deletes those that no version has.   *)
(***************************************************************************)
EXTENDS LRUOps

CONSTANTS FileNumbers, Readers

VARIABLES
    tables,                  \* the LRU cache, file number -> open table
    disk, version,           \* files that exist; files of the current version
    pc, file, handle,        \* of a reader
    evicted                  \* files that Evict was called for

vars == <<tables, disk, version, pc, file, handle, evicted>>
NoFile == 0
Set(f, r, v) == [f EXCEPT ![r] = v]
Goto(r, l) == pc' = Set(pc, r, l)

TableInit ==
    /\ tables = EmptyCache
    /\ disk = FileNumbers /\ version = FileNumbers
    /\ pc = [r \in Readers |-> "idle"] /\ file = [r \in Readers |-> NoFile]
    /\ handle = [r \in Readers |-> 0]
    /\ evicted = {}

(* A reader takes a reference on the version and picks one of its tables.  *)
Begin(r, f) ==
    /\ pc[r] = "idle" /\ f \in version
    /\ file' = Set(file, r, f)
    /\ Goto(r, "find")
    /\ UNCHANGED <<tables, disk, version, handle, evicted>>

(* FindTable, the look-up *)
FindTable(r) ==
    LET e == FindPointer(tables, file[r])
    IN  /\ pc[r] = "find"
        /\ tables' = Lookup(tables, file[r])
        /\ handle' = Set(handle, r, e)
        /\ Goto(r, IF e = 0 THEN "open" ELSE "use")
        /\ UNCHANGED <<disk, version, file, evicted>>

(* FindTable, the file: NewRandomAccessFile under either name and          *)
(* Table::Open; errors are returned and not cached.                        *)
AfterOpen(ok) == IF ok THEN "insert" ELSE "idle"
OpenTable(r, ok) ==
    /\ pc[r] = "open"
    /\ ok => file[r] \in disk
    /\ Goto(r, AfterOpen(ok))
    /\ file' = IF ok THEN file ELSE Set(file, r, NoFile)
    /\ UNCHANGED <<tables, disk, version, handle, evicted>>

InsertTable(r) ==
    LET h == NewHandle(tables)
    IN  /\ pc[r] = "insert"
        /\ tables' = Insert(tables, h, file[r], 1)
        /\ handle' = Set(handle, r, h)
        /\ Goto(r, "use")
        /\ UNCHANGED <<disk, version, file, evicted>>

(* The end of Get, or UnrefEntry when the iterator is destroyed; then the  *)
(* reader gives its version back.                                          *)
ReleaseTable(r) ==
    /\ pc[r] = "use"
    /\ tables' = Release(tables, handle[r])
    /\ handle' = Set(handle, r, 0) /\ file' = Set(file, r, NoFile)
    /\ Goto(r, "idle")
    /\ UNCHANGED <<disk, version, evicted>>

(* A compaction installs a version without the table. *)
DropTable(f) ==
    /\ f \in version
    /\ version' = version \ {f}
    /\ UNCHANGED <<tables, disk, pc, file, handle, evicted>>

(* RemoveObsoleteFiles: files of no version are evicted under the mutex,   *)
(* and deleted after it is released.                                       *)
LiveFilesOfCurrent == version              \* a defect: versions of readers forgotten
LiveFiles == version \cup {file[r] : r \in Readers}
EvictKept(c, f) == c                       \* a defect: no Evict
Evict(c, f) == Erase(c, f)
EvictTable(f) ==
    /\ f \in disk \ (LiveFiles \cup evicted)
    /\ tables' = Evict(tables, f)
    /\ evicted' = evicted \cup {f}
    /\ UNCHANGED <<disk, version, pc, file, handle>>

RemoveFile(f) ==
    /\ f \in disk \cap evicted
    /\ disk' = disk \ {f}
    /\ UNCHANGED <<tables, version, pc, file, handle, evicted>>

ReaderStep(r) ==
    \/ FindTable(r) \/ InsertTable(r) \/ ReleaseTable(r)
    \/ \E ok \in BOOLEAN : OpenTable(r, ok)
TableNext ==
    \/ \E r \in Readers, f \in FileNumbers : Begin(r, f)
    \/ \E r \in Readers : ReaderStep(r)
    \/ \E f \in FileNumbers : DropTable(f) \/ EvictTable(f) \/ RemoveFile(f)
TableSpec == TableInit /\ [][TableNext]_vars

-----------------------------------------------------------------------------
(* Types: the table, the readers and their handles.                        *)
TableTypeOK ==
    /\ disk \subseteq FileNumbers /\ version \subseteq FileNumbers /\ evicted \subseteq FileNumbers
    /\ file \in [Readers -> FileNumbers \cup {NoFile}]
    /\ \A r \in Readers : pc[r] = "use" <=> handle[r] # 0

(* The table a reader uses is open and is the one it asked for, whatever   *)
(* was inserted, evicted or erased since it was found.                     *)
UsesItsTable ==
    \A r \in Readers : pc[r] = "use" =>
        /\ handle[r] \in DOMAIN tables.entries
        /\ tables.entries[handle[r]].key = file[r]

(* A file that was evicted and deleted is not kept open: no entry of it is *)
(* left or comes back, also with a reader that missed it in the cache      *)
(* before and would insert it after.                                       *)
DeletedNotOpen ==
    \A e \in DOMAIN tables.entries : tables.entries[e].key \notin evicted

(* A reader finds the file of its table: it is never deleted under it.     *)
FileIsThere == \A r \in Readers : pc[r] # "idle" => file[r] \in disk

(* Open files: never more tables are open than the cache may hold and one  *)
(* for each reader.                                                        *)
OpenTablesBounded ==
    Cardinality(DOMAIN tables.entries) <= Capacity + Cardinality(Readers)
=============================================================================
