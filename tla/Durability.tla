----------------------------- MODULE Durability -----------------------------
(***************************************************************************)
(* What a LevelDB database keeps on disk and when it may forget it: the    *)
(* write-ahead log, the memtable switch, the flush of the immutable        *)
(* memtable, compactions, the MANIFEST, the removal of obsolete files,     *)
(* process and machine crashes, and recovery                               *)
(* (db/db_impl.cc, db/version_set.cc, db/builder.cc, db/filename.cc).      *)
(*                                                                         *)
(* Data.  An update is its sequence number, and each one concerns a key of *)
(* its own, so a compaction never has a reason to drop one (the drop rules *)
(* are the subject of LevelCompaction).  A log, a memtable or a table is   *)
(* the set of the updates it holds.  Levels are left out: a version is the *)
(* set of its tables.                                                      *)
(*                                                                         *)
(* Atomicity.  A step is a critical section of DBImpl::mutex_, or one file *)
(* operation done while the mutex is released.  The queue of writers only  *)
(* lets its head write (WriteQueue), so there is one writer here.          *)
(*                                                                         *)
(* Environment.  Options::reuse_logs is false, its default.  Directory     *)
(* operations (create, rename, unlink) take effect in order.               *)
(***************************************************************************)
EXTENDS Naturals

CONSTANTS
    MaxSeq,     \* bound on the sequence numbers
    MaxFile,    \* bound on the file numbers
    MaxCrash    \* bound on the number of crashes

ASSUME BoundsAssumption ==
    /\ MaxSeq \in Nat
    /\ MaxFile \in Nat \ {0}
    /\ MaxCrash \in Nat

VARIABLES
    (* The disk. *)
    logFiles, logData, logSynced,   \* *.log: which exist, contents, durable part
    tabFiles, tabData,              \* *.ldb: which exist, contents
    dscFiles, dscWritten, dscSynced,\* MANIFEST-*: which exist, state written, state durable
    current,                        \* the MANIFEST that CURRENT names, 0 before NewDB
    (* DBImpl and VersionSet. *)
    phase,                          \* where DB::Open is, or "open", or "down"
    mem, imm, hasImm,               \* mem_, imm_, imm_ != nullptr
    logfileNumber,                  \* logfile_number_
    logNumber, nextFileNumber, lastSequence, manifestFileNumber,
    version,                        \* versions_->current()
    pendingOutputs, bgError,
    (* DBImpl::Write at the head of the queue. *)
    wpc, wsync,
    (* The background thread. *)
    bgpc, job, nested, flushNumber, edit, inputs, output, inputVersion, toDelete,
    (* DBImpl::Recover. *)
    replayLogs, replayLog, replayRest, replayTables, maxSequence,
    (* A reader (DBImpl::Get, an iterator): the version it holds. *)
    pinned,
    (* Bookkeeping of what callers were promised. *)
    acked, ackedSync, crashes

logVars == <<logFiles, logData, logSynced>>
tabVars == <<tabFiles, tabData>>
dscVars == <<dscFiles, dscWritten, dscSynced, current>>
memVars == <<mem, imm, hasImm, logfileNumber>>
vsetVars == <<logNumber, manifestFileNumber, version>>
writerVars == <<wpc, wsync>>
jobVars == <<job, nested, flushNumber, edit, inputs, output, inputVersion>>
replayVars == <<replayLogs, replayLog, replayRest, replayTables, maxSequence>>
ghostVars == <<acked, ackedSync, crashes>>

vars == <<logVars, tabVars, dscVars, phase, memVars, vsetVars, nextFileNumber,
          lastSequence, pendingOutputs, bgError, writerVars, bgpc, jobVars,
          toDelete, replayVars, pinned, ghostVars>>

FileNo == 0..MaxFile
Seqs == 1..MaxSeq

(* What the records of a MANIFEST add up to (VersionEdit, Builder). *)
Descriptor == [files : SUBSET FileNo, log : FileNo,
               next : 0..MaxFile + 1, seq : 0..MaxSeq]
VersionEdit == [add : SUBSET FileNo, del : SUBSET FileNo, log : FileNo,
                next : 0..MaxFile + 1, seq : 0..MaxSeq]

NoDescriptor == [files |-> {}, log |-> 0, next |-> 0, seq |-> 0]
FirstDescriptor == [files |-> {}, log |-> 0, next |-> 2, seq |-> 0]
NoEdit == [add |-> {}, del |-> {}, log |-> 0, next |-> 0, seq |-> 0]

(* Builder::Apply followed by Builder::SaveTo. *)
ApplyToFiles(files, e) == (files \ e.del) \cup e.add
Apply(d, e) == [files |-> ApplyToFiles(d.files, e),
                log |-> e.log, next |-> e.next, seq |-> e.seq]

Larger(a, b) == IF a < b THEN b ELSE a

-----------------------------------------------------------------------------
(* The memory of the process, as DBImpl's constructor leaves it. *)
MemoryInit ==
    /\ mem = {} /\ imm = {} /\ hasImm = FALSE
    /\ logfileNumber = 0 /\ logNumber = 0 /\ nextFileNumber = 2
    /\ lastSequence = 0 /\ manifestFileNumber = 0 /\ version = {}
    /\ pendingOutputs = {} /\ bgError = FALSE
    /\ wpc = "idle" /\ wsync = FALSE
    /\ bgpc = "idle" /\ job = "none" /\ nested = FALSE /\ flushNumber = 0
    /\ edit = NoEdit /\ inputs = {} /\ output = 0 /\ inputVersion = {}
    /\ toDelete = {}
    /\ replayLogs = {} /\ replayLog = 0 /\ replayRest = {}
    /\ replayTables = {} /\ maxSequence = 0
    /\ pinned = {}

Init ==
    /\ logFiles = {} /\ logData = [n \in FileNo |-> {}]
    /\ logSynced = [n \in FileNo |-> {}]
    /\ tabFiles = {} /\ tabData = [n \in FileNo |-> {}]
    /\ dscFiles = {} /\ dscWritten = [n \in FileNo |-> NoDescriptor]
    /\ dscSynced = [n \in FileNo |-> NoDescriptor]
    /\ current = 0 /\ phase = "down"
    /\ MemoryInit
    /\ acked = {} /\ ackedSync = {} /\ crashes = 0

-----------------------------------------------------------------------------
(* The tables RemoveObsoleteFiles keeps: pending_outputs_ and those of the *)
(* versions in the version list, of which held are current or referenced   *)
(* by a compaction.                                                        *)
LiveTablesIgnoringPending(pending, held) == held \cup pinned
LiveTablesIgnoringReaders(pending, held) == pending \cup held
LiveTables(pending, held) == pending \cup held \cup pinned

(* RemoveObsoleteFiles: the scan under the mutex.  After a background      *)
(* error it collects nothing.                                              *)
ObsoleteFilesDespiteError(live, logno) ==
    ({"log"} \X {n \in logFiles : n < logno})
    \cup ({"dsc"} \X {n \in dscFiles : n < manifestFileNumber})
    \cup ({"table"} \X (tabFiles \ live))
ObsoleteFiles(live, logno) ==
    IF bgError THEN {}
    ELSE ({"log"} \X {n \in logFiles : n < logno})
         \cup ({"dsc"} \X {n \in dscFiles : n < manifestFileNumber})
         \cup ({"table"} \X (tabFiles \ live))

(* RemoveObsoleteFiles: one RemoveFile, with the mutex released. *)
RemoveFile ==
    /\ phase = "cleanup" \/ bgpc = "delete"
    /\ \E f \in toDelete :
         /\ toDelete' = toDelete \ {f}
         /\ logFiles' = IF f[1] = "log" THEN logFiles \ {f[2]} ELSE logFiles
         /\ dscFiles' = IF f[1] = "dsc" THEN dscFiles \ {f[2]} ELSE dscFiles
         /\ tabFiles' = IF f[1] = "table" THEN tabFiles \ {f[2]} ELSE tabFiles
    /\ UNCHANGED <<logData, logSynced, tabData, dscWritten, dscSynced, current,
                   phase, memVars, vsetVars, nextFileNumber, lastSequence,
                   pendingOutputs, bgError, writerVars, bgpc, jobVars,
                   replayVars, pinned, ghostVars>>

-----------------------------------------------------------------------------
(* DBImpl::Write, at the head of the queue with room in the memtable. *)
WriteBegin(sync) ==
    /\ phase = "open" /\ wpc = "idle" /\ ~bgError /\ lastSequence < MaxSeq
    /\ wpc' = "append" /\ wsync' = sync
    /\ UNCHANGED <<logVars, tabVars, dscVars, phase, memVars, vsetVars,
                   nextFileNumber, lastSequence, pendingOutputs, bgError, bgpc,
                   jobVars, toDelete, replayVars, pinned, ghostVars>>

(* log_->AddRecord: the record reaches the operating system. *)
AddRecord ==
    /\ wpc = "append"
    /\ logData' = [logData EXCEPT ![logfileNumber] = @ \cup {lastSequence + 1}]
    /\ wpc' = IF wsync THEN "sync" ELSE "insert"
    /\ UNCHANGED <<logFiles, logSynced, tabVars, dscVars, phase, memVars,
                   vsetVars, nextFileNumber, lastSequence, pendingOutputs,
                   bgError, wsync, bgpc, jobVars, toDelete, replayVars, pinned,
                   ghostVars>>

(* log_->AddRecord fails and leaves nothing behind: the caller gets the    *)
(* error, the sequence number is used up, the database stays writable.     *)
AddRecordFails ==
    /\ wpc = "append"
    /\ wpc' = "idle" /\ lastSequence' = lastSequence + 1
    /\ UNCHANGED <<logVars, tabVars, dscVars, phase, memVars, vsetVars,
                   nextFileNumber, pendingOutputs, bgError, wsync, bgpc,
                   jobVars, toDelete, replayVars, pinned, ghostVars>>

(* logfile_->Sync. *)
SyncLog ==
    /\ wpc = "sync"
    /\ logSynced' = [logSynced EXCEPT ![logfileNumber] = logData[logfileNumber]]
    /\ wpc' = "insert"
    /\ UNCHANGED <<logFiles, logData, tabVars, dscVars, phase, memVars,
                   vsetVars, nextFileNumber, lastSequence, pendingOutputs,
                   bgError, wsync, bgpc, jobVars, toDelete, replayVars, pinned,
                   ghostVars>>

(* sync_error: every later write fails. *)
SyncLogFails ==
    /\ wpc = "sync"
    /\ wpc' = "idle" /\ lastSequence' = lastSequence + 1 /\ bgError' = TRUE
    /\ UNCHANGED <<logVars, tabVars, dscVars, phase, memVars, vsetVars,
                   nextFileNumber, pendingOutputs, wsync, bgpc, jobVars,
                   toDelete, replayVars, pinned, ghostVars>>

(* InsertInto, SetLastSequence, and the return of Status::OK. *)
WriteFinish ==
    /\ wpc = "insert"
    /\ wpc' = "idle" /\ lastSequence' = lastSequence + 1
    /\ mem' = mem \cup {lastSequence + 1}
    /\ acked' = acked \cup {lastSequence + 1}
    /\ ackedSync' = IF wsync THEN ackedSync \cup {lastSequence + 1}
                    ELSE ackedSync
    /\ UNCHANGED <<logVars, tabVars, dscVars, phase, imm, hasImm, logfileNumber,
                   vsetVars, nextFileNumber, pendingOutputs, bgError, wsync,
                   bgpc, jobVars, toDelete, replayVars, pinned, crashes>>

(* MakeRoomForWrite may replace the memtable: the previous one is flushed. *)
CanSwitchEarly == phase = "open" /\ wpc = "idle" /\ ~bgError
CanSwitch == phase = "open" /\ wpc = "idle" /\ ~bgError /\ ~hasImm

(* MakeRoomForWrite switches to a new memtable and a new log.  Closing the *)
(* old log may fail, which is recorded as a background error.              *)
SwitchMemTable(closeOk) ==
    /\ CanSwitch /\ nextFileNumber <= MaxFile
    /\ logfileNumber' = nextFileNumber
    /\ nextFileNumber' = nextFileNumber + 1
    /\ logFiles' = logFiles \cup {nextFileNumber}
    /\ logData' = [logData EXCEPT ![nextFileNumber] = {}]
    /\ logSynced' = [logSynced EXCEPT ![nextFileNumber] = {}]
    /\ imm' = mem /\ hasImm' = TRUE /\ mem' = {}
    /\ bgError' = ~closeOk
    /\ UNCHANGED <<tabVars, dscVars, phase, vsetVars, lastSequence,
                   pendingOutputs, writerVars, bgpc, jobVars, toDelete,
                   replayVars, pinned, ghostVars>>

-----------------------------------------------------------------------------
(* CompactMemTable, called by BackgroundCompaction or from the loop of     *)
(* DoCompactionWork (which does not look at bg_error_): WriteLevel0Table   *)
(* takes a file number and BuildTable creates the file.                    *)
FlushStart ==
    /\ phase = "open" /\ hasImm
    /\ (bgpc = "idle" /\ ~bgError) \/ bgpc = "work"
    /\ nextFileNumber <= MaxFile
    /\ bgpc' = "build" /\ nested' = (bgpc = "work")
    /\ flushNumber' = nextFileNumber
    /\ nextFileNumber' = nextFileNumber + 1
    /\ pendingOutputs' = pendingOutputs \cup {nextFileNumber}
    /\ tabFiles' = IF imm = {} THEN tabFiles ELSE tabFiles \cup {nextFileNumber}
    /\ tabData' = [tabData EXCEPT ![nextFileNumber] = {}]
    /\ UNCHANGED <<logVars, dscVars, phase, memVars, vsetVars, lastSequence,
                   bgError, writerVars, job, edit, inputs, output, inputVersion,
                   toDelete, replayVars, pinned, ghostVars>>

(* The edit of CompactMemTable: the table, if there is one, and the log of *)
(* mem_ as the first log still needed.                                     *)
FlushEditWithoutTable ==
    [add |-> {}, del |-> {}, log |-> logfileNumber, next |-> nextFileNumber,
     seq |-> lastSequence]
FlushEditNextLog ==
    [add |-> IF imm = {} THEN {} ELSE {flushNumber}, del |-> {},
     log |-> nextFileNumber, next |-> nextFileNumber, seq |-> lastSequence]
FlushEdit ==
    [add |-> IF imm = {} THEN {} ELSE {flushNumber}, del |-> {},
     log |-> logfileNumber, next |-> nextFileNumber, seq |-> lastSequence]

(* BuildTable has written and synced the table (an empty memtable gives    *)
(* none); CompactMemTable enters LogAndApply with its edit.                *)
FlushBuild ==
    /\ bgpc = "build"
    /\ bgpc' = "append" /\ job' = "flush"
    /\ tabData' = [tabData EXCEPT ![flushNumber] = imm]
    /\ pendingOutputs' = pendingOutputs \ {flushNumber}
    /\ edit' = FlushEdit
    /\ UNCHANGED <<logVars, tabFiles, dscVars, phase, memVars, vsetVars,
                   nextFileNumber, lastSequence, bgError, writerVars, nested,
                   flushNumber, inputs, output, inputVersion, toDelete,
                   replayVars, pinned, ghostVars>>

AfterFlush == IF nested THEN "work" ELSE "idle"

(* BuildTable fails and removes its file. *)
FlushBuildFails ==
    /\ bgpc = "build"
    /\ bgpc' = AfterFlush /\ bgError' = TRUE
    /\ tabFiles' = tabFiles \ {flushNumber}
    /\ pendingOutputs' = pendingOutputs \ {flushNumber}
    /\ UNCHANGED <<logVars, tabData, dscVars, phase, memVars, vsetVars,
                   nextFileNumber, lastSequence, writerVars, jobVars, toDelete,
                   replayVars, pinned, ghostVars>>

(* BackgroundCompaction picks input files and DoCompactionWork starts. *)
CompactionStart ==
    /\ phase = "open" /\ bgpc = "idle" /\ ~bgError /\ ~hasImm
    /\ inputs' \in SUBSET version \ {{}}
    /\ bgpc' = "work" /\ inputVersion' = version /\ output' = 0
    /\ UNCHANGED <<logVars, tabVars, dscVars, phase, memVars, vsetVars,
                   nextFileNumber, lastSequence, pendingOutputs, bgError,
                   writerVars, job, nested, flushNumber, edit, toDelete,
                   replayVars, pinned, ghostVars>>

(* BackgroundCompaction, trivial move: the file changes its level only. *)
TrivialMove ==
    /\ phase = "open" /\ bgpc = "idle" /\ ~bgError /\ ~hasImm
    /\ bgpc' = "append" /\ job' = "move"
    /\ \E f \in version :
         edit' = [add |-> {f}, del |-> {f}, log |-> logNumber,
                  next |-> nextFileNumber, seq |-> lastSequence]
    /\ UNCHANGED <<logVars, tabVars, dscVars, phase, memVars, vsetVars,
                   nextFileNumber, lastSequence, pendingOutputs, bgError,
                   writerVars, nested, flushNumber, inputs, output,
                   inputVersion, toDelete, replayVars, pinned, ghostVars>>

OpenCompactionOutputFile ==
    /\ bgpc = "work" /\ output = 0 /\ nextFileNumber <= MaxFile
    /\ output' = nextFileNumber
    /\ nextFileNumber' = nextFileNumber + 1
    /\ pendingOutputs' = pendingOutputs \cup {nextFileNumber}
    /\ tabFiles' = tabFiles \cup {nextFileNumber}
    /\ tabData' = [tabData EXCEPT ![nextFileNumber] = {}]
    /\ UNCHANGED <<logVars, dscVars, phase, memVars, vsetVars, lastSequence,
                   bgError, writerVars, bgpc, job, nested, flushNumber, edit,
                   inputs, inputVersion, toDelete, replayVars, pinned,
                   ghostVars>>

(* FinishCompactionOutputFile has synced the output; DoCompactionWork       *)
(* takes the mutex and InstallCompactionResults enters LogAndApply.        *)
FinishCompaction ==
    /\ bgpc = "work" /\ output # 0
    /\ bgpc' = "append" /\ job' = "compact"
    /\ tabData' = [tabData EXCEPT ![output] = UNION {tabData[t] : t \in inputs}]
    /\ edit' = [add |-> {output}, del |-> inputs, log |-> logNumber,
                next |-> nextFileNumber, seq |-> lastSequence]
    /\ UNCHANGED <<logVars, tabFiles, dscVars, phase, memVars, vsetVars,
                   nextFileNumber, lastSequence, pendingOutputs, bgError,
                   writerVars, nested, flushNumber, inputs, output,
                   inputVersion, toDelete, replayVars, pinned, ghostVars>>

(* A compaction output cannot be created, written or synced; the error is  *)
(* recorded and CleanupCompaction gives the output up.                     *)
CompactionFails ==
    /\ bgpc = "work"
    /\ bgpc' = "idle" /\ bgError' = TRUE
    /\ pendingOutputs' = pendingOutputs \ {output}
    /\ inputs' = {} /\ inputVersion' = {} /\ output' = 0
    /\ UNCHANGED <<logVars, tabVars, dscVars, phase, memVars, vsetVars,
                   nextFileNumber, lastSequence, writerVars, job, nested,
                   flushNumber, edit, toDelete, replayVars, pinned, ghostVars>>

-----------------------------------------------------------------------------
(* VersionSet::LogAndApply: the record is appended to the MANIFEST ... *)
ManifestAppend ==
    /\ bgpc = "append"
    /\ bgpc' = "sync"
    /\ dscWritten' = [dscWritten EXCEPT
                        ![manifestFileNumber] = Apply(@, edit)]
    /\ UNCHANGED <<logVars, tabVars, dscFiles, dscSynced, current, phase,
                   memVars, vsetVars, nextFileNumber, lastSequence,
                   pendingOutputs, bgError, writerVars, jobVars, toDelete,
                   replayVars, pinned, ghostVars>>

(* ... which fails, or whose Sync fails, so that the record may or may not  *)
(* be there: no version is installed, the caller records the error and,    *)
(* for a compaction, cleans up.                                            *)
LogAndApplyFails ==
    /\ bgpc \in {"append", "sync"}
    /\ bgError' = TRUE
    /\ IF job = "flush"
       THEN /\ bgpc' = AfterFlush
            /\ UNCHANGED <<pendingOutputs, inputs, inputVersion, output>>
       ELSE /\ bgpc' = "idle"
            /\ pendingOutputs' = pendingOutputs \ {output}
            /\ inputs' = {} /\ inputVersion' = {} /\ output' = 0
    /\ UNCHANGED <<logVars, tabVars, dscVars, phase, memVars, vsetVars,
                   nextFileNumber, lastSequence, writerVars, job, nested,
                   flushNumber, edit, toDelete, replayVars, pinned, ghostVars>>

(* ... and synced, after which the version is installed. *)
ManifestWithoutSync == dscSynced
ManifestAfterSync ==
    [dscSynced EXCEPT ![manifestFileNumber] = dscWritten[manifestFileNumber]]

ManifestSync ==
    /\ bgpc = "sync"
    /\ dscSynced' = ManifestAfterSync
    /\ version' = ApplyToFiles(version, edit)
    /\ logNumber' = edit.log

(* The end of CompactMemTable. *)
InstallFlush ==
    /\ ManifestSync /\ job = "flush"
    /\ bgpc' = "delete"
    /\ imm' = {} /\ hasImm' = FALSE
    /\ toDelete' = ObsoleteFiles(LiveTables(pendingOutputs,
                                            version' \cup inputVersion),
                                 edit.log)
    /\ UNCHANGED <<logVars, tabVars, dscFiles, dscWritten, current, phase, mem,
                   logfileNumber, manifestFileNumber, nextFileNumber,
                   lastSequence, pendingOutputs, bgError, writerVars, jobVars,
                   replayVars, pinned, ghostVars>>

(* The end of DoCompactionWork and of BackgroundCompaction. *)
InstallCompaction ==
    /\ ManifestSync /\ job = "compact"
    /\ bgpc' = "delete"
    /\ pendingOutputs' = pendingOutputs \ {output}
    /\ inputs' = {} /\ inputVersion' = {} /\ output' = 0
    /\ toDelete' = ObsoleteFiles(LiveTables(pendingOutputs', version'), edit.log)
    /\ UNCHANGED <<logVars, tabVars, dscFiles, dscWritten, current, phase,
                   memVars, manifestFileNumber, nextFileNumber, lastSequence,
                   bgError, writerVars, job, nested, flushNumber, edit,
                   replayVars, pinned, ghostVars>>

InstallMove ==
    /\ ManifestSync /\ job = "move"
    /\ bgpc' = "idle"
    /\ UNCHANGED <<logVars, tabVars, dscFiles, dscWritten, current, phase,
                   memVars, manifestFileNumber, nextFileNumber, lastSequence,
                   pendingOutputs, bgError, writerVars, jobVars, toDelete,
                   replayVars, pinned, ghostVars>>

(* RemoveObsoleteFiles returns. *)
RemoveDone ==
    /\ bgpc = "delete" /\ toDelete = {}
    /\ bgpc' = IF job = "flush" THEN AfterFlush ELSE "idle"
    /\ UNCHANGED <<logVars, tabVars, dscVars, phase, memVars, vsetVars,
                   nextFileNumber, lastSequence, pendingOutputs, bgError,
                   writerVars, jobVars, toDelete, replayVars, pinned,
                   ghostVars>>

-----------------------------------------------------------------------------
(* A reader takes a reference on the current version, and drops it. *)
PinVersion ==
    /\ phase = "open" /\ pinned = {} /\ pinned' = version
    /\ UNCHANGED <<logVars, tabVars, dscVars, phase, memVars, vsetVars,
                   nextFileNumber, lastSequence, pendingOutputs, bgError,
                   writerVars, bgpc, jobVars, toDelete, replayVars, ghostVars>>

UnpinVersion ==
    /\ pinned # {} /\ pinned' = {}
    /\ UNCHANGED <<logVars, tabVars, dscVars, phase, memVars, vsetVars,
                   nextFileNumber, lastSequence, pendingOutputs, bgError,
                   writerVars, bgpc, jobVars, toDelete, replayVars, ghostVars>>

-----------------------------------------------------------------------------
(* The memory of the next process. *)
MemoryLost ==
    /\ mem' = {} /\ imm' = {} /\ hasImm' = FALSE
    /\ logfileNumber' = 0 /\ logNumber' = 0 /\ nextFileNumber' = 2
    /\ lastSequence' = 0 /\ manifestFileNumber' = 0 /\ version' = {}
    /\ pendingOutputs' = {} /\ bgError' = FALSE
    /\ wpc' = "idle" /\ wsync' = FALSE
    /\ bgpc' = "idle" /\ job' = "none" /\ nested' = FALSE /\ flushNumber' = 0
    /\ edit' = NoEdit /\ inputs' = {} /\ output' = 0 /\ inputVersion' = {}
    /\ toDelete' = {}
    /\ replayLogs' = {} /\ replayLog' = 0 /\ replayRest' = {}
    /\ replayTables' = {} /\ maxSequence' = 0
    /\ pinned' = {}

(* The process dies; what it wrote stays with the operating system. *)
ProcessCrash ==
    /\ phase # "down" /\ crashes < MaxCrash
    /\ crashes' = crashes + 1 /\ phase' = "down"
    /\ MemoryLost
    /\ UNCHANGED <<logVars, tabVars, dscVars, acked, ackedSync>>

(* The machine dies: of every log a prefix survives that includes all that *)
(* was synced, and a MANIFEST record that was not synced may be lost.      *)
(* What survives is on the disk.  Only synced writes remain promised.      *)
MachineCrash ==
    /\ phase # "down" /\ crashes < MaxCrash
    /\ crashes' = crashes + 1 /\ phase' = "down"
    /\ MemoryLost
    /\ \E cut \in [logFiles -> 0..MaxSeq] :
         /\ logData' = [n \in FileNo |->
                          IF n \in logFiles
                          THEN {s \in logData[n] : s <= cut[n]}
                          ELSE logData[n]]
         /\ \A n \in logFiles : logSynced[n] \subseteq logData'[n]
    /\ logSynced' = logData'
    /\ dscWritten' \in {dscWritten, dscSynced} /\ dscSynced' = dscWritten'
    /\ acked' = ackedSync
    /\ UNCHANGED <<logFiles, tabVars, dscFiles, current, ackedSync>>

-----------------------------------------------------------------------------
(* DBImpl::NewDB: MANIFEST-1 is written and synced ... *)
NewDB ==
    /\ phase = "down" /\ current = 0
    /\ phase' = "created"
    /\ dscFiles' = dscFiles \cup {1}
    /\ dscWritten' = [dscWritten EXCEPT ![1] = FirstDescriptor]
    /\ dscSynced' = dscWritten'
    /\ UNCHANGED <<logVars, tabVars, current, memVars, vsetVars,
                   nextFileNumber, lastSequence, pendingOutputs, bgError,
                   writerVars, bgpc, jobVars, toDelete, replayVars, pinned,
                   ghostVars>>

(* ... and CURRENT is pointed at it (SetCurrentFile). *)
NewDBSetCurrent ==
    /\ phase = "created"
    /\ phase' = "down" /\ current' = 1
    /\ UNCHANGED <<logVars, tabVars, dscFiles, dscWritten, dscSynced, memVars,
                   vsetVars, nextFileNumber, lastSequence, pendingOutputs,
                   bgError, writerVars, bgpc, jobVars, toDelete, replayVars,
                   pinned, ghostVars>>

(* VersionSet::Recover, and the scan of DBImpl::Recover for the tables it  *)
(* expects (a file of any type with the number counts) and the logs to     *)
(* replay.                                                                 *)
RecoverManifest ==
    LET d == dscWritten[current]
    IN  /\ phase = "down" /\ current # 0 /\ d.next <= MaxFile
        /\ version' = d.files /\ logNumber' = d.log
        /\ manifestFileNumber' = d.next /\ nextFileNumber' = d.next + 1
        /\ lastSequence' = d.seq
        /\ phase' = IF /\ current \in dscFiles
                       /\ d.files \subseteq tabFiles \cup logFiles \cup dscFiles
                    THEN "replay" ELSE "corrupt"
        /\ replayLogs' = {n \in logFiles : n >= d.log}
        /\ UNCHANGED <<logVars, tabVars, dscVars, memVars, pendingOutputs,
                       bgError, writerVars, bgpc, jobVars, toDelete, replayLog,
                       replayRest, replayTables, maxSequence, pinned, ghostVars>>

(* RecoverLogFile is called on the logs in the order of their numbers. *)
RecoverLogFile ==
    /\ phase = "replay" /\ replayLog = 0
    /\ \E n \in replayLogs :
         /\ \A m \in replayLogs : n <= m
         /\ replayLog' = n /\ replayRest' = logData[n]
    /\ UNCHANGED <<logVars, tabVars, dscVars, phase, memVars, vsetVars,
                   nextFileNumber, lastSequence, pendingOutputs, bgError,
                   writerVars, bgpc, jobVars, toDelete, replayLogs,
                   replayTables, maxSequence, pinned, ghostVars>>

(* One record is inserted into the memtable. *)
ReplayRecord ==
    /\ phase = "replay"
    /\ \E s \in replayRest :
         /\ \A t \in replayRest : s <= t
         /\ mem' = mem \cup {s} /\ replayRest' = replayRest \ {s}
         /\ maxSequence' = Larger(maxSequence, s)
    /\ UNCHANGED <<logVars, tabVars, dscVars, phase, imm, hasImm,
                   logfileNumber, vsetVars, nextFileNumber, lastSequence,
                   pendingOutputs, bgError, writerVars, bgpc, jobVars, toDelete,
                   replayLogs, replayLog, replayTables, pinned, ghostVars>>

(* The memtable is full, or the log is exhausted: WriteLevel0Table. *)
ReplayFlush ==
    /\ phase = "replay" /\ mem # {} /\ nextFileNumber <= MaxFile
    /\ nextFileNumber' = nextFileNumber + 1
    /\ tabFiles' = tabFiles \cup {nextFileNumber}
    /\ tabData' = [tabData EXCEPT ![nextFileNumber] = mem]
    /\ replayTables' = replayTables \cup {nextFileNumber}
    /\ mem' = {}
    /\ UNCHANGED <<logVars, dscVars, phase, imm, hasImm, logfileNumber,
                   vsetVars, lastSequence, pendingOutputs, bgError, writerVars,
                   bgpc, jobVars, toDelete, replayLogs, replayLog, replayRest,
                   maxSequence, pinned, ghostVars>>

(* RecoverLogFile returns; MarkFileNumberUsed. *)
ReplayDone ==
    /\ phase = "replay" /\ replayLog # 0 /\ replayRest = {} /\ mem = {}
    /\ replayLogs' = replayLogs \ {replayLog} /\ replayLog' = 0
    /\ nextFileNumber' = Larger(nextFileNumber, replayLog + 1)
    /\ UNCHANGED <<logVars, tabVars, dscVars, phase, memVars, vsetVars,
                   lastSequence, pendingOutputs, bgError, writerVars, bgpc,
                   jobVars, toDelete, replayRest, replayTables, maxSequence,
                   pinned, ghostVars>>

(* The last sequence number after the logs are replayed. *)
RecoveredSequenceFromManifest == lastSequence
RecoveredSequence == Larger(lastSequence, maxSequence)

(* DBImpl::Recover returns and DB::Open creates a log. *)
OpenNewLog ==
    /\ phase = "replay" /\ replayLogs = {} /\ nextFileNumber <= MaxFile
    /\ phase' = "install"
    /\ lastSequence' = RecoveredSequence
    /\ logfileNumber' = nextFileNumber
    /\ nextFileNumber' = nextFileNumber + 1
    /\ logFiles' = logFiles \cup {nextFileNumber}
    /\ logData' = [logData EXCEPT ![nextFileNumber] = {}]
    /\ logSynced' = [logSynced EXCEPT ![nextFileNumber] = {}]
    /\ UNCHANGED <<tabVars, dscVars, mem, imm, hasImm, vsetVars,
                   pendingOutputs, bgError, writerVars, bgpc, jobVars, toDelete,
                   replayVars, pinned, ghostVars>>

(* LogAndApply, first call: a new MANIFEST with a snapshot of the version  *)
(* and the edit of the recovery is written and synced ...                  *)
OpenWriteManifest ==
    /\ phase = "install"
    /\ phase' = "current"
    /\ dscFiles' = dscFiles \cup {manifestFileNumber}
    /\ dscWritten' = [dscWritten EXCEPT ![manifestFileNumber] =
                        [files |-> version \cup replayTables,
                         log |-> logfileNumber, next |-> nextFileNumber,
                         seq |-> lastSequence]]
    /\ dscSynced' = [dscSynced EXCEPT
                       ![manifestFileNumber] = dscWritten'[manifestFileNumber]]
    /\ UNCHANGED <<logVars, tabVars, current, memVars, vsetVars,
                   nextFileNumber, lastSequence, pendingOutputs, bgError,
                   writerVars, bgpc, jobVars, toDelete, replayVars, pinned,
                   ghostVars>>

(* ... then CURRENT names it (SetCurrentFile), the version is installed,   *)
(* and DB::Open calls RemoveObsoleteFiles.                                 *)
OpenSetCurrent ==
    /\ phase = "current"
    /\ phase' = "cleanup" /\ current' = manifestFileNumber
    /\ version' = version \cup replayTables /\ logNumber' = logfileNumber
    /\ toDelete' = ObsoleteFiles(LiveTables(pendingOutputs, version'), logfileNumber)
    /\ replayTables' = {} /\ maxSequence' = 0
    /\ UNCHANGED <<logVars, tabVars, dscFiles, dscWritten, dscSynced, memVars,
                   manifestFileNumber, nextFileNumber, lastSequence,
                   pendingOutputs, bgError, writerVars, bgpc, jobVars,
                   replayLogs, replayLog, replayRest, pinned, ghostVars>>

(* DB::Open returns. *)
OpenDone ==
    /\ phase = "cleanup" /\ toDelete = {}
    /\ phase' = "open"
    /\ UNCHANGED <<logVars, tabVars, dscVars, memVars, vsetVars,
                   nextFileNumber, lastSequence, pendingOutputs, bgError,
                   writerVars, bgpc, jobVars, toDelete, replayVars, pinned,
                   ghostVars>>

-----------------------------------------------------------------------------
Writer == \/ \E sync \in BOOLEAN : WriteBegin(sync)
          \/ AddRecord \/ AddRecordFails \/ SyncLog \/ SyncLogFails
          \/ WriteFinish
          \/ \E closeOk \in BOOLEAN : SwitchMemTable(closeOk)

Background == \/ FlushStart \/ FlushBuild \/ FlushBuildFails
              \/ CompactionStart \/ TrivialMove \/ OpenCompactionOutputFile
              \/ FinishCompaction \/ CompactionFails
              \/ ManifestAppend \/ LogAndApplyFails
              \/ InstallFlush \/ InstallCompaction \/ InstallMove
              \/ RemoveFile \/ RemoveDone

Reader == PinVersion \/ UnpinVersion

Crash == ProcessCrash \/ MachineCrash

Open == \/ NewDB \/ NewDBSetCurrent \/ RecoverManifest \/ RecoverLogFile
        \/ ReplayRecord \/ ReplayFlush \/ ReplayDone \/ OpenNewLog
        \/ OpenWriteManifest \/ OpenSetCurrent \/ OpenDone

Next == Writer \/ Background \/ Reader \/ Crash \/ Open

Spec == Init /\ [][Next]_vars

-----------------------------------------------------------------------------
TypeOK ==
    /\ logFiles \subseteq FileNo
    /\ logData \in [FileNo -> SUBSET Seqs] /\ logSynced \in [FileNo -> SUBSET Seqs]
    /\ tabFiles \subseteq FileNo /\ tabData \in [FileNo -> SUBSET Seqs]
    /\ dscFiles \subseteq FileNo
    /\ dscWritten \in [FileNo -> Descriptor] /\ dscSynced \in [FileNo -> Descriptor]
    /\ current \in FileNo
    /\ phase \in {"down", "created", "replay", "corrupt", "install", "current",
                  "cleanup", "open"}
    /\ mem \subseteq Seqs /\ imm \subseteq Seqs /\ hasImm \in BOOLEAN
    /\ logfileNumber \in FileNo /\ logNumber \in FileNo
    /\ nextFileNumber \in 0..MaxFile + 1 /\ lastSequence \in 0..MaxSeq
    /\ manifestFileNumber \in FileNo /\ version \subseteq FileNo
    /\ pendingOutputs \subseteq FileNo /\ bgError \in BOOLEAN
    /\ wpc \in {"idle", "append", "sync", "insert"} /\ wsync \in BOOLEAN
    /\ bgpc \in {"idle", "build", "append", "sync", "delete", "work"}
    /\ job \in {"none", "flush", "compact", "move"} /\ nested \in BOOLEAN
    /\ flushNumber \in FileNo /\ edit \in VersionEdit
    /\ inputs \subseteq FileNo /\ output \in FileNo
    /\ inputVersion \subseteq FileNo
    /\ toDelete \subseteq {"log", "dsc", "table"} \X FileNo
    /\ replayLogs \subseteq FileNo /\ replayLog \in FileNo
    /\ replayRest \subseteq Seqs /\ replayTables \subseteq FileNo
    /\ maxSequence \in 0..MaxSeq
    /\ pinned \subseteq FileNo
    /\ acked \subseteq Seqs /\ ackedSync \subseteq Seqs /\ crashes \in 0..MaxCrash

(* The updates that recovery finds if the MANIFEST says d and the logs hold *)
(* contents.                                                               *)
Tables(files) == UNION {tabData[t] : t \in files \cap tabFiles}
Recoverable(d, contents) ==
    Tables(d.files) \cup UNION {contents[n] : n \in {m \in logFiles : m >= d.log}}

(* At every moment, also in the middle of a write, a memtable switch, a    *)
(* flush, a compaction, the removal of files or an earlier recovery, a     *)
(* crash of the process loses no update whose Write returned OK.           *)
ProcessCrashSafe ==
    acked \subseteq Recoverable(dscWritten[current], logData)

(* At every moment a crash of the machine loses no update whose Write      *)
(* returned OK with WriteOptions::sync, whether or not the MANIFEST record *)
(* that is being written survives.                                         *)
MachineCrashSafe ==
    \A d \in {dscWritten[current], dscSynced[current]} :
        ackedSync \subseteq Recoverable(d, logSynced)

(* DB::Open always finds the MANIFEST that CURRENT names and the tables    *)
(* that it lists: VersionSet::Recover and the "missing files" check of     *)
(* DBImpl::Recover never fail after a crash.                               *)
AlwaysOpens ==
    /\ phase # "corrupt"
    /\ current # 0 => /\ current \in dscFiles
                      /\ dscWritten[current].files \subseteq tabFiles
                      /\ dscSynced[current].files \subseteq tabFiles

(* RemoveObsoleteFiles works from a scan made before it released the       *)
(* mutex; by the time it deletes a file, no version, reader, running       *)
(* compaction or pending output may have come to need it, nor a MANIFEST   *)
(* that a crash could bring back.                                          *)
DeletesOnlyGarbage ==
    \A f \in toDelete :
        /\ f[1] = "table" => f[2] \notin version \cup pinned \cup inputVersion
                             \cup pendingOutputs \cup dscWritten[current].files
                             \cup dscSynced[current].files
        /\ f[1] = "log" => /\ f[2] # logfileNumber
                           /\ f[2] < dscWritten[current].log
                           /\ f[2] < dscSynced[current].log
        /\ f[1] = "dsc" => f[2] # current

(* The tables of the current version, of a reader's version and of a       *)
(* running compaction's input version stay on disk while they are used.    *)
LiveTablesExist ==
    phase = "open" => version \cup pinned \cup inputVersion \subseteq tabFiles

(* An acknowledged update stays visible to readers while its memtable      *)
(* becomes immutable, becomes a table and is compacted.                    *)
AckedVisible ==
    phase = "open" => acked \subseteq mem \cup imm \cup Tables(version)

(* A new write never takes the sequence number of an update that recovery  *)
(* could bring back: last_sequence_ covers every update in a log or a      *)
(* table that is still in use.                                             *)
NoSequenceReuse ==
    phase = "open" /\ wpc \in {"idle", "append"} =>
        \A s \in Recoverable(dscWritten[current], logData) : s <= lastSequence

(* The hybrid scheme of doc/index.md: after a crash of the machine a bulk  *)
(* load restarts just after its last synchronous write, so everything      *)
(* acknowledged before a synchronous write must survive with it.           *)
SyncWriteCoversEarlier ==
    \A s \in ackedSync : \A w \in acked :
        w < s => w \in Recoverable(dscSynced[current], logSynced)

-----------------------------------------------------------------------------
(***************************************************************************)
(* An inductive invariant of Durability from which its safety properties   *)
(* follow.  It is split by subject: where the program may be, what the     *)
(* MANIFESTs say, where the promised updates are, and what the files in    *)
(* the making and the files about to be deleted must not be.               *)
(***************************************************************************)

(* What CURRENT's MANIFEST says to the next process, and to the process    *)
(* after a crash of the machine.                                           *)
Written == dscWritten[current]
Durable == dscSynced[current]

Recovering == phase \in {"replay", "install", "current"}
Running == phase \in {"cleanup", "open"}
Editing == bgpc \in {"append", "sync"}

(* Outside "open" there are no writers, readers or jobs. *)
Control ==
    /\ phase # "corrupt"
    /\ phase # "open" =>
         /\ wpc = "idle" /\ bgpc = "idle" /\ ~hasImm /\ ~bgError /\ output = 0
         /\ pinned = {} /\ inputVersion = {} /\ pendingOutputs = {}
    /\ ~hasImm => imm = {}
    /\ bgpc = "build" => hasImm
    /\ Editing /\ job = "flush" => hasImm
    /\ toDelete # {} => phase = "cleanup" \/ bgpc = "delete"
    /\ ~Running => toDelete = {}
    /\ phase \notin {"replay", "open"} => mem = {}
    /\ phase \in {"down", "created"} =>
         replayTables = {} /\ replayLog = 0 /\ replayRest = {}

(* NewDB has not finished, or CURRENT names a MANIFEST. *)
Creation ==
    /\ 0 \notin logFiles
    /\ current = 0 => /\ phase \in {"down", "created"}
                      /\ acked = {} /\ ackedSync = {}
    /\ phase = "created" =>
         /\ current = 0 /\ 1 \in dscFiles
         /\ dscWritten[1] = FirstDescriptor
         /\ dscSynced[1] = dscWritten[1]

(* A descriptor lists tables that exist, and the numbers of the files that *)
(* it knows are below the first one it leaves free.                        *)
DescriptorOK(d) ==
    /\ d.files \subseteq tabFiles
    /\ \A f \in d.files : f < d.next
    /\ d.log < d.next /\ current < d.next

Manifest ==
    current # 0 =>
        /\ current \in dscFiles
        /\ DescriptorOK(Written) /\ DescriptorOK(Durable)
        /\ Durable.next <= Written.next

(* What has been promised is kept. *)
Promises ==
    /\ ackedSync \subseteq acked
    /\ \A n \in FileNo : logSynced[n] \subseteq logData[n]
    /\ ProcessCrashSafe /\ MachineCrashSafe

(* During recovery the promised updates are in a table, in the memtable or *)
(* in a log still to be replayed, and no number in use is free.            *)
LogsToReplay == UNION {logData[n] : n \in replayLogs \ {replayLog}}

Recovery ==
    Recovering =>
        /\ version = Written.files /\ manifestFileNumber = Written.next
        /\ manifestFileNumber < nextFileNumber
        /\ replayTables \subseteq tabFiles
        /\ \A f \in replayTables : f < nextFileNumber
        /\ \A n \in logFiles \ replayLogs : n < nextFileNumber
        /\ replayLog = 0 => mem = {} /\ replayRest = {}
        /\ replayLog # 0 => replayLog \in replayLogs
        /\ 0 \notin replayLogs
        /\ acked \subseteq Tables(version \cup replayTables) \cup mem
                           \cup replayRest \cup LogsToReplay
        /\ phase # "replay" =>
             /\ replayLogs = {}
             /\ logfileNumber \in logFiles
        /\ phase = "current" =>
             /\ manifestFileNumber \in dscFiles
             /\ dscWritten[manifestFileNumber] =
                  [files |-> version \cup replayTables, log |-> logfileNumber,
                   next |-> nextFileNumber, seq |-> lastSequence]
             /\ dscSynced[manifestFileNumber] = dscWritten[manifestFileNumber]

(* The numbers in use are below next_file_number_, and the tables that are *)
(* in use exist.                                                           *)
Numbers ==
    Running =>
        /\ manifestFileNumber = current
        /\ logfileNumber \in logFiles
        /\ logNumber <= logfileNumber
        /\ Written.log <= logfileNumber /\ Durable.log <= logfileNumber
        /\ Written.next <= nextFileNumber /\ Durable.next <= nextFileNumber
        /\ \A n \in logFiles : n < nextFileNumber
        /\ version \cup pinned \cup inputVersion \subseteq tabFiles
        /\ \A f \in version \cup pinned \cup inputVersion : f < nextFileNumber

(* Where an update is while the database runs: in the memtable and its     *)
(* log, in the immutable memtable and a log since log_number_, or in a     *)
(* table.                                                                  *)
OldLogs(contents) == UNION {contents[n] : n \in {m \in logFiles : m >= logNumber}}
Home(contents) == (mem \cap contents[logfileNumber])
                  \cup (imm \cap OldLogs(contents)) \cup Tables(version)

Updates ==
    Running =>
        /\ acked \subseteq Home(logData) /\ ackedSync \subseteq Home(logSynced)
        /\ Tables(version) \subseteq Tables(Written.files)
        /\ wpc \in {"sync", "insert"} => lastSequence + 1 \in logData[logfileNumber]
        /\ wpc = "insert" /\ wsync => lastSequence + 1 \in logSynced[logfileNumber]

(* An edit on its way to the MANIFEST replaces tables by one with their    *)
(* contents, or adds the immutable memtable and drops the logs before that *)
(* of the memtable.                                                        *)
EditOK ==
    Editing =>
        /\ edit.add \subseteq tabFiles
        /\ \A f \in edit.add : f < edit.next
        /\ Written.next <= edit.next /\ edit.next <= nextFileNumber
        /\ edit.log < edit.next
        /\ Tables(edit.del) \subseteq Tables(edit.add)
        /\ edit.log = IF job = "flush" THEN logfileNumber ELSE logNumber
        /\ job = "flush" => imm \subseteq Tables(edit.add)
        /\ job # "compact" => output \notin edit.add \/ output = 0
        /\ bgpc = "sync" => edit.add \subseteq Written.files /\ Written.log = edit.log

(* A table that is being written is in nobody's way, and is kept. *)
InUse == Written.files \cup Durable.files \cup version \cup pinned \cup inputVersion

NewTables ==
    /\ bgpc = "build" =>
         /\ flushNumber < nextFileNumber /\ flushNumber \notin InUse
         /\ flushNumber # output
         /\ imm # {} => flushNumber \in tabFiles
    /\ output # 0 =>
         /\ output < nextFileNumber /\ output \in tabFiles \cap pendingOutputs
         /\ output \notin version
         /\ ~(bgpc = "sync" /\ job = "compact") =>
              output \notin Written.files \cup Durable.files

(* What is about to be deleted is not needed; without a background error   *)
(* the MANIFEST agrees with the version.                                   *)
Garbage ==
    /\ DeletesOnlyGarbage
    /\ \A f \in toDelete : f[1] = "log" => f[2] < logNumber
    /\ Running /\ ~bgError =>
         Written.files = IF bgpc = "sync" THEN ApplyToFiles(version, edit)
                         ELSE version

(* Whatever the database does and wherever a crash cuts it off, the files, *)
(* the MANIFEST and the memory agree as above, so that every step that is  *)
(* possible then (deleting a file, installing an edit, dying, replaying)   *)
(* keeps all promises.                                                     *)
Inv == /\ TypeOK /\ Control /\ Creation /\ Manifest /\ Promises /\ Recovery
       /\ Numbers /\ Updates /\ EditOK /\ NewTables /\ Garbage

AtMost(set, bound) == \A s \in set : s <= bound

HighestSequence ==
    IF wpc \in {"sync", "insert"} THEN lastSequence + 1 ELSE lastSequence

DescriptorSequence ==
    current # 0 => /\ AtMost(Tables(Written.files), Written.seq)
                   /\ AtMost(Tables(Durable.files), Durable.seq)

RecoverySequence ==
    Recovering =>
        /\ AtMost(Tables(version), lastSequence)
        /\ AtMost(Tables(replayTables) \cup mem,
                  IF phase = "replay" THEN maxSequence ELSE lastSequence)
        /\ phase # "replay" => /\ logData[logfileNumber] = {}
                               /\ \A n \in logFiles : n <= logfileNumber

InputsSequence ==
    /\ phase # "open" => inputs = {}
    /\ \A t \in inputs : AtMost(tabData[t], lastSequence)

RunningSequence ==
    Running =>
        /\ Written.seq <= lastSequence /\ Durable.seq <= lastSequence
        /\ AtMost(mem \cup imm, lastSequence)
        /\ AtMost(OldLogs(logData), HighestSequence)
        /\ Written.log >= logNumber

EditSequence ==
    Editing => /\ AtMost(Tables(edit.add), edit.seq)
               /\ Written.seq <= edit.seq /\ edit.seq <= lastSequence

(* The sequence numbers in use are covered: those in tables by the         *)
(* descriptors, those replayed by max_sequence, the rest by last_sequence_ *)
(* or, for the update that DBImpl::Write is writing, by the next one.      *)
Sequence == /\ DescriptorSequence /\ RecoverySequence /\ InputsSequence
            /\ RunningSequence /\ EditSequence
=============================================================================
