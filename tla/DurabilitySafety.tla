-------------------------- MODULE DurabilitySafety --------------------------
(* Proofs that every step of Durability keeps the part of its invariant    *)
(* that is about edits, new tables and deletions, of the properties that   *)
(* follow from the invariant, and that no sequence number is used twice.   *)
EXTENDS DurabilityProofs

(* Every step keeps the edit in the making correct: what it deletes is     *)
(* covered by what it adds.                                                *)
LEMMA EditStep ==
  ASSUME TypeOK, TypeOK', Control, Creation, Manifest, Numbers, EditOK, NewTables,
         Next
  PROVE  EditOK'
  <1> USE DEF logVars, tabVars, dscVars, memVars, vsetVars, writerVars, jobVars,
          replayVars, ghostVars, Editing
  <1>0. /\ nextFileNumber \in Nat /\ nextFileNumber' \in Nat
        /\ edit.next \in Nat /\ edit.add \subseteq Nat
        /\ logNumber \in Nat /\ logfileNumber \in Nat
    BY DescriptorTypes, BoundsAssumption DEF TypeOK, VersionEdit
  <1>1. CASE ~Editing'
    BY <1>1, Zenon DEF EditOK
  <1>2. ASSUME UNCHANGED <<edit, tabVars, Written, job, logNumber, output, bgpc>>,
               Editing /\ job = "flush" => UNCHANGED <<logfileNumber, imm>>,
               nextFileNumber' >= nextFileNumber
        PROVE  EditOK'
    <2>1. /\ Tables(edit.del)' = Tables(edit.del)
          /\ Tables(edit.add)' = Tables(edit.add)
      BY <1>2, ZenonT(60) DEF Tables
    <2> QED
      BY <1>0, <1>2, <2>1 DEF EditOK
  <1>3. CASE Writer
    BY <1>0, <1>2, <1>3 DEF Control, Writer, WriteBegin, AddRecord,
       AddRecordFails, SyncLog, SyncLogFails, WriteFinish, SwitchMemTable,
       CanSwitch, Written
  <1>4. CASE Reader
    BY <1>0, <1>2, <1>4 DEF Reader, PinVersion, UnpinVersion, Written
  <1>5. CASE Crash \/ Open
    BY <1>1, <1>5, Zenon DEF Control, Crash, ProcessCrash, MachineCrash,
       MemoryLost, Open, NewDB, NewDBSetCurrent, RecoverManifest,
       RecoverLogFile, ReplayRecord, ReplayFlush, ReplayDone, OpenNewLog,
       OpenWriteManifest, OpenSetCurrent, OpenDone
  <1>6. CASE FlushStart \/ FlushBuildFails \/ CompactionStart
             \/ OpenCompactionOutputFile \/ CompactionFails \/ LogAndApplyFails
             \/ InstallFlush \/ InstallCompaction \/ InstallMove \/ RemoveDone
    BY <1>1, <1>6, Zenon DEF FlushStart, FlushBuildFails, CompactionStart,
       OpenCompactionOutputFile, CompactionFails, LogAndApplyFails,
       InstallFlush, InstallCompaction, InstallMove, RemoveDone, AfterFlush
  <1>7. CASE RemoveFile
    BY <1>1, <1>7, Zenon DEF RemoveFile, Control
  <1>8. CASE FlushBuild
    <2>1. /\ Running /\ current # 0
          /\ logfileNumber < nextFileNumber /\ Written.next <= nextFileNumber
      BY <1>8, DescriptorTypes, Zenon DEF FlushBuild, Control, Creation,
         Running, Numbers, TypeOK
    <2>2. /\ edit'.add = IF imm = {} THEN {} ELSE {flushNumber}
          /\ edit'.del = {} /\ edit'.log = logfileNumber
          /\ edit'.next = nextFileNumber
          /\ bgpc' = "append" /\ job' = "flush"
          /\ UNCHANGED <<tabFiles, logfileNumber, imm, output, Written, nextFileNumber>>
          /\ tabData'[flushNumber] = imm
      BY <1>8, Zenon DEF FlushBuild, FlushEdit, TypeOK, Written
    <2>3. /\ flushNumber < nextFileNumber /\ flushNumber # output
          /\ imm # {} => flushNumber \in tabFiles
      BY <1>8, Zenon DEF FlushBuild, NewTables
    <2>4. Tables(edit.del)' = {} /\ imm \subseteq Tables(edit.add)'
      BY <2>2, <2>3, Zenon DEF Tables
    <2> QED
      BY <1>0, <2>1, <2>2, <2>3, <2>4, SMTT(60) DEF EditOK
  <1>9. CASE TrivialMove
    <2>1. Running /\ current # 0
      BY <1>9, Zenon DEF TrivialMove, Control, Creation, Running
    <2>2. PICK f \in version :
            edit' = [add |-> {f}, del |-> {f}, log |-> logNumber,
                     next |-> nextFileNumber, seq |-> lastSequence]
      BY <1>9, Zenon DEF TrivialMove
    <2>3. /\ f \in tabFiles /\ f < nextFileNumber /\ (f # output \/ output = 0)
          /\ logNumber < nextFileNumber /\ Written.next <= nextFileNumber
      BY <1>0, <2>1 DEF Numbers, NewTables
    <2>4. /\ bgpc' = "append" /\ job' = "move"
          /\ UNCHANGED <<tabFiles, logNumber, output, Written, nextFileNumber>>
      BY <1>9, Zenon DEF TrivialMove, Written
    <2>5. Tables(edit.del)' = Tables(edit.add)'
      BY <2>2, Zenon DEF Tables
    <2> QED
      BY <1>0, <2>1, <2>2, <2>3, <2>4, <2>5 DEF EditOK, Numbers
  <1>10. CASE FinishCompaction
    <2>1. Running /\ current # 0
      BY <1>10, Zenon DEF FinishCompaction, Control, Creation, Running
    <2>2. /\ edit'.add = {output} /\ edit'.del = inputs
          /\ edit'.log = logNumber /\ edit'.next = nextFileNumber
          /\ bgpc' = "append" /\ job' = "compact"
          /\ UNCHANGED <<tabFiles, logNumber, Written, nextFileNumber>>
      BY <1>10, Zenon DEF FinishCompaction, Written
    <2>3. /\ output \in tabFiles /\ output < nextFileNumber
          /\ logNumber < nextFileNumber /\ Written.next <= nextFileNumber
      BY <1>0, <1>10, <2>1 DEF FinishCompaction, Numbers, NewTables
    <2>4. \A t \in FileNo : tabData'[t] = IF t = output
                                          THEN UNION {tabData[u] : u \in inputs}
                                          ELSE tabData[t]
      BY <1>10, Zenon DEF FinishCompaction, TypeOK
    <2>5. Tables(edit.del)' \subseteq Tables(edit.add)'
      BY <2>2, <2>3, <2>4, SMTT(60) DEF Tables, TypeOK
    <2> QED
      BY <1>0, <2>1, <2>2, <2>3, <2>5 DEF EditOK
  <1>11. CASE ManifestAppend
    <2>1. manifestFileNumber = current
      BY <1>11, Zenon DEF ManifestAppend, Numbers, Running, Control
    <2>2. Written' = Apply(Written, edit)
      BY <1>11, <2>1, Zenon DEF ManifestAppend, Written, TypeOK
    <2>3. /\ edit.add \subseteq Written'.files
          /\ Written'.log = edit.log /\ Written'.next = edit.next
      BY <2>2, Zenon DEF Apply, ApplyToFiles
    <2>4. /\ Tables(edit.del)' = Tables(edit.del)
          /\ Tables(edit.add)' = Tables(edit.add)
      BY <1>11, ZenonT(60) DEF ManifestAppend, Tables
    <2> QED
      BY <1>0, <1>11, <2>3, <2>4 DEF ManifestAppend, EditOK
  <1> QED
    BY <1>3, <1>4, <1>5, <1>6, <1>7, <1>8, <1>9, <1>10, <1>11, ZenonT(60)
    DEF Next, Background

(* A table in the making is protected by pending_outputs_ and in no        *)
(* version.                                                                *)
LEMMA NewTablesStep ==
  ASSUME TypeOK, TypeOK', Control, Creation, Manifest, Numbers, EditOK, NewTables,
         Garbage, Next
  PROVE  NewTables'
  <1> USE DEF logVars, tabVars, dscVars, memVars, vsetVars, writerVars, jobVars,
          replayVars, ghostVars
  <1>0. /\ nextFileNumber \in Nat /\ nextFileNumber' \in Nat
        /\ flushNumber \in Nat /\ output \in Nat
    BY DescriptorTypes, BoundsAssumption DEF TypeOK
  <1>1. Running /\ current # 0 => \A f \in InUse : f \in Nat /\ f < nextFileNumber
    <2>1. \A f \in InUse : f \in Nat
      BY DescriptorTypes, ZenonT(60) DEF InUse, TypeOK
    <2>2. ASSUME Running, current # 0, NEW f \in Written.files \cup Durable.files
          PROVE  f < nextFileNumber
      BY <1>0, <2>1, <2>2, DescriptorTypes DEF Numbers, Manifest, DescriptorOK, InUse
    <2> QED
      BY <2>1, <2>2, Zenon DEF InUse, Numbers
  <1>2. ASSUME UNCHANGED <<dscWritten, dscSynced, current, version, inputVersion,
                           flushNumber, output, imm, tabFiles, pendingOutputs,
                           bgpc, job>>,
               pinned' \subseteq pinned \cup version,
               nextFileNumber' >= nextFileNumber
        PROVE  NewTables'
    <2>1. /\ Written' = Written /\ Durable' = Durable /\ InUse' \subseteq InUse
      BY <1>2, Zenon DEF Written, Durable, InUse
    <2> QED
      BY <1>0, <1>2, <2>1 DEF NewTables
  <1>3. CASE Writer
    <2>1. CASE UNCHANGED imm
      BY <1>0, <1>2, <1>3, <2>1 DEF Writer, WriteBegin, AddRecord,
         AddRecordFails, SyncLog, SyncLogFails, WriteFinish, SwitchMemTable
    <2>2. CASE \E closeOk \in BOOLEAN : SwitchMemTable(closeOk)
      <3>1. /\ bgpc # "build" /\ bgpc' = bgpc
            /\ UNCHANGED <<Written, Durable, output, job, tabFiles,
                           pendingOutputs, version>>
            /\ nextFileNumber' > nextFileNumber
        BY <1>0, <2>2 DEF SwitchMemTable, CanSwitch, Control, Written, Durable
      <3> QED
        BY <1>0, <3>1 DEF NewTables
    <2> QED
      BY <1>3, <2>1, <2>2, ZenonT(60) DEF Writer, WriteBegin, AddRecord,
         AddRecordFails, SyncLog, SyncLogFails, WriteFinish
  <1>4. CASE Reader
    BY <1>0, <1>2, <1>4 DEF Reader, PinVersion, UnpinVersion
  <1>5. CASE Crash \/ Open
    BY <1>5, Zenon DEF Control, Crash, ProcessCrash, MachineCrash, MemoryLost,
       Open, NewDB, NewDBSetCurrent, RecoverManifest, RecoverLogFile,
       ReplayRecord, ReplayFlush, ReplayDone, OpenNewLog, OpenWriteManifest,
       OpenSetCurrent, OpenDone, NewTables
  <1>6. CASE FlushStart
    <2>1. Running /\ current # 0
      BY <1>6, Zenon DEF FlushStart, Creation, Running
    <2>2. InUse' = InUse /\ Written' = Written /\ Durable' = Durable
      BY <1>6, ZenonT(60) DEF FlushStart, InUse, Written, Durable
    <2>3. nextFileNumber \notin InUse /\ (output # 0 => output # nextFileNumber)
      BY <1>0, <1>1, <2>1 DEF NewTables
    <2>4. output = 0 => nextFileNumber # output
      BY <1>0, <2>1, DescriptorTypes DEF Numbers, TypeOK
    <2> QED
      <3>1. /\ flushNumber' < nextFileNumber' /\ flushNumber' \notin InUse'
            /\ flushNumber' # output'
            /\ imm' # {} => flushNumber' \in tabFiles'
        BY <1>0, <1>6, <2>2, <2>3, <2>4 DEF FlushStart
      <3>2. /\ bgpc # "sync" /\ UNCHANGED <<output, version>>
            /\ tabFiles \subseteq tabFiles' /\ pendingOutputs \subseteq pendingOutputs'
            /\ nextFileNumber' > nextFileNumber
        BY <1>0, <1>6 DEF FlushStart
      <3> QED
        BY <1>0, <2>2, <3>1, <3>2 DEF NewTables
  <1>7. CASE FlushBuild
    BY <1>0, <1>7, Zenon DEF FlushBuild, NewTables, Written, Durable
  <1>8. CASE FlushBuildFails
    BY <1>0, <1>8, Zenon DEF FlushBuildFails, AfterFlush, NewTables, Written,
       Durable
  <1>9. CASE CompactionStart \/ TrivialMove \/ FinishCompaction
             \/ CompactionFails \/ LogAndApplyFails \/ RemoveDone
    BY <1>0, <1>9, Zenon DEF CompactionStart, TrivialMove, FinishCompaction,
       CompactionFails, LogAndApplyFails, RemoveDone, AfterFlush, NewTables,
       Written, Durable
  <1>10. CASE OpenCompactionOutputFile
    <2>1. Running /\ current # 0
      BY <1>10, Zenon DEF OpenCompactionOutputFile, Control, Creation, Running
    <2>2. Written' = Written /\ Durable' = Durable /\ bgpc' = "work"
      BY <1>10, Zenon DEF OpenCompactionOutputFile, Written, Durable
    <2>3. nextFileNumber \notin InUse
      BY <1>0, <1>1, <2>1
    <2> QED
      <3>1. /\ output' = nextFileNumber /\ nextFileNumber < nextFileNumber'
            /\ output' \in tabFiles' \cap pendingOutputs' /\ version' = version
        BY <1>0, <1>10 DEF OpenCompactionOutputFile
      <3> QED
        BY <2>2, <2>3, <3>1, Zenon DEF NewTables, InUse
  <1>11. CASE ManifestAppend
    <2>1. /\ manifestFileNumber = current /\ bgpc' = "sync" /\ Editing
          /\ UNCHANGED <<version, output, tabFiles, pendingOutputs,
                         nextFileNumber, job>>
      BY <1>11, ZenonT(60) DEF ManifestAppend, Numbers, Running, Control,
         Editing
    <2>2. Written' = Apply(Written, edit) /\ Durable' = Durable
      BY <1>11, <2>1, ManifestAppended, Zenon
    <2>3. Written'.files \subseteq Written.files \cup edit.add
      BY <2>2, Zenon DEF Apply, ApplyToFiles
    <2> QED
      BY <1>11, <2>1, <2>2, <2>3, Zenon DEF ManifestAppend, NewTables, EditOK
  <1>12. CASE InstallFlush \/ InstallMove \/ InstallCompaction
    <2>1. /\ manifestFileNumber = current /\ Editing /\ bgpc = "sync"
          /\ bgpc' # "build" /\ bgpc' # "sync"
          /\ version' = ApplyToFiles(version, edit)
          /\ UNCHANGED <<tabFiles, nextFileNumber>>
          /\ job = "compact" => output' = 0
          /\ job # "compact" => UNCHANGED <<output, pendingOutputs>>
      BY <1>12, ZenonT(60) DEF InstallFlush, InstallMove, InstallCompaction,
         ManifestSync, Numbers, Running, Control, Editing
    <2>2. Written' = Written /\ Durable' = Written
      BY <1>12, <2>1, ManifestInstalled, Zenon
    <2>3. version' \subseteq version \cup edit.add
      BY <2>1, Zenon DEF ApplyToFiles
    <2> QED
      BY <2>1, <2>2, <2>3, Zenon DEF NewTables, EditOK
  <1>13. CASE RemoveFile
    <2>1. PICK f \in toDelete :
            tabFiles' = IF f[1] = "table" THEN tabFiles \ {f[2]} ELSE tabFiles
      BY <1>13, Zenon DEF RemoveFile
    <2>2. f[1] = "table" => f[2] \notin pendingOutputs
      BY Zenon DEF Garbage, DeletesOnlyGarbage
    <2>3. bgpc # "build"
      BY <1>13, Zenon DEF RemoveFile, Control
    <2> QED
      BY <1>13, <2>1, <2>2, <2>3, Zenon DEF RemoveFile, NewTables, Written,
         Durable
  <1> QED
    BY <1>3, <1>4, <1>5, <1>6, <1>7, <1>8, <1>9, <1>10, <1>11, <1>12, <1>13,
       Zenon DEF Next, Background

(* What RemoveObsoleteFiles selects is not in use at that moment.          *)
LEMMA ObsoleteFilesAre ==
  ASSUME NEW live, NEW logno, NEW f \in ObsoleteFiles(live, logno)
  PROVE  /\ ~bgError
         /\ f[1] = "log" => f[2] \in logFiles /\ f[2] < logno
         /\ f[1] = "dsc" => f[2] < manifestFileNumber
         /\ f[1] = "table" => f[2] \notin live
  BY ZenonT(60) DEF ObsoleteFiles

(* A scan made when the MANIFEST agrees with the version collects garbage. *)
LEMMA ScanCollectsGarbage ==
  ASSUME TypeOK, TypeOK', NEW live, NEW logno,
         logno \in FileNo, current' = manifestFileNumber,
         toDelete' = ObsoleteFiles(live, logno),
         UNCHANGED bgError,
         ~bgError => Written.files' = version',
         Durable' = Written',
         Written.log' = logno, logNumber' = logno, logno <= logfileNumber',
         (version \cup pinned \cup inputVersion \cup pendingOutputs)' \subseteq live
  PROVE  /\ DeletesOnlyGarbage'
         /\ \A f \in toDelete' : f[1] = "log" => f[2] < logNumber'
  <1>0. /\ logno \in Nat /\ manifestFileNumber \in Nat /\ logfileNumber' \in Nat
        /\ logFiles \subseteq Nat
    BY DescriptorTypes, Zenon DEF TypeOK
  <1>1. SUFFICES ASSUME NEW f \in toDelete'
        PROVE  /\ f[1] = "table" => f[2] \notin (version \cup pinned \cup inputVersion
                       \cup pendingOutputs \cup Written.files \cup Durable.files)'
               /\ f[1] = "log" => /\ f[2] # logfileNumber' /\ f[2] < Written.log'
                                  /\ f[2] < Durable.log' /\ f[2] < logNumber'
               /\ f[1] = "dsc" => f[2] # current'
    BY Zenon DEF DeletesOnlyGarbage, Written, Durable
  <1>2. /\ ~bgError
        /\ f[1] = "log" => f[2] \in logFiles /\ f[2] < logno
        /\ f[1] = "dsc" => f[2] < manifestFileNumber
        /\ f[1] = "table" => f[2] \notin live
    BY ObsoleteFilesAre, Zenon
  <1>3. f[2] \in Nat
    BY <1>0, DescriptorTypes, ZenonT(60) DEF TypeOK
  <1> QED
    BY <1>0, <1>2, <1>3

(* Unless an installation failed, the version in memory is the one that    *)
(* the MANIFEST describes.                                                 *)
LEMMA AgreementStep ==
  ASSUME TypeOK, Control, Recovery, Numbers, Garbage, Next,
         Running', ~bgError'
  PROVE  Written.files' = IF bgpc' = "sync" THEN ApplyToFiles(version, edit)'
                          ELSE version'
  <1> USE DEF logVars, tabVars, dscVars, memVars, vsetVars, writerVars, jobVars,
          replayVars, ghostVars, Running
  <1>1. ASSUME UNCHANGED <<Written, version>>, Running, ~bgError,
               bgpc = "sync" => UNCHANGED <<bgpc, edit>>,
               bgpc # "sync" => bgpc' # "sync"
        PROVE  Written.files' = IF bgpc' = "sync" THEN ApplyToFiles(version, edit)'
                                ELSE version'
    BY <1>1, Zenon DEF Garbage, ApplyToFiles
  <1>2. CASE Writer
    BY <1>1, <1>2, Zenon DEF Control, Writer, WriteBegin, AddRecord,
       AddRecordFails, SyncLog, SyncLogFails, WriteFinish, SwitchMemTable,
       CanSwitch, Written
  <1>3. CASE FlushStart \/ FlushBuild \/ FlushBuildFails \/ CompactionStart
             \/ TrivialMove \/ OpenCompactionOutputFile \/ FinishCompaction
             \/ CompactionFails
    BY <1>1, <1>3, Zenon DEF Control, FlushStart, FlushBuild, FlushBuildFails,
       CompactionStart, TrivialMove, OpenCompactionOutputFile,
       FinishCompaction, CompactionFails, Written
  <1>4. CASE LogAndApplyFails \/ RemoveFile \/ RemoveDone \/ Reader
    BY <1>1, <1>4, Zenon DEF Control, LogAndApplyFails, RemoveFile, RemoveDone,
       AfterFlush, Reader, PinVersion, UnpinVersion, Written
  <1>5. CASE ManifestAppend
    <2>1. /\ manifestFileNumber = current /\ bgpc = "append" /\ bgpc' = "sync"
          /\ ~bgError /\ Running /\ UNCHANGED <<version, edit>>
      BY <1>5, Zenon DEF ManifestAppend, Numbers, Control
    <2>2. Written' = Apply(Written, edit)
      BY <1>5, <2>1, Zenon DEF ManifestAppend, Written, TypeOK
    <2>3. Written.files = version
      BY <2>1, Zenon DEF Garbage
    <2> QED
      BY <2>1, <2>2, <2>3, Zenon DEF Apply, ApplyToFiles
  <1>6. CASE InstallFlush \/ InstallCompaction \/ InstallMove
    BY <1>6, Zenon DEF InstallFlush, InstallCompaction, InstallMove,
       ManifestSync, Control, Garbage, Written
  <1>7. CASE Crash \/ NewDB \/ NewDBSetCurrent \/ RecoverManifest
             \/ RecoverLogFile \/ ReplayRecord \/ ReplayFlush \/ ReplayDone
             \/ OpenNewLog \/ OpenWriteManifest
    BY <1>7, Zenon DEF Crash, ProcessCrash, MachineCrash, NewDB,
       NewDBSetCurrent, RecoverManifest, RecoverLogFile, ReplayRecord,
       ReplayFlush, ReplayDone, OpenNewLog, OpenWriteManifest
  <1>8. CASE OpenSetCurrent
    BY <1>8, CurrentSwitched, Zenon DEF OpenSetCurrent, Control
  <1>9. CASE OpenDone
    BY <1>1, <1>9, Zenon DEF OpenDone, Control, Written
  <1> QED
    BY <1>2, <1>3, <1>4, <1>5, <1>6, <1>7, <1>8, <1>9, Zenon DEF Next,
       Background, Open

(* Files selected for deletion stay unused until they are deleted, since   *)
(* file numbers are never given out again.                                 *)
LEMMA GarbageStep ==
  ASSUME TypeOK, TypeOK', Control, Creation, Manifest, Recovery, Numbers, EditOK,
         Garbage, Next
  PROVE  Garbage'
  <1> USE DEF logVars, tabVars, dscVars, memVars, vsetVars, writerVars, jobVars,
          replayVars, ghostVars
  <1> DEFINE Collected == /\ DeletesOnlyGarbage
                          /\ \A f \in toDelete : f[1] = "log" => f[2] < logNumber
  <1>0. SUFFICES Collected'
    BY AgreementStep, Zenon DEF Garbage, Running
  <1>1. ASSUME toDelete' = {} PROVE Collected'
    BY <1>1, Zenon DEF DeletesOnlyGarbage
  <1>2. ASSUME UNCHANGED <<dscWritten, dscSynced, current, version, inputVersion,
                           pendingOutputs, logfileNumber, logNumber>>,
               pinned' \subseteq pinned \cup version, toDelete' \subseteq toDelete
        PROVE  Collected'
    BY <1>2, Zenon DEF Garbage, DeletesOnlyGarbage
  <1>3. CASE Writer
    <2>1. CASE \E closeOk \in BOOLEAN : SwitchMemTable(closeOk)
      <3>1. /\ Running /\ logfileNumber' = nextFileNumber
            /\ UNCHANGED <<dscWritten, dscSynced, current, version, inputVersion,
                           pendingOutputs, logNumber, pinned, toDelete>>
        BY <2>1, Zenon DEF SwitchMemTable, CanSwitch, Running
      <3>2. \A f \in toDelete : f[1] = "log" => f[2] # nextFileNumber
        <4>1. /\ logNumber <= logfileNumber /\ logfileNumber < nextFileNumber
              /\ logNumber \in Nat /\ logfileNumber \in Nat /\ nextFileNumber \in Nat
          BY <3>1, DescriptorTypes, BoundsAssumption, ZenonT(60) DEF Numbers,
             TypeOK
        <4>2. \A f \in toDelete : f[2] \in Nat
          BY DescriptorTypes, Zenon DEF TypeOK
        <4>3. \A f \in toDelete : f[1] = "log" => f[2] < logNumber
          BY Zenon DEF Garbage
        <4> QED
          BY <4>1, <4>2, <4>3
      <3> QED
        BY <3>1, <3>2, Zenon DEF Garbage, DeletesOnlyGarbage
    <2> QED
      BY <1>2, <1>3, <2>1, Zenon DEF Writer, WriteBegin, AddRecord,
         AddRecordFails, SyncLog, SyncLogFails, WriteFinish
  <1>4. CASE Reader \/ RemoveFile \/ RemoveDone
    BY <1>2, <1>4, Zenon DEF Reader, PinVersion, UnpinVersion, RemoveFile,
       RemoveDone
  <1>5. CASE FlushStart \/ FlushBuild \/ FlushBuildFails \/ CompactionStart
             \/ TrivialMove \/ OpenCompactionOutputFile \/ FinishCompaction
             \/ CompactionFails \/ ManifestAppend \/ LogAndApplyFails
             \/ InstallMove
    BY <1>1, <1>5, ZenonT(60) DEF Control, FlushStart, FlushBuild,
       FlushBuildFails, CompactionStart, TrivialMove, OpenCompactionOutputFile,
       FinishCompaction, CompactionFails, ManifestAppend, LogAndApplyFails,
       InstallMove, ManifestSync
  <1>6. CASE Crash \/ NewDB \/ NewDBSetCurrent \/ RecoverManifest
             \/ RecoverLogFile \/ ReplayRecord \/ ReplayFlush \/ ReplayDone
             \/ OpenNewLog \/ OpenWriteManifest \/ OpenDone
    BY <1>1, <1>6, Zenon DEF Control, Running, Crash, ProcessCrash,
       MachineCrash, MemoryLost, NewDB, NewDBSetCurrent, RecoverManifest,
       RecoverLogFile, ReplayRecord, ReplayFlush, ReplayDone, OpenNewLog,
       OpenWriteManifest, OpenDone
  <1>7. CASE InstallFlush \/ InstallCompaction
    <2>1. /\ Running /\ Running' /\ Editing /\ bgpc = "sync" /\ bgpc' = "delete"
          /\ manifestFileNumber = current /\ current' = current
          /\ UNCHANGED <<bgError, logfileNumber>> /\ logNumber' = edit.log
      BY <1>7, ZenonT(60) DEF InstallFlush, InstallCompaction, ManifestSync,
         Control, Running, Editing, Numbers
    <2>2. Written' = Written /\ Durable' = Written'
      BY <1>7, <2>1, ManifestInstalled, Zenon
    <2>3. ~bgError => Written.files' = version'
      BY <2>1, AgreementStep, Zenon
    <2>4. /\ edit.log \in FileNo /\ edit.log <= logfileNumber
          /\ Written.log' = edit.log
      BY <2>1, <2>2, DescriptorTypes, ZenonT(60) DEF EditOK, Numbers, TypeOK,
         VersionEdit
    <2>5. PICK live : /\ toDelete' = ObsoleteFiles(live, edit.log)
                      /\ (version \cup pinned \cup inputVersion
                          \cup pendingOutputs)' \subseteq live
      BY <1>7, Zenon DEF InstallFlush, InstallCompaction, LiveTables
    <2> QED
      BY <2>1, <2>2, <2>3, <2>4, <2>5, ScanCollectsGarbage, ZenonT(60)
  <1>8. CASE OpenSetCurrent
    <2>1. /\ Running' /\ bgpc' = "idle" /\ current' = manifestFileNumber
          /\ UNCHANGED <<bgError, logfileNumber>> /\ ~bgError
          /\ logNumber' = logfileNumber
          /\ pinned' = {} /\ inputVersion' = {}
      BY <1>8, Zenon DEF OpenSetCurrent, Running, Control
    <2>2. Written.log' = logfileNumber /\ Durable' = Written'
      BY <1>8, CurrentSwitched, Zenon
    <2>3. Written.files' = version'
      BY <2>1, AgreementStep, ZenonT(60)
    <2>4. logfileNumber \in FileNo /\ logfileNumber <= logfileNumber'
      BY <2>1, DescriptorTypes DEF TypeOK
    <2>5. PICK live : /\ toDelete' = ObsoleteFiles(live, logfileNumber)
                      /\ (version \cup pinned \cup inputVersion
                          \cup pendingOutputs)' \subseteq live
      BY <1>8, <2>1, Zenon DEF OpenSetCurrent, LiveTables
    <2> QED
      BY <2>1, <2>2, <2>3, <2>4, <2>5, ScanCollectsGarbage, Zenon
  <1> QED
    BY <1>3, <1>4, <1>5, <1>6, <1>7, <1>8, Zenon DEF Next, Background, Open

(* An empty directory satisfies the invariant.                             *)
LEMMA InvInit == Init => Inv
  <1> SUFFICES ASSUME Init PROVE Inv
    BY Zenon
  <1>1. /\ TypeOK
        /\ \A n \in FileNo : logSynced[n] \subseteq logData[n]
    BY InitType, Zenon DEF Init
  <1>2. Control /\ Creation
    BY Zenon DEF Init, MemoryInit, Control, Creation, Editing, Running
  <1>3. Manifest /\ Recovery /\ Numbers /\ Updates /\ EditOK /\ NewTables /\ Garbage
    BY Zenon DEF Init, MemoryInit, Manifest, Recovery, Recovering, Numbers,
       Running, Updates, EditOK, Editing, NewTables, Garbage,
       DeletesOnlyGarbage
  <1>4. Promises
    BY <1>1, Zenon DEF Init, Promises, ProcessCrashSafe, MachineCrashSafe
  <1> QED
    BY <1>1, <1>2, <1>3, <1>4, Zenon DEF Inv

(* The invariant depends on the variables only.                            *)
LEMMA InvStutter == Inv /\ UNCHANGED vars => Inv'
  <1> SUFFICES ASSUME Inv, UNCHANGED vars PROVE Inv'
    BY ZenonT(60)
  <1> USE DEF vars, logVars, tabVars, dscVars, memVars, vsetVars, writerVars,
          jobVars, replayVars, ghostVars, Inv, Written, Durable, Running,
          Recovering, Editing, Tables
  <1>1. TypeOK' /\ Control' /\ Creation' /\ Manifest'
    BY DEF TypeOK, Control, Creation, Manifest, DescriptorOK
  <1>2. Promises'
    BY PromisesSame, ZenonT(60)
  <1>3. Recovery' /\ Numbers'
    BY SMTT(60) DEF Recovery, LogsToReplay, Numbers
  <1>4. Updates' /\ EditOK'
    BY DEF Updates, Home, OldLogs, EditOK
  <1>5. NewTables' /\ Garbage'
    BY Zenon DEF NewTables, InUse, Garbage, DeletesOnlyGarbage, ApplyToFiles
  <1> QED
    BY <1>1, <1>2, <1>3, <1>4, <1>5, Zenon

(* Every step of the database keeps the invariant.                         *)
LEMMA InvStep == Inv /\ TypeOK' /\ [Next]_vars => Inv'
  <1> SUFFICES ASSUME Inv, TypeOK', Next PROVE Inv'
    BY InvStutter, Zenon
  <1> QED
    BY ControlStep, CreationStep, ManifestStep, PromisesStep, RecoveryStep,
       NumbersStep, UpdatesStep, EditStep, NewTablesStep, GarbageStep, Zenon
       DEF Inv

(* The invariant holds in every state that the database and its disk can   *)
(* reach.                                                                  *)
THEOREM InvHolds == Spec => []Inv
  BY InvInit, InvStep, TypeCorrect, PTL DEF Spec

(* A crash of the process loses no update whose Write returned OK,        *)
(* wherever writes, flushes, compactions, deletions and recoveries are     *)
(* interrupted and however often.                                          *)
THEOREM ProcessCrashSafety == Spec => []ProcessCrashSafe
  <1>1. Inv => ProcessCrashSafe
    BY Zenon DEF Inv, Promises
  <1> QED
    BY <1>1, InvHolds, PTL

(* A crash of the machine loses no update whose Write returned OK with     *)
(* WriteOptions::sync, under the same circumstances.                       *)
THEOREM MachineCrashSafety == Spec => []MachineCrashSafe
  <1>1. Inv => MachineCrashSafe
    BY Zenon DEF Inv, Promises
  <1> QED
    BY <1>1, InvHolds, PTL

(* After any crash DB::Open finds the MANIFEST that CURRENT names and the  *)
(* tables that it lists.                                                   *)
THEOREM OpenSucceeds == Spec => []AlwaysOpens
  <1>1. Inv => AlwaysOpens
    BY Zenon DEF Inv, Control, Manifest, DescriptorOK, Written, Durable,
       AlwaysOpens
  <1> QED
    BY <1>1, InvHolds, PTL

(* RemoveObsoleteFiles deletes nothing that is needed when it is deleted,  *)
(* although it decided before it released the mutex.                       *)
THEOREM DeletionSafety == Spec => []DeletesOnlyGarbage
  <1>1. Inv => DeletesOnlyGarbage
    BY Zenon DEF Inv, Garbage
  <1> QED
    BY <1>1, InvHolds, PTL

(* The tables of the current version, of a reader's and of a compaction's  *)
(* stay on disk.                                                           *)
THEOREM TablesStay == Spec => []LiveTablesExist
  <1>1. Inv => LiveTablesExist
    BY Zenon DEF Inv, Numbers, Running, LiveTablesExist
  <1> QED
    BY <1>1, InvHolds, PTL

(* Readers see every acknowledged update while flushes and compactions     *)
(* move it.                                                                *)
THEOREM UpdatesVisible == Spec => []AckedVisible
  <1>1. Inv => AckedVisible
    BY Zenon DEF Inv, Updates, Home, Running, AckedVisible
  <1> QED
    BY <1>1, InvHolds, PTL

-----------------------------------------------------------------------------
(* Sequence numbers. *)

(* A stuttering step keeps the sequence numbers in use covered.            *)
LEMMA SequenceStutter == Sequence /\ UNCHANGED vars => Sequence'
  <1> SUFFICES ASSUME Sequence, UNCHANGED vars PROVE Sequence'
    BY Zenon
  <1> USE DEF vars, logVars, tabVars, dscVars, memVars, vsetVars,
          writerVars, jobVars, replayVars, ghostVars, Sequence, AtMost, Tables,
          Written, Durable
  <1>1. DescriptorSequence'
    BY Zenon DEF DescriptorSequence
  <1>2. RecoverySequence'
    BY Zenon DEF RecoverySequence, Recovering
  <1>3. InputsSequence'
    BY Zenon DEF InputsSequence
  <1>4. RunningSequence'
    BY Zenon DEF RunningSequence, Running, OldLogs, HighestSequence
  <1>5. EditSequence'
    BY ZenonT(60) DEF EditSequence, Editing
  <1> QED
    BY <1>1, <1>2, <1>3, <1>4, <1>5, ZenonT(60)

(* Sequence numbers are natural numbers wherever they are kept.            *)
LEMMA SequenceTypes ==
  ASSUME TypeOK
  PROVE  /\ Seqs \subseteq Nat /\ lastSequence \in Nat /\ maxSequence \in Nat
         /\ Written.seq \in Nat /\ Durable.seq \in Nat /\ edit.seq \in Nat
         /\ mem \subseteq Nat /\ imm \subseteq Nat
         /\ \A n \in FileNo : tabData[n] \subseteq Nat /\ logData[n] \subseteq Nat
         /\ \A files : Tables(files) \subseteq Nat
  <1>1. Seqs \subseteq Nat /\ 0..MaxSeq \subseteq Nat
    BY BoundsAssumption DEF Seqs
  <1>2. Written.seq \in Nat /\ Durable.seq \in Nat
    BY <1>1, DescriptorTypes, Zenon DEF Descriptor
  <1>3. edit.seq \in Nat
    BY <1>1, Zenon DEF TypeOK, VersionEdit
  <1>4. \A n \in FileNo : tabData[n] \subseteq Nat /\ logData[n] \subseteq Nat
    BY <1>1, ZenonT(60) DEF TypeOK
  <1>5. \A files : Tables(files) \subseteq Nat
    BY <1>4, Zenon DEF Tables, TypeOK
  <1> QED
    BY <1>1, <1>2, <1>3, <1>4, <1>5, Zenon DEF TypeOK

(* A table that is in the MANIFEST is never written again. *)
LEMMA DescriptorTablesFixed ==
  ASSUME TypeOK, Control, Creation, Manifest, Recovery, Numbers, NewTables, Next,
         current # 0
  PROVE  \A t \in Written.files \cup Durable.files :
            t \in tabFiles /\ tabData'[t] = tabData[t]
  <1> USE DEF logVars, tabVars, dscVars, memVars, vsetVars, writerVars, jobVars,
          replayVars, ghostVars
  <1>0. \A t \in Written.files \cup Durable.files :
           t \in tabFiles /\ t \in FileNo /\ t \in Nat /\ t < Written.next
    BY DescriptorTypes DEF Manifest, DescriptorOK
  <1>1. CASE UNCHANGED tabData
    BY <1>0, <1>1, Zenon
  <1>2. CASE FlushStart \/ OpenCompactionOutputFile \/ ReplayFlush
    <2>0. nextFileNumber \in FileNo /\ nextFileNumber \in Nat
      BY <1>2, BoundsAssumption DEF FlushStart, OpenCompactionOutputFile,
         ReplayFlush, TypeOK, FileNo
    <2>1. \A t \in FileNo : t # nextFileNumber => tabData'[t] = tabData[t]
      <3>1. CASE FlushStart
        BY <2>0, <3>1, Zenon DEF FlushStart, TypeOK
      <3>2. CASE OpenCompactionOutputFile
        BY <2>0, <3>2, ZenonT(60) DEF OpenCompactionOutputFile, TypeOK
      <3>3. CASE ReplayFlush
        BY <2>0, <3>3, ZenonT(60) DEF ReplayFlush, TypeOK
      <3> QED
        BY <1>2, <3>1, <3>2, <3>3, ZenonT(60)
    <2>2. Written.next <= nextFileNumber
      BY <1>2, <2>0, DescriptorTypes, SMTT(60) DEF FlushStart,
         OpenCompactionOutputFile, ReplayFlush, Control, Numbers, Running,
         Recovery, Recovering
    <2> QED
      BY <1>0, <2>0, <2>1, <2>2, DescriptorTypes, SMTT(60)
  <1>3. CASE FlushBuild \/ FinishCompaction
    BY <1>0, <1>3, Zenon DEF FlushBuild, FinishCompaction, NewTables, InUse,
       TypeOK
  <1>4. \/ UNCHANGED tabData
        \/ FlushStart \/ OpenCompactionOutputFile \/ ReplayFlush
        \/ FlushBuild \/ FinishCompaction
    <2>1. CASE Writer
      BY <2>1, Zenon DEF Writer, WriteBegin, AddRecord, AddRecordFails,
         SyncLog, SyncLogFails, WriteFinish, SwitchMemTable
    <2>2. CASE Background
      BY <2>2, Zenon DEF Background, FlushBuildFails, CompactionStart,
         TrivialMove, CompactionFails, ManifestAppend, LogAndApplyFails,
         InstallFlush, InstallCompaction, InstallMove, RemoveFile, RemoveDone
    <2>3. CASE Reader \/ Crash
      BY <2>3, Zenon DEF Reader, PinVersion, UnpinVersion, Crash, ProcessCrash,
         MachineCrash
    <2>4. CASE Open
      BY <2>4, Zenon DEF Open, NewDB, NewDBSetCurrent, RecoverManifest,
         RecoverLogFile, ReplayRecord, ReplayDone, OpenNewLog,
         OpenWriteManifest, OpenSetCurrent, OpenDone
    <2> QED
      BY <2>1, <2>2, <2>3, <2>4, Zenon DEF Next
  <1> QED
    BY <1>1, <1>2, <1>3, <1>4, Zenon

(* Tables of a set of files that are not written lose at most updates. *)
LEMMA AtMostKept ==
  ASSUME NEW files, NEW bound, AtMost(Tables(files), bound), files \subseteq tabFiles,
         \A t \in files : tabData'[t] = tabData[t]
  PROVE  \A s \in UNION {tabData'[t] : t \in files \cap tabFiles'} : s <= bound
  BY Zenon DEF AtMost, Tables

(* Every step keeps the tables of a MANIFEST within the last sequence      *)
(* number it records.                                                      *)
LEMMA DescriptorSequenceStep ==
  ASSUME TypeOK, TypeOK', Control, Creation, Manifest, Recovery, Numbers, Updates,
         EditOK, NewTables, Sequence, Next
  PROVE  DescriptorSequence'
  <1> USE DEF logVars, tabVars, dscVars, memVars, vsetVars, writerVars, jobVars,
          replayVars, ghostVars
  <1>1. ASSUME current # 0, current' = current,
               Written' \in {Written, Durable}, Durable' \in {Written, Durable}
        PROVE  DescriptorSequence'
    <2>1. \A d \in {Written, Durable} :
             \A s \in UNION {tabData'[t] : t \in d.files \cap tabFiles'} : s <= d.seq
      <3>1. \A t \in Written.files \cup Durable.files :
               t \in tabFiles /\ tabData'[t] = tabData[t]
        BY <1>1, DescriptorTablesFixed, Zenon
      <3> QED
        BY <1>1, <3>1, AtMostKept, Zenon DEF Sequence, DescriptorSequence
    <2> QED
      BY <1>1, <2>1, Zenon DEF DescriptorSequence, AtMost, Tables
  <1>2. CASE current' = 0
    BY <1>2, Zenon DEF DescriptorSequence
  <1>3. CASE Writer \/ Reader
    BY <1>1, <1>2, <1>3, Zenon DEF Writer, WriteBegin, AddRecord,
       AddRecordFails, SyncLog, SyncLogFails, WriteFinish, SwitchMemTable,
       Reader, PinVersion, UnpinVersion, Written, Durable
  <1>4. CASE FlushStart \/ FlushBuild \/ FlushBuildFails \/ CompactionStart
             \/ TrivialMove \/ OpenCompactionOutputFile \/ FinishCompaction
             \/ CompactionFails \/ LogAndApplyFails \/ RemoveFile \/ RemoveDone
    BY <1>1, <1>2, <1>4, Zenon DEF FlushStart, FlushBuild, FlushBuildFails,
       CompactionStart, TrivialMove, OpenCompactionOutputFile,
       FinishCompaction, CompactionFails, LogAndApplyFails, RemoveFile,
       RemoveDone, Written, Durable
  <1>5. CASE ManifestAppend
    <2>1. /\ manifestFileNumber = current /\ current # 0 /\ Editing
          /\ UNCHANGED <<current, tabVars>>
      BY <1>5, ZenonT(60) DEF ManifestAppend, Numbers, Running, Control,
         Creation, Editing
    <2>2. Written' = Apply(Written, edit) /\ Durable' = Durable
      BY <1>5, <2>1, ManifestAppended, Zenon
    <2>3. Tables(Written.files)' \subseteq Tables(Written.files) \cup Tables(edit.add)
      BY <2>1, <2>2, Zenon DEF Tables, Apply, ApplyToFiles
    <2>4. AtMost(Tables(Written.files), edit.seq) /\ AtMost(Tables(edit.add), edit.seq)
      BY <2>1, SequenceTypes DEF Sequence, DescriptorSequence, EditSequence, AtMost
    <2>5. Written.seq' = edit.seq /\ Tables(Durable.files)' = Tables(Durable.files)
      BY <2>1, <2>2, Zenon DEF Apply, Tables
    <2> QED
      BY <2>1, <2>2, <2>3, <2>4, <2>5, Zenon DEF Sequence, DescriptorSequence,
         AtMost
  <1>6. CASE InstallFlush \/ InstallCompaction \/ InstallMove
    <2>1. /\ manifestFileNumber = current /\ current # 0
          /\ UNCHANGED <<current, tabVars>>
      BY <1>6, ZenonT(60) DEF InstallFlush, InstallCompaction, InstallMove,
         ManifestSync, Numbers, Running, Control, Creation
    <2>2. Durable' = Written /\ Written' = Written
      BY <1>6, <2>1, ManifestInstalled, Zenon
    <2> QED
      BY <1>1, <2>1, <2>2, Zenon
  <1>7. CASE Crash
    BY <1>1, <1>2, <1>7, Zenon DEF Crash, ProcessCrash, MachineCrash, Written,
       Durable
  <1>8. CASE NewDB \/ RecoverManifest \/ RecoverLogFile \/ ReplayRecord
             \/ ReplayFlush \/ ReplayDone \/ OpenNewLog \/ OpenDone
    BY <1>1, <1>2, <1>8, Zenon DEF NewDB, RecoverManifest, RecoverLogFile,
       ReplayRecord, ReplayFlush, ReplayDone, OpenNewLog, OpenDone, Written,
       Durable
  <1>9. CASE NewDBSetCurrent
    <2>1. Written'.files = {} /\ Durable'.files = {}
      <3>1. Written' = FirstDescriptor /\ Durable' = FirstDescriptor
        BY <1>9, Zenon DEF NewDBSetCurrent, Creation, Written, Durable
      <3> QED
        BY <3>1, Zenon DEF FirstDescriptor
    <2> QED
      BY <2>1, Zenon DEF DescriptorSequence, AtMost, Tables
  <1>10. CASE OpenWriteManifest
    <2>1. manifestFileNumber # current /\ current # 0 /\ UNCHANGED current
      BY <1>10, DescriptorTypes, SMTT(60) DEF OpenWriteManifest, Recovery,
         Recovering, Manifest, DescriptorOK, Creation, TypeOK
    <2>2. Written' = Written /\ Durable' = Durable
      BY <1>10, <2>1, Zenon DEF OpenWriteManifest, Written, Durable, TypeOK
    <2> QED
      BY <1>1, <2>1, <2>2, ZenonT(60)
  <1>11. CASE OpenSetCurrent
    <2>0. UNCHANGED tabVars /\ Recovering /\ phase = "current"
      BY <1>11, Zenon DEF OpenSetCurrent, Recovering
    <2>1. /\ Written'.files = version \cup replayTables
          /\ Written'.seq = lastSequence /\ Durable' = Written'
      BY <1>11, CurrentSwitched, Zenon
    <2>2. Tables(Written.files)' \subseteq Tables(version) \cup Tables(replayTables)
      BY <2>0, <2>1, Zenon DEF Tables
    <2> QED
      BY <2>0, <2>1, <2>2, Zenon DEF Sequence, RecoverySequence,
         DescriptorSequence, AtMost
  <1> QED
    BY <1>3, <1>4, <1>5, <1>6, <1>7, <1>8, <1>9, <1>10, <1>11, Zenon
    DEF Next, Background, Open

(* A step that leads to a state inside a recovery is one of Recover or     *)
(* DB::Open.                                                               *)
LEMMA RecoverySteps ==
  ASSUME Control, Next, Recovering'
  PROVE  \/ RecoverManifest \/ RecoverLogFile \/ ReplayRecord \/ ReplayFlush
         \/ ReplayDone \/ OpenNewLog \/ OpenWriteManifest
  <1> USE DEF logVars, tabVars, dscVars, memVars, vsetVars, writerVars, jobVars,
          replayVars, ghostVars, Recovering, Control
  <1>1. ~Writer
    BY Zenon DEF Writer, WriteBegin, AddRecord, AddRecordFails,
       SyncLog, SyncLogFails, WriteFinish, SwitchMemTable, CanSwitch
  <1>2. ~(FlushStart \/ FlushBuild \/ FlushBuildFails \/ CompactionStart
          \/ TrivialMove \/ OpenCompactionOutputFile \/ FinishCompaction
          \/ CompactionFails)
    BY Zenon DEF FlushStart, FlushBuild, FlushBuildFails, CompactionStart,
       TrivialMove, OpenCompactionOutputFile, FinishCompaction, CompactionFails
  <1>3. ~(ManifestAppend \/ LogAndApplyFails \/ InstallFlush \/ InstallCompaction
          \/ InstallMove \/ RemoveFile \/ RemoveDone)
    BY Zenon DEF ManifestAppend, LogAndApplyFails, InstallFlush,
       InstallCompaction, InstallMove, ManifestSync, RemoveFile, RemoveDone
  <1>4. ~(Reader \/ Crash \/ NewDB \/ NewDBSetCurrent \/ OpenSetCurrent \/ OpenDone)
    BY Zenon DEF Reader, PinVersion, UnpinVersion, Crash, ProcessCrash,
       MachineCrash, NewDB, NewDBSetCurrent, OpenSetCurrent, OpenDone
  <1> QED
    BY <1>1, <1>2, <1>3, <1>4, Zenon DEF Next, Background, Open

(* Recovery raises max_sequence above everything that it replays.          *)
LEMMA RecoverySequenceStep ==
  ASSUME TypeOK, TypeOK', Control, Creation, Manifest, Recovery, Numbers,
         NewTables, Sequence, Next
  PROVE  RecoverySequence'
  <1> USE DEF logVars, tabVars, dscVars, memVars, vsetVars, writerVars, jobVars,
          replayVars, ghostVars, Recovering
  <1>1. CASE ~Recovering'
    BY <1>1, Zenon DEF RecoverySequence
  <1>2. CASE RecoverManifest
    <2>1. /\ phase' \in {"replay", "corrupt"} /\ UNCHANGED tabVars /\ current # 0
          /\ version' = Written.files /\ lastSequence' = Written.seq
          /\ replayTables' = {} /\ mem' = {}
      BY <1>2, Zenon DEF RecoverManifest, Control, Written
    <2>2. Tables(version)' = Tables(Written.files) /\ Tables(replayTables)' = {}
      BY <2>1, Zenon DEF Tables
    <2> QED
      BY <2>1, <2>2, Zenon DEF Sequence, DescriptorSequence, RecoverySequence,
         AtMost
  <1>3. CASE RecoverLogFile \/ ReplayDone
    BY <1>3, Zenon DEF RecoverLogFile, ReplayDone, Sequence, RecoverySequence,
       Tables, AtMost
  <1>4. CASE ReplayRecord
    <2>1. PICK s \in replayRest : mem' = mem \cup {s}
                                  /\ maxSequence' = Larger(maxSequence, s)
      BY <1>4, ZenonT(60) DEF ReplayRecord
    <2>2. /\ s \in Nat /\ maxSequence' \in Nat
          /\ s <= maxSequence' /\ maxSequence <= maxSequence'
      BY <2>1, SequenceTypes DEF TypeOK, Larger
    <2>3. /\ phase = "replay" /\ UNCHANGED <<phase, tabVars, version, lastSequence, replayTables>>
          /\ Tables(version)' = Tables(version)
          /\ Tables(replayTables)' = Tables(replayTables)
      BY <1>4, ZenonT(60) DEF ReplayRecord, Tables
    <2>4. AtMost(Tables(replayTables) \cup mem, maxSequence)
      BY <2>3, Zenon DEF Sequence, RecoverySequence
    <2>5. \A x \in Tables(replayTables) \cup mem : x \in Nat /\ x <= maxSequence'
      BY <2>2, <2>4, SequenceTypes DEF AtMost
    <2> QED
      BY <2>1, <2>2, <2>3, <2>5, Zenon DEF Sequence, RecoverySequence, AtMost
  <1>5. CASE ReplayFlush
    <2>1. /\ phase = "replay" /\ UNCHANGED <<phase, version, lastSequence, maxSequence>>
          /\ nextFileNumber \in FileNo /\ nextFileNumber \in Nat
          /\ tabData' = [tabData EXCEPT ![nextFileNumber] = mem]
          /\ tabFiles' = tabFiles \cup {nextFileNumber}
          /\ replayTables' = replayTables \cup {nextFileNumber}
          /\ mem' = {} /\ current # 0 /\ version = Written.files
      BY <1>5, BoundsAssumption, SMTT(60) DEF ReplayFlush, TypeOK, FileNo,
         Creation, Recovery
    <2>2. \A t \in replayTables : t # nextFileNumber /\ t \in tabFiles /\ t \in FileNo
      BY <2>1, DescriptorTypes, SMTT(60) DEF Recovery, TypeOK
    <2>3. Tables(replayTables)' \subseteq Tables(replayTables) \cup mem
      BY <2>1, <2>2 DEF Tables, TypeOK
    <2>4. Tables(version)' \subseteq Tables(version)
      <3>1. \A t \in version : t \in tabFiles /\ tabData'[t] = tabData[t]
        BY <2>1, DescriptorTablesFixed, ZenonT(60)
      <3> QED
        BY <2>1, <3>1 DEF Tables
    <2> QED
      BY <2>1, <2>3, <2>4, ZenonT(60) DEF Sequence, RecoverySequence, AtMost
  <1>6. CASE OpenNewLog
    <2>1. /\ phase = "replay" /\ phase' = "install"
          /\ UNCHANGED <<tabVars, version, replayTables, mem>>
          /\ Tables(version)' = Tables(version)
          /\ Tables(replayTables)' = Tables(replayTables)
          /\ logfileNumber' = nextFileNumber /\ nextFileNumber \in FileNo
          /\ logFiles' = logFiles \cup {nextFileNumber} /\ replayLogs = {}
      BY <1>6 DEF OpenNewLog, Tables, TypeOK, FileNo
    <2>2. lastSequence <= lastSequence' /\ maxSequence <= lastSequence'
          /\ lastSequence' \in Nat
      BY <1>6, SequenceTypes DEF OpenNewLog, RecoveredSequence, Larger
    <2>3. logData'[logfileNumber'] = {}
      BY <1>6, <2>1, ZenonT(60) DEF OpenNewLog, TypeOK
    <2>4. \A n \in logFiles' : n <= logfileNumber'
      BY <2>1, DescriptorTypes DEF Recovery, TypeOK
    <2>5. /\ \A s \in Tables(version) : s \in Nat /\ s <= lastSequence
          /\ \A s \in Tables(replayTables) \cup mem : s \in Nat /\ s <= maxSequence
      BY <2>1, SequenceTypes, ZenonT(60) DEF Sequence, RecoverySequence, AtMost
    <2> QED
      BY <2>1, <2>2, <2>3, <2>4, <2>5, SequenceTypes, SMTT(60) DEF
         RecoverySequence, AtMost
  <1>7. CASE OpenWriteManifest
    BY <1>7, Zenon DEF OpenWriteManifest, Sequence, RecoverySequence, Tables, AtMost
  <1> QED
    BY <1>1, <1>2, <1>3, <1>4, <1>5, <1>6, <1>7, RecoverySteps, Zenon

(* LogAndApply records a last sequence number that covers the tables the   *)
(* edit adds.                                                              *)
LEMMA EditSequenceStep ==
  ASSUME TypeOK, TypeOK', Control, Creation, Manifest, Recovery, Numbers, Updates,
         EditOK, NewTables, Sequence, Next
  PROVE  EditSequence'
  <1> USE DEF logVars, tabVars, dscVars, memVars, vsetVars, writerVars, jobVars,
          replayVars, ghostVars, Editing
  <1>1. CASE ~Editing'
    BY <1>1, Zenon DEF EditSequence
  <1>2. ASSUME UNCHANGED <<edit, tabVars, Written, bgpc>>, lastSequence' >= lastSequence
        PROVE  EditSequence'
    <2>1. Tables(edit.add)' = Tables(edit.add)
      BY <1>2, Zenon DEF Tables
    <2>2. edit.seq <= lastSequence => edit.seq <= lastSequence'
      <3>1. lastSequence' \in 0..MaxSeq
        BY Zenon DEF TypeOK
      <3> QED
        BY <1>2, <3>1, SequenceTypes, BoundsAssumption
    <2> QED
      BY <1>2, <2>1, <2>2, ZenonT(60) DEF Sequence, EditSequence, AtMost
  <1>3. CASE Writer \/ Reader
    <2>1. /\ UNCHANGED <<edit, tabVars, Written, bgpc>>
          /\ lastSequence' \in {lastSequence, lastSequence + 1}
      BY <1>3, ZenonT(60) DEF Writer, WriteBegin, AddRecord, AddRecordFails,
         SyncLog, SyncLogFails, WriteFinish, SwitchMemTable, Reader,
         PinVersion, UnpinVersion, Written
    <2>2. lastSequence' >= lastSequence
      BY <2>1, SequenceTypes, SMTT(60)
    <2> QED
      BY <1>2, <2>1, <2>2, ZenonT(60)
  <1>4. CASE Crash \/ Open
    BY <1>1, <1>4, Zenon DEF Control, Crash, ProcessCrash, MachineCrash,
       MemoryLost, Open, NewDB, NewDBSetCurrent, RecoverManifest,
       RecoverLogFile, ReplayRecord, ReplayFlush, ReplayDone, OpenNewLog,
       OpenWriteManifest, OpenSetCurrent, OpenDone
  <1>5. CASE FlushStart \/ FlushBuildFails \/ CompactionStart
             \/ OpenCompactionOutputFile \/ CompactionFails \/ LogAndApplyFails
             \/ InstallFlush \/ InstallCompaction \/ InstallMove \/ RemoveDone
    BY <1>1, <1>5, ZenonT(60) DEF FlushStart, FlushBuildFails, CompactionStart,
       OpenCompactionOutputFile, CompactionFails, LogAndApplyFails,
       InstallFlush, InstallCompaction, InstallMove, RemoveDone, AfterFlush
  <1>6. CASE RemoveFile
    BY <1>1, <1>6, Zenon DEF RemoveFile, Control
  <1>7. ASSUME Running, UNCHANGED <<Written, lastSequence>>,
               edit'.seq = lastSequence,
               AtMost(Tables(edit.add)', lastSequence)
        PROVE  EditSequence'
    BY <1>7, SequenceTypes DEF EditSequence, Sequence, RunningSequence
  <1>8. CASE FlushBuild
    <2>1. /\ Running /\ UNCHANGED <<Written, lastSequence, tabFiles>>
          /\ edit'.seq = lastSequence
          /\ edit'.add \subseteq {flushNumber} /\ tabData'[flushNumber] = imm
      BY <1>8, Zenon DEF FlushBuild, FlushEdit, Control, Running, Written,
         TypeOK
    <2>2. Tables(edit.add)' \subseteq imm
      BY <2>1, Zenon DEF Tables
    <2> QED
      BY <1>7, <2>1, <2>2, Zenon DEF Sequence, RunningSequence, AtMost
  <1>9. CASE TrivialMove
    <2>1. PICK f \in version :
            edit' = [add |-> {f}, del |-> {f}, log |-> logNumber,
                     next |-> nextFileNumber, seq |-> lastSequence]
      BY <1>9, Zenon DEF TrivialMove
    <2>2. /\ Running /\ UNCHANGED <<Written, lastSequence, tabVars>> /\ current # 0
          /\ edit'.seq = lastSequence /\ edit'.add = {f}
      BY <1>9, <2>1, Zenon DEF TrivialMove, Running, Written, Creation
    <2>3. Tables(edit.add)' \subseteq Tables(Written.files)
      <3>1. Tables(edit.add)' \subseteq Tables(version)
        BY <2>1, <2>2, SMTT(60) DEF Tables
      <3> QED
        BY <2>2, <3>1, Zenon DEF Updates
    <2>4. AtMost(Tables(Written.files), lastSequence)
      <3>1. AtMost(Tables(Written.files), Written.seq) /\ Written.seq <= lastSequence
        BY <2>2, Zenon DEF Sequence, DescriptorSequence, RunningSequence
      <3>2. Tables(Written.files) \subseteq Nat
        BY SequenceTypes, Zenon
      <3> QED
        BY <3>1, <3>2, SequenceTypes DEF AtMost
    <2> QED
      BY <1>7, <2>2, <2>3, <2>4, Zenon DEF AtMost
  <1>10. CASE FinishCompaction
    <2>1. /\ Running /\ UNCHANGED <<Written, lastSequence, tabFiles>>
          /\ edit'.seq = lastSequence /\ edit'.add = {output}
          /\ tabData'[output] = UNION {tabData[t] : t \in inputs}
      BY <1>10, Zenon DEF FinishCompaction, Control, Running, Written, TypeOK
    <2>2. Tables(edit.add)' \subseteq UNION {tabData[t] : t \in inputs}
      BY <2>1, Zenon DEF Tables
    <2> QED
      BY <1>7, <2>1, <2>2, SMTT(60) DEF Sequence, InputsSequence, AtMost
  <1>11. CASE ManifestAppend
    <2>1. manifestFileNumber = current
      BY <1>11, Zenon DEF ManifestAppend, Numbers, Running, Control
    <2>2. Written'.seq = edit.seq
      BY <1>11, <2>1, Zenon DEF ManifestAppend, Written, TypeOK, Apply
    <2>3. Tables(edit.add)' = Tables(edit.add)
      BY <1>11, Zenon DEF ManifestAppend, Tables
    <2> QED
      <3>1. Editing /\ UNCHANGED <<edit, lastSequence>>
        BY <1>11, Zenon DEF ManifestAppend
      <3> QED
        BY <2>2, <2>3, <3>1, SequenceTypes DEF Sequence, EditSequence
  <1> QED
    BY <1>3, <1>4, <1>5, <1>6, <1>8, <1>9, <1>10, <1>11, ZenonT(60) DEF Next,
       Background

(* The inputs of a compaction hold no sequence number above                *)
(* last_sequence_.                                                         *)
LEMMA InputsSequenceStep ==
  ASSUME TypeOK, TypeOK', Control, Creation, Numbers, Updates, Sequence, Next
  PROVE  InputsSequence'
  <1> USE DEF logVars, tabVars, dscVars, memVars, vsetVars, writerVars, jobVars,
          replayVars, ghostVars
  <1>1. CASE inputs' = {}
    BY <1>1, Zenon DEF InputsSequence
  <1>2. ASSUME inputs' \subseteq inputs, phase = "open", phase' = "open",
               lastSequence' >= lastSequence,
               \A t \in inputs : AtMost(tabData'[t], lastSequence)
        PROVE  InputsSequence'
    <2>1. ASSUME NEW t \in inputs', NEW s \in tabData'[t] PROVE s <= lastSequence'
      <3>1. t \in FileNo /\ lastSequence' \in Nat /\ s \in Nat
        BY BoundsAssumption DEF TypeOK, Seqs
      <3>2. s <= lastSequence
        BY <1>2, Zenon DEF AtMost
      <3> QED
        BY <1>2, <3>1, <3>2, SequenceTypes, SMTT(60)
    <2> QED
      BY <1>2, <2>1, Zenon DEF InputsSequence, AtMost
  <1>3. CASE Writer \/ Reader
    <2>1. /\ UNCHANGED <<inputs, tabData, phase>>
          /\ lastSequence' \in {lastSequence, lastSequence + 1}
      BY <1>3, Zenon DEF Writer, WriteBegin, AddRecord, AddRecordFails,
         SyncLog, SyncLogFails, WriteFinish, SwitchMemTable, Reader,
         PinVersion, UnpinVersion
    <2>2. lastSequence' >= lastSequence
      BY <2>1, SequenceTypes
    <2> QED
      BY <1>1, <1>2, <2>1, <2>2, Zenon DEF Sequence, InputsSequence
  <1>4. CASE FlushBuildFails \/ TrivialMove \/ ManifestAppend \/ InstallFlush
             \/ InstallMove \/ RemoveFile \/ RemoveDone
    <2>1. UNCHANGED <<inputs, tabData, phase, lastSequence>>
      BY <1>4, Zenon DEF FlushBuildFails, TrivialMove, ManifestAppend,
         InstallFlush, InstallMove, RemoveFile, RemoveDone
    <2> QED
      BY <1>1, <1>2, <2>1, SequenceTypes, Zenon DEF Sequence, InputsSequence
  <1>5. CASE CompactionFails \/ InstallCompaction \/ Crash
    BY <1>1, <1>5, Zenon DEF CompactionFails, InstallCompaction, Crash,
       ProcessCrash, MachineCrash, MemoryLost
  <1>6. CASE LogAndApplyFails
    <2>1. inputs' \subseteq inputs /\ UNCHANGED <<tabData, phase, lastSequence>>
      BY <1>6, Zenon DEF LogAndApplyFails
    <2> QED
      BY <1>1, <1>2, <2>1, SequenceTypes, Zenon DEF Sequence, InputsSequence
  <1>7. CASE FlushStart \/ OpenCompactionOutputFile
    <2>1. /\ UNCHANGED <<inputs, phase, lastSequence>> /\ phase = "open"
          /\ nextFileNumber \in FileNo
          /\ tabData' = [tabData EXCEPT ![nextFileNumber] = {}]
      BY <1>7, ZenonT(60) DEF FlushStart, OpenCompactionOutputFile, Control,
         TypeOK, FileNo
    <2>2. \A t \in inputs : tabData'[t] \subseteq tabData[t]
      BY <2>1, Zenon DEF TypeOK
    <2> QED
      BY <1>2, <2>1, <2>2, SequenceTypes, Zenon DEF Sequence, InputsSequence,
         AtMost
  <1>8. CASE FlushBuild
    <2>1. /\ UNCHANGED <<inputs, phase, lastSequence>> /\ phase = "open"
          /\ tabData' = [tabData EXCEPT ![flushNumber] = imm]
      BY <1>8, Zenon DEF FlushBuild, Control
    <2>2. \A t \in inputs : tabData'[t] = tabData[t] \/ tabData'[t] = imm
      BY <2>1, Zenon DEF TypeOK
    <2>3. AtMost(imm, lastSequence)
      BY <2>1, Zenon DEF Sequence, RunningSequence, Running, AtMost
    <2> QED
      BY <1>2, <2>1, <2>2, <2>3, SequenceTypes, Zenon DEF Sequence,
         InputsSequence
  <1>9. CASE FinishCompaction
    <2>1. /\ UNCHANGED <<inputs, phase, lastSequence>> /\ phase = "open"
          /\ tabData' = [tabData EXCEPT ![output] = UNION {tabData[t] : t \in inputs}]
      BY <1>9, Zenon DEF FinishCompaction, Control
    <2>2. \A t \in inputs : \/ tabData'[t] = tabData[t]
                            \/ tabData'[t] = UNION {tabData[u] : u \in inputs}
      BY <2>1, Zenon DEF TypeOK
    <2>3. AtMost(UNION {tabData[u] : u \in inputs}, lastSequence)
      BY Zenon DEF Sequence, InputsSequence, AtMost
    <2> QED
      BY <1>2, <2>1, <2>2, <2>3, SequenceTypes, Zenon DEF Sequence,
         InputsSequence
  <1>10. CASE CompactionStart
    <2>1. /\ inputs' \subseteq version /\ phase = "open" /\ Running /\ current # 0
          /\ UNCHANGED <<tabData, lastSequence, phase>>
      BY <1>10, Zenon DEF CompactionStart, Running, Creation
    <2>2. \A t \in inputs' : tabData[t] \subseteq Tables(version)
      BY <2>1, ZenonT(60) DEF Tables, Numbers
    <2>3. AtMost(Tables(version), lastSequence)
      <3>1. AtMost(Tables(Written.files), Written.seq) /\ Written.seq <= lastSequence
        BY <2>1, Zenon DEF Sequence, DescriptorSequence, RunningSequence
      <3> QED
        BY <2>1, <3>1, SequenceTypes DEF Updates, AtMost
    <2> QED
      BY <2>1, <2>2, <2>3, Zenon DEF InputsSequence, AtMost
  <1>11. CASE Open
    <2>1. phase # "open" /\ UNCHANGED inputs
      BY <1>11, ZenonT(60) DEF Open, NewDB, NewDBSetCurrent, RecoverManifest,
         RecoverLogFile, ReplayRecord, ReplayFlush, ReplayDone, OpenNewLog,
         OpenWriteManifest, OpenSetCurrent, OpenDone
    <2> QED
      BY <1>1, <2>1, Zenon DEF Sequence, InputsSequence
  <1> QED
    BY <1>3, <1>4, <1>5, <1>6, <1>7, <1>8, <1>9, <1>10, <1>11, Zenon
    DEF Next, Background

(* Logs hold natural numbers.                                              *)
LEMMA OldLogsTypes ==
  ASSUME TypeOK
  PROVE  OldLogs(logData) \subseteq Nat
  BY SequenceTypes, Zenon DEF OldLogs, TypeOK

(* DBImpl::Write takes the next sequence number and keeps last_sequence_   *)
(* above all others, also when the log fails.                              *)
LEMMA RunningSequenceWriter ==
  ASSUME TypeOK, TypeOK', Control, Numbers, Sequence, Writer
  PROVE  RunningSequence'
  <1> USE DEF logVars, tabVars, dscVars, memVars, vsetVars, writerVars, jobVars,
          replayVars, ghostVars
  <1>0. /\ Running /\ UNCHANGED <<Written, Durable, logNumber>>
        /\ lastSequence' \in {lastSequence, lastSequence + 1}
    BY Zenon DEF Control, Running, Writer, WriteBegin, AddRecord,
       AddRecordFails, SyncLog, SyncLogFails, WriteFinish, SwitchMemTable,
       CanSwitch, Written, Durable
  <1>1. /\ Written.seq <= lastSequence /\ Durable.seq <= lastSequence
        /\ AtMost(mem \cup imm, lastSequence)
        /\ AtMost(OldLogs(logData), HighestSequence)
        /\ Written.log >= logNumber
    BY <1>0, ZenonT(60) DEF Sequence, RunningSequence
  <1>2. /\ lastSequence \in Nat /\ lastSequence' \in Nat
        /\ lastSequence <= lastSequence'
    BY <1>0, SequenceTypes
  <1>3. ASSUME \A s \in (mem \cup imm)' : s \in mem \cup imm \/ s <= lastSequence',
               \A s \in OldLogs(logData)' :
                  s \in OldLogs(logData) \/ s <= HighestSequence',
               HighestSequence <= HighestSequence'
        PROVE  RunningSequence'
    <2>1. AtMost((mem \cup imm)', lastSequence')
      BY <1>1, <1>2, <1>3, SequenceTypes DEF AtMost
    <2>2. HighestSequence \in Nat /\ HighestSequence' \in Nat
      <3>1. /\ \A n \in Nat : n + 1 \in Nat
            /\ lastSequence \in Nat /\ lastSequence' \in Nat
        <4>1. \A n \in Nat : n + 1 \in Nat
          OBVIOUS
        <4> QED
          BY <1>2, <4>1, Zenon
      <3>2. HighestSequence = lastSequence \/ HighestSequence = lastSequence + 1
        BY Zenon DEF HighestSequence
      <3>3. HighestSequence' = lastSequence' \/ HighestSequence' = lastSequence' + 1
        BY Zenon DEF HighestSequence
      <3> QED
        BY <3>1, <3>2, <3>3, Zenon
    <2>3. AtMost(OldLogs(logData)', HighestSequence')
      <3>1. ASSUME NEW s \in OldLogs(logData)
            PROVE  s <= HighestSequence'
        <4>1. s \in Nat /\ s <= HighestSequence
          BY <1>1, OldLogsTypes, Zenon DEF AtMost
        <4>2. HighestSequence <= HighestSequence'
          BY <1>3, ZenonT(60)
        <4> QED
          BY <2>2, <4>1, <4>2
      <3> QED
        BY <1>3, <3>1, Zenon DEF AtMost
    <2>4. Written'.seq <= lastSequence' /\ Durable'.seq <= lastSequence'
      BY <1>0, <1>1, <1>2, SequenceTypes, SMTT(60)
    <2> QED
      BY <1>0, <1>1, <2>1, <2>3, <2>4, ZenonT(60) DEF RunningSequence, AtMost
  <1>4. CASE AddRecord
    <2>1. /\ OldLogs(logData)' \subseteq OldLogs(logData) \cup {lastSequence + 1}
          /\ UNCHANGED <<mem, imm, lastSequence>>
      BY <1>4 DEF AddRecord, OldLogs, TypeOK
    <2>2. HighestSequence' = lastSequence + 1 /\ HighestSequence = lastSequence
      BY <1>4, Zenon DEF AddRecord, HighestSequence
    <2> QED
      BY <1>2, <1>3, <2>1, <2>2, SMTT(60)
  <1>5. CASE AddRecordFails \/ SyncLog \/ SyncLogFails
             \/ \E sync \in BOOLEAN : WriteBegin(sync)
    <2>1. UNCHANGED <<mem, imm, OldLogs(logData)>>
      BY <1>5, Zenon DEF AddRecordFails, SyncLog, SyncLogFails, WriteBegin,
         OldLogs
    <2>2. HighestSequence <= HighestSequence'
      <3>1. CASE AddRecordFails \/ \E sync \in BOOLEAN : WriteBegin(sync)
        <4>1. HighestSequence = lastSequence /\ HighestSequence' = lastSequence'
          BY <3>1, Zenon DEF AddRecordFails, WriteBegin, HighestSequence
        <4> QED
          BY <1>2, <4>1, Zenon
      <3>2. CASE SyncLog
        BY <1>2, <3>2 DEF SyncLog, HighestSequence
      <3>3. CASE SyncLogFails
        BY <1>2, <3>3 DEF SyncLogFails, HighestSequence
      <3> QED
        BY <1>5, <3>1, <3>2, <3>3, Zenon
    <2> QED
      BY <1>3, <2>1, <2>2, Zenon
  <1>6. CASE WriteFinish
    <2>1. /\ UNCHANGED <<imm, OldLogs(logData)>> /\ mem' = mem \cup {lastSequence + 1}
          /\ lastSequence' = lastSequence + 1
      BY <1>6, Zenon DEF WriteFinish, OldLogs
    <2>2. HighestSequence = lastSequence + 1 /\ HighestSequence' = lastSequence + 1
      BY <1>6, Zenon DEF WriteFinish, HighestSequence
    <2> QED
      BY <1>2, <1>3, <2>1, <2>2
  <1>7. ASSUME NEW closeOk \in BOOLEAN, SwitchMemTable(closeOk)
        PROVE  RunningSequence'
    <2>1. /\ (mem \cup imm)' \subseteq mem \cup imm
          /\ UNCHANGED <<lastSequence, HighestSequence>>
      BY <1>7, Zenon DEF SwitchMemTable, HighestSequence
    <2>2. nextFileNumber \in FileNo
      BY <1>7, ZenonT(60) DEF SwitchMemTable, TypeOK, FileNo
    <2>3. OldLogs(logData)' \subseteq OldLogs(logData)
      BY <1>7, <2>2 DEF SwitchMemTable, OldLogs, TypeOK
    <2>4. HighestSequence <= HighestSequence'
      BY <1>2, <2>1 DEF HighestSequence
    <2> QED
      BY <1>3, <2>1, <2>3, <2>4, Zenon
  <1> QED
    BY <1>4, <1>5, <1>6, <1>7, Zenon DEF Writer

(* Every step of a running database keeps last_sequence_ above the updates *)
(* in memory and logs.                                                     *)
LEMMA RunningSequenceStep ==
  ASSUME TypeOK, TypeOK', Control, Creation, Manifest, Recovery, Numbers, EditOK,
         Sequence, Next
  PROVE  RunningSequence'
  <1> USE DEF logVars, tabVars, dscVars, memVars, vsetVars, writerVars, jobVars,
          replayVars, ghostVars
  <1>1. CASE ~Running'
    BY <1>1, Zenon DEF RunningSequence
  <1>2. ASSUME Running, UNCHANGED <<lastSequence, mem, wpc, logData>>,
               imm' \subseteq imm, logFiles' \subseteq logFiles,
               \A n \in logFiles' : n >= logNumber' => n >= logNumber,
               Written'.seq <= lastSequence, Durable'.seq <= lastSequence,
               Written'.log >= logNumber'
        PROVE  RunningSequence'
    <2>1. OldLogs(logData)' \subseteq OldLogs(logData) /\ HighestSequence' = HighestSequence
      BY <1>2, Zenon DEF OldLogs, HighestSequence
    <2> QED
      BY <1>2, <2>1, Zenon DEF Sequence, RunningSequence, AtMost
  <1>3. CASE FlushStart \/ FlushBuild \/ FlushBuildFails \/ CompactionStart
             \/ TrivialMove \/ OpenCompactionOutputFile \/ FinishCompaction
             \/ CompactionFails \/ LogAndApplyFails \/ RemoveDone \/ Reader
             \/ RemoveFile \/ OpenDone
    <2>1. /\ Running /\ UNCHANGED <<lastSequence, mem, wpc, logData, imm,
                                    logNumber, Written, Durable>>
          /\ logFiles' \subseteq logFiles
      BY <1>3, ZenonT(60) DEF FlushStart, FlushBuild, FlushBuildFails,
         CompactionStart, TrivialMove, OpenCompactionOutputFile,
         FinishCompaction, CompactionFails, LogAndApplyFails, RemoveDone,
         Reader, PinVersion, UnpinVersion, RemoveFile, OpenDone, Control,
         Running, Written, Durable
    <2> QED
      BY <1>2, <2>1, Zenon DEF Sequence, RunningSequence
  <1>4. CASE ManifestAppend
    <2>1. /\ Running /\ Editing /\ manifestFileNumber = current
          /\ UNCHANGED <<lastSequence, mem, wpc, logData, imm, logNumber,
                         logFiles, current>>
      BY <1>4, ZenonT(60) DEF ManifestAppend, Control, Running, Editing,
         Numbers
    <2>2. Written'.seq = edit.seq /\ Written'.log = edit.log /\ Durable' = Durable
      <3>1. Written' = Apply(Written, edit) /\ Durable' = Durable
        BY <1>4, <2>1, ManifestAppended, Zenon
      <3> QED
        BY <3>1, Zenon DEF Apply
    <2>3. edit.log >= logNumber
      BY <2>1, NumberTypes DEF EditOK, Numbers
    <2> QED
      BY <1>2, <2>1, <2>2, <2>3, Zenon DEF Sequence, RunningSequence,
         EditSequence
  <1>5. CASE InstallFlush \/ InstallCompaction \/ InstallMove
    <2>1. /\ Running /\ Editing /\ manifestFileNumber = current /\ bgpc = "sync"
          /\ UNCHANGED <<lastSequence, mem, wpc, logData, logFiles, current>>
          /\ imm' \subseteq imm /\ logNumber' = edit.log
      BY <1>5, ZenonT(60) DEF InstallFlush, InstallCompaction, InstallMove,
         ManifestSync, Control, Running, Editing, Numbers
    <2>2. Written' = Written /\ Durable' = Written
      BY <1>5, <2>1, ManifestInstalled, Zenon
    <2>3. edit.log >= logNumber /\ edit.log \in Nat /\ Written.log = edit.log
      BY <2>1, NumberTypes DEF EditOK, Numbers
    <2>4. \A n \in logFiles' : n >= logNumber' => n >= logNumber
      <3>1. logFiles' \subseteq Nat
        BY <2>1, DescriptorTypes, Zenon DEF TypeOK
      <3> QED
        BY <2>1, <2>3, <3>1, NumberTypes
    <2> QED
      BY <1>2, <2>1, <2>2, <2>3, <2>4 DEF Sequence, RunningSequence
  <1>6. CASE Crash \/ NewDB \/ NewDBSetCurrent \/ RecoverManifest
             \/ RecoverLogFile \/ ReplayRecord \/ ReplayFlush \/ ReplayDone
             \/ OpenNewLog \/ OpenWriteManifest
    BY <1>1, <1>6, Zenon DEF Running, Crash, ProcessCrash, MachineCrash, NewDB,
       NewDBSetCurrent, RecoverManifest, RecoverLogFile, ReplayRecord,
       ReplayFlush, ReplayDone, OpenNewLog, OpenWriteManifest
  <1>7. CASE OpenSetCurrent
    <2>0. /\ Recovering /\ phase = "current" /\ mem = {} /\ imm = {}
          /\ UNCHANGED <<lastSequence, mem, imm, logFiles, logData, logfileNumber>>
          /\ logNumber' = logfileNumber
      BY <1>7, Zenon DEF OpenSetCurrent, Recovering, Control
    <2>1. /\ Written'.seq = lastSequence /\ Written'.log = logfileNumber
          /\ Durable' = Written'
      BY <1>7, CurrentSwitched, Zenon
    <2>2. /\ logData[logfileNumber] = {} /\ \A n \in logFiles : n <= logfileNumber
      BY <2>0, ZenonT(60) DEF Sequence, RecoverySequence
    <2>3. OldLogs(logData)' = {}
      <3>1. \A n \in logFiles : n >= logfileNumber => n = logfileNumber
        BY <2>2, DescriptorTypes, SMTT(60) DEF TypeOK
      <3> QED
        BY <2>0, <2>2, <3>1, ZenonT(60) DEF OldLogs
    <2>4. lastSequence \in Nat /\ logfileNumber \in Nat
      BY SequenceTypes, DescriptorTypes, ZenonT(60) DEF TypeOK
    <2> QED
      BY <2>0, <2>1, <2>3, <2>4 DEF RunningSequence, AtMost
  <1> QED
    BY <1>3, <1>4, <1>5, <1>6, <1>7, RunningSequenceWriter, Zenon DEF Next,
       Background, Open

(* An empty directory holds no sequence numbers.                           *)
LEMMA SequenceInit == Init => Sequence
  BY Zenon DEF Init, MemoryInit, Sequence, DescriptorSequence,
     RecoverySequence, Recovering, InputsSequence, RunningSequence, Running,
     EditSequence, Editing

(* Every step keeps the sequence numbers in use covered.                   *)
LEMMA SequenceStep == Inv /\ Sequence /\ TypeOK' /\ [Next]_vars => Sequence'
  <1>1. ASSUME Inv, Sequence, TypeOK', Next PROVE Sequence'
    BY <1>1, DescriptorSequenceStep, RecoverySequenceStep, InputsSequenceStep,
       RunningSequenceStep, EditSequenceStep, ZenonT(60) DEF Inv, Sequence
  <1> QED
    BY <1>1, SequenceStutter, Zenon

(* The sequence numbers in use are covered through any history of crashes, *)
(* failed writes and recoveries: those in tables by the descriptors, those *)
(* that recovery replays by max_sequence, the rest by last_sequence_ or by *)
(* the next one for the update that DBImpl::Write is writing.              *)
THEOREM SequenceHolds == Spec => []Sequence
  BY SequenceInit, SequenceStep, InvHolds, TypeCorrect, PTL DEF Spec

(* A new write never takes a sequence number that recovery could bring     *)
(* back, after any history of crashes, failed writes and flushes.          *)
THEOREM SequenceNumbersFresh == Spec => []NoSequenceReuse
  <1>1. TypeOK /\ Inv /\ Sequence => NoSequenceReuse
    <2> SUFFICES ASSUME TypeOK, Inv, Sequence, phase = "open",
                        wpc \in {"idle", "append"},
                        NEW s \in Recoverable(dscWritten[current], logData)
                 PROVE  s <= lastSequence
      BY Zenon DEF NoSequenceReuse
    <2>1. Running /\ current # 0 /\ HighestSequence = lastSequence
      BY Zenon DEF Running, Inv, Creation, HighestSequence
    <2>2. CASE s \in Tables(Written.files)
      <3>1. s <= Written.seq /\ Written.seq <= lastSequence
        BY <2>1, <2>2, Zenon DEF Sequence, DescriptorSequence, RunningSequence,
           AtMost
      <3>2. s \in Nat /\ Written.seq \in Nat /\ lastSequence \in Nat
        BY <2>2, SequenceTypes, Zenon
      <3> QED
        BY <3>1, <3>2
    <2>3. CASE s \in UNION {logData[n] : n \in {m \in logFiles : m >= Written.log}}
      <3>1. s \in OldLogs(logData)
        <4>1. Written.log >= logNumber /\ logFiles \subseteq Nat
          BY <2>1, DescriptorTypes, Zenon DEF Sequence, RunningSequence, TypeOK
        <4>2. Written.log \in Nat /\ logNumber \in Nat
          BY DescriptorTypes, NumberTypes, Zenon
        <4>3. \A n \in Nat : n >= Written.log => n >= logNumber
          BY <4>1, <4>2
        <4> QED
          BY <2>3, <4>1, <4>3, Zenon DEF OldLogs
      <3> QED
        BY <2>1, <3>1, SequenceTypes, Zenon DEF Sequence, RunningSequence,
           AtMost
    <2> QED
      BY <2>2, <2>3, Zenon DEF Recoverable, Written
  <1> QED
    BY <1>1, SequenceHolds, InvHolds, TypeCorrect, PTL
=============================================================================
