------------------------- MODULE DurabilityProofs -------------------------
(* Proofs, for every value of the constants, that every step of Durability *)
(* keeps the part of its invariant that is about the phases, the MANIFESTs *)
(* and the promised updates, and about recoveries, file numbers and the    *)
(* updates in memory; and that every state has its types.                  *)
EXTENDS Durability, TLAPS

(* Phases, MANIFESTs and promises. *)

(* Descriptors and edits hold numbers and sets of file numbers.            *)
LEMMA DescriptorTypes ==
  ASSUME TypeOK
  PROVE  /\ Written \in Descriptor /\ Durable \in Descriptor
         /\ Written.next \in Nat /\ Written.log \in Nat
         /\ Durable.next \in Nat /\ Durable.log \in Nat
         /\ Written.files \subseteq FileNo /\ Durable.files \subseteq FileNo
         /\ FileNo \subseteq Nat
  <1>1. Written \in Descriptor /\ Durable \in Descriptor
    BY Zenon DEF TypeOK, Written, Durable
  <1>2. FileNo \subseteq Nat /\ 0..MaxFile + 1 \subseteq Nat
    BY BoundsAssumption DEF FileNo
  <1>3. ASSUME NEW d \in Descriptor
        PROVE  d.next \in Nat /\ d.log \in Nat /\ d.files \subseteq FileNo
    BY <1>2, Zenon DEF Descriptor
  <1> QED
    BY <1>1, <1>2, <1>3, Zenon

(* The file numbers of DBImpl and VersionSet are natural numbers.          *)
LEMMA NumberTypes ==
  ASSUME TypeOK
  PROVE  /\ current \in Nat /\ nextFileNumber \in Nat /\ logfileNumber \in Nat
         /\ edit.next \in Nat /\ edit.log \in Nat /\ edit.add \subseteq Nat
         /\ logNumber \in Nat
  <1>1. FileNo \subseteq Nat /\ 0..MaxFile + 1 \subseteq Nat
    BY BoundsAssumption DEF FileNo
  <1>2. ASSUME NEW e \in VersionEdit
        PROVE  e.next \in Nat /\ e.log \in Nat /\ e.add \subseteq Nat
    BY <1>1, Zenon DEF VersionEdit
  <1>3. /\ current \in FileNo /\ nextFileNumber \in 0..MaxFile + 1
        /\ logfileNumber \in FileNo /\ logNumber \in FileNo
        /\ edit \in VersionEdit
    BY Zenon DEF TypeOK
  <1> QED
    BY <1>1, <1>2, <1>3, Zenon

(* LogAndApply appends the edit to the MANIFEST that CURRENT names.        *)
LEMMA ManifestAppended ==
  ASSUME TypeOK, ManifestAppend, manifestFileNumber = current
  PROVE  Written' = Apply(Written, edit) /\ Durable' = Durable
  <1>1. /\ dscWritten' = [dscWritten EXCEPT ![current] = Apply(@, edit)]
        /\ dscSynced' = dscSynced /\ current' = current
    BY Zenon DEF ManifestAppend
  <1>2. current \in DOMAIN dscWritten
    BY Zenon DEF TypeOK
  <1> QED
    BY <1>1, <1>2, Zenon DEF Written, Durable

(* Once LogAndApply has synced it, what is written in the MANIFEST is      *)
(* durable.                                                                *)
LEMMA ManifestInstalled ==
  ASSUME TypeOK, InstallFlush \/ InstallCompaction \/ InstallMove,
         manifestFileNumber = current
  PROVE  Written' = Written /\ Durable' = Written
  <1>1. /\ dscSynced' = [dscSynced EXCEPT ![current] = dscWritten[current]]
        /\ dscWritten' = dscWritten /\ current' = current
    BY Zenon DEF InstallFlush, InstallCompaction, InstallMove, ManifestSync,
       ManifestAfterSync
  <1>2. current \in DOMAIN dscSynced
    BY Zenon DEF TypeOK
  <1> QED
    BY <1>1, <1>2, Zenon DEF Written, Durable

(* When DB::Open switches CURRENT, the new MANIFEST says what was          *)
(* recovered and is synced.                                                *)
LEMMA CurrentSwitched ==
  ASSUME Recovery, OpenSetCurrent
  PROVE  /\ Written' = [files |-> version \cup replayTables,
                        log |-> logfileNumber, next |-> nextFileNumber,
                        seq |-> lastSequence]
         /\ Written'.files = version \cup replayTables
         /\ Written'.log = logfileNumber /\ Written'.next = nextFileNumber
         /\ Written'.seq = lastSequence /\ Durable' = Written'
  <1>1. /\ Recovering /\ phase = "current"
        /\ Written' = dscWritten[manifestFileNumber]
        /\ Durable' = dscSynced[manifestFileNumber]
    BY Zenon DEF OpenSetCurrent, Recovering, Written, Durable
  <1>2. /\ Written' = [files |-> version \cup replayTables,
                       log |-> logfileNumber, next |-> nextFileNumber,
                       seq |-> lastSequence]
        /\ Durable' = Written'
    BY <1>1, Zenon DEF Recovery
  <1> QED
    BY <1>2, Zenon

(* Every step keeps writers, readers and jobs inside the time that the     *)
(* database is open.                                                       *)
LEMMA ControlStep ==
  ASSUME TypeOK, Control, Creation, Manifest, Recovery, Next
  PROVE  Control'
  <1> USE DEF logVars, tabVars, dscVars, memVars, vsetVars, writerVars, jobVars,
          replayVars, ghostVars, Control, Editing, Running, Recovering
  <1>1. CASE Writer
    BY <1>1, Zenon DEF Writer, WriteBegin, AddRecord, AddRecordFails, SyncLog,
       SyncLogFails, WriteFinish, SwitchMemTable, CanSwitch
  <1>2. CASE FlushStart \/ FlushBuild \/ FlushBuildFails
    BY <1>2, Zenon DEF FlushStart, FlushBuild, FlushBuildFails, AfterFlush,
       FlushEdit
  <1>3. CASE CompactionStart \/ TrivialMove \/ OpenCompactionOutputFile
             \/ FinishCompaction \/ CompactionFails
    BY <1>3, Zenon DEF CompactionStart, TrivialMove, OpenCompactionOutputFile,
       FinishCompaction, CompactionFails
  <1>4. CASE ManifestAppend \/ LogAndApplyFails \/ InstallMove
    BY <1>4, Zenon DEF ManifestAppend, LogAndApplyFails, InstallMove,
       ManifestSync, AfterFlush
  <1>5. CASE InstallFlush \/ InstallCompaction
    BY <1>5, Zenon DEF InstallFlush, InstallCompaction, ManifestSync
  <1>6. CASE RemoveFile \/ RemoveDone \/ Reader
    BY <1>6, SMTT(60) DEF RemoveFile, RemoveDone, AfterFlush, Reader,
       PinVersion, UnpinVersion
  <1>7. CASE Crash
    BY <1>7, ZenonT(60) DEF Crash, ProcessCrash, MachineCrash, MemoryLost
  <1>8. CASE NewDB \/ NewDBSetCurrent \/ RecoverLogFile \/ ReplayRecord
             \/ ReplayFlush \/ ReplayDone \/ OpenNewLog \/ OpenWriteManifest
             \/ OpenDone
    BY <1>8 DEF NewDB, NewDBSetCurrent, RecoverLogFile, ReplayRecord,
       ReplayFlush, ReplayDone, OpenNewLog, OpenWriteManifest, OpenDone, Recovery
  <1>9. CASE RecoverManifest
    BY <1>9, Zenon DEF RecoverManifest, Manifest, DescriptorOK, Written
  <1>10. CASE OpenSetCurrent
    BY <1>10, ZenonT(60) DEF OpenSetCurrent
  <1> QED
    BY <1>1, <1>2, <1>3, <1>4, <1>5, <1>6, <1>7, <1>8, <1>9, <1>10, Zenon
    DEF Next, Background, Open

(* Until CURRENT names the first MANIFEST nothing has been promised;       *)
(* afterwards it names one for good.                                       *)
LEMMA CreationStep ==
  ASSUME TypeOK, Control, Creation, Manifest, Numbers, Recovery, Next
  PROVE  Creation'
  <1> USE DEF logVars, tabVars, dscVars, memVars, vsetVars, writerVars, jobVars,
          replayVars, ghostVars, Control, Creation, Running, Recovering
  <1>1. CASE Writer
    BY <1>1, SMTT(60) DEF Writer, WriteBegin, AddRecord, AddRecordFails,
       SyncLog, SyncLogFails, WriteFinish, SwitchMemTable, CanSwitch, Numbers,
       TypeOK, FileNo
  <1>2. CASE FlushStart \/ FlushBuild \/ FlushBuildFails
    BY <1>2, Zenon DEF FlushStart, FlushBuild, FlushBuildFails
  <1>3. CASE CompactionStart \/ TrivialMove \/ OpenCompactionOutputFile
             \/ FinishCompaction \/ CompactionFails
    BY <1>3, Zenon DEF CompactionStart, TrivialMove, OpenCompactionOutputFile,
       FinishCompaction, CompactionFails
  <1>4. CASE ManifestAppend \/ LogAndApplyFails \/ InstallMove
             \/ InstallFlush \/ InstallCompaction
    BY <1>4, Zenon DEF ManifestAppend, LogAndApplyFails, InstallMove,
       ManifestSync, InstallFlush, InstallCompaction
  <1>6. CASE RemoveFile \/ RemoveDone \/ Reader
    BY <1>6, Zenon DEF RemoveFile, RemoveDone, Reader, PinVersion, UnpinVersion
  <1>7. CASE Crash
    BY <1>7, ZenonT(60) DEF Crash, ProcessCrash, MachineCrash, MemoryLost
  <1>8. CASE NewDB \/ NewDBSetCurrent \/ RecoverManifest \/ RecoverLogFile
             \/ ReplayRecord \/ ReplayFlush \/ ReplayDone \/ OpenDone
    BY <1>8, BoundsAssumption DEF NewDB, NewDBSetCurrent, RecoverManifest, RecoverLogFile,
       ReplayRecord, ReplayFlush, ReplayDone, OpenDone, TypeOK, FileNo
  <1>9. CASE OpenNewLog \/ OpenWriteManifest \/ OpenSetCurrent
    BY <1>9, SMTT(60) DEF OpenNewLog, OpenWriteManifest, OpenSetCurrent,
       Recovery, TypeOK, FileNo, Manifest, DescriptorOK, Written, Descriptor
  <1> QED
    BY <1>1, <1>2, <1>3, <1>4, <1>6, <1>7, <1>8, <1>9, ZenonT(60)
    DEF Next, Background, Open

(* Every step, LogAndApply's in particular, keeps the MANIFEST that        *)
(* CURRENT names complete, as written and as synced.                       *)
LEMMA ManifestStep ==
  ASSUME TypeOK, Control, Creation, Manifest, Recovery, Numbers, EditOK,
         NewTables, Garbage, Next
  PROVE  Manifest'
  <1> USE DEF logVars, tabVars, dscVars, memVars, vsetVars, writerVars, jobVars,
          replayVars, ghostVars
  <1>0. current # 0 => Written \in Descriptor /\ Durable \in Descriptor
    BY Zenon DEF TypeOK, Written, Durable
  <1>1. ASSUME UNCHANGED dscVars, tabFiles \subseteq tabFiles' PROVE Manifest'
    BY <1>1, Zenon DEF Manifest, DescriptorOK, Written, Durable
  <1>2. CASE Writer
    BY <1>1, <1>2, Zenon DEF Writer, WriteBegin, AddRecord, AddRecordFails,
       SyncLog, SyncLogFails, WriteFinish, SwitchMemTable
  <1>3. CASE FlushStart \/ FlushBuild
    BY <1>1, <1>3, Zenon DEF FlushStart, FlushBuild
  <1>4. CASE FlushBuildFails
    BY <1>4, Zenon DEF FlushBuildFails, NewTables, InUse, Manifest,
       DescriptorOK, Written, Durable
  <1>5. CASE CompactionStart \/ TrivialMove \/ OpenCompactionOutputFile
             \/ FinishCompaction \/ CompactionFails
    BY <1>1, <1>5, Zenon DEF CompactionStart, TrivialMove,
       OpenCompactionOutputFile, FinishCompaction, CompactionFails
  <1>6. CASE ManifestAppend
    <2>1. /\ manifestFileNumber = current /\ Editing
          /\ current # 0 /\ UNCHANGED <<current, dscFiles, tabFiles>>
      BY <1>6, Zenon DEF ManifestAppend, Numbers, Running, Control, Creation,
         Editing
    <2>2. Durable' = Durable /\ Written' = Apply(Written, edit)
      BY <1>6, <2>1, ManifestAppended, Zenon
    <2>3. /\ edit \in VersionEdit /\ current < Written.next
          /\ Written'.files = (Written.files \ edit.del) \cup edit.add
          /\ Written'.log = edit.log /\ Written'.next = edit.next
      BY <2>1, <2>2, Zenon DEF Apply, ApplyToFiles, Manifest, DescriptorOK,
         TypeOK
    <2>4. /\ \A f \in Written.files : f \in Nat /\ f < Written.next
          /\ Written.files \subseteq tabFiles
          /\ Written.next \in Nat /\ edit.next \in Nat /\ current \in Nat
          /\ Durable.next \in Nat
      BY <2>1, DescriptorTypes, NumberTypes, Zenon DEF Manifest, DescriptorOK
    <2>5. DescriptorOK(Written)'
      BY <2>1, <2>3, <2>4 DEF DescriptorOK, EditOK
    <2>6. DescriptorOK(Durable)'
      BY <2>1, <2>2, Zenon DEF DescriptorOK, Manifest
    <2> QED
      BY <2>1, <2>2, <2>3, <2>4, <2>5, <2>6 DEF Manifest, EditOK
  <1>7. CASE LogAndApplyFails
    BY <1>1, <1>7, Zenon DEF LogAndApplyFails
  <1>8. CASE InstallFlush \/ InstallCompaction \/ InstallMove
    <2>1. /\ manifestFileNumber = current
          /\ UNCHANGED <<current, dscFiles, tabFiles, dscWritten>>
          /\ dscSynced' = [dscSynced EXCEPT ![manifestFileNumber] =
                                              dscWritten[manifestFileNumber]]
      BY <1>8, Zenon DEF InstallFlush, InstallCompaction, InstallMove,
         ManifestSync, ManifestAfterSync, Numbers, Running, Control
    <2>2. Durable' = Written /\ Written' = Written
      BY <2>1, Zenon DEF Written, Durable, TypeOK
    <2>3. current # 0 => Written.next \in Nat
      BY <1>0 DEF Descriptor
    <2> QED
      BY <2>1, <2>2, <2>3 DEF Manifest, DescriptorOK
  <1>9. CASE RemoveFile
    BY <1>9, Zenon DEF RemoveFile, Manifest, DescriptorOK, Written, Durable,
       Garbage, DeletesOnlyGarbage
  <1>10. CASE RemoveDone \/ Reader
    BY <1>1, <1>10, Zenon DEF RemoveDone, Reader, PinVersion, UnpinVersion
  <1>11. CASE ProcessCrash
    BY <1>1, <1>11, Zenon DEF ProcessCrash
  <1>12. CASE MachineCrash
    <2>1. UNCHANGED <<current, dscFiles, tabFiles>>
      BY <1>12, Zenon DEF MachineCrash
    <2>2. Durable' = Written' /\ Written' \in {Written, Durable}
      BY <1>12, <2>1, Zenon DEF MachineCrash, Written, Durable
    <2>3. current # 0 => Written.next \in Nat /\ Durable.next \in Nat
      BY <1>0 DEF Descriptor
    <2> QED
      BY <2>1, <2>2, <2>3 DEF Manifest, DescriptorOK
  <1>13. CASE NewDB
    BY <1>13, Zenon DEF NewDB, Manifest
  <1>14. CASE NewDBSetCurrent
    BY <1>14, BoundsAssumption DEF NewDBSetCurrent, Manifest, DescriptorOK, Written, Durable,
       Creation, FirstDescriptor
  <1>15. CASE RecoverManifest \/ RecoverLogFile \/ ReplayRecord \/ ReplayFlush
              \/ ReplayDone \/ OpenNewLog \/ OpenDone
    BY <1>1, <1>15, Zenon DEF RecoverManifest, RecoverLogFile, ReplayRecord,
       ReplayFlush, ReplayDone, OpenNewLog, OpenDone
  <1>16. CASE OpenWriteManifest
    <2>1. manifestFileNumber # current /\ UNCHANGED <<current, tabFiles>>
          /\ dscFiles \subseteq dscFiles'
      BY <1>16, <1>0 DEF OpenWriteManifest, Recovery, Recovering, Manifest,
         DescriptorOK, Creation, Descriptor, TypeOK, FileNo
    <2>2. Written' = Written /\ Durable' = Durable
      BY <1>16, <2>1, Zenon DEF OpenWriteManifest, Written, Durable, TypeOK
    <2> QED
      BY <2>1, <2>2, Zenon DEF Manifest, DescriptorOK
  <1>17. CASE OpenSetCurrent
    <2>1. /\ UNCHANGED <<tabFiles, dscFiles>> /\ current' = manifestFileNumber
          /\ manifestFileNumber \in dscFiles /\ current' < nextFileNumber
      BY <1>17, Zenon DEF OpenSetCurrent, Recovery, Recovering
    <2>2. Written' = [files |-> version \cup replayTables, log |-> logfileNumber,
                      next |-> nextFileNumber, seq |-> lastSequence]
          /\ Durable' = Written'
      BY <1>17, CurrentSwitched, Zenon
    <2>3. /\ logfileNumber < nextFileNumber /\ nextFileNumber \in Nat
          /\ version \cup replayTables \subseteq tabFiles
          /\ \A f \in version \cup replayTables : f < nextFileNumber
      <3>1. current # 0 /\ phase = "current" /\ Recovering
        BY <1>17, Zenon DEF OpenSetCurrent, Recovering, Creation
      <3>2. nextFileNumber \in Nat
        BY NumberTypes, Zenon
      <3>3. version = Written.files /\ manifestFileNumber = Written.next
        BY <3>1, Zenon DEF Recovery
      <3>4. /\ Written.next < nextFileNumber
            /\ replayTables \subseteq tabFiles
            /\ \A f \in replayTables : f < nextFileNumber
            /\ \A n \in logFiles : n < nextFileNumber
            /\ logfileNumber \in logFiles
        BY <3>1, <3>3, Zenon DEF Recovery
      <3>5. /\ Written.files \subseteq tabFiles
            /\ \A f \in Written.files : f < Written.next
        BY <3>1, Zenon DEF Manifest, DescriptorOK
      <3> QED
        BY <3>2, <3>3, <3>4, <3>5, DescriptorTypes
    <2> QED
      BY <2>1, <2>2, <2>3 DEF Manifest, DescriptorOK
  <1> QED
    BY <1>2, <1>3, <1>4, <1>5, <1>6, <1>7, <1>8, <1>9, <1>10, <1>11, <1>12,
       <1>13, <1>14, <1>15, <1>16, <1>17, Zenon
    DEF Next, Background, Crash, Open

(* Whatever a step does to other files, it keeps the promises that rest on *)
(* the tables of the two descriptors and on the logs that they need.       *)
LEMMA PromisesKept ==
  ASSUME Promises,
         Written' = Written, Durable' = Durable,
         acked' = acked, ackedSync' = ackedSync,
         \A n \in FileNo : logSynced'[n] \subseteq logData'[n],
         \A t \in (Written.files \cup Durable.files) \cap tabFiles :
            t \in tabFiles' /\ tabData'[t] = tabData[t],
         \A n \in logFiles : n >= Written.log \/ n >= Durable.log =>
            /\ n \in logFiles' /\ logData[n] \subseteq logData'[n]
            /\ logSynced[n] \subseteq logSynced'[n]
  PROVE  Promises'
  <1>1. Recoverable(Written, logData) \subseteq Recoverable(Written, logData)'
    BY DEF Recoverable, Tables
  <1>2. Recoverable(Written, logSynced) \subseteq Recoverable(Written, logSynced)'
    BY DEF Recoverable, Tables
  <1>3. Recoverable(Durable, logSynced) \subseteq Recoverable(Durable, logSynced)'
    BY DEF Recoverable, Tables
  <1> QED
    BY <1>1, <1>2, <1>3, Zenon DEF Promises, ProcessCrashSafe,
       MachineCrashSafe, Written, Durable

(* A step that touches no file keeps the promises.                         *)
LEMMA PromisesSame ==
  ASSUME Promises, UNCHANGED <<logVars, tabVars, dscVars, acked, ackedSync>>
  PROVE  Promises'
  BY DEF Promises, ProcessCrashSafe, MachineCrashSafe, Recoverable, Tables,
     logVars, tabVars, dscVars

(* DBImpl::Write acknowledges an update only once it is in a log that      *)
(* recovery reads, and with sync once it is synced there.                  *)
LEMMA PromisesWriter ==
  ASSUME TypeOK, Control, Creation, Manifest, Promises, Numbers, Updates, Writer
  PROVE  Promises'
  <1> USE DEF logVars, tabVars, dscVars, memVars, vsetVars, writerVars, jobVars,
          replayVars, ghostVars
  <1>0. wpc # "idle" => Running
    BY Zenon DEF Control, Running
  <1>1. CASE AddRecordFails \/ SyncLogFails \/ \E sync \in BOOLEAN : WriteBegin(sync)
    BY <1>1, PromisesSame, Zenon DEF AddRecordFails, SyncLogFails, WriteBegin
  <1>2. CASE AddRecord
    <2>1. \A n \in FileNo : logData[n] \subseteq logData'[n]
      BY <1>2, Zenon DEF AddRecord, TypeOK
    <2> QED
      BY <1>2, <2>1, PromisesKept, Zenon
      DEF AddRecord, Promises, Written, Durable, TypeOK
  <1>3. CASE SyncLog
    <2>1. \A n \in FileNo : /\ logSynced[n] \subseteq logSynced'[n]
                            /\ logSynced'[n] \subseteq logData[n]
      BY <1>3, Zenon DEF SyncLog, Promises, TypeOK
    <2> QED
      BY <1>3, <2>1, PromisesKept, Zenon
      DEF SyncLog, Promises, Written, Durable, TypeOK
  <1>4. CASE WriteFinish
    <2>1. /\ Running /\ current # 0
          /\ wsync => lastSequence + 1 \in logSynced[logfileNumber]
          /\ lastSequence + 1 \in logData[logfileNumber]
          /\ logfileNumber \in logFiles
          /\ logfileNumber >= Written.log /\ logfileNumber >= Durable.log
      BY <1>0, <1>4, ZenonT(60) DEF WriteFinish, Updates, Numbers, Creation,
         Running, Manifest, TypeOK, FileNo, Written, Durable, Descriptor
    <2>2. /\ lastSequence + 1 \in Recoverable(Written, logData)
          /\ wsync => /\ lastSequence + 1 \in Recoverable(Written, logSynced)
                      /\ lastSequence + 1 \in Recoverable(Durable, logSynced)
      BY <2>1, ZenonT(60) DEF Recoverable
    <2>3. /\ Recoverable(Written, logData)' = Recoverable(Written, logData)
          /\ Recoverable(Written, logSynced)' = Recoverable(Written, logSynced)
          /\ Recoverable(Durable, logSynced)' = Recoverable(Durable, logSynced)
      BY <1>4, SMTT(60) DEF WriteFinish, Recoverable, Tables, Written, Durable
    <2> QED
      BY <1>4, <2>2, <2>3, SMTT(60) DEF WriteFinish, Promises, ProcessCrashSafe,
         MachineCrashSafe, Written, Durable
  <1>5. ASSUME NEW closeOk \in BOOLEAN, SwitchMemTable(closeOk) PROVE Promises'
    <2>1. \A n \in logFiles : n \in FileNo /\ n # nextFileNumber
      BY <1>5 DEF SwitchMemTable, CanSwitch, Numbers, Running, TypeOK, FileNo
    <2>2. nextFileNumber \in FileNo
      BY <1>5 DEF SwitchMemTable, TypeOK, FileNo
    <2> QED
      BY <1>5, <2>1, <2>2, PromisesKept, Zenon
      DEF SwitchMemTable, Promises, Written, Durable, TypeOK
  <1> QED
    BY <1>1, <1>2, <1>3, <1>4, <1>5, Zenon DEF Writer

(* Building and deleting tables, logs and MANIFESTs takes away no promised *)
(* update.                                                                 *)
LEMMA PromisesTables ==
  ASSUME TypeOK, Control, Creation, Manifest, Promises, Recovery, Numbers,
         NewTables, Garbage,
         FlushStart \/ FlushBuild \/ FlushBuildFails \/ OpenCompactionOutputFile
         \/ FinishCompaction \/ ReplayFlush \/ RemoveFile
  PROVE  Promises'
  <1> USE DEF logVars, tabVars, dscVars, memVars, vsetVars, writerVars, jobVars,
          replayVars, ghostVars
  <1>0. /\ UNCHANGED <<acked, ackedSync, logData, logSynced, Written, Durable>>
        /\ ~RemoveFile => UNCHANGED logFiles
    BY Zenon DEF FlushStart, FlushBuild, FlushBuildFails,
       OpenCompactionOutputFile, FinishCompaction, ReplayFlush, RemoveFile,
       Written, Durable
  <1>1. current # 0
    BY Zenon DEF FlushStart, FlushBuild, FlushBuildFails,
       OpenCompactionOutputFile, FinishCompaction, ReplayFlush, RemoveFile,
       Control, Creation, Running
  <1>2. /\ Written.files \subseteq FileNo /\ Durable.files \subseteq FileNo
        /\ \A f \in Written.files \cup Durable.files : f < Written.next
    BY <1>1, DescriptorTypes DEF Manifest, DescriptorOK
  <1>3. ASSUME nextFileNumber \in FileNo,
               tabFiles \subseteq tabFiles',
               tabData' = [tabData EXCEPT ![nextFileNumber] = tabData'[nextFileNumber]],
               Written.next <= nextFileNumber, UNCHANGED logFiles
        PROVE  Promises'
    <2>1. \A t \in Written.files \cup Durable.files :
             t # nextFileNumber /\ tabData'[t] = tabData[t]
      BY <1>2, <1>3, DescriptorTypes, SMTT(60) DEF TypeOK
    <2> QED
      BY <1>0, <1>3, <2>1, PromisesKept, Zenon DEF Promises
  <1>4. CASE FlushStart
    BY <1>3, <1>4 DEF FlushStart, TypeOK, FileNo, Numbers, Running
  <1>5. CASE OpenCompactionOutputFile
    BY <1>3, <1>5, SMTT(60) DEF OpenCompactionOutputFile, TypeOK, FileNo,
       Numbers, Running, Control
  <1>6. CASE ReplayFlush
    BY <1>3, <1>6 DEF ReplayFlush, TypeOK, FileNo, Recovery, Recovering
  <1>7. CASE FlushBuild
    <2>1. \A t \in Written.files \cup Durable.files : tabData'[t] = tabData[t]
      BY <1>2, <1>7, Zenon DEF FlushBuild, NewTables, InUse, TypeOK
    <2> QED
      BY <1>0, <1>7, <2>1, PromisesKept, Zenon DEF FlushBuild, Promises
  <1>8. CASE FlushBuildFails
    BY <1>0, <1>8, PromisesKept, Zenon DEF FlushBuildFails, NewTables, InUse,
       Promises
  <1>9. CASE FinishCompaction
    <2>1. \A t \in Written.files \cup Durable.files : tabData'[t] = tabData[t]
      BY <1>2, <1>9, Zenon DEF FinishCompaction, NewTables, TypeOK
    <2> QED
      BY <1>0, <1>9, <2>1, PromisesKept, Zenon DEF FinishCompaction, Promises
  <1>10. CASE RemoveFile
    <2>1. PICK f \in toDelete :
            /\ logFiles' = IF f[1] = "log" THEN logFiles \ {f[2]} ELSE logFiles
            /\ tabFiles' = IF f[1] = "table" THEN tabFiles \ {f[2]} ELSE tabFiles
      BY <1>10, Zenon DEF RemoveFile
    <2>2. \A n \in logFiles : n >= Written.log \/ n >= Durable.log => n \in logFiles'
      <3>1. f[2] \in Nat /\ logFiles \subseteq Nat
        BY DescriptorTypes, Zenon DEF TypeOK
      <3>2. f[1] = "log" => f[2] < Written.log /\ f[2] < Durable.log
        BY Zenon DEF Garbage, DeletesOnlyGarbage, Written, Durable
      <3> QED
        BY <2>1, <3>1, <3>2, DescriptorTypes
    <2>3. (Written.files \cup Durable.files) \cap tabFiles \subseteq tabFiles'
      BY <2>1, Zenon DEF Garbage, DeletesOnlyGarbage, Written, Durable
    <2> QED
      BY <1>0, <1>10, <2>2, <2>3, PromisesKept, Zenon DEF RemoveFile, Promises
  <1> QED
    BY <1>4, <1>5, <1>6, <1>7, <1>8, <1>9, <1>10, Zenon

(* The tables that an edit adds hold what the tables that it deletes held. *)
LEMMA ApplyKeepsTables ==
  ASSUME NEW files, Tables(edit.del) \subseteq Tables(edit.add)
  PROVE  /\ Tables(files) \subseteq Tables(ApplyToFiles(files, edit))
         /\ Tables(edit.add) \subseteq Tables(ApplyToFiles(files, edit))
  BY Zenon DEF Tables, ApplyToFiles

(* A running database's updates are recovered from a descriptor that knows *)
(* its tables and either the immutable memtable's table or its log.        *)
LEMMA HomeIsRecoverable ==
  ASSUME NEW d, NEW contents,
         Tables(version) \subseteq Tables(d.files),
         logfileNumber \in logFiles, logfileNumber >= d.log,
         imm \subseteq Tables(d.files) \/ d.log = logNumber
  PROVE  Home(contents) \subseteq Recoverable(d, contents)
  BY Zenon DEF Home, OldLogs, Recoverable

(* LogAndApply keeps the promises: the edit lists the tables that replace  *)
(* the logs and tables it retires.                                         *)
LEMMA PromisesInstall ==
  ASSUME TypeOK, Control, Creation, Manifest, Promises, Numbers, Updates, EditOK,
         ManifestAppend \/ InstallFlush \/ InstallCompaction \/ InstallMove
  PROVE  Promises'
  <1> USE DEF logVars, tabVars, dscVars, memVars, vsetVars, writerVars, jobVars,
          replayVars, ghostVars
  <1>0. /\ UNCHANGED <<acked, ackedSync, logVars, tabVars, current>>
        /\ Running /\ Editing /\ manifestFileNumber = current
    BY Zenon DEF ManifestAppend, InstallFlush, InstallCompaction, InstallMove,
       ManifestSync, Control, Running, Editing, Numbers
  <1>1. CASE ManifestAppend
    <2>1. Durable' = Durable /\ Written' = Apply(Written, edit)
      BY <1>0, <1>1, ManifestAppended, Zenon
    <2>2. /\ Written'.files = ApplyToFiles(Written.files, edit)
          /\ Written'.log = edit.log
      BY <2>1, ZenonT(60) DEF Apply
    <2>3. /\ Tables(version) \subseteq Tables(Written'.files)
          /\ Tables(edit.add) \subseteq Tables(Written'.files)
      BY <1>0, <2>2, ApplyKeepsTables, Zenon DEF EditOK, Updates
    <2>4. /\ logfileNumber \in logFiles /\ logfileNumber >= edit.log
          /\ imm \subseteq Tables(Written'.files) \/ edit.log = logNumber
      BY <1>0, <2>3, DescriptorTypes DEF EditOK, Numbers, TypeOK
    <2>5. /\ Home(logData) \subseteq Recoverable(Written', logData)
          /\ Home(logSynced) \subseteq Recoverable(Written', logSynced)
      BY <2>2, <2>3, <2>4, HomeIsRecoverable, Zenon
    <2>6. /\ acked \subseteq Recoverable(Written', logData)
          /\ ackedSync \subseteq Recoverable(Written', logSynced)
          /\ ackedSync \subseteq Recoverable(Durable, logSynced)
      BY <1>0, <2>5, ZenonT(60) DEF Updates, Promises, MachineCrashSafe,
         Durable
    <2> QED
      BY <1>0, <2>1, <2>6 DEF Promises, ProcessCrashSafe, MachineCrashSafe,
         Recoverable, Tables, Written, Durable
  <1>2. CASE InstallFlush \/ InstallCompaction \/ InstallMove
    <2>1. Durable' = Written /\ Written' = Written
      BY <1>0, <1>2, ManifestInstalled, Zenon
    <2> QED
      BY <1>0, <2>1 DEF Promises, ProcessCrashSafe, MachineCrashSafe,
         Recoverable, Tables, Written, Durable
  <1> QED
    BY <1>1, <1>2, Zenon

(* A crash of the process or the machine leaves the promised updates       *)
(* recoverable.                                                            *)
LEMMA PromisesCrash ==
  ASSUME TypeOK, Promises, Crash
  PROVE  Promises'
  <1> USE DEF logVars, tabVars, dscVars
  <1>1. CASE ProcessCrash
    BY <1>1, PromisesSame, Zenon DEF ProcessCrash
  <1>2. CASE MachineCrash
    <2>1. /\ UNCHANGED <<logFiles, tabFiles, tabData, current, ackedSync>>
          /\ acked' = ackedSync /\ logSynced' = logData'
          /\ \A n \in logFiles : logSynced[n] \subseteq logData'[n]
      BY <1>2, Zenon DEF MachineCrash
    <2>2. Written' \in {Written, Durable} /\ Durable' = Written'
      BY <1>2, ZenonT(60) DEF MachineCrash, Written, Durable
    <2>3. \A d \in {Written, Durable} : ackedSync \subseteq Recoverable(d, logData')
      BY <2>1 DEF Promises, MachineCrashSafe, Recoverable, Written, Durable
    <2>4. /\ Recoverable(Written, logData)' = Recoverable(Written', logData')
          /\ Recoverable(Written, logSynced)' = Recoverable(Written', logData')
          /\ Recoverable(Durable, logSynced)' = Recoverable(Written', logData')
      BY <2>1, <2>2 DEF Recoverable, Tables
    <2> QED
      BY <2>1, <2>2, <2>3, <2>4, ZenonT(60) DEF Promises, ProcessCrashSafe,
         MachineCrashSafe, Written, Durable
  <1> QED
    BY <1>1, <1>2, Zenon DEF Crash

(* DBImpl::Recover and DB::Open keep the promises at each of their steps,  *)
(* so they can be interrupted.                                             *)
LEMMA PromisesOpen ==
  ASSUME TypeOK, Control, Creation, Manifest, Promises, Recovery, Numbers,
         NewTables, Garbage, Open
  PROVE  Promises'
  <1> USE DEF logVars, tabVars, dscVars, memVars, vsetVars, writerVars, jobVars,
          replayVars, ghostVars
  <1>1. CASE RecoverManifest \/ RecoverLogFile \/ ReplayRecord \/ ReplayDone
             \/ OpenDone
    BY <1>1, PromisesSame, Zenon DEF RecoverManifest, RecoverLogFile,
       ReplayRecord, ReplayDone, OpenDone
  <1>2. CASE ReplayFlush
    BY <1>2, PromisesTables, Zenon
  <1>3. CASE NewDB \/ NewDBSetCurrent
    BY <1>3, Zenon DEF NewDB, NewDBSetCurrent, Creation, Promises,
       ProcessCrashSafe, MachineCrashSafe
  <1>4. CASE OpenNewLog
    <2>1. \A n \in logFiles : n \in FileNo /\ n # nextFileNumber
      BY <1>4 DEF OpenNewLog, Recovery, Recovering, TypeOK, FileNo
    <2>2. nextFileNumber \in FileNo
      BY <1>4, SMTT(60) DEF OpenNewLog, TypeOK, FileNo
    <2> QED
      BY <1>4, <2>1, <2>2, PromisesKept, ZenonT(60)
      DEF OpenNewLog, Promises, Written, Durable, TypeOK
  <1>5. CASE OpenWriteManifest
    <2>1. manifestFileNumber # current
      BY <1>5, DescriptorTypes DEF OpenWriteManifest, Recovery, Recovering,
         Manifest, DescriptorOK, Creation, TypeOK
    <2>2. Written' = Written /\ Durable' = Durable
      BY <1>5, <2>1, Zenon DEF OpenWriteManifest, Written, Durable, TypeOK
    <2> QED
      BY <1>5, <2>2, PromisesKept, ZenonT(60) DEF OpenWriteManifest, Promises
  <1>6. CASE OpenSetCurrent
    <2>1. acked \subseteq Tables(version \cup replayTables)
      BY <1>6, Zenon DEF OpenSetCurrent, Recovery, Recovering, LogsToReplay
    <2>2. /\ Written'.files = version \cup replayTables /\ Durable' = Written'
          /\ UNCHANGED <<tabFiles, tabData, acked, ackedSync, logData, logSynced>>
      BY <1>6, CurrentSwitched, Zenon DEF OpenSetCurrent
    <2> QED
      BY <2>1, <2>2 DEF Promises, ProcessCrashSafe, MachineCrashSafe,
         Recoverable, Tables, Written, Durable
  <1> QED
    BY <1>1, <1>2, <1>3, <1>4, <1>5, <1>6, Zenon DEF Open

(* Every step keeps the promises.                                          *)
LEMMA PromisesStep ==
  ASSUME TypeOK, Control, Creation, Manifest, Promises, Recovery, Numbers,
         Updates, EditOK, NewTables, Garbage, Next
  PROVE  Promises'
  <1>1. CASE CompactionStart \/ TrivialMove \/ CompactionFails
             \/ LogAndApplyFails \/ RemoveDone \/ Reader
    BY <1>1, PromisesSame, Zenon DEF CompactionStart, TrivialMove,
       CompactionFails, LogAndApplyFails, RemoveDone, Reader, PinVersion,
       UnpinVersion, ghostVars
  <1> QED
    BY <1>1, PromisesWriter, PromisesTables, PromisesInstall, PromisesCrash,
       PromisesOpen, Zenon DEF Next, Background

-----------------------------------------------------------------------------
(* Recoveries, file numbers and updates in memory. *)

(* During recovery every promised update is in a table of the version, in  *)
(* a replayed table or memtable, or still to be replayed.                  *)
LEMMA RecoveryStep ==
  ASSUME TypeOK, Control, Creation, Manifest, Promises, Recovery, Next
  PROVE  Recovery'
  <1> USE DEF logVars, tabVars, dscVars, memVars, vsetVars, writerVars, jobVars,
          replayVars, ghostVars, Recovering
  <1>1. CASE ~Recovering'
    BY <1>1, Zenon DEF Recovery
  <1>2. CASE Writer \/ Background \/ Reader \/ Crash \/ NewDB \/ NewDBSetCurrent
             \/ OpenSetCurrent \/ OpenDone
    <2>1. CASE Writer
      BY <2>1, <1>1, Zenon DEF Control, Writer, WriteBegin, AddRecord,
         AddRecordFails, SyncLog, SyncLogFails, WriteFinish, SwitchMemTable,
         CanSwitch
    <2>2. CASE FlushStart \/ FlushBuild \/ FlushBuildFails \/ CompactionStart
               \/ TrivialMove \/ OpenCompactionOutputFile \/ FinishCompaction
               \/ CompactionFails
      BY <2>2, <1>1, Zenon DEF Control, FlushStart, FlushBuild,
         FlushBuildFails, CompactionStart, TrivialMove,
         OpenCompactionOutputFile, FinishCompaction, CompactionFails
    <2>3. CASE ManifestAppend \/ LogAndApplyFails \/ InstallFlush
               \/ InstallCompaction \/ InstallMove \/ RemoveFile \/ RemoveDone
      BY <2>3, <1>1, Zenon DEF Control, ManifestAppend, LogAndApplyFails,
         InstallFlush, InstallCompaction, InstallMove, ManifestSync,
         RemoveFile, RemoveDone
    <2>4. CASE Reader \/ Crash \/ NewDB \/ NewDBSetCurrent \/ OpenSetCurrent
               \/ OpenDone
      BY <2>4, <1>1, Zenon DEF Control, Reader, PinVersion, UnpinVersion,
         Crash, ProcessCrash, MachineCrash, NewDB, NewDBSetCurrent,
         OpenSetCurrent, OpenDone
    <2> QED
      BY <1>2, <2>1, <2>2, <2>3, <2>4, Zenon DEF Background
  <1>3. CASE RecoverManifest
    <2>1. /\ UNCHANGED <<logVars, tabVars, dscVars, acked, replayLog, replayRest,
                         replayTables, mem>>
          /\ replayLog = 0 /\ replayRest = {} /\ replayTables = {} /\ mem = {}
          /\ phase' = "replay" \/ phase' = "corrupt"
          /\ version' = Written.files /\ manifestFileNumber' = Written.next
          /\ nextFileNumber' = Written.next + 1
          /\ replayLogs' = {n \in logFiles : n >= Written.log}
          /\ Written' = Written /\ current # 0
      BY <1>3, Zenon DEF RecoverManifest, Control, Written
    <2>2. \A n \in logFiles \ replayLogs' : n < nextFileNumber'
      BY <2>1, DescriptorTypes DEF Manifest, DescriptorOK, TypeOK
    <2>3. acked \subseteq Tables(Written.files) \cup UNION {logData[n] : n \in replayLogs'}
      BY <2>1, Zenon DEF Promises, ProcessCrashSafe, Recoverable, Written
    <2>4. /\ acked' \subseteq Tables(version \cup replayTables)' \cup LogsToReplay'
          /\ 0 \notin replayLogs'
      BY <2>1, <2>3 DEF Tables, LogsToReplay, Creation
    <2> QED
      BY <2>1, <2>2, <2>4, DescriptorTypes DEF Recovery
  <1>4. CASE RecoverLogFile
    <2>1. /\ replayLog = 0 /\ mem = {} /\ replayRest = {}
          /\ replayLog' \in replayLogs /\ replayRest' = logData[replayLog']
          /\ UNCHANGED <<logVars, tabVars, dscVars, acked, replayLogs,
                         replayTables, mem, version, phase, nextFileNumber,
                         manifestFileNumber>>
          /\ phase = "replay"
      BY <1>4, Zenon DEF RecoverLogFile, Recovery
    <2>2. LogsToReplay \subseteq LogsToReplay' \cup replayRest'
      BY <2>1, Zenon DEF LogsToReplay
    <2>3. Tables(version \cup replayTables)' = Tables(version \cup replayTables)
          /\ Written' = Written
      BY <2>1, Zenon DEF Tables, Written
    <2>4. replayLog' # 0
      BY <2>1, Zenon DEF Recovery
    <2> QED
      BY <2>1, <2>2, <2>3, <2>4, Zenon DEF Recovery
  <1>5. CASE ReplayRecord
    <2>1. /\ UNCHANGED <<logVars, tabVars, dscVars, acked, replayLogs, replayLog,
                         replayTables, version, phase, nextFileNumber,
                         manifestFileNumber>>
          /\ mem \cup replayRest \subseteq mem' \cup replayRest'
          /\ replayRest # {} /\ phase = "replay"
      BY <1>5, Zenon DEF ReplayRecord
    <2>2. /\ Tables(version \cup replayTables)' = Tables(version \cup replayTables)
          /\ Written' = Written /\ LogsToReplay' = LogsToReplay
      BY <2>1, ZenonT(60) DEF Tables, Written, LogsToReplay
    <2> QED
      BY <2>1, <2>2, Zenon DEF Recovery
  <1>6. CASE ReplayFlush
    <2>1. /\ UNCHANGED <<logVars, dscVars, acked, replayLogs, replayLog,
                         replayRest, version, phase, manifestFileNumber>>
          /\ tabFiles' = tabFiles \cup {nextFileNumber}
          /\ replayTables' = replayTables \cup {nextFileNumber}
          /\ nextFileNumber' = nextFileNumber + 1 /\ nextFileNumber \in FileNo
          /\ phase = "replay" /\ mem' = {} /\ current # 0
          /\ tabData' = [tabData EXCEPT ![nextFileNumber] = mem]
      BY <1>6, BoundsAssumption DEF ReplayFlush, TypeOK, FileNo, Creation
    <2>2. \A t \in version \cup replayTables :
             t # nextFileNumber /\ tabData'[t] = tabData[t]
      BY <2>1, DescriptorTypes DEF Recovery, Manifest, DescriptorOK, TypeOK
    <2>3. Tables(version \cup replayTables) \cup mem
             \subseteq Tables(version \cup replayTables)'
      BY <2>1, <2>2 DEF Tables, TypeOK
    <2>4. Written' = Written /\ LogsToReplay' = LogsToReplay
      BY <2>1, Zenon DEF Written, LogsToReplay
    <2>5. \A f \in replayTables' \cup (logFiles \ replayLogs) \cup {manifestFileNumber} :
             f < nextFileNumber'
      BY <2>1, DescriptorTypes DEF Recovery, TypeOK
    <2> QED
      BY <2>1, <2>3, <2>4, <2>5, Zenon DEF Recovery
  <1>7. CASE ReplayDone
    <2>1. /\ UNCHANGED <<logVars, tabVars, dscVars, acked, replayRest, mem,
                         replayTables, version, phase, manifestFileNumber>>
          /\ replayLogs' = replayLogs \ {replayLog} /\ replayLog' = 0
          /\ phase = "replay" /\ mem = {} /\ replayRest = {}
          /\ nextFileNumber' = Larger(nextFileNumber, replayLog + 1)
      BY <1>7, Zenon DEF ReplayDone
    <2>2. /\ nextFileNumber' >= nextFileNumber /\ nextFileNumber' > replayLog
          /\ nextFileNumber' \in Nat /\ nextFileNumber \in Nat /\ replayLog \in Nat
      BY <2>1, DescriptorTypes, BoundsAssumption DEF Larger, TypeOK
    <2>3. \A f \in replayTables \cup (logFiles \ replayLogs') \cup {manifestFileNumber} :
             f < nextFileNumber'
      BY <2>1, <2>2, DescriptorTypes DEF Recovery, TypeOK
    <2>4. LogsToReplay \subseteq LogsToReplay'
      BY <2>1, ZenonT(60) DEF LogsToReplay, Recovery
    <2>5. /\ Tables(version \cup replayTables)' = Tables(version \cup replayTables)
          /\ Written' = Written
      BY <2>1, Zenon DEF Tables, Written
    <2> QED
      BY <2>1, <2>3, <2>4, <2>5, Zenon DEF Recovery
  <1>8. CASE OpenNewLog
    <2>1. /\ UNCHANGED <<tabVars, dscVars, acked, replayVars, mem, version,
                         manifestFileNumber>>
          /\ phase = "replay" /\ phase' = "install" /\ replayLogs = {}
          /\ logFiles' = logFiles \cup {nextFileNumber}
          /\ logfileNumber' = nextFileNumber
          /\ nextFileNumber' = nextFileNumber + 1
      BY <1>8, Zenon DEF OpenNewLog
    <2>2. /\ Tables(version \cup replayTables)' = Tables(version \cup replayTables)
          /\ Written' = Written /\ LogsToReplay = {}
      BY <2>1, Zenon DEF Tables, Written, LogsToReplay
    <2>3. \A f \in replayTables \cup logFiles' \cup {manifestFileNumber} :
             f < nextFileNumber'
      BY <2>1, DescriptorTypes DEF Recovery, TypeOK
    <2> QED
      BY <2>1, <2>2, <2>3, Zenon DEF Recovery
  <1>9. CASE OpenWriteManifest
    <2>1. manifestFileNumber # current /\ manifestFileNumber \in FileNo
      BY <1>9, DescriptorTypes DEF OpenWriteManifest, Recovery, Manifest,
         DescriptorOK, Creation, TypeOK
    <2>2. Written' = Written
      BY <1>9, <2>1, ZenonT(60) DEF OpenWriteManifest, Written, TypeOK
    <2>3. /\ Tables(version \cup replayTables)' = Tables(version \cup replayTables)
          /\ LogsToReplay' = LogsToReplay
      BY <1>9, Zenon DEF OpenWriteManifest, Tables, LogsToReplay
    <2>4. /\ dscWritten'[manifestFileNumber] =
               [files |-> version \cup replayTables, log |-> logfileNumber,
                next |-> nextFileNumber, seq |-> lastSequence]
          /\ dscSynced'[manifestFileNumber] = dscWritten'[manifestFileNumber]
      BY <1>9, <2>1, Zenon DEF OpenWriteManifest, TypeOK
    <2> QED
      BY <1>9, <2>2, <2>3, <2>4, Zenon DEF OpenWriteManifest, Recovery
  <1> QED
    BY <1>2, <1>3, <1>4, <1>5, <1>6, <1>7, <1>8, <1>9, Zenon DEF Next, Open

(* A step that leaves the file numbers in use alone keeps their bounds.    *)
LEMMA NumbersKept ==
  ASSUME TypeOK, Numbers, Running,
         UNCHANGED <<dscWritten, dscSynced, current, manifestFileNumber,
                     logfileNumber, logNumber, logFiles>>,
         nextFileNumber' \in Nat, nextFileNumber' >= nextFileNumber,
         (version \cup pinned \cup inputVersion)'
            \subseteq version \cup pinned \cup inputVersion,
         (version \cup pinned \cup inputVersion) \subseteq tabFiles'
  PROVE  Numbers'
  <1>1. Written' = Written /\ Durable' = Durable
    BY Zenon DEF Written, Durable
  <1>2. /\ \A n \in logFiles : n \in Nat /\ n < nextFileNumber'
        /\ \A f \in version \cup pinned \cup inputVersion : f < nextFileNumber'
        /\ Written.next <= nextFileNumber' /\ Durable.next <= nextFileNumber'
    BY DescriptorTypes, BoundsAssumption DEF Numbers, TypeOK
  <1> QED
    BY <1>1, <1>2, Zenon DEF Numbers

(* Every step keeps the numbers of files in use below next_file_number_    *)
(* and the tables in use on disk.                                          *)
LEMMA NumbersStep ==
  ASSUME TypeOK, TypeOK', Control, Creation, Manifest, Recovery, Numbers, EditOK,
         NewTables, Garbage, Next
  PROVE  Numbers'
  <1> USE DEF logVars, tabVars, dscVars, memVars, vsetVars, writerVars, jobVars,
          replayVars, ghostVars, Running
  <1>0. nextFileNumber \in Nat /\ nextFileNumber' \in Nat
    BY BoundsAssumption DEF TypeOK
  <1>1. CASE ~Running'
    BY <1>1, Zenon DEF Numbers
  <1>2. CASE Writer /\ UNCHANGED nextFileNumber
    <2>1. ASSUME NEW closeOk \in BOOLEAN PROVE ~SwitchMemTable(closeOk)
      BY <1>0, <1>2 DEF SwitchMemTable
    <2>2. /\ Running
          /\ UNCHANGED <<dscVars, tabFiles, manifestFileNumber, logfileNumber,
                         logNumber, logFiles, version, pinned, inputVersion>>
      BY <1>2, <2>1, Zenon DEF Control, Writer, WriteBegin, AddRecord,
         AddRecordFails, SyncLog, SyncLogFails, WriteFinish
    <2>3. version \cup pinned \cup inputVersion \subseteq tabFiles'
      BY <2>2, Zenon DEF Numbers
    <2> QED
      BY <1>0, <1>2, <2>2, <2>3, NumbersKept
  <1>3. ASSUME NEW closeOk \in BOOLEAN, SwitchMemTable(closeOk) PROVE Numbers'
    <2>1. /\ Running /\ logfileNumber' = nextFileNumber
          /\ nextFileNumber' = nextFileNumber + 1
          /\ logFiles' = logFiles \cup {nextFileNumber}
          /\ UNCHANGED <<dscVars, tabFiles, version, pinned, inputVersion,
                         manifestFileNumber, logNumber>>
      BY <1>3, Zenon DEF SwitchMemTable, CanSwitch
    <2>2. Written' = Written /\ Durable' = Durable
      BY <2>1, Zenon DEF Written, Durable
    <2>3. /\ logfileNumber \in Nat /\ logNumber \in Nat /\ logfileNumber < nextFileNumber
          /\ \A n \in logFiles : n \in Nat
          /\ version \cup pinned \cup inputVersion \subseteq Nat
      BY <2>1, DescriptorTypes, Zenon DEF TypeOK, Numbers
    <2>4. /\ logNumber <= nextFileNumber
          /\ Written.log <= nextFileNumber /\ Durable.log <= nextFileNumber
          /\ Written.next <= nextFileNumber + 1 /\ Durable.next <= nextFileNumber + 1
      BY <1>0, <2>1, <2>3, DescriptorTypes DEF Numbers
    <2>5. /\ \A n \in logFiles' : n < nextFileNumber + 1
          /\ \A f \in version \cup pinned \cup inputVersion : f < nextFileNumber + 1
      BY <1>0, <2>1, <2>3 DEF Numbers
    <2> QED
      BY <2>1, <2>2, <2>4, <2>5, Zenon DEF Numbers
  <1>4. CASE FlushStart \/ OpenCompactionOutputFile
    <2>1. /\ Running
          /\ UNCHANGED <<dscVars, manifestFileNumber, logfileNumber, logNumber,
                         logFiles, version, pinned, inputVersion>>
          /\ nextFileNumber' = nextFileNumber + 1 /\ tabFiles \subseteq tabFiles'
      BY <1>4, Zenon DEF FlushStart, OpenCompactionOutputFile, Control
    <2>2. /\ version \cup pinned \cup inputVersion \subseteq tabFiles'
          /\ (version \cup pinned \cup inputVersion)'
                \subseteq version \cup pinned \cup inputVersion
      BY <2>1, Zenon DEF Numbers
    <2> QED
      BY <1>0, <2>1, <2>2, NumbersKept
  <1>5. CASE FlushBuild \/ CompactionStart \/ TrivialMove \/ FinishCompaction
             \/ CompactionFails \/ LogAndApplyFails \/ RemoveDone \/ Reader
    <2>1. /\ Running
          /\ UNCHANGED <<dscVars, tabFiles, manifestFileNumber, logfileNumber,
                         logNumber, logFiles, nextFileNumber>>
          /\ (version \cup pinned \cup inputVersion)'
                \subseteq version \cup pinned \cup inputVersion
      BY <1>5, Zenon DEF FlushBuild, CompactionStart, TrivialMove,
         FinishCompaction, CompactionFails, LogAndApplyFails, RemoveDone,
         Reader, PinVersion, UnpinVersion, Control
    <2>2. version \cup pinned \cup inputVersion \subseteq tabFiles'
      BY <2>1, Zenon DEF Numbers
    <2> QED
      BY <1>0, <2>1, <2>2, NumbersKept
  <1>6. CASE FlushBuildFails
    BY <1>0, <1>6, NumbersKept DEF FlushBuildFails, NewTables, InUse, Control,
       Numbers
  <1>7. CASE ManifestAppend
    <2>1. /\ Running /\ Editing /\ manifestFileNumber = current
          /\ UNCHANGED <<current, tabFiles, logFiles, version, pinned,
                         inputVersion, manifestFileNumber, logfileNumber,
                         logNumber, nextFileNumber>>
      BY <1>7, Zenon DEF ManifestAppend, Control, Numbers, Editing
    <2>2. Durable' = Durable /\ Written' = Apply(Written, edit)
      BY <1>7, <2>1, ManifestAppended, Zenon
    <2>3. Written'.log = edit.log /\ Written'.next = edit.next
      BY <2>2, Zenon DEF Apply
    <2>4. edit.log <= logfileNumber /\ edit.next <= nextFileNumber
      BY <2>1, NumberTypes DEF EditOK, Numbers
    <2> QED
      BY <2>1, <2>2, <2>3, <2>4, Zenon DEF Numbers
  <1>8. CASE InstallFlush \/ InstallCompaction \/ InstallMove
    <2>1. /\ Running /\ Editing /\ manifestFileNumber = current
          /\ UNCHANGED <<current, tabFiles, logFiles, pinned, dscWritten,
                         manifestFileNumber, logfileNumber, nextFileNumber>>
          /\ version' = ApplyToFiles(version, edit) /\ logNumber' = edit.log
          /\ inputVersion' \subseteq inputVersion
      BY <1>8, ZenonT(60) DEF InstallFlush, InstallCompaction, InstallMove,
         ManifestSync, Control, Numbers, Editing
    <2>2. Durable' = Written /\ Written' = Written
      BY <1>8, <2>1, ManifestInstalled, Zenon
    <2>3. version' \subseteq version \cup edit.add
      BY <2>1, ZenonT(60) DEF ApplyToFiles
    <2>4. edit.log <= logfileNumber
      BY <2>1, NumberTypes DEF EditOK, Numbers
    <2>5. edit.add \subseteq Nat /\ edit.next \in Nat
      BY NumberTypes, Zenon
    <2>6. edit.add \subseteq tabFiles /\ \A f \in edit.add : f < nextFileNumber
      BY <1>0, <2>1, <2>5 DEF EditOK
    <2> QED
      BY <2>1, <2>2, <2>3, <2>4, <2>6, Zenon DEF Numbers
  <1>9. CASE RemoveFile
    <2>1. PICK f \in toDelete :
            /\ logFiles' = IF f[1] = "log" THEN logFiles \ {f[2]} ELSE logFiles
            /\ tabFiles' = IF f[1] = "table" THEN tabFiles \ {f[2]} ELSE tabFiles
      BY <1>9, Zenon DEF RemoveFile
    <2>2. /\ Running
          /\ UNCHANGED <<current, dscWritten, dscSynced, version, pinned,
                         inputVersion, manifestFileNumber, logfileNumber,
                         logNumber, nextFileNumber>>
      BY <1>9, Zenon DEF RemoveFile, Control
    <2>3. /\ logfileNumber \in logFiles' /\ logFiles' \subseteq logFiles
          /\ version \cup pinned \cup inputVersion \subseteq tabFiles'
      BY <2>1, <2>2, Zenon DEF Numbers, Garbage, DeletesOnlyGarbage
    <2> QED
      BY <2>2, <2>3, Zenon DEF Numbers, Written, Durable
  <1>10. CASE Crash \/ NewDB \/ NewDBSetCurrent \/ RecoverManifest
              \/ RecoverLogFile \/ ReplayRecord \/ ReplayFlush \/ ReplayDone
              \/ OpenNewLog \/ OpenWriteManifest
    BY <1>1, <1>10, Zenon DEF Crash, ProcessCrash, MachineCrash, NewDB,
       NewDBSetCurrent, RecoverManifest, RecoverLogFile, ReplayRecord,
       ReplayFlush, ReplayDone, OpenNewLog, OpenWriteManifest
  <1>11. CASE OpenSetCurrent
    <2>1. /\ Written' = [files |-> version \cup replayTables,
                         log |-> logfileNumber, next |-> nextFileNumber,
                         seq |-> lastSequence]
          /\ Durable' = Written'
      BY <1>11, CurrentSwitched, ZenonT(60)
    <2>2. \A f \in version \cup replayTables : f \in tabFiles /\ f < nextFileNumber
      BY <1>0, <1>11, DescriptorTypes DEF OpenSetCurrent, Recovery, Recovering,
         Manifest, DescriptorOK, Creation, TypeOK
    <2>3. /\ logfileNumber \in logFiles
          /\ \A n \in logFiles : n \in Nat /\ n < nextFileNumber
          /\ pinned = {} /\ inputVersion = {}
      BY <1>11, DescriptorTypes, Zenon DEF OpenSetCurrent, Recovery,
         Recovering, Control, TypeOK
    <2> QED
      BY <1>0, <1>11, <2>1, <2>2, <2>3 DEF OpenSetCurrent, Numbers
  <1>12. CASE OpenDone
    BY <1>0, <1>12, NumbersKept DEF OpenDone, Numbers
  <1>13. Writer => UNCHANGED nextFileNumber \/ \E closeOk \in BOOLEAN : SwitchMemTable(closeOk)
    BY Zenon DEF Writer, WriteBegin, AddRecord, AddRecordFails, SyncLog,
       SyncLogFails, WriteFinish
  <1> QED
    BY <1>2, <1>3, <1>4, <1>5, <1>6, <1>7, <1>8, <1>9, <1>10, <1>11, <1>12,
       <1>13, Zenon DEF Next, Background, Open

(* A step keeps the updates in their places if it keeps the tables of the  *)
(* version and of the MANIFEST and the logs since log_number_.             *)
LEMMA UpdatesKept ==
  ASSUME TypeOK, Numbers, Updates, Running,
         UNCHANGED <<acked, ackedSync, mem, imm, logfileNumber, logNumber,
                     version, Written, lastSequence, wpc, wsync, logData,
                     logSynced>>,
         \A t \in (version \cup Written.files) \cap tabFiles :
            t \in tabFiles' /\ tabData'[t] = tabData[t],
         \A t \in version : t \in tabFiles' => t \in tabFiles,
         \A n \in logFiles : n >= logNumber => n \in logFiles'
  PROVE  Updates'
  <1>1. /\ Tables(version)' = Tables(version)
        /\ Tables(Written.files) \subseteq Tables(Written.files)'
    BY Zenon DEF Tables
  <1>2. /\ OldLogs(logData) \subseteq OldLogs(logData)'
        /\ OldLogs(logSynced) \subseteq OldLogs(logSynced)'
    BY Zenon DEF OldLogs
  <1>3. /\ Home(logData) \subseteq Home(logData)'
        /\ Home(logSynced) \subseteq Home(logSynced)'
    BY <1>1, <1>2, Zenon DEF Home
  <1> QED
    BY <1>1, <1>3, Zenon DEF Updates

(* Updates stay where they are when memory, logs and version do.           *)
LEMMA HomeKept ==
  ASSUME UNCHANGED <<mem, imm, logfileNumber, logNumber>>,
         UNCHANGED <<logFiles, logData, logSynced, tabFiles, tabData, version>>
  PROVE  Home(logData)' = Home(logData) /\ Home(logSynced)' = Home(logSynced)
  <1>1. OldLogs(logData)' = OldLogs(logData)
    BY Zenon DEF OldLogs
  <1>2. OldLogs(logSynced)' = OldLogs(logSynced)
    BY Zenon DEF OldLogs
  <1>3. Tables(version)' = Tables(version)
    BY Zenon DEF Tables
  <1> QED
    BY <1>1, <1>2, <1>3, Zenon DEF Home

(* WriteBatch insertion and the memtable switch keep every acknowledged    *)
(* update in memory or in a live table.                                    *)
LEMMA UpdatesWriter ==
  ASSUME TypeOK, Control, Promises, Numbers, Updates, Writer
  PROVE  Updates'
  <1> USE DEF logVars, tabVars, dscVars, memVars, vsetVars, writerVars, jobVars,
          replayVars, ghostVars
  <1>0. /\ Running /\ UNCHANGED <<tabVars, version, Written>>
        /\ Tables(version)' = Tables(version)
        /\ Tables(Written.files)' = Tables(Written.files)
        /\ logfileNumber \in FileNo
    <2>1. Running /\ UNCHANGED <<tabVars, version, Written>>
      BY Zenon DEF Control, Running, Writer, WriteBegin, AddRecord,
         AddRecordFails, SyncLog, SyncLogFails, WriteFinish, SwitchMemTable,
         CanSwitch, Written
    <2>2. logfileNumber \in FileNo
      BY Zenon DEF TypeOK
    <2> QED
      BY <2>1, <2>2, Zenon DEF Tables
  <1>1. CASE AddRecordFails \/ SyncLogFails \/ \E sync \in BOOLEAN : WriteBegin(sync)
    <2>1. Home(logData)' = Home(logData) /\ Home(logSynced)' = Home(logSynced)
      <3>1. /\ UNCHANGED <<mem, imm, logfileNumber, logNumber>>
            /\ UNCHANGED <<logFiles, logData, logSynced, tabFiles, tabData, version>>
        BY <1>1, Zenon DEF AddRecordFails, SyncLogFails, WriteBegin
      <3> QED
        BY <3>1, HomeKept, Zenon
    <2>2. wpc' \in {"idle", "append"} /\ UNCHANGED <<acked, ackedSync>>
      BY <1>1, Zenon DEF AddRecordFails, SyncLogFails, WriteBegin
    <2> QED
      BY <1>0, <2>1, <2>2, Zenon DEF Updates
  <1>2. CASE AddRecord
    <2>1. /\ \A n \in FileNo : logData[n] \subseteq logData'[n]
          /\ lastSequence + 1 \in logData'[logfileNumber]
      BY <1>0, <1>2, Zenon DEF AddRecord, TypeOK
    <2>2. OldLogs(logData) \subseteq OldLogs(logData)'
      <3>1. UNCHANGED <<logFiles, logNumber>> /\ logFiles \subseteq FileNo
        BY <1>2, Zenon DEF AddRecord, TypeOK
      <3> QED
        BY <2>1, <3>1, Zenon DEF OldLogs
    <2>3. /\ Home(logData) \subseteq Home(logData)'
          /\ Home(logSynced)' = Home(logSynced)
      <3>1. UNCHANGED <<mem, imm, logfileNumber, logFiles, logNumber, logSynced>>
        BY <1>2, Zenon DEF AddRecord
      <3>2. logData[logfileNumber] \subseteq logData'[logfileNumber]
        BY <1>0, <2>1, Zenon
      <3>3. OldLogs(logSynced)' = OldLogs(logSynced)
        BY <3>1, Zenon DEF OldLogs
      <3> QED
        BY <1>0, <2>2, <3>1, <3>2, <3>3, Zenon DEF Home
    <2> QED
      BY <1>0, <1>2, <2>1, <2>3, ZenonT(60) DEF AddRecord, Updates
  <1>3. CASE SyncLog
    <2>1. /\ \A n \in FileNo : logSynced[n] \subseteq logSynced'[n]
          /\ logSynced'[logfileNumber] = logData[logfileNumber]
      BY <1>0, <1>3, Zenon DEF SyncLog, TypeOK, Promises
    <2>2. OldLogs(logSynced) \subseteq OldLogs(logSynced)'
      <3>1. UNCHANGED <<logFiles, logNumber>> /\ logFiles \subseteq FileNo
        BY <1>3, Zenon DEF SyncLog, TypeOK
      <3> QED
        BY <2>1, <3>1, Zenon DEF OldLogs
    <2>3. /\ Home(logSynced) \subseteq Home(logSynced)'
          /\ Home(logData)' = Home(logData)
      <3>1. UNCHANGED <<mem, imm, logfileNumber, logFiles, logNumber, logData>>
        BY <1>3, Zenon DEF SyncLog
      <3>2. logSynced[logfileNumber] \subseteq logSynced'[logfileNumber]
        BY <1>0, <2>1, Zenon
      <3>3. OldLogs(logData)' = OldLogs(logData)
        BY <3>1, Zenon DEF OldLogs
      <3> QED
        BY <1>0, <2>2, <3>1, <3>2, <3>3, Zenon DEF Home
    <2> QED
      BY <1>0, <1>3, <2>1, <2>3, ZenonT(60) DEF SyncLog, Updates
  <1>4. CASE WriteFinish
    <2>1. /\ Home(logData) \subseteq Home(logData)'
          /\ Home(logSynced) \subseteq Home(logSynced)'
      <3>1. /\ mem \subseteq mem'
            /\ UNCHANGED <<imm, logfileNumber, logFiles, logNumber, logData,
                           logSynced>>
        BY <1>4, Zenon DEF WriteFinish
      <3>2. OldLogs(logData)' = OldLogs(logData) /\ OldLogs(logSynced)' = OldLogs(logSynced)
        BY <3>1, Zenon DEF OldLogs
      <3> QED
        BY <1>0, <3>1, <3>2, Zenon DEF Home
    <2>2. /\ lastSequence + 1 \in Home(logData)'
          /\ wsync => lastSequence + 1 \in Home(logSynced)'
      BY <1>0, <1>4, ZenonT(60) DEF WriteFinish, Updates, Home
    <2> QED
      BY <1>0, <1>4, <2>1, <2>2, Zenon DEF WriteFinish, Updates
  <1>5. ASSUME NEW closeOk \in BOOLEAN, SwitchMemTable(closeOk) PROVE Updates'
    <2>1. /\ logfileNumber \in logFiles /\ logfileNumber >= logNumber
          /\ \A n \in logFiles : n \in FileNo /\ n # nextFileNumber
          /\ imm = {} /\ nextFileNumber \in FileNo
      BY <1>0, <1>5, DescriptorTypes DEF SwitchMemTable, CanSwitch, Numbers,
         Control, TypeOK, FileNo
    <2>2. \A n \in logFiles : /\ logData'[n] = logData[n]
                              /\ logSynced'[n] = logSynced[n]
      BY <1>5, <2>1, Zenon DEF SwitchMemTable, TypeOK
    <2>3. /\ logData[logfileNumber] \subseteq OldLogs(logData)'
          /\ logSynced[logfileNumber] \subseteq OldLogs(logSynced)'
      BY <1>5, <2>1, <2>2, Zenon DEF SwitchMemTable, OldLogs
    <2>4. /\ Home(logData) \subseteq Home(logData)'
          /\ Home(logSynced) \subseteq Home(logSynced)'
      BY <1>0, <1>5, <2>1, <2>3, Zenon DEF SwitchMemTable, Home
    <2> QED
      BY <1>0, <1>5, <2>4, ZenonT(60) DEF SwitchMemTable, CanSwitch, Updates
  <1> QED
    BY <1>1, <1>2, <1>3, <1>4, <1>5, Zenon DEF Writer

(* The installation of an edit keeps every acknowledged update visible.    *)
LEMMA UpdatesInstall ==
  ASSUME TypeOK, Control, Numbers, Updates, EditOK,
         ManifestAppend \/ InstallFlush \/ InstallCompaction \/ InstallMove
  PROVE  Updates'
  <1> USE DEF logVars, tabVars, dscVars, memVars, vsetVars, writerVars, jobVars,
          replayVars, ghostVars
  <1>0. /\ UNCHANGED <<acked, ackedSync, logVars, tabVars, current, mem,
                       logfileNumber, lastSequence, wpc, wsync>>
        /\ Running /\ Editing /\ manifestFileNumber = current
    BY Zenon DEF ManifestAppend, InstallFlush, InstallCompaction, InstallMove,
       ManifestSync, Control, Running, Editing, Numbers
  <1>1. CASE ManifestAppend
    <2>1. Written'.files = ApplyToFiles(Written.files, edit)
      BY <1>0, <1>1, Zenon DEF ManifestAppend, Written, TypeOK, Apply
    <2>2. Tables(version) \subseteq Tables(Written'.files)
      BY <1>0, <2>1, ApplyKeepsTables, Zenon DEF EditOK, Updates
    <2>3. /\ Tables(Written.files)' = Tables(Written'.files)
          /\ Tables(version)' = Tables(version)
          /\ Home(logData)' = Home(logData) /\ Home(logSynced)' = Home(logSynced)
      <3>1. /\ UNCHANGED <<mem, imm, logfileNumber, logNumber>>
            /\ UNCHANGED <<logFiles, logData, logSynced, tabFiles, tabData, version>>
        BY <1>1, Zenon DEF ManifestAppend
      <3>2. Tables(version)' = Tables(version)
        BY <3>1, Zenon DEF Tables
      <3>3. Tables(Written.files)' = Tables(Written'.files)
        BY <3>1, Zenon DEF Tables
      <3>4. Home(logData)' = Home(logData) /\ Home(logSynced)' = Home(logSynced)
        BY <3>1, HomeKept, Zenon
      <3> QED
        BY <3>2, <3>3, <3>4, Zenon
    <2> QED
      BY <1>0, <2>2, <2>3, Zenon DEF Updates
  <1>2. CASE InstallFlush \/ InstallCompaction \/ InstallMove
    <2>1. /\ Written' = Written /\ version' = ApplyToFiles(version, edit)
          /\ logNumber' = edit.log /\ bgpc = "sync"
          /\ job = "flush" \/ UNCHANGED imm
      BY <1>2, Zenon DEF InstallFlush, InstallCompaction, InstallMove,
         ManifestSync, Written
    <2>2. /\ Tables(version) \subseteq Tables(version)'
          /\ Tables(edit.add) \subseteq Tables(version)'
      <3>1. Tables(version)' = Tables(ApplyToFiles(version, edit))
        BY <1>0, <2>1, Zenon DEF Tables
      <3>2. Tables(edit.del) \subseteq Tables(edit.add)
        BY <1>0, Zenon DEF EditOK
      <3>3. /\ Tables(version) \subseteq Tables(ApplyToFiles(version, edit))
            /\ Tables(edit.add) \subseteq Tables(ApplyToFiles(version, edit))
        BY <3>2, ApplyKeepsTables, Zenon
      <3> QED
        BY <3>1, <3>3, Zenon
    <2>3. Tables(version)' \subseteq Tables(Written.files)'
      <3>1. Tables(version)' \subseteq Tables(version) \cup Tables(edit.add)
        BY <1>0, <2>1, ZenonT(60) DEF Tables, ApplyToFiles
      <3>2. Tables(edit.add) \subseteq Tables(Written.files)
        BY <1>0, <2>1, Zenon DEF Tables, EditOK
      <3>3. Tables(Written.files)' = Tables(Written.files)
        BY <1>0, <2>1, Zenon DEF Tables
      <3> QED
        BY <1>0, <3>1, <3>2, <3>3, Zenon DEF Updates
    <2>4. /\ Home(logData) \subseteq Home(logData)'
          /\ Home(logSynced) \subseteq Home(logSynced)'
      <3>1. CASE job = "flush"
        BY <1>0, <2>2, <3>1, ZenonT(60) DEF Home, EditOK
      <3>2. CASE job # "flush"
        BY <1>0, <2>1, <2>2, <3>2 DEF Home, OldLogs, EditOK
      <3> QED
        BY <3>1, <3>2, Zenon
    <2> QED
      BY <1>0, <2>3, <2>4, Zenon DEF Updates
  <1> QED
    BY <1>1, <1>2, Zenon

(* Every step keeps every acknowledged update visible.                     *)
LEMMA UpdatesStep ==
  ASSUME TypeOK, Control, Creation, Manifest, Promises, Recovery, Numbers,
         Updates, EditOK, NewTables, Garbage, Next
  PROVE  Updates'
  <1> USE DEF logVars, tabVars, dscVars, memVars, vsetVars, writerVars, jobVars,
          replayVars, ghostVars, Running
  <1>1. CASE ~Running'
    BY <1>1, Zenon DEF Updates
  <1>2. CASE CompactionStart \/ TrivialMove \/ CompactionFails
             \/ LogAndApplyFails \/ RemoveDone \/ Reader
    <2>1. /\ Running
          /\ UNCHANGED <<acked, ackedSync, mem, imm, logfileNumber, logNumber,
                         version, Written, lastSequence, wpc, wsync, logVars,
                         tabVars>>
      BY <1>2, ZenonT(60) DEF CompactionStart, TrivialMove, CompactionFails,
         LogAndApplyFails, RemoveDone, Reader, PinVersion, UnpinVersion,
         Control, Written
    <2> QED
      BY <2>1, UpdatesKept, Zenon
  <1>3. CASE FlushStart \/ OpenCompactionOutputFile
    <2>1. /\ Running /\ nextFileNumber \in FileNo /\ current # 0
          /\ UNCHANGED <<acked, ackedSync, mem, imm, logfileNumber, logNumber,
                         version, Written, lastSequence, wpc, wsync, logVars>>
          /\ tabFiles \subseteq tabFiles'
          /\ tabFiles' \subseteq tabFiles \cup {nextFileNumber}
          /\ tabData' = [tabData EXCEPT ![nextFileNumber] = {}]
      <3>1. nextFileNumber \in 0..MaxFile + 1 /\ nextFileNumber <= MaxFile
        BY <1>3, Zenon DEF FlushStart, OpenCompactionOutputFile, TypeOK
      <3>2. nextFileNumber \in FileNo
        BY <3>1, BoundsAssumption DEF FileNo
      <3>3. tabFiles' \in {tabFiles, tabFiles \cup {nextFileNumber}}
        BY <1>3, Zenon DEF FlushStart, OpenCompactionOutputFile
      <3>4. tabFiles \subseteq tabFiles' /\ tabFiles' \subseteq tabFiles \cup {nextFileNumber}
        BY <3>3, Zenon
      <3> QED
        BY <1>3, <3>2, <3>4, ZenonT(60) DEF FlushStart,
           OpenCompactionOutputFile, Control, Creation, Written
    <2>2. \A t \in version \cup Written.files : t # nextFileNumber /\ t \in FileNo
      <3>1. version \subseteq Nat /\ version \subseteq FileNo /\ nextFileNumber \in Nat
        BY <2>1, DescriptorTypes, Zenon DEF TypeOK
      <3>2. \A t \in version : t < nextFileNumber
        BY <2>1, Zenon DEF Numbers
      <3>3. \A t \in Written.files : t < Written.next /\ Written.next <= nextFileNumber
        BY <2>1, Zenon DEF Numbers, Manifest, DescriptorOK
      <3>4. Written.next \in Nat /\ Written.files \subseteq FileNo /\ FileNo \subseteq Nat
        BY DescriptorTypes, Zenon
      <3>5. ASSUME NEW t \in version PROVE t # nextFileNumber /\ t \in FileNo
        BY <3>1, <3>2
      <3>6. ASSUME NEW t \in Written.files PROVE t # nextFileNumber /\ t \in FileNo
        BY <3>1, <3>3, <3>4
      <3> QED
        BY <3>5, <3>6, Zenon
    <2>3. \A t \in version \cup Written.files : tabData'[t] = tabData[t]
      BY <2>1, <2>2, Zenon DEF TypeOK
    <2> QED
      BY <2>1, <2>2, <2>3, UpdatesKept, ZenonT(60)
  <1>4. CASE FlushBuild \/ FlushBuildFails \/ FinishCompaction
    <2>1. /\ Running
          /\ UNCHANGED <<acked, ackedSync, mem, imm, logfileNumber, logNumber,
                         version, Written, lastSequence, wpc, wsync, logVars>>
          /\ tabFiles' \subseteq tabFiles
      BY <1>4, Zenon DEF FlushBuild, FlushBuildFails, FinishCompaction,
         Control, Written
    <2>2. \A t \in version \cup Written.files : t \in FileNo
      BY DescriptorTypes, Zenon DEF TypeOK
    <2>3. \A t \in (version \cup Written.files) \cap tabFiles :
             t \in tabFiles' /\ tabData'[t] = tabData[t]
      BY <1>4, <2>2, Zenon DEF FlushBuild, FlushBuildFails, FinishCompaction,
         NewTables, InUse, TypeOK
    <2> QED
      BY <2>1, <2>3, UpdatesKept, Zenon
  <1>5. CASE RemoveFile
    <2>1. PICK f \in toDelete :
            /\ logFiles' = IF f[1] = "log" THEN logFiles \ {f[2]} ELSE logFiles
            /\ tabFiles' = IF f[1] = "table" THEN tabFiles \ {f[2]} ELSE tabFiles
      BY <1>5, Zenon DEF RemoveFile
    <2>2. /\ Running
          /\ UNCHANGED <<acked, ackedSync, mem, imm, logfileNumber, logNumber,
                         version, Written, lastSequence, wpc, wsync, logData,
                         logSynced, tabData>>
          /\ tabFiles' \subseteq tabFiles
      BY <1>5, <2>1, Zenon DEF RemoveFile, Control, Written
    <2>3. (version \cup Written.files) \cap tabFiles \subseteq tabFiles'
      BY <2>1, Zenon DEF Garbage, DeletesOnlyGarbage, Written
    <2>4. \A n \in logFiles : n >= logNumber => n \in logFiles'
      <3>1. f[2] \in Nat /\ logFiles \subseteq Nat /\ logNumber \in Nat
        BY DescriptorTypes, Zenon DEF TypeOK
      <3>2. f[1] = "log" => f[2] < logNumber
        BY Zenon DEF Garbage
      <3> QED
        BY <2>1, <3>1, <3>2
    <2> QED
      BY <2>2, <2>3, <2>4, UpdatesKept, Zenon
  <1>6. CASE Crash \/ NewDB \/ NewDBSetCurrent \/ RecoverManifest
             \/ RecoverLogFile \/ ReplayRecord \/ ReplayFlush \/ ReplayDone
             \/ OpenNewLog \/ OpenWriteManifest
    BY <1>1, <1>6, Zenon DEF Crash, ProcessCrash, MachineCrash, NewDB,
       NewDBSetCurrent, RecoverManifest, RecoverLogFile, ReplayRecord,
       ReplayFlush, ReplayDone, OpenNewLog, OpenWriteManifest
  <1>7. CASE OpenSetCurrent
    <2>1. acked \subseteq Tables(version \cup replayTables)
      BY <1>7, Zenon DEF OpenSetCurrent, Recovery, Recovering, LogsToReplay
    <2>2. /\ Written'.files = version \cup replayTables
          /\ version' = version \cup replayTables /\ wpc' = "idle"
          /\ UNCHANGED <<tabFiles, tabData, acked, ackedSync>>
      BY <1>7, CurrentSwitched, Zenon DEF OpenSetCurrent, Control
    <2>3. Tables(version)' = Tables(version \cup replayTables)
          /\ Tables(Written.files)' = Tables(version)'
      BY <2>2, Zenon DEF Tables
    <2> QED
      BY <2>1, <2>2, <2>3, Zenon DEF Updates, Home, Promises
  <1>8. CASE OpenDone
    BY <1>8, UpdatesKept, Zenon DEF OpenDone, Written
  <1> QED
    BY <1>2, <1>3, <1>4, <1>5, <1>6, <1>7, <1>8, UpdatesWriter, UpdatesInstall,
       Zenon DEF Next, Background, Open

-----------------------------------------------------------------------------
(* Types. *)

(* The content of a file that is no MANIFEST has the type of one.          *)
LEMMA NoDescriptorType == NoDescriptor \in Descriptor
  BY BoundsAssumption DEF NoDescriptor, Descriptor, FileNo

(* The empty edit has the type of an edit.                                 *)
LEMMA NoEditType == NoEdit \in VersionEdit
  BY BoundsAssumption DEF NoEdit, VersionEdit, FileNo

(* Builder::Apply and SaveTo yield a set of file numbers.                  *)
LEMMA ApplyType ==
  ASSUME NEW d \in Descriptor, NEW e \in VersionEdit
  PROVE  Apply(d, e) \in Descriptor
  BY Zenon DEF Apply, ApplyToFiles, Descriptor, VersionEdit

(* RemoveObsoleteFiles selects files by kind and number.                   *)
LEMMA ObsoleteFilesType ==
  ASSUME TypeOK, NEW live, NEW logno
  PROVE  ObsoleteFiles(live, logno) \subseteq {"log", "dsc", "table"} \X FileNo
  BY Zenon DEF TypeOK, ObsoleteFiles

(* Nothing is written unless the database is open, and a write in progress *)
(* has a sequence number left to take.                                     *)
WriterOK ==
    /\ phase # "open" => wpc = "idle"
    /\ wpc # "idle" => lastSequence < MaxSeq

(* An empty directory has the types.                                       *)
LEMMA InitType == Init => TypeOK /\ WriterOK
  <1>1. /\ 0 \in FileNo /\ 2 \in 0..MaxFile + 1
        /\ 0 \in 0..MaxSeq /\ 0 \in 0..MaxCrash
    BY BoundsAssumption DEF FileNo
  <1> QED
    BY <1>1, NoDescriptorType, NoEditType, ZenonT(60) DEF Init, MemoryInit,
       TypeOK, WriterOK

(* The steps of DBImpl::Write and MakeRoomForWrite keep the types.         *)
LEMMA WriterType ==
  ASSUME TypeOK, WriterOK, Writer
  PROVE  TypeOK' /\ WriterOK'
  <1> USE BoundsAssumption DEF logVars, tabVars, dscVars, memVars, vsetVars,
          writerVars, jobVars, replayVars, ghostVars, WriterOK
  <1>0. wpc # "idle" => lastSequence + 1 \in Seqs /\ lastSequence + 1 \in 0..MaxSeq
    BY DEF TypeOK, Seqs
  <1>1. ASSUME NEW sync \in BOOLEAN, WriteBegin(sync) PROVE TypeOK' /\ WriterOK'
    BY <1>1, Zenon DEF WriteBegin, TypeOK
  <1>2. CASE AddRecord
    BY <1>0, <1>2, Zenon DEF AddRecord, TypeOK
  <1>3. CASE AddRecordFails
    BY <1>0, <1>3, Zenon DEF AddRecordFails, TypeOK
  <1>4. CASE SyncLog
    BY <1>4, Zenon DEF SyncLog, TypeOK
  <1>5. CASE SyncLogFails
    BY <1>0, <1>5, Zenon DEF SyncLogFails, TypeOK
  <1>6. CASE WriteFinish
    BY <1>0, <1>6, Zenon DEF WriteFinish, TypeOK
  <1>7. ASSUME NEW closeOk \in BOOLEAN, SwitchMemTable(closeOk)
        PROVE  TypeOK' /\ WriterOK'
    <2>1. nextFileNumber \in FileNo /\ nextFileNumber' \in 0..MaxFile + 1
      BY <1>7, SMTT(60) DEF SwitchMemTable, TypeOK, FileNo
    <2> QED
      BY <1>7, <2>1, Zenon DEF SwitchMemTable, CanSwitch, TypeOK
  <1> QED
    BY <1>1, <1>2, <1>3, <1>4, <1>5, <1>6, <1>7, Zenon DEF Writer

(* The steps of a flush keep the types.                                    *)
LEMMA FlushType ==
  ASSUME TypeOK, WriterOK, FlushStart \/ FlushBuild \/ FlushBuildFails
  PROVE  TypeOK' /\ WriterOK'
  <1> USE BoundsAssumption DEF logVars, tabVars, dscVars, memVars, vsetVars,
          writerVars, jobVars, replayVars, ghostVars, WriterOK
  <1>1. CASE FlushStart
    <2>1. nextFileNumber \in FileNo /\ nextFileNumber' \in 0..MaxFile + 1
      BY <1>1, SMTT(60) DEF FlushStart, TypeOK, FileNo
    <2> QED
      BY <1>1, <2>1, Zenon DEF FlushStart, TypeOK
  <1>2. CASE FlushBuild
    <2>1. edit' \in VersionEdit
      BY <1>2, Zenon DEF FlushBuild, FlushEdit, VersionEdit, TypeOK
    <2> QED
      BY <1>2, <2>1, Zenon DEF FlushBuild, TypeOK
  <1>3. CASE FlushBuildFails
    BY <1>3, Zenon DEF FlushBuildFails, AfterFlush, TypeOK
  <1> QED
    BY <1>1, <1>2, <1>3, Zenon

(* The steps of a compaction keep the types.                               *)
LEMMA CompactionType ==
  ASSUME TypeOK, WriterOK,
         CompactionStart \/ TrivialMove \/ OpenCompactionOutputFile
         \/ FinishCompaction \/ CompactionFails
  PROVE  TypeOK' /\ WriterOK'
  <1> USE BoundsAssumption DEF logVars, tabVars, dscVars, memVars, vsetVars,
          writerVars, jobVars, replayVars, ghostVars, WriterOK
  <1>1. CASE CompactionStart
    <2>1. 0 \in FileNo /\ inputs' \subseteq FileNo
      BY <1>1 DEF CompactionStart, TypeOK, FileNo
    <2> QED
      BY <1>1, <2>1, Zenon DEF CompactionStart, TypeOK
  <1>2. CASE TrivialMove
    <2>1. edit' \in VersionEdit
      BY <1>2, SMTT(60) DEF TrivialMove, VersionEdit, TypeOK
    <2> QED
      BY <1>2, <2>1, ZenonT(60) DEF TrivialMove, TypeOK
  <1>3. CASE OpenCompactionOutputFile
    <2>1. nextFileNumber \in FileNo /\ nextFileNumber' \in 0..MaxFile + 1
      <3>1. /\ nextFileNumber \in 0..MaxFile + 1 /\ nextFileNumber <= MaxFile
            /\ nextFileNumber' = nextFileNumber + 1
        BY <1>3, Zenon DEF OpenCompactionOutputFile, TypeOK
      <3> QED
        BY <3>1 DEF FileNo
    <2> QED
      BY <1>3, <2>1, Zenon DEF OpenCompactionOutputFile, TypeOK
  <1>4. CASE FinishCompaction
    <2>1. edit' \in VersionEdit
      BY <1>4, ZenonT(60) DEF FinishCompaction, VersionEdit, TypeOK
    <2>2. UNION {tabData[t] : t \in inputs} \subseteq Seqs
      BY Zenon DEF TypeOK
    <2> QED
      BY <1>4, <2>1, <2>2, Zenon DEF FinishCompaction, TypeOK
  <1>5. CASE CompactionFails
    <2>1. 0 \in FileNo
      BY DEF FileNo
    <2> QED
      BY <1>5, <2>1, Zenon DEF CompactionFails, TypeOK
  <1> QED
    BY <1>1, <1>2, <1>3, <1>4, <1>5, Zenon

(* The steps of LogAndApply keep the types.                                *)
LEMMA InstallType ==
  ASSUME TypeOK, WriterOK,
         ManifestAppend \/ LogAndApplyFails \/ InstallFlush
         \/ InstallCompaction \/ InstallMove
  PROVE  TypeOK' /\ WriterOK'
  <1> USE DEF logVars, tabVars, dscVars, memVars, vsetVars,
          writerVars, jobVars, replayVars, ghostVars, WriterOK
  <1>0. 0 \in FileNo
    BY BoundsAssumption DEF FileNo
  <1>1. CASE ManifestAppend
    <2>1. Apply(dscWritten[manifestFileNumber], edit) \in Descriptor
      BY ApplyType, Zenon DEF TypeOK
    <2> QED
      BY <1>1, <2>1, Zenon DEF ManifestAppend, TypeOK
  <1>2. CASE LogAndApplyFails
    BY <1>0, <1>2, Zenon DEF LogAndApplyFails, AfterFlush, TypeOK
  <1>3. ASSUME ManifestSync
        PROVE  /\ dscSynced' \in [FileNo -> Descriptor]
               /\ version' \subseteq FileNo /\ logNumber' \in FileNo
    BY <1>3, Zenon DEF ManifestSync, ManifestAfterSync, ApplyToFiles, TypeOK, VersionEdit
  <1>4. CASE InstallFlush
    <2>1. toDelete' \subseteq {"log", "dsc", "table"} \X FileNo
      BY <1>4, ObsoleteFilesType, Zenon DEF InstallFlush
    <2> QED
      BY <1>3, <1>4, <2>1, ZenonT(60) DEF InstallFlush, TypeOK
  <1>5. CASE InstallCompaction
    <2>1. toDelete' \subseteq {"log", "dsc", "table"} \X FileNo
      BY <1>5, ObsoleteFilesType, Zenon DEF InstallCompaction
    <2> QED
      BY <1>0, <1>3, <1>5, <2>1, ZenonT(60) DEF InstallCompaction, TypeOK
  <1>6. CASE InstallMove
    BY <1>3, <1>6, Zenon DEF InstallMove, TypeOK
  <1> QED
    BY <1>1, <1>2, <1>4, <1>5, <1>6, Zenon

(* Deletions and the pins of readers keep the types.                       *)
LEMMA RemoveAndReadType ==
  ASSUME TypeOK, WriterOK, RemoveFile \/ RemoveDone \/ Reader
  PROVE  TypeOK' /\ WriterOK'
  <1> USE DEF logVars, tabVars, dscVars, memVars, vsetVars,
          writerVars, jobVars, replayVars, ghostVars, WriterOK
  <1>1. CASE RemoveFile
    <2>1. /\ toDelete' \subseteq toDelete /\ logFiles' \subseteq logFiles
          /\ dscFiles' \subseteq dscFiles /\ tabFiles' \subseteq tabFiles
      BY <1>1, Zenon DEF RemoveFile
    <2> QED
      <3>1. /\ toDelete' \subseteq {"log", "dsc", "table"} \X FileNo
            /\ logFiles' \subseteq FileNo /\ dscFiles' \subseteq FileNo
            /\ tabFiles' \subseteq FileNo
        BY <2>1, Zenon DEF TypeOK
      <3> QED
        BY <1>1, <3>1, ZenonT(60) DEF RemoveFile, TypeOK
  <1>2. CASE RemoveDone
    BY <1>2, Zenon DEF RemoveDone, AfterFlush, TypeOK
  <1>3. CASE Reader
    BY <1>3 DEF Reader, PinVersion, UnpinVersion, TypeOK
  <1> QED
    BY <1>1, <1>2, <1>3, Zenon

(* Crashes of the process and of the machine keep the types.               *)
LEMMA CrashType ==
  ASSUME TypeOK, WriterOK, Crash
  PROVE  TypeOK' /\ WriterOK'
  <1> USE DEF logVars, tabVars, dscVars, memVars, vsetVars,
          writerVars, jobVars, replayVars, ghostVars, WriterOK
  <1>0. /\ 0 \in FileNo /\ 2 \in 0..MaxFile + 1 /\ 0 \in 0..MaxSeq
        /\ crashes < MaxCrash => crashes + 1 \in 0..MaxCrash
    BY BoundsAssumption, SMTT(60) DEF FileNo, TypeOK
  <1>1. CASE ProcessCrash
    BY <1>0, <1>1, NoEditType, Zenon DEF ProcessCrash, MemoryLost, TypeOK
  <1>2. CASE MachineCrash
    <2>1. logData' \in [FileNo -> SUBSET Seqs]
      BY <1>2, Zenon DEF MachineCrash, TypeOK
    <2> QED
      BY <1>0, <1>2, <2>1, NoEditType, Zenon DEF MachineCrash, MemoryLost,
         TypeOK
  <1> QED
    BY <1>1, <1>2, Zenon DEF Crash

(* The steps of NewDB, Recover and DB::Open keep the types.                *)
LEMMA OpenType ==
  ASSUME TypeOK, WriterOK, Open
  PROVE  TypeOK' /\ WriterOK'
  <1> USE DEF logVars, tabVars, dscVars, memVars, vsetVars,
          writerVars, jobVars, replayVars, ghostVars, WriterOK
  <1>0. 0 \in FileNo /\ 1 \in FileNo /\ 0 \in 0..MaxSeq
    BY BoundsAssumption, SMTT(60) DEF FileNo
  <1>1. CASE NewDB
    <2>1. FirstDescriptor \in Descriptor
      BY BoundsAssumption DEF FirstDescriptor, Descriptor, FileNo
    <2> QED
      BY <1>0, <1>1, <2>1, Zenon DEF NewDB, TypeOK
  <1>2. CASE NewDBSetCurrent
    BY <1>0, <1>2, Zenon DEF NewDBSetCurrent, TypeOK
  <1>3. CASE RecoverManifest
    <2>1. dscWritten[current] \in Descriptor
      BY Zenon DEF TypeOK
    <2>2. /\ version' \subseteq FileNo /\ logNumber' \in FileNo
          /\ lastSequence' \in 0..MaxSeq
      BY <1>3, <2>1, ZenonT(60) DEF RecoverManifest, Descriptor
    <2>3. manifestFileNumber' \in FileNo /\ nextFileNumber' \in 0..MaxFile + 1
      BY <1>3, <2>1, BoundsAssumption, SMTT(60) DEF RecoverManifest,
         Descriptor, FileNo
    <2>4. replayLogs' \subseteq FileNo /\ phase' \in {"replay", "corrupt"}
      BY <1>3, ZenonT(60) DEF RecoverManifest, TypeOK
    <2> QED
      BY <1>3, <2>2, <2>3, <2>4, Zenon DEF RecoverManifest, TypeOK
  <1>4. CASE RecoverLogFile
    <2>1. replayLog' \in FileNo /\ replayRest' \subseteq Seqs
      BY <1>4, Zenon DEF RecoverLogFile, TypeOK
    <2> QED
      BY <1>4, <2>1, Zenon DEF RecoverLogFile, TypeOK
  <1>5. CASE ReplayRecord
    <2>1. /\ mem' \subseteq Seqs /\ replayRest' \subseteq Seqs
          /\ maxSequence' \in 0..MaxSeq
      BY <1>5, BoundsAssumption, SMTT(60) DEF ReplayRecord, Larger, TypeOK,
         Seqs
    <2> QED
      BY <1>5, <2>1, Zenon DEF ReplayRecord, TypeOK
  <1>6. CASE ReplayFlush
    <2>1. nextFileNumber \in FileNo /\ nextFileNumber' \in 0..MaxFile + 1
      BY <1>6, BoundsAssumption, SMTT(60) DEF ReplayFlush, TypeOK, FileNo
    <2> QED
      BY <1>6, <2>1, Zenon DEF ReplayFlush, TypeOK
  <1>7. CASE ReplayDone
    <2>1. nextFileNumber' \in 0..MaxFile + 1
      BY <1>7, BoundsAssumption, SMTT(60) DEF ReplayDone, Larger, TypeOK,
         FileNo
    <2> QED
      BY <1>0, <1>7, <2>1, Zenon DEF ReplayDone, TypeOK
  <1>8. CASE OpenNewLog
    <2>1. nextFileNumber \in FileNo /\ nextFileNumber' \in 0..MaxFile + 1
      BY <1>8, BoundsAssumption, SMTT(60) DEF OpenNewLog, TypeOK, FileNo
    <2>2. lastSequence' \in 0..MaxSeq
      BY <1>8, ZenonT(60) DEF OpenNewLog, RecoveredSequence, Larger, TypeOK
    <2> QED
      BY <1>8, <2>1, <2>2, Zenon DEF OpenNewLog, TypeOK
  <1>9. CASE OpenWriteManifest
    <2>1. [files |-> version \cup replayTables, log |-> logfileNumber,
           next |-> nextFileNumber, seq |-> lastSequence] \in Descriptor
      BY Zenon DEF TypeOK, Descriptor
    <2>2. dscWritten' \in [FileNo -> Descriptor]
      BY <1>9, <2>1, Zenon DEF OpenWriteManifest, TypeOK
    <2>3. dscSynced' \in [FileNo -> Descriptor]
      BY <1>9, <2>2, Zenon DEF OpenWriteManifest, TypeOK
    <2> QED
      BY <1>9, <2>2, <2>3, Zenon DEF OpenWriteManifest, TypeOK
  <1>10. CASE OpenSetCurrent
    <2>1. toDelete' \subseteq {"log", "dsc", "table"} \X FileNo
      BY <1>10, ObsoleteFilesType, Zenon DEF OpenSetCurrent
    <2> QED
      BY <1>0, <1>10, <2>1, ZenonT(60) DEF OpenSetCurrent, TypeOK
  <1>11. CASE OpenDone
    BY <1>11, Zenon DEF OpenDone, TypeOK
  <1> QED
    BY <1>1, <1>2, <1>3, <1>4, <1>5, <1>6, <1>7, <1>8, <1>9, <1>10, <1>11,
       Zenon DEF Open

(* Every state the database and its disk can reach is well typed, whatever *)
(* the bounds.                                                             *)
THEOREM TypeCorrect == Spec => []TypeOK
  <1>1. ASSUME TypeOK, WriterOK, [Next]_vars PROVE TypeOK' /\ WriterOK'
    <2>1. CASE Background
      BY <1>1, <2>1, FlushType, CompactionType, InstallType, RemoveAndReadType, Zenon DEF Background

    <2>2. CASE UNCHANGED vars
      BY <1>1, <2>2 DEF vars, logVars, tabVars, dscVars, memVars, vsetVars,
         writerVars, jobVars, replayVars, ghostVars, TypeOK, WriterOK
    <2> QED
      BY <1>1, <2>1, <2>2, WriterType, RemoveAndReadType, CrashType, OpenType, Zenon
      DEF Next
  <1> QED
    BY <1>1, InitType, PTL DEF Spec

=============================================================================
