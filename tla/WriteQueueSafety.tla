-------------------------- MODULE WriteQueueSafety --------------------------
(***************************************************************************)
(* The safety properties of WriteQueue, for any number of threads and      *)
(* calls and any limits, from the steps that keep the parts of QueueInv:   *)
(* those of WriteQueueProofs (the queue and the background thread) and     *)
(* WriteQueueGroups (the groups, the numbers, what was promised), and the  *)
(* types here.                                                             *)
(***************************************************************************)
EXTENDS WriteQueueGroups

USE DEF LeaderLines, GroupLines

-----------------------------------------------------------------------------
(* Types.                                                                  *)

(* The parts of TypeOK: the queue and its calls, the threads, the leader,  *)
(* the data, and the background thread.                                    *)
CallTypes ==
    /\ queue \in Seq(Threads) /\ lastSequence \in {0} \cup Seqs
    /\ req \in [Threads -> [sync : BOOLEAN, batch : BOOLEAN]]
    /\ done \in [Threads -> BOOLEAN] /\ status \in [Threads -> {"ok", "error"}]
    /\ logged \subseteq Seqs /\ synced \subseteq Seqs
    /\ seq \in [Threads -> {0} \cup Seqs]
    /\ acked \subseteq Seqs /\ ackedSync \subseteq Seqs
    /\ before \in [Threads -> SUBSET Seqs]
    /\ calls \in [Threads -> 0..MaxCalls]
PlaceTypes == pc \in [Threads -> Lines] /\ woken \subseteq Threads \cup {"closer"}
HeadTypes ==
    /\ force \in BOOLEAN /\ allowDelay \in BOOLEAN /\ group \in Nat
    /\ inserted \in Nat /\ hstatus \in {"ok", "error", "syncError"}
DataTypes ==
    /\ mem \subseteq Seqs /\ imm \subseteq Seqs /\ hasImm \in BOOLEAN
    /\ tables \subseteq Seqs /\ l0 \in Nat /\ seek \in BOOLEAN
    /\ bgError \in BOOLEAN /\ shuttingDown \in BOOLEAN
ManualTypes ==
    /\ manual \in Compactors \cup {NoThread}
    /\ mdone \in [Threads -> BOOLEAN] /\ mleft \in [Threads -> 0..MaxRange]
    /\ mlevel \in [Threads -> 0..MaxLevels - 1]
CallTypesKept == UNCHANGED <<queue, lastSequence, req, done, status, logged, synced,
                             seq, acked, ackedSync, before, calls>>
BgTypes ==
    /\ bgpc \in {"none", "queued", "flush", "work", "crashed"}
    /\ nested \in BOOLEAN /\ kind \in {"none", "manual", "size", "seek"}
    /\ picked \in Nat /\ keys \in 0..MaxKeys
    /\ closing \in {"no", "wait", "done"}

(* TypeOK is the conjunction of the parts. *)
LEMMA TypeParts ==
    TypeOK <=> /\ CallTypes /\ PlaceTypes /\ HeadTypes /\ DataTypes
               /\ ManualTypes /\ BgTypes
BY Zenon DEF TypeOK, CallTypes, PlaceTypes, HeadTypes, DataTypes, ManualTypes, BgTypes,
       Lines

(* The same after a step. *)
LEMMA TypePartsNext ==
    /\ CallTypes' /\ PlaceTypes' /\ HeadTypes' /\ DataTypes' /\ ManualTypes'
    /\ BgTypes'
    => TypeOK'
<1>1. (TypeOK <=> /\ CallTypes /\ PlaceTypes /\ HeadTypes /\ DataTypes
                  /\ ManualTypes /\ BgTypes)'
  BY TypeParts, PTL
<1>2. QED
  BY <1>1, Zenon

(* The parts that a step leaves alone. *)
LEMMA PartsKept ==
    ASSUME TypeOK
    PROVE  /\ CallTypesKept => CallTypes'
           /\ UNCHANGED headVars => HeadTypes'
           /\ UNCHANGED <<dbVars, bgError, shuttingDown>> => DataTypes'
           /\ UNCHANGED manualVars => ManualTypes'
           /\ UNCHANGED <<bgVars, closing>> => BgTypes'
<1>1. CallTypes /\ HeadTypes /\ DataTypes /\ ManualTypes /\ BgTypes
  BY TypeParts, Zenon
<1>2. CallTypesKept => CallTypes'
  BY <1>1, Zenon DEF CallTypes, CallTypesKept
<1>3. UNCHANGED headVars => HeadTypes'
  BY <1>1, Zenon DEF HeadTypes, headVars
<1>4. UNCHANGED <<dbVars, bgError, shuttingDown>> => DataTypes'
  BY <1>1, Zenon DEF DataTypes, dbVars
<1>5. UNCHANGED manualVars => ManualTypes'
  BY <1>1, Zenon DEF ManualTypes, manualVars
<1>6. UNCHANGED <<bgVars, closing>> => BgTypes'
  BY <1>1, Zenon DEF BgTypes, bgVars
<1>7. QED
  BY <1>2, <1>3, <1>4, <1>5, <1>6, Zenon

(* A new call. *)
LEMMA EnqueueTypes ==
    ASSUME TypeOK, NEW t \in Threads, NEW sync \in BOOLEAN, NEW batch \in BOOLEAN,
           Enqueue(t, sync, batch)
    PROVE  TypeOK'
<1>1. CallTypes /\ PlaceTypes /\ HeadTypes
  BY TypeParts, Zenon
<1>2. CallTypes'
  <2>1. /\ queue' \in Seq(Threads)
        /\ req' \in [Threads -> [sync : BOOLEAN, batch : BOOLEAN]]
        /\ before' \in [Threads -> SUBSET Seqs]
    BY <1>1 DEF CallTypes, Enqueue
  <2>2. calls' \in [Threads -> 0..MaxCalls]
    BY <1>1, TriggersAssumption, SMTT(30) DEF CallTypes, Enqueue
  <2>3. UNCHANGED <<lastSequence, done, status, logged, synced, seq, acked, ackedSync>>
    BY Zenon DEF Enqueue, logVars, promiseVars
  <2>4. QED
    BY <1>1, <2>1, <2>2, <2>3, Zenon DEF CallTypes
<1>3. PlaceTypes'
  BY <1>1, Zenon DEF PlaceTypes, Enqueue, Lines
<1>4. HeadTypes'
  BY <1>1, Zenon DEF HeadTypes, Enqueue
<1>5. DataTypes' /\ ManualTypes' /\ BgTypes'
  BY PartsKept, Zenon DEF Enqueue
<1>6. QED
  BY <1>2, <1>3, <1>4, <1>5, TypePartsNext, Zenon

(* A woken writer. *)
LEMMA WakeTypes ==
    ASSUME TypeOK, DoneWritten, NEW t \in Threads, WakeWriter(t)
    PROVE  TypeOK'
<1>1. CallTypes /\ PlaceTypes /\ HeadTypes
  BY TypeParts, Zenon
<1>2. UNCHANGED <<queue, lastSequence, req, logged, synced, before, calls>>
  BY Zenon DEF WakeWriter, logVars
<1>3. CASE done[t]
  <2>1. /\ pc' = [pc EXCEPT ![t] = AfterWrite(t, status[t])]
        /\ Promise(t, seq[t], status[t])
        /\ done' = [done EXCEPT ![t] = FALSE]
        /\ status' = [status EXCEPT ![t] = "ok"]
        /\ seq' = [seq EXCEPT ![t] = 0]
        /\ woken' = woken \ {t}
        /\ UNCHANGED headVars
    BY <1>3, Zenon DEF WakeWriter, headVars
  <2>2. /\ done' \in [Threads -> BOOLEAN] /\ status' \in [Threads -> {"ok", "error"}]
        /\ seq' \in [Threads -> {0} \cup Seqs]
    BY <1>1, <2>1, Zenon DEF CallTypes
  <2>3. req[t].batch /\ status[t] = "ok" => seq[t] \in Seqs
    BY <1>1, <1>3, Zenon DEF DoneWritten, WrittenFor, CallTypes
  <2>4. acked' \subseteq Seqs /\ ackedSync' \subseteq Seqs
    BY <1>1, <2>1, <2>3, Zenon DEF Promise, CallTypes
  <2>5. CallTypes'
    BY <1>1, <1>2, <2>2, <2>4, Zenon DEF CallTypes
  <2>6. AfterWrite(t, status[t]) \in Lines
    BY Zenon DEF AfterWrite, Lines, Threads
  <2>7. PlaceTypes'
    BY <1>1, <2>1, <2>6, Zenon DEF PlaceTypes
  <2>8. HeadTypes' /\ DataTypes' /\ ManualTypes' /\ BgTypes'
    BY <2>1, PartsKept, Zenon DEF WakeWriter
  <2>9. QED
    BY <2>5, <2>7, <2>8, TypePartsNext, Zenon
<1>4. CASE ~done[t]
  <2>1. CallTypes'
    BY <1>2, <1>4, PartsKept, Zenon DEF WakeWriter, CallTypesKept, promiseVars
  <2>2. PlaceTypes'
    BY <1>1, <1>4, Zenon DEF PlaceTypes, WakeWriter, Lines
  <2>3. HeadTypes'
    <3>1. req[t].batch \in BOOLEAN
      BY <1>1, Zenon DEF CallTypes
    <3>2. QED
      BY <1>1, <1>4, <3>1, Zenon DEF HeadTypes, WakeWriter
  <2>4. DataTypes' /\ ManualTypes' /\ BgTypes'
    BY PartsKept, Zenon DEF WakeWriter
  <2>5. QED
    BY <2>1, <2>2, <2>3, <2>4, TypePartsNext, Zenon
<1>5. QED
  BY <1>3, <1>4, Zenon

(* The end of Write for a group of k. *)
LEMMA FinishTypes ==
    ASSUME TypeOK, QueueShape, Numbered, NEW t \in Threads,
           NEW k \in 1..Len(queue), NEW st \in {"ok", "error"}, NEW signals,
           signals \subseteq Threads \cup {"closer"},
           pc[t] \in LeaderLines, FinishWrite(t, k, st, signals)
    PROVE  /\ queue' \in Seq(Threads) /\ done' \in [Threads -> BOOLEAN]
           /\ status' \in [Threads -> {"ok", "error"}]
           /\ seq' \in [Threads -> {0} \cup Seqs]
           /\ acked' \subseteq Seqs /\ ackedSync' \subseteq Seqs
           /\ PlaceTypes' /\ force' \in BOOLEAN /\ allowDelay' \in BOOLEAN
<1>1. CallTypes /\ PlaceTypes
  BY TypeParts, Zenon
<1>2. queue[1] = t /\ \A i \in 1..Len(queue) : queue[i] \in Threads
  BY LeaderIs, QueuePlaces, Zenon
<1>3. Len(queue) \in Nat /\ k \in Nat
  BY QueuePlaces
<1>4. queue' = SubSeq(queue, k + 1, Len(queue))
  BY Zenon DEF FinishWrite
<1>5. queue' \in Seq(Threads)
  BY <1>1, <1>2, <1>3, <1>4 DEF CallTypes
<1>6. done' \in [Threads -> BOOLEAN]
  <2>1. done' = [u \in Threads |-> done[u] \/ u \in Members(k)]
    BY Zenon DEF FinishWrite, Members
  <2>2. QED
    BY <1>1, <2>1, Zenon DEF CallTypes
<1>7. status' \in [Threads -> {"ok", "error"}]
  <2>1. status' = [u \in Threads |-> IF u \in Members(k) THEN st ELSE status[u]]
    BY Zenon DEF FinishWrite, Members
  <2>2. QED
    BY <1>1, <2>1, Zenon DEF CallTypes
<1>8. seq' \in [Threads -> {0} \cup Seqs]
  <2>1. seq' = [u \in Threads |-> seq'[u]]
    BY DEF FinishWrite
  <2>2. ASSUME NEW u \in Threads PROVE seq'[u] \in {0} \cup Seqs
    <3>1. CASE u \in Members(k)
      <4>1. PICK i \in 2..k : u = queue[i]
        BY <3>1, Zenon DEF Members
      <4>2. seq'[u] = lastSequence + BatchesUpTo(i)
        BY <4>1, FinishTells
      <4>3. i \in 0..Len(queue)
        BY <1>3, <4>1
      <4>4. QED
        BY <4>2, <4>3, NumbersInRange, Zenon
    <3>2. CASE u \notin Members(k)
      <4>1. seq'[u] = seq[u]
        BY <3>2, FinishTells, SMTT(30)
      <4>2. QED
        BY <1>1, <4>1, Zenon DEF CallTypes
    <3>3. QED
      BY <3>1, <3>2, Zenon
  <2>3. QED
    BY <2>1, <2>2, Zenon
<1>9. req[t].batch => lastSequence + BatchesUpTo(1) \in Seqs
  <2>1. 1 \in 1..Len(queue) /\ 1 \in 0..Len(queue) /\ 1 \in 1..1
    BY <1>3
  <2>2. req[t].batch =>
          lastSequence + BatchesUpTo(1) \in lastSequence + 1 .. lastSequence + BatchesUpTo(1)
    BY <1>2, <2>1, NumberOf, Zenon
  <2>3. (lastSequence + 1 .. lastSequence + BatchesUpTo(1)) \subseteq Seqs
    BY <2>1, NumbersInRange, Zenon
  <2>4. QED
    BY <2>2, <2>3, Zenon
<1>10. acked' \subseteq Seqs /\ ackedSync' \subseteq Seqs
  <2>1. /\ acked' = acked \cup (IF req[t].batch /\ st = "ok"
                               THEN {lastSequence + BatchesUpTo(1)} ELSE {})
        /\ ackedSync' = ackedSync \cup
                          (IF req[t].sync /\ req[t].batch /\ st = "ok"
                           THEN {lastSequence + BatchesUpTo(1)} ELSE {})
    BY FinishTells
  <2>2. acked \subseteq Seqs /\ ackedSync \subseteq Seqs
    BY <1>1, Zenon DEF CallTypes
  <2>3. QED
    BY <1>9, <2>1, <2>2, Zenon
<1>11. PlaceTypes'
  <2>1. pc' = [pc EXCEPT ![t] = AfterWrite(t, st)]
    BY Zenon DEF FinishWrite
  <2>2. AfterWrite(t, st) \in Lines
    BY Zenon DEF AfterWrite, Lines
  <2>3. woken' = woken \cup signals \cup SignalGroup(Members(k), queue')
    BY <1>4, Zenon DEF FinishWrite, Members
  <2>4. Members(k) \subseteq Threads
    BY <1>2, <1>3 DEF Members
  <2>5. queue' # <<>> => Head(queue') \in Threads
    BY <1>5
  <2>6. SignalGroup(Members(k), queue') \subseteq Threads
    BY <2>4, <2>5, Zenon DEF SignalGroup
  <2>7. QED
    BY <1>1, <2>1, <2>2, <2>3, <2>6, Zenon DEF PlaceTypes
<1>12. force' \in BOOLEAN /\ allowDelay' \in BOOLEAN
  BY Zenon DEF FinishWrite
<1>13. QED
  BY <1>5, <1>6, <1>7, <1>8, <1>10, <1>11, <1>12, Zenon

(* A leader that returns before it formed a group. *)
LEMMA EarlyTypes ==
    ASSUME TypeOK, QueueShape, Numbered, NEW t \in Threads, Early(t)
    PROVE  TypeOK'
<1>1. CallTypes /\ HeadTypes
  BY TypeParts, Zenon
<1>2. pc[t] \in LeaderLines
  BY Zenon DEF Early, LeaderLines
<1>3. PICK st \in {"ok", "error"} : FinishWrite(t, 1, st, {})
  BY Zenon DEF Early
<1>4. 1 \in 1..Len(queue)
  BY <1>2, LeaderIs, Zenon
<1>5. /\ queue' \in Seq(Threads) /\ done' \in [Threads -> BOOLEAN]
      /\ status' \in [Threads -> {"ok", "error"}]
      /\ seq' \in [Threads -> {0} \cup Seqs]
      /\ acked' \subseteq Seqs /\ ackedSync' \subseteq Seqs
      /\ PlaceTypes' /\ force' \in BOOLEAN /\ allowDelay' \in BOOLEAN
  BY <1>2, <1>3, <1>4, FinishTypes, Zenon
<1>6. CallTypes'
  BY <1>1, <1>5, Zenon DEF CallTypes, Early, logVars
<1>7. HeadTypes'
  BY <1>1, <1>5, Zenon DEF HeadTypes, Early
<1>8. DataTypes' /\ ManualTypes' /\ BgTypes'
  BY PartsKept, Zenon DEF Early
<1>9. QED
  BY <1>5, <1>6, <1>7, <1>8, TypePartsNext, Zenon

(* The leader ends the writes of its group. *)
LEMMA EndTypes ==
    ASSUME TypeOK, QueueShape, GroupShape, Numbered, NEW t \in Threads, WriteEnd(t)
    PROVE  TypeOK'
<1>1. CallTypes /\ HeadTypes /\ DataTypes /\ BgTypes
  BY TypeParts, Zenon
<1>2. pc[t] \in LeaderLines /\ pc[t] \in GroupLines
  BY Zenon DEF WriteEnd, LeaderLines, GroupLines
<1>3. group \in 1..Len(queue) /\ group \in 0..Len(queue)
  BY <1>2, GroupFacts, QueuePlaces, SMTT(30)
<1>4. lastSequence' \in {0} \cup Seqs
  BY <1>3, NumbersInRange, Zenon DEF WriteEnd, SequenceAfterGroup
<1>5. bgError' \in BOOLEAN
  BY <1>1, Zenon DEF DataTypes, WriteEnd
<1>6. PICK st \in {"ok", "error"}, signals \in SUBSET (Threads \cup {"closer"}) :
        FinishWrite(t, group, st, signals)
  <2>1. (IF bgError' /\ ~bgError THEN SignalAll(pc) ELSE {})
          \in SUBSET (Threads \cup {"closer"})
    BY Zenon DEF SignalAll
  <2>2. (IF hstatus = "ok" THEN "ok" ELSE "error") \in {"ok", "error"}
    BY Zenon
  <2>3. QED
    BY <2>1, <2>2, Zenon DEF WriteEnd
<1>7. /\ queue' \in Seq(Threads) /\ done' \in [Threads -> BOOLEAN]
      /\ status' \in [Threads -> {"ok", "error"}]
      /\ seq' \in [Threads -> {0} \cup Seqs]
      /\ acked' \subseteq Seqs /\ ackedSync' \subseteq Seqs
      /\ PlaceTypes' /\ force' \in BOOLEAN /\ allowDelay' \in BOOLEAN
  BY <1>2, <1>3, <1>6, FinishTypes, Zenon
<1>8. CallTypes'
  BY <1>1, <1>4, <1>7, Zenon DEF CallTypes, WriteEnd, logVars
<1>9. HeadTypes'
  BY <1>7, Zenon DEF HeadTypes, WriteEnd
<1>10. DataTypes'
  BY <1>1, <1>5, Zenon DEF DataTypes, WriteEnd, dbVars
<1>11. ManualTypes' /\ BgTypes'
  BY PartsKept, Zenon DEF WriteEnd
<1>12. QED
  BY <1>7, <1>8, <1>9, <1>10, <1>11, TypePartsNext, Zenon

(* The leader between MakeRoomForWrite and the end of its group. *)
LEMMA LeaderTypes ==
    ASSUME TypeOK, QueueShape, GroupShape, Numbered, NEW t \in Threads,
           Form(t) \/ AddRecord(t) \/ SyncLog(t) \/ InsertInto(t)
    PROVE  TypeOK'
<1>1. CallTypes /\ PlaceTypes /\ HeadTypes /\ DataTypes
  BY TypeParts, Zenon
<1>2. CASE Form(t)
  <2>1. CallTypes' /\ DataTypes' /\ ManualTypes' /\ BgTypes'
    BY <1>2, PartsKept, Zenon DEF Form, CallTypesKept, promiseVars, logVars
  <2>2. PlaceTypes'
    BY <1>1, <1>2, Zenon DEF PlaceTypes, Form, Lines
  <2>3. HeadTypes'
    <3>1. group' \in Nat
      BY <1>2, QueuePlaces, SMTT(30) DEF Form, GroupSizes
    <3>2. QED
      BY <1>1, <1>2, <3>1, Zenon DEF HeadTypes, Form
  <2>4. QED
    BY <2>1, <2>2, <2>3, TypePartsNext, Zenon
<1>3. CASE AddRecord(t)
  <2>1. GroupSeqs \subseteq Seqs
    <3>1. pc[t] \in GroupLines
      BY <1>3, Zenon DEF AddRecord, GroupLines
    <3>2. group \in 0..Len(queue)
      BY <3>1, GroupFacts, QueuePlaces, SMTT(30)
    <3>3. QED
      BY <3>2, NumbersInRange, Zenon DEF GroupSeqs
  <2>2. CallTypes'
    BY <1>1, <1>3, <2>1, Zenon DEF CallTypes, AddRecord, promiseVars
  <2>3. PlaceTypes'
    BY <1>1, <1>3, Zenon DEF PlaceTypes, AddRecord, Lines
  <2>4. HeadTypes'
    BY <1>1, <1>3, Zenon DEF HeadTypes, AddRecord
  <2>5. DataTypes' /\ ManualTypes' /\ BgTypes'
    BY <1>3, PartsKept, Zenon DEF AddRecord
  <2>6. QED
    BY <2>2, <2>3, <2>4, <2>5, TypePartsNext, Zenon
<1>4. CASE SyncLog(t)
  <2>1. CallTypes'
    BY <1>1, <1>4, Zenon DEF CallTypes, SyncLog, promiseVars
  <2>2. PlaceTypes'
    BY <1>1, <1>4, Zenon DEF PlaceTypes, SyncLog, Lines
  <2>3. HeadTypes'
    BY <1>1, <1>4, Zenon DEF HeadTypes, SyncLog
  <2>4. DataTypes' /\ ManualTypes' /\ BgTypes'
    BY <1>4, PartsKept, Zenon DEF SyncLog
  <2>5. QED
    BY <2>1, <2>2, <2>3, <2>4, TypePartsNext, Zenon
<1>5. CASE InsertInto(t)
  <2>1. pc[t] \in GroupLines /\ pc[t] = "insert"
    BY <1>5, Zenon DEF InsertInto, GroupLines
  <2>2. group \in 0..Len(queue) /\ inserted < BatchesUpTo(group)
    BY <2>1, GroupFacts, QueuePlaces, SMTT(30) DEF GroupOf
  <2>3. BatchesUpTo(group) \in Nat /\ inserted \in Nat /\ lastSequence \in Nat
    BY <2>2, NumbersInRange, NumberTypes, Zenon
  <2>4. inserted' = inserted + 1
    BY <1>5, Zenon DEF InsertInto
  <2>5. lastSequence + inserted' \in lastSequence + 1 .. lastSequence + BatchesUpTo(group)
    BY <2>2, <2>3, <2>4
  <2>6. lastSequence + inserted' \in Seqs
    BY <2>2, <2>5, NumbersInRange, Zenon
  <2>7. CallTypes' /\ ManualTypes' /\ BgTypes'
    BY <1>5, PartsKept, Zenon DEF InsertInto, CallTypesKept, promiseVars, logVars
  <2>8. PlaceTypes'
    BY <1>1, <1>5, Zenon DEF PlaceTypes, InsertInto, Lines
  <2>9. HeadTypes'
    BY <1>1, <1>5, SMTT(30) DEF HeadTypes, InsertInto
  <2>10. DataTypes'
    BY <1>1, <1>5, <2>6, Zenon DEF DataTypes, InsertInto
  <2>11. QED
    BY <2>7, <2>8, <2>9, <2>10, TypePartsNext, Zenon
<1>6. QED
  BY <1>2, <1>3, <1>4, <1>5, Zenon

(* A thread that goes on with Write or CompactRange. *)
LEMMA PassingTypes ==
    ASSUME TypeOK, NEW t \in Threads, Passing(t)
    PROVE  TypeOK'
<1>1. CallTypes /\ PlaceTypes /\ HeadTypes /\ ManualTypes
  BY TypeParts, Zenon
<1>2. CallTypes'
  BY PassingKeeps, PartsKept, Zenon DEF writerVars, CallTypesKept, promiseVars, logVars
<1>3. PlaceTypes'
  <2>1. woken' \subseteq woken
    BY Zenon DEF Passing, RoomDelay, RoomWait, RoomAgain, CompactMemTableWait,
           CompactRangeStart, CompactRangeWait, CompactRangeAgain, CompactRangeEnd
  <2>2. pc' \in [Threads -> Lines]
    BY <1>1, PassingKeeps, Zenon DEF PlaceTypes
  <2>3. QED
    BY <1>1, <2>1, <2>2, Zenon DEF PlaceTypes
<1>4. HeadTypes'
  <2>1. force' = force /\ (allowDelay' = allowDelay \/ allowDelay' = FALSE)
    BY Zenon DEF Passing, RoomDelay, RoomWait, RoomAgain, CompactMemTableWait,
           CompactRangeStart, CompactRangeWait, CompactRangeAgain, CompactRangeEnd,
           headVars
  <2>2. QED
    BY <1>1, <2>1, PassingKeeps, Zenon DEF HeadTypes, writerVars
<1>5. DataTypes' /\ BgTypes'
  <2>1. UNCHANGED <<dbVars, bgError, shuttingDown, bgVars, closing>>
    BY Zenon DEF Passing, RoomDelay, RoomWait, RoomAgain, CompactMemTableWait,
           CompactRangeStart, CompactRangeWait, CompactRangeAgain, CompactRangeEnd
  <2>2. QED
    BY <2>1, PartsKept, Zenon
<1>6. ManualTypes'
  <2>1. CASE CompactRangeStart(t)
    <3>1. PICK n \in 0..MaxRange : mleft' = [mleft EXCEPT ![t] = n]
      BY <2>1, Zenon DEF CompactRangeStart
    <3>2. QED
      BY <1>1, <2>1, <3>1, Zenon DEF ManualTypes, CompactRangeStart
  <2>2. CASE CompactRangeEnd(t)
    <3>1. manual' \in Compactors \cup {NoThread} /\ mdone' \in [Threads -> BOOLEAN]
      BY <1>1, <2>2, Zenon DEF ManualTypes, CompactRangeEnd
    <3>2. mleft' \in [Threads -> 0..MaxRange]
      BY <1>1, <2>2, TriggersAssumption DEF ManualTypes, CompactRangeEnd
    <3>3. mlevel' \in [Threads -> 0..MaxLevels - 1]
      <4>1. mlevel[t] \in 0..MaxLevels - 1 /\ mlevel \in [Threads -> 0..MaxLevels - 1]
        BY <1>1, Zenon DEF ManualTypes
      <4>2. 0 \in 0..MaxLevels - 1
        BY <4>1, TriggersAssumption
      <4>3. mlevel[t] + 1 < MaxLevels => mlevel[t] + 1 \in 0..MaxLevels - 1
        BY <4>1, TriggersAssumption
      <4>4. QED
        BY <2>2, <4>1, <4>2, <4>3, Zenon DEF CompactRangeEnd
    <3>4. QED
      BY <3>1, <3>2, <3>3, Zenon DEF ManualTypes
  <2>3. CASE ~CompactRangeStart(t) /\ ~CompactRangeEnd(t)
    <3>1. UNCHANGED manualVars
      BY <2>3, Zenon DEF Passing, RoomDelay, RoomWait, RoomAgain, CompactMemTableWait,
                  CompactRangeWait, CompactRangeAgain
    <3>2. QED
      BY <3>1, PartsKept, Zenon
  <2>4. QED
    BY <2>1, <2>2, <2>3, Zenon
<1>7. QED
  BY <1>2, <1>3, <1>4, <1>5, <1>6, TypePartsNext, Zenon

(* A new memtable. *)
LEMMA SwitchTypes ==
    ASSUME TypeOK, NEW t \in Threads, RoomSwitch(t)
    PROVE  TypeOK'
<1>1. PlaceTypes /\ HeadTypes /\ DataTypes /\ BgTypes
  BY TypeParts, Zenon
<1>2. CallTypes' /\ ManualTypes'
  BY PartsKept, Zenon DEF RoomSwitch, CallTypesKept, promiseVars, logVars
<1>3. bgpc \in {"none", "queued", "flush", "work", "crashed"}
  BY <1>1, Zenon DEF BgTypes
<1>4. SignalAll(pc) \subseteq Threads \cup {"closer"}
  BY Zenon DEF SignalAll
<1>5. PlaceTypes'
  BY <1>1, <1>4, Zenon DEF PlaceTypes, RoomSwitch
<1>6. HeadTypes'
  BY <1>1, Zenon DEF HeadTypes, RoomSwitch
<1>7. DataTypes'
  BY <1>1, Zenon DEF DataTypes, RoomSwitch
<1>8. BgTypes'
  <2>1. bgpc' = MaybeSchedule(bgpc, TRUE, manual, l0, seek, bgError')
    BY Zenon DEF RoomSwitch
  <2>2. bgpc' \in {"none", "queued", "flush", "work", "crashed"}
    BY <1>3, <2>1, Zenon DEF MaybeSchedule
  <2>3. QED
    BY <1>1, <2>2, Zenon DEF BgTypes, RoomSwitch
<1>9. QED
  BY <1>2, <1>5, <1>6, <1>7, <1>8, TypePartsNext, Zenon

(* The parts of TypeOK that BackgroundCall's end writes. *)
LEMMA ReturnTypes ==
    ASSUME TypeOK, NEW im, NEW man, NEW files, NEW sk, NEW err,
           BackgroundReturn(im, man, files, sk, err), UNCHANGED <<pc, closing>>
    PROVE  PlaceTypes' /\ BgTypes'
<1>1. PlaceTypes /\ BgTypes
  BY TypeParts, Zenon
<1>2. SignalAll(pc) \subseteq Threads \cup {"closer"}
  BY Zenon DEF SignalAll
<1>3. PlaceTypes'
  BY <1>1, <1>2, Zenon DEF PlaceTypes, BackgroundReturn
<1>4. bgpc' \in {"none", "queued", "flush", "work", "crashed"}
  BY Zenon DEF BackgroundReturn, MaybeSchedule
<1>5. nested' = FALSE /\ kind' = "none" /\ picked' = 0 /\ keys' = 0
  BY Zenon DEF BackgroundReturn
<1>6. picked' \in Nat /\ keys' \in 0..MaxKeys
  BY <1>5, TriggersAssumption
<1>7. BgTypes'
  BY <1>1, <1>4, <1>5, <1>6, Zenon DEF BgTypes
<1>8. QED
  BY <1>3, <1>7, Zenon

(* BackgroundCall starts, or DoCompactionWork turns to the flush. *)
LEMMA StartTypes ==
    ASSUME TypeOK,
           \/ BackgroundSkip \/ BackgroundFlush \/ BackgroundManualDone
           \/ BackgroundCompact \/ WorkFlush
    PROVE  PlaceTypes' /\ DataTypes' /\ ManualTypes' /\ BgTypes'
<1>1. PlaceTypes /\ DataTypes /\ ManualTypes /\ BgTypes
  BY TypeParts, Zenon
<1>2. DataTypes'
  BY PartsKept, Zenon DEF BackgroundSkip, BackgroundFlush, BackgroundManualDone,
                   BackgroundCompact, WorkFlush
<1>3. CASE BackgroundSkip
  BY <1>2, <1>3, ReturnTypes, PartsKept, Zenon DEF BackgroundSkip
<1>4. CASE BackgroundFlush
  <2>1. PlaceTypes' /\ ManualTypes'
    BY <1>1, <1>4, PartsKept, Zenon DEF BackgroundFlush, PlaceTypes
  <2>2. BgTypes'
    BY <1>1, <1>4, Zenon DEF BackgroundFlush, BgTypes
  <2>3. QED
    BY <1>2, <2>1, <2>2, Zenon
<1>5. CASE BackgroundManualDone
  <2>1. PlaceTypes' /\ BgTypes'
    BY <1>5, ReturnTypes, Zenon DEF BackgroundManualDone
  <2>2. ManualTypes'
    BY <1>1, <1>5, Zenon DEF BackgroundManualDone, ManualTypes
  <2>3. QED
    BY <1>2, <2>1, <2>2, Zenon
<1>6. CASE BackgroundCompact
  <2>1. PlaceTypes' /\ ManualTypes'
    BY <1>1, <1>6, PartsKept, Zenon DEF BackgroundCompact, PlaceTypes
  <2>2. picked' \in Nat /\ kind' \in {"manual", "size", "seek"}
    BY <1>1, <1>6 DEF BackgroundCompact, DataTypes
  <2>3. BgTypes'
    BY <1>1, <1>6, <2>2, TriggersAssumption DEF BackgroundCompact, BgTypes
  <2>4. QED
    BY <1>2, <2>1, <2>3, Zenon
<1>7. CASE WorkFlush
  <2>1. PlaceTypes' /\ ManualTypes'
    BY <1>1, <1>7, PartsKept, Zenon DEF WorkFlush, PlaceTypes
  <2>2. keys' \in 0..MaxKeys
    BY <1>1, <1>7, TriggersAssumption DEF WorkFlush, BgTypes
  <2>3. BgTypes'
    BY <1>1, <1>7, <2>2, Zenon DEF WorkFlush, BgTypes
  <2>4. QED
    BY <1>2, <2>1, <2>3, Zenon
<1>8. QED
  BY <1>3, <1>4, <1>5, <1>6, <1>7, Zenon

(* CompactMemTable ends. *)
LEMMA FlushTypes ==
    ASSUME TypeOK, FlushEnd \/ FlushFails
    PROVE  PlaceTypes' /\ DataTypes' /\ ManualTypes' /\ BgTypes'
<1>1. PlaceTypes /\ DataTypes /\ BgTypes
  BY TypeParts, Zenon
<1>2. ManualTypes'
  BY PartsKept, Zenon DEF FlushEnd, FlushFails
<1>3. DataTypes'
  <2>1. CASE FlushEnd
    <3>1. l0' \in Nat
      BY <1>1, <2>1 DEF FlushEnd, DataTypes
    <3>2. seek' = FALSE /\ hasImm' = FALSE
      BY <2>1, Zenon DEF FlushEnd
    <3>3. tables' \subseteq Seqs /\ imm' \subseteq Seqs
      BY <1>1, <2>1, Zenon DEF FlushEnd, DataTypes
    <3>4. UNCHANGED <<mem, bgError, shuttingDown>>
      BY <2>1, Zenon DEF FlushEnd
    <3>5. QED
      BY <1>1, <3>1, <3>2, <3>3, <3>4, Zenon DEF DataTypes
  <2>2. CASE FlushFails
    BY <1>1, <2>2, Zenon DEF FlushFails, DataTypes, dbVars
  <2>3. QED
    BY <2>1, <2>2, Zenon
<1>4. PICK im, files, sk, err : AfterFlush(im, files, sk, err)
  BY Zenon DEF FlushEnd, FlushFails
<1>5. pc' = pc /\ closing' = closing
  BY Zenon DEF FlushEnd, FlushFails
<1>6. CASE nested
  <2>1. /\ bgpc' = "work" /\ woken' = woken \cup SignalAll(pc)
        /\ UNCHANGED <<nested, kind, picked, keys>>
    BY <1>4, <1>6, Zenon DEF AfterFlush
  <2>2. SignalAll(pc) \subseteq Threads \cup {"closer"}
    BY Zenon DEF SignalAll
  <2>3. PlaceTypes'
    BY <1>1, <1>5, <2>1, <2>2, Zenon DEF PlaceTypes
  <2>4. BgTypes'
    BY <1>1, <1>5, <2>1, Zenon DEF BgTypes
  <2>5. QED
    BY <1>2, <1>3, <2>3, <2>4, Zenon
<1>7. CASE ~nested
  <2>1. BackgroundReturn(im, manual, files, sk, err)
    BY <1>4, <1>7, Zenon DEF AfterFlush
  <2>2. PlaceTypes' /\ BgTypes'
    BY <1>5, <2>1, ReturnTypes, Zenon
  <2>3. QED
    BY <1>2, <1>3, <2>2, Zenon
<1>8. QED
  BY <1>6, <1>7, Zenon

(* A compaction ends. *)
LEMMA WorkTypes ==
    ASSUME TypeOK, FlushShape, ManualShape, WorkEnd \/ WorkFails
    PROVE  PlaceTypes' /\ DataTypes' /\ ManualTypes' /\ BgTypes'
<1>1. PlaceTypes /\ DataTypes /\ ManualTypes /\ BgTypes
  BY TypeParts, Zenon
<1>2. Working
  BY Zenon DEF WorkEnd, WorkFails, Working
<1>3. DataTypes'
  <2>1. CASE WorkEnd
    <3>1. l0' \in Nat
      BY <1>1, <1>2, <2>1 DEF WorkEnd, DataTypes, BgTypes, FlushShape
    <3>2. QED
      BY <1>1, <2>1, <3>1, Zenon DEF WorkEnd, DataTypes
  <2>2. CASE WorkFails
    BY <1>1, <2>2, Zenon DEF WorkFails, DataTypes, dbVars
  <2>3. QED
    BY <2>1, <2>2, Zenon
<1>4. PICK ok \in BOOLEAN : \E files, sk, err : CompactionReturn(ok, files, sk, err)
  BY Zenon DEF WorkEnd, WorkFails
<1>5. PICK files, sk, err : CompactionReturn(ok, files, sk, err)
  BY <1>4, Zenon
<1>6. pc' = pc /\ closing' = closing
  BY Zenon DEF WorkEnd, WorkFails
<1>7. CASE kind # "manual"
  <2>1. BackgroundReturn(hasImm, manual, files, sk, err) /\ UNCHANGED manualVars
    BY <1>5, <1>7, Zenon DEF CompactionReturn
  <2>2. QED
    BY <1>3, <1>6, <2>1, ReturnTypes, PartsKept, Zenon
<1>8. CASE kind = "manual" /\ manual = NoThread
  <2>1. /\ bgpc' = "crashed"
        /\ UNCHANGED <<manualVars, woken, nested, kind, picked, keys>>
    BY <1>5, <1>8, Zenon DEF CompactionReturn
  <2>2. PlaceTypes' /\ ManualTypes'
    BY <1>1, <1>6, <2>1, PartsKept, Zenon DEF PlaceTypes
  <2>3. BgTypes'
    BY <1>1, <1>6, <2>1, Zenon DEF BgTypes
  <2>4. QED
    BY <1>3, <2>2, <2>3, Zenon
<1>9. CASE kind = "manual" /\ manual # NoThread
  <2>1. /\ manual' = NoThread /\ mdone' = [mdone EXCEPT ![manual] = ~ok]
        /\ mleft' = [mleft EXCEPT ![manual] = @ - 1] /\ mlevel' = mlevel
        /\ BackgroundReturn(hasImm, NoThread, files, sk, err)
    BY <1>5, <1>9, Zenon DEF CompactionReturn
  <2>2. PlaceTypes' /\ BgTypes'
    BY <1>6, <2>1, ReturnTypes, Zenon
  <2>3. mleft[manual] > 0 /\ manual \in Threads
    BY <1>1, <1>2, <1>9, Zenon DEF ManualShape, ManualTypes, Threads
  <2>4. mleft' \in [Threads -> 0..MaxRange]
    BY <1>1, <2>1, <2>3, TriggersAssumption DEF ManualTypes
  <2>5. mdone' \in [Threads -> BOOLEAN]
    BY <1>1, <2>1, Zenon DEF ManualTypes
  <2>6. ManualTypes'
    BY <1>1, <2>1, <2>4, <2>5, Zenon DEF ManualTypes
  <2>7. QED
    BY <1>3, <2>2, <2>6, Zenon
<1>10. QED
  BY <1>7, <1>8, <1>9, Zenon

(* What goes on beside the writers. *)
LEMMA AsideTypes ==
    ASSUME TypeOK, QueueShape, FlushShape, ManualShape, Aside
    PROVE  TypeOK'
<1>1. PlaceTypes /\ DataTypes /\ ManualTypes /\ BgTypes
  BY TypeParts, Zenon
<1>2. CallTypes'
  BY AsideKeeps, PartsKept, Zenon DEF writerVars, CallTypesKept, promiseVars, logVars
<1>3. HeadTypes'
  <2>1. UNCHANGED headVars
    BY Zenon DEF Aside, Background, BackgroundSkip, BackgroundFlush, BackgroundManualDone,
           BackgroundCompact, WorkFlush, FlushEnd, FlushFails, WorkEnd, WorkFails,
           SeekStat, Close, CloseAgain, CompactRangeRegister
  <2>2. QED
    BY <2>1, PartsKept, Zenon
<1>4. CASE Background
  <2>1. PlaceTypes' /\ DataTypes' /\ ManualTypes' /\ BgTypes'
    BY <1>4, StartTypes, FlushTypes, WorkTypes, Zenon DEF Background
  <2>2. QED
    BY <1>2, <1>3, <2>1, TypePartsNext, Zenon
<1>5. CASE SeekStat
  <2>1. PlaceTypes' /\ ManualTypes'
    BY <1>1, <1>5, PartsKept, Zenon DEF SeekStat, PlaceTypes
  <2>2. DataTypes'
    BY <1>1, <1>5, Zenon DEF SeekStat, DataTypes
  <2>3. bgpc' \in {"none", "queued", "flush", "work", "crashed"}
    BY <1>1, <1>5, Zenon DEF SeekStat, BgTypes, MaybeSchedule
  <2>4. BgTypes'
    BY <1>1, <1>5, <2>3, Zenon DEF SeekStat, BgTypes
  <2>5. QED
    BY <1>2, <1>3, <2>1, <2>2, <2>4, TypePartsNext, Zenon
<1>6. CASE Close \/ CloseAgain
  <2>1. woken' \subseteq woken /\ pc' = pc
    BY <1>6, Zenon DEF Close, CloseAgain
  <2>2. PlaceTypes'
    BY <1>1, <2>1, Zenon DEF PlaceTypes
  <2>3. ManualTypes'
    BY <1>6, PartsKept, Zenon DEF Close, CloseAgain
  <2>4. DataTypes'
    BY <1>1, <1>6, Zenon DEF Close, CloseAgain, DataTypes, dbVars
  <2>5. BgTypes'
    BY <1>1, <1>6, Zenon DEF Close, CloseAgain, CloseWhenIdle, BgTypes, bgVars
  <2>6. QED
    BY <1>2, <1>3, <2>2, <2>3, <2>4, <2>5, TypePartsNext, Zenon
<1>7. ASSUME NEW t \in Threads, CompactRangeRegister(t) PROVE TypeOK'
  <2>1. PlaceTypes' /\ DataTypes'
    BY <1>1, <1>7, PartsKept, Zenon DEF CompactRangeRegister, PlaceTypes
  <2>2. t \in Compactors
    BY <1>7, Zenon DEF CompactRangeRegister, QueueShape, LeaderLines, Threads
  <2>3. ManualTypes'
    BY <1>1, <1>7, <2>2, Zenon DEF CompactRangeRegister, ManualTypes
  <2>4. bgpc' \in {"none", "queued", "flush", "work", "crashed"}
    BY <1>1, <1>7, Zenon DEF CompactRangeRegister, BgTypes, MaybeSchedule
  <2>5. BgTypes'
    BY <1>1, <1>7, <2>4, Zenon DEF CompactRangeRegister, BgTypes
  <2>6. QED
    BY <1>2, <1>3, <2>1, <2>3, <2>5, TypePartsNext, Zenon
<1>8. QED
  BY <1>4, <1>5, <1>6, <1>7, Zenon DEF Aside

(* Every step keeps the types. *)
LEMMA TypeStep ==
    ASSUME QueueInv, Next
    PROVE  TypeOK'
<1>1. /\ TypeOK /\ QueueShape /\ GroupShape /\ DoneWritten /\ Numbered
      /\ FlushShape /\ ManualShape
  BY Zenon DEF QueueInv, BackgroundShape
<1>2. ASSUME NEW t \in Threads, NEW sync \in BOOLEAN, NEW batch \in BOOLEAN,
             Enqueue(t, sync, batch)
      PROVE  TypeOK'
  BY <1>1, <1>2, EnqueueTypes, Zenon
<1>3. ASSUME NEW t \in Threads,
             \/ WakeWriter(t) \/ Passing(t) \/ Early(t) \/ Form(t)
             \/ RoomSwitch(t) \/ AddRecord(t) \/ SyncLog(t)
             \/ InsertInto(t) \/ WriteEnd(t)
      PROVE  TypeOK'
  BY <1>1, <1>3, WakeTypes, PassingTypes, EarlyTypes, LeaderTypes, SwitchTypes,
     EndTypes, Zenon
<1>4. CASE Aside
  BY <1>1, <1>4, AsideTypes, Zenon
<1>5. QED
  BY <1>2, <1>3, <1>4, StepKinds, Zenon

-----------------------------------------------------------------------------
(* The invariant and what follows from it.                                 *)

(* The invariant with the properties that are kept together with it. *)
SafeQueue ==
    /\ QueueInv /\ SyncHonoured /\ ReadYourWrites /\ Level0Bounded
    /\ WorkIsScheduled /\ CloseWaits

(* A database that was just opened. *)
LEMMA SafeInit ==
    ASSUME Init
    PROVE  SafeQueue
<1>1. TypeOK
  <2>1. CallTypes
    BY TriggersAssumption, SMTT(30) DEF Init, CallTypes
  <2>2. PlaceTypes
    BY Zenon DEF Init, PlaceTypes, Lines
  <2>3. HeadTypes
    BY Zenon DEF Init, HeadTypes
  <2>4. DataTypes
    <3>1. l0 \in Nat
      BY Zenon DEF Init
    <3>2. QED
      BY <3>1, Zenon DEF Init, DataTypes
  <2>5. ManualTypes
    BY TriggersAssumption, SMTT(30) DEF Init, ManualTypes
  <2>6. BgTypes
    <3>1. picked \in Nat /\ keys \in 0..MaxKeys
      BY TriggersAssumption, SMTT(30) DEF Init
    <3>2. QED
      BY <3>1, Zenon DEF Init, BgTypes
  <2>7. QED
    BY <2>1, <2>2, <2>3, <2>4, <2>5, <2>6, TypeParts, Zenon
<1>2. QueueShape
  BY SMTT(30) DEF Init, QueueShape, LeaderLines, Threads
<1>3. GroupShape
  BY Zenon DEF Init, GroupShape, GroupOf, GroupLines, Written
<1>4. DoneWritten
  BY Zenon DEF Init, DoneWritten, WrittenFor
<1>5. Numbered
  <2>1. Len(queue) = 0 /\ lastSequence = 0
    BY Zenon DEF Init
  <2>2. Batches(queue, req, 0) \in Nat /\ Batches(queue, req, 0) <= 0
    BY BatchesType, Zenon
  <2>3. BatchesUpTo(Len(queue)) = 0
    <3>1. BatchesUpTo(Len(queue)) = Batches(queue, req, 0)
      BY <2>1, BatchesUpToIs, Zenon
    <3>2. QED
      BY <2>2, <3>1
  <2>4. Cardinality(Made(calls)) \in Nat
    BY MadeType, Zenon
  <2>5. QED
    BY <2>1, <2>3, <2>4 DEF Numbered, Made
<1>6. BackgroundShape
  BY Zenon DEF Init, BackgroundShape, FlushShape, ManualShape, CloseShape, Working
<1>7. SyncHonoured /\ ReadYourWrites
  BY Zenon DEF Init, SyncHonoured, ReadYourWrites
<1>8. Level0Bounded /\ WorkIsScheduled /\ CloseWaits
  BY TriggersAssumption DEF Init, Level0Bounded, WorkIsScheduled, CloseWaits
<1>9. QED
  BY <1>1, <1>2, <1>3, <1>4, <1>5, <1>6, <1>7, <1>8, Zenon DEF SafeQueue, QueueInv

(* Every step keeps it. *)
LEMMA SafeStep ==
    ASSUME SafeQueue, Next
    PROVE  SafeQueue'
<1>1. /\ QueueInv /\ TypeOK /\ QueueShape /\ GroupShape /\ DoneWritten /\ Numbered
      /\ BackgroundShape /\ FlushShape /\ ManualShape /\ CloseShape
      /\ SyncHonoured /\ ReadYourWrites /\ Level0Bounded /\ WorkIsScheduled
      /\ CloseWaits
  BY Zenon DEF SafeQueue, QueueInv, BackgroundShape
<1>2. TypeOK'
  BY <1>1, TypeStep, Zenon
<1>3. QueueShape' /\ GroupShape' /\ Numbered'
  BY <1>1, ShapeStep, GroupStep, NumberedStep, Zenon
<1>4. DoneWritten' /\ SyncHonoured' /\ ReadYourWrites'
  BY <1>1, DoneStep, PromiseStep, Zenon
<1>5. FlushShape' /\ Level0Bounded' /\ WorkIsScheduled'
  <2>1. FlushSafe
    BY <1>1, Zenon DEF FlushSafe
  <2>2. FlushSafe'
    BY <1>1, <2>1, FlushStep, Zenon
  <2>3. QED
    BY <2>2, Zenon DEF FlushSafe
<1>6. ManualShape'
  BY <1>1, ManualStep, Zenon
<1>7. CloseShape' /\ CloseWaits'
  <2>1. CloseSafe
    BY <1>1, Zenon DEF CloseSafe
  <2>2. CloseSafe'
    BY <1>1, <2>1, CloseStep, Zenon
  <2>3. QED
    BY <2>2, Zenon DEF CloseSafe
<1>8. QueueInv'
  BY <1>2, <1>3, <1>4, <1>5, <1>6, <1>7, Zenon DEF QueueInv, BackgroundShape
<1>9. QED
  BY <1>4, <1>5, <1>7, <1>8, Zenon DEF SafeQueue

(* A step that changes nothing keeps it. *)
LEMMA SafeStutter ==
    ASSUME SafeQueue, UNCHANGED vars
    PROVE  SafeQueue'
<1>1. UNCHANGED <<queue, mem, imm, hasImm, tables, l0, seek, lastSequence, bgError,
                  shuttingDown, manual, mlevel, mdone, mleft, pc, req, done, status,
                  woken, force, allowDelay, group, inserted, hstatus, bgpc, nested,
                  kind, picked, keys, closing, logged, synced, seq, acked, ackedSync,
                  before, calls>>
  BY Zenon DEF vars, dbVars, headVars, manualVars, bgVars, promiseVars, logVars
<1>2. TypeOK' = TypeOK
  BY <1>1, Zenon DEF TypeOK
<1>3. QueueShape' = QueueShape /\ GroupShape' = GroupShape
  BY <1>1, SMTT(30) DEF QueueShape, GroupShape, GroupOf, Written, GroupSeqs, BatchesUpTo
<1>4. DoneWritten' = DoneWritten /\ Numbered' = Numbered
  BY <1>1, Zenon DEF DoneWritten, WrittenFor, Present, Numbered, BatchesUpTo
<1>5. BackgroundShape' = BackgroundShape
  BY <1>1, Zenon DEF BackgroundShape, FlushShape, ManualShape, CloseShape, Working
<1>6. /\ SyncHonoured' = SyncHonoured /\ ReadYourWrites' = ReadYourWrites
      /\ Level0Bounded' = Level0Bounded /\ WorkIsScheduled' = WorkIsScheduled
      /\ CloseWaits' = CloseWaits
  BY <1>1, Zenon DEF SyncHonoured, ReadYourWrites, Present, Level0Bounded, WorkIsScheduled,
              CloseWaits
<1>7. QED
  BY <1>2, <1>3, <1>4, <1>5, <1>6, Zenon DEF SafeQueue, QueueInv

(* The invariant holds in every state of every behaviour. *)
LEMMA SafeAlways == Spec => []SafeQueue
<1>1. Init => SafeQueue
  BY SafeInit, Zenon
<1>2. SafeQueue /\ [Next]_vars => SafeQueue'
  BY SafeStep, SafeStutter, Zenon
<1>3. QED
  BY <1>1, <1>2, PTL DEF Spec

(* DBImpl::Write, MakeRoomForWrite and BackgroundCall keep the writer      *)
(* queue's shape: a thread is in writers_ at most once, only its head is   *)
(* past the wait, its group's updates are in the log before the memtable,  *)
(* a flush has an immutable memtable, and no sequence number is used that  *)
(* no Write asked for.                                                     *)
THEOREM QueueInvHolds == Spec => []QueueInv
<1>1. SafeQueue => QueueInv
  BY Zenon DEF SafeQueue
<1>2. QED
  BY <1>1, SafeAlways, PTL

(* BuildBatchGroup and Write: a Write with sync that returned OK, also as a *)
(* member of another writer's group, is in a synced part of the log.        *)
THEOREM SyncIsHonoured == Spec => []SyncHonoured
<1>1. SafeQueue => SyncHonoured
  BY Zenon DEF SafeQueue
<1>2. QED
  BY <1>1, SafeAlways, PTL

(* Write and CompactMemTable: an update whose Write returned OK is in the  *)
(* log and in a memtable or a table, with a number not beyond              *)
(* last_sequence_.                                                         *)
THEOREM WritesAreRead == Spec => []ReadYourWrites
<1>1. SafeQueue => ReadYourWrites
  BY Zenon DEF SafeQueue
<1>2. QED
  BY <1>1, SafeAlways, PTL

(* MakeRoomForWrite: the level-0 files, with the one the immutable memtable *)
(* becomes, never exceed kL0_StopWritesTrigger.                             *)
THEOREM Level0IsBounded == Spec => []Level0Bounded
<1>1. SafeQueue => Level0Bounded
  BY Zenon DEF SafeQueue
<1>2. QED
  BY <1>1, SafeAlways, PTL

(* MaybeScheduleCompaction is called wherever work appears: while there is *)
(* work and no error, a background call is scheduled or running.           *)
THEOREM WorkAlwaysScheduled == Spec => []WorkIsScheduled
<1>1. SafeQueue => WorkIsScheduled
  BY Zenon DEF SafeQueue
<1>2. QED
  BY <1>1, SafeAlways, PTL

(* ~DBImpl goes on to free the database only when no background call is    *)
(* scheduled or running, and none is started after that.                   *)
THEOREM CloseAlwaysWaits == Spec => []CloseWaits
<1>1. SafeQueue => CloseWaits
  BY Zenon DEF SafeQueue
<1>2. QED
  BY <1>1, SafeAlways, PTL

(* InsertInto without the mutex and CompactMemTable: no step changes which *)
(* of the updates up to last_sequence_ a reader finds.                     *)
THEOREM SnapshotIsStable == Spec => SnapshotStable
<1>1. SafeQueue /\ [Next]_vars =>
        [\A s \in 1..lastSequence : s \in Present <=> s \in Present']_vars
  BY StableStep, Zenon DEF SafeQueue, QueueInv
<1>2. QED
  BY <1>1, SafeAlways, PTL DEF Spec, SnapshotStable

=============================================================================
