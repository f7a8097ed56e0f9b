-------------------------- MODULE WriteQueueProofs --------------------------
(***************************************************************************)
(* The queue of writers of WriteQueue: its shape, and the kinds of steps.  *)
(*                                                                         *)
(* QueueInv is inductive together with the properties it is to show; this  *)
(* module has what all parts of the argument share.  A step is one of the  *)
(* writer at the head of the queue, or it leaves the queue and its group   *)
(* alone (Passing for a thread, Aside for a step no writer takes part in). *)
(* The second half is about the background thread: a compaction is         *)
(* scheduled while there is work for one (FlushSafe), a manual one is      *)
(* finished by the thread that asked for it, and Close waits (CloseSafe).  *)
(***************************************************************************)
EXTENDS WriteQueue, TLAPS

-----------------------------------------------------------------------------
(* The shape of the queue.                                                 *)

Lines == {"idle", "waiting", "room", "sleep", "roomWait", "append", "sync",
          "insert", "relock", "memLock", "memWait", "flushed", "rangeLock",
          "range", "rangeWait"}

USE DEF LeaderLines, GroupLines

(* The queue is a sequence of threads. *)
LEMMA QueuePlaces ==
    ASSUME TypeOK
    PROVE  /\ Len(queue) \in Nat /\ DOMAIN queue = 1..Len(queue)
           /\ \A i \in 1..Len(queue) : queue[i] \in Threads
           /\ queue = <<>> <=> Len(queue) = 0
           /\ queue # <<>> => Head(queue) = queue[1] /\ 1 \in DOMAIN queue
BY DEF TypeOK

(* The functions that describe the threads. *)
LEMMA ThreadTypes ==
    ASSUME TypeOK
    PROVE  /\ pc \in [Threads -> Lines]
           /\ req \in [Threads -> [sync : BOOLEAN, batch : BOOLEAN]]
           /\ done \in [Threads -> BOOLEAN]
           /\ status \in [Threads -> {"ok", "error"}]
           /\ DOMAIN seq = Threads
BY Zenon DEF TypeOK, Lines

(* A step that leaves the queue alone and moves one thread, either the     *)
(* head of the queue or one in CompactRange, keeps the shape.              *)
LEMMA MoveShape ==
    ASSUME TypeOK, QueueShape, NEW t \in Threads, NEW l \in Lines,
           pc' = [pc EXCEPT ![t] = l], UNCHANGED <<queue, done>>,
           \/ pc[t] \in LeaderLines /\ l \in LeaderLines
           \/ /\ pc[t] \notin LeaderLines \cup {"idle", "waiting"}
              /\ l \notin LeaderLines \cup {"waiting"}
    PROVE  QueueShape'
<1>1. /\ \A u \in Threads \ {t} : pc'[u] = pc[u]
      /\ pc'[t] = l
  BY ThreadTypes, Zenon
<1>2. t \in Writers => pc[t] \in LeaderLines
  BY Zenon DEF QueueShape
<1>3. QED
  BY <1>1, <1>2, QueuePlaces DEF QueueShape, Threads

(* A new call is the last of the queue. *)
LEMMA EnqueueShape ==
    ASSUME TypeOK, QueueShape, NEW t \in Threads, NEW sync, NEW batch,
           Enqueue(t, sync, batch)
    PROVE  QueueShape'
<1>1. /\ \A u \in Threads \ {t} : pc'[u] = pc[u]
      /\ pc'[t] = IF queue = <<>> THEN "room" ELSE "waiting"
      /\ pc[t] = "idle" /\ done' = done /\ queue' = Append(queue, t)
  BY ThreadTypes, Zenon DEF Enqueue
<1>2. /\ DOMAIN queue' = 1..(Len(queue) + 1)
      /\ \A i \in DOMAIN queue : queue'[i] = queue[i]
      /\ queue'[Len(queue) + 1] = t
      /\ queue' # <<>>
  BY <1>1 DEF TypeOK
<1>3. \A i \in DOMAIN queue : queue[i] # t
  BY <1>1, Zenon DEF QueueShape
<1>4. ~done[t]
  BY <1>1, Zenon DEF QueueShape
<1>5. \A i \in DOMAIN queue' : i \in DOMAIN queue \/ i = Len(queue) + 1
  BY <1>2, QueuePlaces
<1>6. \A i \in DOMAIN queue : i \in DOMAIN queue'
  BY <1>2, QueuePlaces
<1>7. Len(queue) + 1 \in DOMAIN queue'
  BY <1>2, QueuePlaces
<1>8. \A i, j \in DOMAIN queue' : queue'[i] = queue'[j] => i = j
  BY <1>2, <1>3, <1>5 DEF QueueShape
<1>9. \A i \in DOMAIN queue' :
        pc'[queue'[i]] \in LeaderLines \cup {"waiting"} /\ ~done'[queue'[i]]
  BY <1>1, <1>2, <1>3, <1>4, <1>5, QueuePlaces DEF QueueShape
<1>10. ASSUME NEW u \in Threads
       PROVE  /\ pc'[u] \in LeaderLines => queue' # <<>> /\ queue'[1] = u
              /\ done'[u] => pc'[u] = "waiting"
              /\ pc'[u] = "waiting" /\ ~done'[u] =>
                   \E i \in DOMAIN queue' : queue'[i] = u
  <2>1. CASE u = t
    <3>1. queue = <<>> => queue'[1] = t
      BY <1>2, QueuePlaces
    <3>2. QED
      BY <2>1, <3>1, <1>1, <1>2, <1>4, <1>7, Zenon
  <2>2. CASE u # t
    BY <2>2, <1>1, <1>2, <1>6, QueuePlaces DEF QueueShape
  <2>3. QED
    BY <2>1, <2>2, Zenon
<1>11. \A u \in Writers : pc'[u] \in LeaderLines \cup {"idle", "waiting"}
  BY <1>1, Zenon DEF QueueShape, Threads
<1>12. QED
  BY <1>8, <1>9, <1>10, <1>11, Zenon DEF QueueShape

(* A waiting writer that is woken leaves if it is done, and leads if it is *)
(* the head of the queue.                                                  *)
LEMMA WakeShape ==
    ASSUME TypeOK, QueueShape, NEW t \in Threads, WakeWriter(t)
    PROVE  QueueShape'
<1>1. pc[t] = "waiting" /\ queue' = queue
  BY Zenon DEF WakeWriter
<1>2. CASE done[t]
  <2>1. /\ \A u \in Threads \ {t} : pc'[u] = pc[u] /\ done'[u] = done[u]
        /\ pc'[t] = AfterWrite(t, status[t]) /\ ~done'[t]
    BY <1>2, ThreadTypes, Zenon DEF WakeWriter
  <2>2. /\ pc'[t] \notin LeaderLines \cup {"waiting"}
        /\ t \in Writers => pc'[t] = "idle"
    BY <2>1, ThreadsAssumption, Zenon DEF AfterWrite, Threads
  <2>3. \A i \in DOMAIN queue : queue[i] # t /\ queue[i] \in Threads
    BY <1>2, QueuePlaces, Zenon DEF QueueShape
  <2>4. QED
    BY <1>1, <2>1, <2>2, <2>3 DEF QueueShape, Threads
<1>3. CASE ~done[t]
  <2>1. /\ \A u \in Threads \ {t} : pc'[u] = pc[u]
        /\ pc'[t] = IF t = Head(queue) THEN "room" ELSE "waiting"
        /\ done' = done
    BY <1>1, <1>3, ThreadTypes, Zenon DEF WakeWriter
  <2>2. PICK i \in DOMAIN queue : queue[i] = t
    BY <1>1, <1>3, Zenon DEF QueueShape
  <2>3. queue # <<>> /\ Head(queue) = queue[1]
    BY <2>2, QueuePlaces
  <2>4. \A u \in Threads : pc[u] \in LeaderLines => u = Head(queue)
    BY <2>3, Zenon DEF QueueShape
  <2>5. QED
    BY <1>1, <1>3, <2>1, <2>2, <2>3, <2>4, QueuePlaces DEF QueueShape, Threads
<1>4. QED
  BY <1>2, <1>3, Zenon

(* The head of the queue is the only thread past the wait. *)
LEMMA LeaderIs ==
    ASSUME TypeOK, QueueShape, NEW t \in Threads, pc[t] \in LeaderLines
    PROVE  /\ 1 \in 1..Len(queue) /\ queue[1] = t
           /\ \A u \in Threads \ {t} : pc[u] \notin LeaderLines
           /\ ~done[t]
           /\ \A i \in 2..Len(queue) :
                queue[i] \in Threads \ {t} /\ pc[queue[i]] = "waiting"
<1>1. 1 \in 1..Len(queue) /\ queue[1] = t
  BY QueuePlaces, Zenon DEF QueueShape
<1>2. \A u \in Threads \ {t} : pc[u] \notin LeaderLines
  BY <1>1, Zenon DEF QueueShape
<1>3. ~done[t]
  BY Zenon DEF QueueShape
<1>4. ASSUME NEW i \in 2..Len(queue)
      PROVE  queue[i] \in Threads \ {t} /\ pc[queue[i]] = "waiting"
  <2>1. i \in DOMAIN queue /\ 1 \in DOMAIN queue /\ i # 1
    BY <1>1, QueuePlaces
  <2>2. queue[i] # t
    BY <1>1, <2>1, Zenon DEF QueueShape
  <2>3. queue[i] \in Threads
    BY QueuePlaces
  <2>4. pc[queue[i]] \in LeaderLines \cup {"waiting"}
    BY <2>1, Zenon DEF QueueShape
  <2>5. QED
    BY <1>2, <2>2, <2>3, <2>4, Zenon
<1>5. QED
  BY <1>1, <1>2, <1>3, <1>4, Zenon

(* The writers that finish together with the leader. *)
Members(k) == {queue[i] : i \in 2..k}

(* What the end of Write does to the queue and its threads. *)
LEMMA FinishIs ==
    ASSUME TypeOK, QueueShape, NEW t \in Threads, NEW k \in 1..Len(queue),
           NEW st, NEW signals, pc[t] \in LeaderLines,
           FinishWrite(t, k, st, signals)
    PROVE  /\ Len(queue') = Len(queue) - k /\ DOMAIN queue' = 1..(Len(queue) - k)
           /\ \A i \in 1..(Len(queue) - k) :
                /\ queue'[i] = queue[k + i] /\ k + i \in 2..Len(queue)
                /\ queue'[i] \notin Members(k)
           /\ \A u \in Threads \ {t} : pc'[u] = pc[u]
           /\ pc'[t] = AfterWrite(t, st)
           /\ pc'[t] \in Lines \ (LeaderLines \cup {"waiting"})
           /\ t \in Writers => pc'[t] = "idle"
           /\ \A u \in Threads : done'[u] <=> (done[u] \/ u \in Members(k))
           /\ t \notin Members(k)
<1>1. /\ queue' = SubSeq(queue, k + 1, Len(queue))
      /\ done' = [u \in Threads |-> done[u] \/ u \in Members(k)]
      /\ pc' = [pc EXCEPT ![t] = AfterWrite(t, st)]
  BY Zenon DEF FinishWrite, Members
<1>2. /\ Len(queue') = Len(queue) - k
      /\ DOMAIN queue' = 1..(Len(queue) - k)
      /\ \A i \in 1..(Len(queue) - k) : queue'[i] = queue[k + i]
  BY <1>1 DEF TypeOK
<1>3. \A i \in 1..(Len(queue) - k) : k + i \in 2..Len(queue)
  BY QueuePlaces
<1>4. ASSUME NEW i \in 1..(Len(queue) - k), queue'[i] \in Members(k)
      PROVE  FALSE
  <2>1. PICK j \in 2..k : queue[j] = queue'[i]
    BY <1>4, Zenon DEF Members
  <2>2. j \in DOMAIN queue /\ k + i \in DOMAIN queue /\ j # k + i
    BY QueuePlaces
  <2>3. queue[j] = queue[k + i]
    BY <1>2, <2>1, Zenon
  <2>4. QED
    BY <2>2, <2>3, Zenon DEF QueueShape
<1>5. /\ pc'[t] = AfterWrite(t, st)
      /\ pc'[t] \in Lines \ (LeaderLines \cup {"waiting"})
      /\ t \in Writers => pc'[t] = "idle"
      /\ \A u \in Threads \ {t} : pc'[u] = pc[u]
  BY <1>1, ThreadTypes, ThreadsAssumption, Zenon DEF AfterWrite, Lines, Threads
<1>6. t \notin Members(k)
  BY LeaderIs, QueuePlaces DEF Members
<1>7. QED
  BY <1>1, <1>2, <1>3, <1>4, <1>5, <1>6, Zenon

(* When a leader is done, the queue goes on behind its group. *)
LEMMA FinishShape ==
    ASSUME TypeOK, QueueShape, NEW t \in Threads, NEW k \in 1..Len(queue),
           NEW st, NEW signals, pc[t] \in LeaderLines,
           FinishWrite(t, k, st, signals)
    PROVE  QueueShape'
<1>1. /\ DOMAIN queue' = 1..(Len(queue) - k)
      /\ \A i \in 1..(Len(queue) - k) :
           /\ queue'[i] = queue[k + i] /\ k + i \in 2..Len(queue)
           /\ queue'[i] \notin Members(k)
  BY FinishIs
<1>2. /\ \A u \in Threads \ {t} : pc'[u] = pc[u]
      /\ pc'[t] \in Lines \ (LeaderLines \cup {"waiting"})
      /\ t \in Writers => pc'[t] = "idle"
      /\ \A u \in Threads : done'[u] <=> (done[u] \/ u \in Members(k))
  BY FinishIs
<1>3. ASSUME NEW i \in DOMAIN queue', NEW j \in DOMAIN queue',
             queue'[i] = queue'[j]
      PROVE  i = j
  <2>1. k + i \in DOMAIN queue /\ k + j \in DOMAIN queue
    BY <1>1, QueuePlaces
  <2>2. queue[k + i] = queue[k + j]
    BY <1>1, <1>3, Zenon
  <2>3. k + i = k + j
    BY <2>1, <2>2, Zenon DEF QueueShape
  <2>4. QED
    BY <1>1, <2>3, QueuePlaces
<1>4. ASSUME NEW i \in DOMAIN queue'
      PROVE  pc'[queue'[i]] \in LeaderLines \cup {"waiting"} /\ ~done'[queue'[i]]
  <2>1. queue'[i] = queue[k + i] /\ k + i \in 2..Len(queue)
    BY <1>1, Zenon
  <2>2. queue'[i] \in Threads \ {t} /\ pc[queue'[i]] = "waiting"
    BY <2>1, LeaderIs, Zenon
  <2>3. queue'[i] \notin Members(k)
    BY <1>1, Zenon
  <2>4. ~done[queue'[i]]
    BY <2>1, QueuePlaces DEF QueueShape
  <2>5. QED
    BY <2>2, <2>3, <2>4, <1>2, Zenon
<1>5. ASSUME NEW u \in Threads
      PROVE  /\ pc'[u] \in LeaderLines => queue' # <<>> /\ queue'[1] = u
             /\ done'[u] => pc'[u] = "waiting"
             /\ pc'[u] = "waiting" /\ ~done'[u] =>
                  \E i \in DOMAIN queue' : queue'[i] = u
  <2>1. pc'[u] \notin LeaderLines
    <3>1. CASE u = t
      <4>1. pc'[t] \in Lines \ (LeaderLines \cup {"waiting"})
        BY <1>2, Zenon
      <4>2. QED
        BY <3>1, <4>1, Zenon
    <3>2. CASE u # t
      <4>1. pc'[u] = pc[u]
        BY <3>2, <1>2, Zenon
      <4>2. QED
        BY <3>2, <4>1, LeaderIs, Zenon
    <3>3. QED
      BY <3>1, <3>2, Zenon
  <2>2. ASSUME done'[u] PROVE pc'[u] = "waiting"
    <3>1. CASE done[u]
      BY <3>1, <1>2, Zenon DEF QueueShape
    <3>2. CASE u \in Members(k)
      <4>1. u # t /\ pc[u] = "waiting"
        BY <3>2, LeaderIs, QueuePlaces DEF Members
      <4>2. QED
        BY <4>1, <1>2, Zenon
    <3>3. QED
      BY <2>2, <3>1, <3>2, <1>2, Zenon
  <2>3. ASSUME pc'[u] = "waiting", ~done'[u]
        PROVE  \E i \in DOMAIN queue' : queue'[i] = u
    <3>1. u # t /\ pc[u] = "waiting" /\ ~done[u] /\ u \notin Members(k)
      BY <2>3, <1>2, Zenon
    <3>2. PICK i \in DOMAIN queue : queue[i] = u
      BY <3>1, Zenon DEF QueueShape
    <3>3. i # 1 /\ i \notin 2..k /\ i \in 1..Len(queue)
      BY <3>1, <3>2, LeaderIs, QueuePlaces, Zenon DEF Members
    <3>4. i - k \in DOMAIN queue' /\ k + (i - k) = i
      BY <1>1, <3>3, QueuePlaces
    <3>5. QED
      BY <1>1, <3>2, <3>4, Zenon
  <2>4. QED
    BY <2>1, <2>2, <2>3, Zenon
<1>6. \A u \in Writers : pc'[u] \in LeaderLines \cup {"idle", "waiting"}
  BY <1>2, Zenon DEF QueueShape, Threads
<1>7. QED
  BY <1>3, <1>4, <1>5, <1>6, Zenon DEF QueueShape

-----------------------------------------------------------------------------
(* The kinds of steps.                                                     *)

(* What concerns the writers, without the place and the wakeup of each. *)
writerVars == <<queue, req, done, status, seq, lastSequence, logVars,
                promiseVars, before, calls, group, inserted, hstatus>>

(* A thread goes from one wait or one lock to the next. *)
Passing(t) ==
    \/ RoomDelay(t) \/ RoomWait(t) \/ RoomAgain(t) \/ CompactMemTableWait(t)
    \/ CompactRangeStart(t) \/ CompactRangeWait(t) \/ CompactRangeAgain(t)
    \/ CompactRangeEnd(t)

(* A leader leaves without a group: an error, or a null batch. *)
Early(t) ==
    /\ pc[t] = "room"
    /\ \E st \in {"ok", "error"} :
         (st = "ok" => ~req[t].batch) /\ FinishWrite(t, 1, st, {})
    /\ UNCHANGED <<dbVars, lastSequence, bgError, shuttingDown, manualVars,
                   req, group, inserted, hstatus, bgVars, closing, logVars,
                   before, calls>>

(* A leader forms its group. *)
Form(t) ==
    /\ pc[t] = "room" /\ req[t].batch
    /\ pc' = [pc EXCEPT ![t] = "append"]
    /\ group' \in GroupSizes /\ inserted' = 0 /\ hstatus' = "ok"
    /\ UNCHANGED <<queue, done, status, woken, seq, promiseVars, force,
                   allowDelay, dbVars, lastSequence, bgError, shuttingDown,
                   manualVars, req, bgVars, closing, logVars, before, calls>>

(* A step that no writer takes part in. *)
Aside ==
    \/ Background \/ SeekStat \/ Close \/ CloseAgain
    \/ \E t \in Threads : CompactRangeRegister(t)

(* Every step is of one of these kinds. *)
LEMMA StepKinds ==
    ASSUME Next
    PROVE  \/ \E t \in Threads : \E sync, batch \in BOOLEAN :
                Enqueue(t, sync, batch) /\ (batch <=> t \in Writers)
           \/ \E t \in Threads :
                \/ WakeWriter(t) \/ Passing(t) \/ Early(t) \/ Form(t)
                \/ RoomSwitch(t) \/ AddRecord(t) \/ SyncLog(t)
                \/ InsertInto(t) \/ WriteEnd(t)
           \/ Aside
<1>1. CASE \E t \in Threads : WriteCall(t) \/ CompactCall(t)
  BY <1>1, ThreadsAssumption, Zenon DEF WriteCall, CompactCall, Threads
<1>2. CASE \E t \in Threads : ThreadStep(t)
  <2>1. PICK t \in Threads : ThreadStep(t)
    BY <1>2, Zenon
  <2>2. CASE RoomError(t) \/ RoomSwitchFails(t)
    <3>1. Early(t)
      BY <2>2, Zenon DEF RoomError, RoomSwitchFails, Early
    <3>2. QED
      BY <3>1, Zenon
  <2>3. CASE RoomFound(t)
    <3>1. Early(t) \/ Form(t)
      BY <2>3, Zenon DEF RoomFound, Early, Form
    <3>2. QED
      BY <3>1, Zenon
  <2>4. QED
    BY <2>1, <2>2, <2>3, Zenon DEF ThreadStep, Passing, Aside
<1>3. QED
  BY <1>1, <1>2, Zenon DEF Next, Aside

(* A step aside changes nothing of the writers, nor the memtable. *)
LEMMA AsideKeeps ==
    ASSUME Aside
    PROVE  UNCHANGED writerVars /\ pc' = pc /\ mem' = mem
<1> USE DEF writerVars, dbVars, headVars, logVars, promiseVars
<1>1. CASE BackgroundSkip \/ BackgroundFlush \/ BackgroundManualDone
  BY <1>1, Zenon DEF BackgroundSkip, BackgroundFlush, BackgroundManualDone
<1>2. CASE BackgroundCompact \/ WorkFlush
  BY <1>2, Zenon DEF BackgroundCompact, WorkFlush
<1>3. CASE FlushEnd \/ FlushFails
  BY <1>3, Zenon DEF FlushEnd, FlushFails
<1>4. CASE WorkEnd \/ WorkFails
  BY <1>4, Zenon DEF WorkEnd, WorkFails
<1>5. CASE SeekStat \/ Close \/ CloseAgain
  BY <1>5, Zenon DEF SeekStat, Close, CloseAgain
<1>6. CASE \E t \in Threads : CompactRangeRegister(t)
  BY <1>6, Zenon DEF CompactRangeRegister
<1>7. QED
  BY <1>1, <1>2, <1>3, <1>4, <1>5, <1>6, Zenon DEF Aside, Background

(* A passing thread changes its place only, and has no group. *)
LEMMA PassingKeeps ==
    ASSUME NEW t \in Threads, Passing(t)
    PROVE  /\ UNCHANGED writerVars /\ UNCHANGED <<mem, imm, tables>>
           /\ \E l \in Lines :
                /\ pc' = [pc EXCEPT ![t] = l]
                /\ \/ pc[t] \in LeaderLines /\ l \in LeaderLines
                   \/ /\ pc[t] \notin LeaderLines \cup {"idle", "waiting"}
                      /\ l \notin LeaderLines \cup {"waiting"}
                /\ l \notin GroupLines
<1> USE DEF writerVars, dbVars, headVars, logVars, promiseVars, Lines
<1>1. CASE RoomDelay(t) \/ RoomWait(t)
  BY <1>1, Zenon DEF RoomDelay, RoomWait
<1>2. CASE RoomAgain(t)
  BY <1>2, Zenon DEF RoomAgain
<1>3. CASE CompactMemTableWait(t)
  BY <1>3, Zenon DEF CompactMemTableWait
<1>4. CASE CompactRangeStart(t)
  BY <1>4, Zenon DEF CompactRangeStart
<1>5. CASE CompactRangeWait(t) \/ CompactRangeAgain(t)
  BY <1>5, Zenon DEF CompactRangeWait, CompactRangeAgain
<1>6. CASE CompactRangeEnd(t)
  BY <1>6, Zenon DEF CompactRangeEnd
<1>7. QED
  BY <1>1, <1>2, <1>3, <1>4, <1>5, <1>6, Zenon DEF Passing

(* Every step keeps the shape of the queue. *)
LEMMA ShapeStep ==
    ASSUME TypeOK, QueueShape, GroupShape, Next
    PROVE  QueueShape'
<1>1. ASSUME NEW t \in Threads, NEW l \in LeaderLines, pc[t] \in LeaderLines,
             pc' = [pc EXCEPT ![t] = l], UNCHANGED <<queue, done>>
      PROVE  QueueShape'
  BY <1>1, MoveShape, Zenon DEF Lines
<1>2. ASSUME NEW t \in Threads, Passing(t) PROVE QueueShape'
  <2>1. UNCHANGED <<queue, done>>
    BY <1>2, PassingKeeps, Zenon DEF writerVars
  <2>2. QED
    BY <1>2, <2>1, PassingKeeps, MoveShape, Zenon
<1>3. ASSUME NEW t \in Threads, Form(t) PROVE QueueShape'
  BY <1>1, <1>3, Zenon DEF Form
<1>4. ASSUME NEW t \in Threads, AddRecord(t) PROVE QueueShape'
  BY <1>1, <1>4, Zenon DEF AddRecord
<1>5. ASSUME NEW t \in Threads, SyncLog(t) PROVE QueueShape'
  BY <1>1, <1>5, Zenon DEF SyncLog
<1>6. ASSUME NEW t \in Threads, InsertInto(t) PROVE QueueShape'
  <2>1. PICK l \in {"relock", "insert"} : pc' = [pc EXCEPT ![t] = l]
    BY <1>6, Zenon DEF InsertInto
  <2>2. QED
    BY <1>1, <1>6, <2>1, Zenon DEF InsertInto
<1>7. ASSUME NEW t \in Threads, Early(t) PROVE QueueShape'
  <2>1. 1 \in 1..Len(queue)
    BY <1>7, LeaderIs, Zenon DEF Early
  <2>2. QED
    BY <1>7, <2>1, FinishShape DEF Early
<1>8. ASSUME NEW t \in Threads, WriteEnd(t) PROVE QueueShape'
  <2>1. group \in 1..Len(queue)
    BY <1>8, QueuePlaces, Zenon DEF GroupShape, GroupOf, WriteEnd
  <2>2. QED
    BY <1>8, <2>1, FinishShape DEF WriteEnd
<1>9. ASSUME UNCHANGED <<queue, pc, done>> PROVE QueueShape'
  BY <1>9, Zenon DEF QueueShape
<1>10. ASSUME NEW t \in Threads, RoomSwitch(t) PROVE QueueShape'
  BY <1>9, <1>10, Zenon DEF RoomSwitch
<1>11. ASSUME Aside PROVE QueueShape'
  BY <1>9, <1>11, AsideKeeps, Zenon DEF writerVars
<1>12. QED
  BY StepKinds, EnqueueShape, WakeShape, <1>2, <1>3, <1>4, <1>5, <1>6, <1>7,
     <1>8, <1>10, <1>11, Zenon

-----------------------------------------------------------------------------
(* The background thread.                                                  *)

(* What the background thread does to the variables of its own. *)
LEMMA BackgroundTypes ==
    ASSUME TypeOK
    PROVE  /\ hasImm \in BOOLEAN /\ bgError \in BOOLEAN /\ nested \in BOOLEAN
           /\ shuttingDown \in BOOLEAN /\ seek \in BOOLEAN
           /\ l0 \in Nat /\ picked \in Nat /\ keys \in 0..MaxKeys
           /\ manual \in Compactors \cup {NoThread}
BY Zenon DEF TypeOK

(* A flush has a memtable and a compaction its files, level 0 stays within *)
(* its limit, and work is scheduled.                                       *)
FlushSafe == FlushShape /\ Level0Bounded /\ WorkIsScheduled

(* Steps of threads that start no flush and register nothing. *)
LEMMA FlushKept ==
    ASSUME TypeOK, FlushSafe, UNCHANGED <<bgpc, nested, picked, hasImm, imm, l0>>,
           manual' # NoThread => manual # NoThread, bgError => bgError',
           shuttingDown => shuttingDown'
    PROVE  FlushSafe'
BY BackgroundTypes, Zenon
   DEF FlushSafe, FlushShape, Working, Level0Bounded, WorkIsScheduled

(* MaybeScheduleCompaction schedules when there is something to do. *)
LEMMA Schedules ==
    ASSUME NEW pending, NEW im \in BOOLEAN, NEW man, NEW files \in Nat,
           NEW sk \in BOOLEAN, NEW err \in BOOLEAN, TypeOK
    PROVE  LET b == MaybeSchedule(pending, im, man, files, sk, err)
           IN  /\ ~err /\ ~shuttingDown
                  /\ (im \/ man # NoThread \/ files >= L0CompactionTrigger)
                    => b # "none"
               /\ b \in {pending, "queued", "none"}
               /\ pending # "none" => b = pending
               /\ shuttingDown /\ pending = "none" => b = "none"
BY BackgroundTypes, Zenon DEF MaybeSchedule, NeedsCompaction

(* The end of a background call. *)
LEMMA ReturnSafe ==
    ASSUME TypeOK, NEW im \in BOOLEAN, NEW man, NEW files \in Nat,
           NEW sk \in BOOLEAN, NEW err \in BOOLEAN,
           BackgroundReturn(im, man, files, sk, err),
           hasImm' = im, manual' = man, l0' = files, bgError' = err,
           shuttingDown' = shuttingDown, ~im => imm' = {},
           files + (IF im THEN 1 ELSE 0) <= L0StopTrigger
    PROVE  FlushSafe'
<1>1. /\ bgpc' = MaybeSchedule("none", im, man, files, sk, err)
  BY Zenon DEF BackgroundReturn
<1>2. /\ bgpc' \in {"queued", "none"}
      /\ ~err /\ ~shuttingDown
         /\ (im \/ man # NoThread \/ files >= L0CompactionTrigger)
           => bgpc' # "none"
  BY <1>1, Schedules
<1>3. QED
  BY <1>2, Zenon DEF FlushSafe, FlushShape, Working, Level0Bounded, WorkIsScheduled

(* A memtable is switched while there is room for its table, and the       *)
(* flush is scheduled.                                                     *)
LEMMA SwitchSafe ==
    ASSUME TypeOK, FlushSafe, NEW t \in Threads, RoomSwitch(t)
    PROVE  FlushSafe'
<1>1. /\ ~hasImm /\ l0 < L0StopTrigger /\ hasImm' = TRUE /\ l0' = l0
      /\ bgError' \in BOOLEAN /\ shuttingDown' = shuttingDown
      /\ UNCHANGED <<nested, picked>>
      /\ bgpc' = MaybeSchedule(bgpc, TRUE, manual, l0, seek, bgError')
  BY BackgroundTypes, TriggersAssumption DEF RoomSwitch, MustWait
<1>2. /\ bgpc' \in {bgpc, "queued", "none"}
      /\ ~bgError' /\ ~shuttingDown => bgpc' # "none"
  <2>1. TRUE \in BOOLEAN /\ l0 \in Nat /\ seek \in BOOLEAN
    BY BackgroundTypes, Zenon
  <2>2. PICK err \in BOOLEAN : err = bgError'
    BY <1>1, Zenon
  <2>3. bgpc' = MaybeSchedule(bgpc, TRUE, manual, l0, seek, err)
    BY <1>1, <2>2, Zenon
  <2>4. QED
    BY <2>2, <2>3, BackgroundTypes, Zenon DEF MaybeSchedule
<1>3. FlushShape'
  BY <1>1, <1>2, Zenon DEF FlushSafe, FlushShape, Working
<1>4. Level0Bounded'
  BY <1>1, BackgroundTypes, TriggersAssumption DEF Level0Bounded
<1>5. WorkIsScheduled'
  BY <1>1, <1>2, Zenon DEF WorkIsScheduled
<1>6. QED
  BY <1>3, <1>4, <1>5, Zenon DEF FlushSafe

(* Scheduling for a manual compaction or for seeks. *)
LEMMA ScheduleSafe ==
    ASSUME TypeOK, FlushSafe, NEW man, NEW sk \in BOOLEAN,
           bgpc' = MaybeSchedule(bgpc, hasImm, man, l0, sk, bgError),
           manual' = man,
           UNCHANGED <<nested, picked, hasImm, imm, l0, bgError, shuttingDown>>
    PROVE  FlushSafe'
<1>1. /\ bgpc' \in {bgpc, "queued", "none"}
      /\ ~bgError /\ ~shuttingDown
         /\ (hasImm \/ man # NoThread \/ l0 >= L0CompactionTrigger)
           => bgpc' # "none"
  BY Schedules, BackgroundTypes
<1>2. QED
  BY <1>1, BackgroundTypes, Zenon
     DEF FlushSafe, FlushShape, Working, Level0Bounded, WorkIsScheduled

(* The background thread starts. *)
LEMMA StartSafe ==
    ASSUME TypeOK, FlushSafe,
           \/ BackgroundSkip \/ BackgroundFlush \/ BackgroundManualDone
           \/ BackgroundCompact \/ WorkFlush
    PROVE  FlushSafe'
<1> USE DEF dbVars, manualVars
<1>1. /\ ~hasImm => imm = {}
      /\ l0 + (IF hasImm THEN 1 ELSE 0) <= L0StopTrigger
  BY Zenon DEF FlushSafe, FlushShape, Level0Bounded
<1>2. CASE BackgroundSkip
  <2>1. /\ BackgroundReturn(hasImm, manual, l0, seek, bgError)
        /\ UNCHANGED <<hasImm, manual, l0, bgError, shuttingDown, imm>>
    BY <1>2, Zenon DEF BackgroundSkip
  <2>2. QED
    BY <1>1, <2>1, ReturnSafe, BackgroundTypes, Zenon
<1>3. CASE BackgroundManualDone
  <2>1. /\ BackgroundReturn(hasImm, NoThread, l0, seek, bgError)
        /\ UNCHANGED <<hasImm, l0, bgError, shuttingDown, imm>>
        /\ manual' = NoThread
    BY <1>3, Zenon DEF BackgroundManualDone
  <2>2. QED
    BY <1>1, <2>1, ReturnSafe, BackgroundTypes, Zenon
<1>4. CASE BackgroundFlush
  <2>1. /\ hasImm /\ bgpc' = "flush" /\ nested' = FALSE
        /\ UNCHANGED <<hasImm, imm, l0, bgError, shuttingDown, manual>>
    BY <1>4, Zenon DEF BackgroundFlush
  <2>2. QED
    BY <2>1, Zenon DEF FlushSafe, FlushShape, Working, Level0Bounded, WorkIsScheduled
<1>5. CASE BackgroundCompact
  <2>1. /\ bgpc' = "work" /\ picked' \in 0..l0
        /\ UNCHANGED <<hasImm, imm, l0, bgError, shuttingDown, manual>>
    BY <1>5, BackgroundTypes DEF BackgroundCompact
  <2>2. QED
    BY <1>1, <2>1, BackgroundTypes
       DEF FlushSafe, FlushShape, Working, Level0Bounded, WorkIsScheduled
<1>6. CASE WorkFlush
  <2>1. /\ hasImm /\ bgpc = "work" /\ bgpc' = "flush" /\ nested' = TRUE
        /\ UNCHANGED <<hasImm, imm, l0, bgError, shuttingDown, manual, picked>>
    BY <1>6, Zenon DEF WorkFlush
  <2>2. QED
    BY <2>1, Zenon DEF FlushSafe, FlushShape, Working, Level0Bounded, WorkIsScheduled
<1>7. QED
  BY <1>2, <1>3, <1>4, <1>5, <1>6, Zenon

(* A flush ends: its table is a level-0 file at most. *)
LEMMA FlushEndSafe ==
    ASSUME TypeOK, FlushSafe, FlushEnd \/ FlushFails
    PROVE  FlushSafe'
<1> USE DEF dbVars, manualVars
<1>1. bgpc = "flush" /\ hasImm
  BY Zenon DEF FlushEnd, FlushFails, FlushSafe, FlushShape
<1>2. l0 + 1 <= L0StopTrigger
  BY <1>1, Zenon DEF FlushSafe, Level0Bounded
<1>3. CASE FlushEnd
  <2>1. /\ imm' = {} /\ hasImm' = FALSE /\ l0' \in {l0, l0 + 1}
        /\ AfterFlush(FALSE, l0', FALSE, bgError)
        /\ UNCHANGED <<manual, bgError, shuttingDown>>
    BY <1>3, Zenon DEF FlushEnd
  <2>2. l0' \in Nat /\ l0' >= l0 /\ l0' + 0 <= L0StopTrigger
    BY <1>2, <2>1, BackgroundTypes, TriggersAssumption
  <2>3. CASE nested
    <3>1. bgpc' = "work" /\ picked' = picked /\ picked <= l0
      BY <1>1, <2>1, <2>3, Zenon DEF AfterFlush, FlushSafe, FlushShape, Working
    <3>2. picked' <= l0'
      BY <2>2, <3>1, BackgroundTypes
    <3>3. QED
      BY <2>1, <2>2, <3>1, <3>2, Zenon
         DEF FlushSafe, FlushShape, Working, Level0Bounded, WorkIsScheduled
  <2>4. CASE ~nested
    <3>1. BackgroundReturn(FALSE, manual, l0', FALSE, bgError)
      BY <2>1, <2>4, Zenon DEF AfterFlush
    <3>2. FALSE \in BOOLEAN
      BY Zenon
    <3>3. QED
      BY <2>1, <2>2, <3>1, <3>2, ReturnSafe, BackgroundTypes, Zenon
  <2>5. QED
    BY <2>3, <2>4, Zenon
<1>4. CASE FlushFails
  <2>1. /\ bgError' = TRUE /\ AfterFlush(hasImm, l0, seek, TRUE)
        /\ UNCHANGED <<imm, hasImm, l0, manual, shuttingDown>>
    BY <1>4, Zenon DEF FlushFails
  <2>2. CASE nested
    <3>1. bgpc' = "work" /\ picked' = picked /\ picked <= l0
      BY <1>1, <2>1, <2>2, Zenon DEF AfterFlush, FlushSafe, FlushShape, Working
    <3>2. QED
      BY <1>1, <2>1, <3>1, Zenon
         DEF FlushSafe, FlushShape, Working, Level0Bounded, WorkIsScheduled
  <2>3. CASE ~nested
    <3>1. BackgroundReturn(hasImm, manual, l0, seek, TRUE)
      BY <2>1, <2>3, Zenon DEF AfterFlush
    <3>2. l0 + (IF hasImm THEN 1 ELSE 0) <= L0StopTrigger /\ TRUE \in BOOLEAN
      BY Zenon DEF FlushSafe, Level0Bounded
    <3>3. QED
      BY <1>1, <2>1, <3>1, <3>2, ReturnSafe, BackgroundTypes, Zenon
  <2>4. QED
    BY <2>2, <2>3, Zenon
<1>5. QED
  BY <1>3, <1>4, Zenon

(* The end of a compaction returns to BackgroundCall, or the process ends. *)
LEMMA CompactionReturnSafe ==
    ASSUME TypeOK, FlushSafe, NEW ok, NEW files \in Nat, NEW sk \in BOOLEAN,
           NEW err \in BOOLEAN, CompactionReturn(ok, files, sk, err),
           l0' = files, files <= l0, bgError' = err,
           UNCHANGED <<hasImm, imm, shuttingDown>>
    PROVE  FlushSafe'
<1> USE DEF manualVars
<1>1. /\ ~hasImm => imm = {}
      /\ files + (IF hasImm THEN 1 ELSE 0) <= L0StopTrigger
  BY BackgroundTypes, TriggersAssumption DEF FlushSafe, FlushShape, Level0Bounded
<1>2. CASE kind # "manual"
  <2>1. BackgroundReturn(hasImm, manual, files, sk, err) /\ manual' = manual
    BY <1>2, Zenon DEF CompactionReturn
  <2>2. QED
    BY <1>1, <2>1, ReturnSafe, BackgroundTypes, Zenon
<1>3. CASE kind = "manual" /\ manual = NoThread
  <2>1. bgpc' = "crashed"
    BY <1>3, Zenon DEF CompactionReturn
  <2>2. QED
    BY <1>1, <2>1, Zenon
       DEF FlushSafe, FlushShape, Working, Level0Bounded, WorkIsScheduled
<1>4. CASE kind = "manual" /\ manual # NoThread
  <2>1. BackgroundReturn(hasImm, NoThread, files, sk, err) /\ manual' = NoThread
    BY <1>4, Zenon DEF CompactionReturn
  <2>2. QED
    BY <1>1, <2>1, ReturnSafe, BackgroundTypes, Zenon
<1>5. QED
  BY <1>2, <1>3, <1>4, Zenon

(* What the steps of the threads do to the variables of the background     *)
(* thread: nothing, except that an error may be recorded.                  *)
LEMMA ThreadsKeep ==
    ASSUME TypeOK, NEW t \in Threads,
           \/ \E sync, batch : Enqueue(t, sync, batch)
           \/ WakeWriter(t) \/ Passing(t) \/ Early(t) \/ Form(t) \/ AddRecord(t)
           \/ SyncLog(t) \/ InsertInto(t) \/ WriteEnd(t)
    PROVE  /\ UNCHANGED <<bgpc, nested, kind, picked, keys, hasImm, imm, l0, seek,
                          tables, shuttingDown, closing>>
           /\ bgError => bgError'
           /\ bgError' \in BOOLEAN
           /\ ~Passing(t) => UNCHANGED <<manual, mlevel, mdone, mleft>>
           /\ manual' \in {manual, NoThread}
<1> USE DEF dbVars, bgVars, manualVars
<1>0. bgError \in BOOLEAN
  BY BackgroundTypes, Zenon
<1>1. CASE \E sync, batch : Enqueue(t, sync, batch)
  BY <1>0, <1>1, SMTT(30) DEF Enqueue
<1>2. CASE WakeWriter(t) \/ Early(t) \/ Form(t)
  BY <1>0, <1>2, Zenon DEF WakeWriter, Early, Form
<1>3. CASE AddRecord(t) \/ SyncLog(t) \/ InsertInto(t)
  BY <1>0, <1>3, Zenon DEF AddRecord, SyncLog, InsertInto
<1>4. CASE WriteEnd(t)
  BY <1>0, <1>4, Zenon DEF WriteEnd
<1>5. CASE Passing(t)
  <2>1. CASE RoomDelay(t) \/ RoomWait(t) \/ RoomAgain(t) \/ CompactMemTableWait(t)
    BY <1>0, <1>5, <2>1, Zenon DEF RoomDelay, RoomWait, RoomAgain, CompactMemTableWait
  <2>2. CASE CompactRangeStart(t) \/ CompactRangeWait(t) \/ CompactRangeAgain(t)
    BY <1>0, <1>5, <2>2, Zenon DEF CompactRangeStart, CompactRangeWait, CompactRangeAgain
  <2>3. CASE CompactRangeEnd(t)
    BY <1>0, <1>5, <2>3, Zenon DEF CompactRangeEnd
  <2>4. QED
    BY <1>5, <2>1, <2>2, <2>3, Zenon DEF Passing
<1>6. QED
  BY <1>1, <1>2, <1>3, <1>4, <1>5, Zenon

(* Every step keeps level 0 within its limit, and its work scheduled. *)
LEMMA FlushStep ==
    ASSUME TypeOK, FlushSafe, Next
    PROVE  FlushSafe'
<1>1. ASSUME NEW t \in Threads,
             \/ \E sync, batch : Enqueue(t, sync, batch)
             \/ WakeWriter(t) \/ Passing(t) \/ Early(t) \/ Form(t) \/ AddRecord(t)
             \/ SyncLog(t) \/ InsertInto(t) \/ WriteEnd(t)
      PROVE  FlushSafe'
  <2>1. /\ UNCHANGED <<bgpc, nested, picked, hasImm, imm, l0, shuttingDown>>
        /\ bgError => bgError'
        /\ manual' \in {manual, NoThread}
    BY <1>1, ThreadsKeep, Zenon
  <2>2. manual' # NoThread => manual # NoThread
    BY <2>1, Zenon
  <2>3. shuttingDown => shuttingDown'
    BY <2>1, Zenon
  <2>4. QED
    BY <2>1, <2>2, <2>3, FlushKept, Zenon
<1>2. ASSUME NEW t \in Threads, CompactRangeRegister(t) PROVE FlushSafe'
  <2>1. /\ bgpc' = MaybeSchedule(bgpc, hasImm, t, l0, seek, bgError)
        /\ manual' = t
        /\ UNCHANGED <<nested, picked, hasImm, imm, l0, bgError, shuttingDown>>
    BY <1>2, Zenon DEF CompactRangeRegister, dbVars
  <2>2. QED
    BY <2>1, ScheduleSafe, BackgroundTypes, Zenon
<1>3. ASSUME SeekStat PROVE FlushSafe'
  <2>1. /\ bgpc' = MaybeSchedule(bgpc, hasImm, manual, l0, TRUE, bgError)
        /\ manual' = manual /\ TRUE \in BOOLEAN
        /\ UNCHANGED <<nested, picked, hasImm, imm, l0, bgError, shuttingDown>>
    BY <1>3, Zenon DEF SeekStat, manualVars
  <2>2. QED
    BY <2>1, ScheduleSafe, Zenon
<1>4. ASSUME Close \/ CloseAgain PROVE FlushSafe'
  <2>1. /\ UNCHANGED <<bgpc, nested, picked, hasImm, imm, l0, manual, bgError>>
        /\ shuttingDown => shuttingDown'
    BY <1>4 DEF Close, CloseAgain, dbVars, bgVars, manualVars
  <2>2. QED
    BY <2>1, FlushKept, Zenon
<1>5. ASSUME WorkEnd PROVE FlushSafe'
  <2>1. picked <= l0
    BY <1>5, Zenon DEF WorkEnd, FlushSafe, FlushShape, Working
  <2>2. /\ l0' = l0 - picked /\ CompactionReturn(TRUE, l0', FALSE, bgError)
        /\ UNCHANGED <<hasImm, imm, shuttingDown, bgError>>
    BY <1>5, Zenon DEF WorkEnd
  <2>3. l0' \in Nat /\ l0' <= l0 /\ FALSE \in BOOLEAN
    BY <2>1, <2>2, BackgroundTypes
  <2>4. QED
    BY <2>2, <2>3, CompactionReturnSafe, BackgroundTypes, Zenon
<1>6. ASSUME WorkFails PROVE FlushSafe'
  <2>1. /\ CompactionReturn(FALSE, l0, seek, TRUE) /\ l0' = l0 /\ bgError' = TRUE
        /\ UNCHANGED <<hasImm, imm, shuttingDown>>
    BY <1>6, Zenon DEF WorkFails, dbVars
  <2>2. TRUE \in BOOLEAN /\ l0 <= l0
    BY BackgroundTypes
  <2>3. QED
    BY <2>1, <2>2, CompactionReturnSafe, BackgroundTypes, Zenon
<1>7. ASSUME Aside PROVE FlushSafe'
  BY <1>2, <1>3, <1>4, <1>5, <1>6, <1>7, StartSafe, FlushEndSafe, Zenon
     DEF Aside, Background
<1>8. QED
  BY StepKinds, SwitchSafe, <1>1, <1>7, Zenon

(* A manual compaction that is registered and running, with the threads    *)
(* elsewhere.                                                              *)
LEMMA ManualKept ==
    ASSUME TypeOK, ManualShape,
           UNCHANGED <<manual, mdone, mleft, bgpc, nested, kind>>,
           bgError => bgError', shuttingDown => shuttingDown',
           manual # NoThread => pc'[manual] \in {"range", "rangeWait"}
    PROVE  ManualShape'
BY Zenon DEF ManualShape, Working

(* Steps of the threads that have nothing to do with manual compactions. *)
LEMMA ManualElsewhere ==
    ASSUME TypeOK, ManualShape, NEW t \in Threads,
           pc[t] \notin {"range", "rangeWait"},
           \A u \in Threads \ {t} : pc'[u] = pc[u],
           UNCHANGED <<manual, mdone, mleft, bgpc, nested, kind, shuttingDown>>,
           bgError => bgError'
    PROVE  ManualShape'
<1>1. manual # NoThread => manual \in Threads \ {t}
  BY BackgroundTypes, Zenon DEF ManualShape, Threads
<1>2. manual # NoThread => pc'[manual] \in {"range", "rangeWait"}
  BY <1>1, Zenon DEF ManualShape
<1>3. shuttingDown => shuttingDown'
  BY Zenon
<1>4. QED
  BY <1>2, <1>3, ManualKept, Zenon

(* The background thread returns, and nothing is being compacted. *)
LEMMA ManualReturned ==
    ASSUME TypeOK, ManualShape, NEW im, NEW files, NEW sk, NEW err,
           BackgroundReturn(im, manual', files, sk, err), pc' = pc,
           manual' # NoThread => manual' = manual /\ mdone' = mdone
    PROVE  ManualShape'
<1>1. kind' = "none"
  BY Zenon DEF BackgroundReturn
<1>2. QED
  BY <1>1, Zenon DEF ManualShape

(* The steps of CompactRange. *)
LEMMA ManualThreads ==
    ASSUME TypeOK, QueueShape, ManualShape, NEW t \in Threads,
           Passing(t) \/ CompactRangeRegister(t)
    PROVE  ManualShape'
<1> USE DEF bgVars, manualVars
<1>0. bgError \in BOOLEAN /\ shuttingDown \in BOOLEAN
  BY BackgroundTypes, Zenon
<1>1. CASE RoomDelay(t) \/ RoomWait(t) \/ RoomAgain(t) \/ CompactMemTableWait(t)
  <2>1. /\ pc[t] \notin {"range", "rangeWait"}
        /\ \A u \in Threads \ {t} : pc'[u] = pc[u]
        /\ UNCHANGED <<manual, mdone, mleft, bgpc, nested, kind, shuttingDown, bgError>>
    BY <1>1, ThreadTypes, Zenon DEF RoomDelay, RoomWait, RoomAgain, CompactMemTableWait
  <2>2. bgError => bgError'
    BY <2>1, Zenon
  <2>3. QED
    BY <2>1, <2>2, ManualElsewhere, Zenon
<1>2. CASE CompactRangeStart(t)
  <2>1. /\ pc[t] \notin {"range", "rangeWait"}
        /\ \A u \in Threads \ {t} :
             pc'[u] = pc[u] /\ mdone'[u] = mdone[u] /\ mleft'[u] = mleft[u]
        /\ UNCHANGED <<manual, bgpc, nested, kind, shuttingDown, bgError>>
    BY <1>2, ThreadTypes, Zenon DEF CompactRangeStart, TypeOK
  <2>2. manual # NoThread => manual \in Threads \ {t}
    BY <2>1, BackgroundTypes, Zenon DEF ManualShape, Threads
  <2>3. QED
    BY <1>0, <2>1, <2>2, Zenon DEF ManualShape, Working
<1>3. CASE CompactRangeWait(t) \/ CompactRangeAgain(t)
  <2>1. /\ pc'[t] \in {"range", "rangeWait"}
        /\ \A u \in Threads \ {t} : pc'[u] = pc[u]
        /\ UNCHANGED <<manual, mdone, mleft, bgpc, nested, kind, shuttingDown, bgError>>
    BY <1>3, ThreadTypes, Zenon DEF CompactRangeWait, CompactRangeAgain
  <2>2. manual # NoThread => pc'[manual] \in {"range", "rangeWait"}
    BY <2>1, BackgroundTypes, Zenon DEF ManualShape, Threads
  <2>3. (bgError => bgError') /\ (shuttingDown => shuttingDown')
    BY <2>1, Zenon
  <2>4. QED
    BY <2>1, <2>2, <2>3, ManualKept, Zenon
<1>4. CASE CompactRangeEnd(t)
  <2>1. /\ mdone[t] \/ shuttingDown \/ bgError
        /\ manual' = IF manual = t THEN NoThread ELSE manual
        /\ UNCHANGED <<bgpc, nested, kind, shuttingDown, bgError>>
    BY <1>4, Zenon DEF CompactRangeEnd
  <2>2. \A u \in Threads \ {t} :
          pc'[u] = pc[u] /\ mdone'[u] = mdone[u] /\ mleft'[u] = mleft[u]
    BY <1>4, ThreadTypes DEF CompactRangeEnd, TypeOK
  <2>3. CASE manual = t
    BY <1>0, <2>1, <2>3, ThreadsAssumption, Zenon DEF ManualShape, Working
  <2>4. CASE manual # t
    <3>1. manual # NoThread => manual \in Threads \ {t}
      BY <2>4, BackgroundTypes, Zenon DEF Threads
    <3>2. QED
      BY <1>0, <2>1, <2>2, <2>4, <3>1, Zenon DEF ManualShape, Working
  <2>5. QED
    BY <2>3, <2>4, Zenon
<1>5. CASE CompactRangeRegister(t)
  <2>1. /\ pc[t] = "range" /\ ~mdone[t] /\ ~shuttingDown /\ ~bgError
        /\ manual = NoThread /\ manual' = t
        /\ bgpc' = MaybeSchedule(bgpc, hasImm, t, l0, seek, bgError)
        /\ UNCHANGED <<pc, mdone, mleft, nested, kind>>
    BY <1>5, Zenon DEF CompactRangeRegister
  <2>2. bgpc' \in {bgpc, "queued", "none"}
    BY <2>1, Schedules, BackgroundTypes, Zenon
  <2>3. ~(Working /\ kind = "manual")
    BY <2>1, Zenon DEF ManualShape
  <2>4. ~(Working' /\ kind' = "manual")
    BY <2>1, <2>2, <2>3, Zenon DEF Working
  <2>5. QED
    BY <2>1, <2>4, Zenon DEF ManualShape
<1>6. QED
  BY <1>1, <1>2, <1>3, <1>4, <1>5, Zenon DEF Passing

(* The steps of the background thread. *)
LEMMA ManualBackground ==
    ASSUME TypeOK, ManualShape, Background
    PROVE  ManualShape'
<1> USE DEF manualVars
<1>0. bgError \in BOOLEAN /\ shuttingDown \in BOOLEAN /\ DOMAIN mdone = Threads
  BY Zenon DEF TypeOK
<1>1. CASE BackgroundSkip
  <2>1. /\ BackgroundReturn(hasImm, manual', l0, seek, bgError)
        /\ UNCHANGED <<pc, manual, mdone>>
    BY <1>1, Zenon DEF BackgroundSkip
  <2>2. QED
    BY <2>1, ManualReturned, Zenon
<1>2. CASE BackgroundManualDone
  <2>1. /\ BackgroundReturn(hasImm, manual', l0, seek, bgError)
        /\ pc' = pc /\ manual' = NoThread
    BY <1>2, Zenon DEF BackgroundManualDone
  <2>2. QED
    BY <2>1, ManualReturned, Zenon
<1>3. CASE BackgroundFlush
  <2>1. /\ bgpc' = "flush" /\ nested' = FALSE
        /\ UNCHANGED <<pc, manual, mdone>>
    BY <1>3, Zenon DEF BackgroundFlush
  <2>2. QED
    BY <2>1, Zenon DEF ManualShape, Working
<1>4. CASE BackgroundCompact
  <2>1. /\ kind' = "manual" => manual # NoThread /\ mleft[manual] > 0
        /\ UNCHANGED <<pc, manual, mdone, mleft>>
    BY <1>4, Zenon DEF BackgroundCompact
  <2>2. QED
    BY <2>1, Zenon DEF ManualShape
<1>5. CASE WorkFlush
  <2>1. /\ bgpc = "work" /\ UNCHANGED <<pc, manual, mdone, mleft, kind, bgError, shuttingDown>>
    BY <1>5, Zenon DEF WorkFlush
  <2>2. QED
    BY <1>0, <2>1, Zenon DEF ManualShape, Working
<1>6. CASE FlushEnd \/ FlushFails
  <2>1. /\ bgpc = "flush" /\ UNCHANGED <<pc, manual, mdone, mleft, shuttingDown>>
        /\ bgError' = bgError \/ bgError' = TRUE
        /\ \E im, files, sk, err : AfterFlush(im, files, sk, err)
    BY <1>6, Zenon DEF FlushEnd, FlushFails
  <2>2. CASE nested
    <3>1. kind' = kind
      BY <2>1, <2>2, Zenon DEF AfterFlush
    <3>2. Working
      BY <2>1, <2>2, Zenon DEF Working
    <3>3. QED
      BY <1>0, <2>1, <3>1, <3>2 DEF ManualShape
  <2>3. CASE ~nested
    <3>1. \E im, files, sk, err : BackgroundReturn(im, manual', files, sk, err)
      BY <2>1, <2>3, Zenon DEF AfterFlush
    <3>2. QED
      BY <2>1, <3>1, ManualReturned, Zenon
  <2>4. QED
    BY <2>2, <2>3, Zenon
<1>7. CASE WorkEnd \/ WorkFails
  <2>1. /\ bgpc = "work" /\ pc' = pc
        /\ \E ok, files, sk, err : CompactionReturn(ok, files, sk, err)
    BY <1>7, Zenon DEF WorkEnd, WorkFails
  <2>2. CASE kind # "manual"
    <3>1. /\ \E im, files, sk, err : BackgroundReturn(im, manual', files, sk, err)
          /\ UNCHANGED <<manual, mdone>>
      BY <2>1, <2>2, Zenon DEF CompactionReturn
    <3>2. QED
      BY <2>1, <3>1, ManualReturned, Zenon
  <2>3. CASE kind = "manual" /\ manual = NoThread
    <3>1. bgpc' = "crashed" /\ manual' = manual
      BY <2>1, <2>3, Zenon DEF CompactionReturn
    <3>2. QED
      BY <2>3, <3>1, Zenon DEF ManualShape, Working
  <2>4. CASE kind = "manual" /\ manual # NoThread
    <3>1. /\ \E im, files, sk, err : BackgroundReturn(im, manual', files, sk, err)
          /\ manual' = NoThread
      BY <2>1, <2>4, Zenon DEF CompactionReturn
    <3>2. QED
      BY <2>1, <3>1, ManualReturned, Zenon
  <2>5. QED
    BY <2>2, <2>3, <2>4, Zenon
<1>8. QED
  BY <1>1, <1>2, <1>3, <1>4, <1>5, <1>6, <1>7, Zenon DEF Background

(* Every step keeps a manual compaction with the thread that waits for it. *)
LEMMA ManualStep ==
    ASSUME TypeOK, QueueShape, GroupShape, ManualShape, Next
    PROVE  ManualShape'
<1>1. ASSUME NEW t \in Threads, pc[t] \notin {"range", "rangeWait"},
             \A u \in Threads \ {t} : pc'[u] = pc[u],
             \/ \E sync, batch : Enqueue(t, sync, batch)
             \/ WakeWriter(t) \/ Early(t) \/ Form(t) \/ AddRecord(t)
             \/ SyncLog(t) \/ InsertInto(t) \/ WriteEnd(t)
      PROVE  ManualShape'
  <2>1. CASE Passing(t)
    BY <2>1, ManualThreads, Zenon
  <2>2. CASE ~Passing(t)
    <3>1. /\ UNCHANGED <<manual, mdone, mleft, bgpc, nested, kind, shuttingDown>>
          /\ bgError => bgError'
      BY <1>1, <2>2, ThreadsKeep, Zenon
    <3>2. QED
      BY <1>1, <3>1, ManualElsewhere, Zenon
  <2>3. QED
    BY <2>1, <2>2, Zenon
<1>2. ASSUME NEW t \in Threads, NEW sync, NEW batch, Enqueue(t, sync, batch)
      PROVE  ManualShape'
  <2>1. pc[t] = "idle" /\ \A u \in Threads \ {t} : pc'[u] = pc[u]
    BY <1>2, ThreadTypes, Zenon DEF Enqueue
  <2>2. QED
    BY <1>1, <1>2, <2>1, Zenon
<1>3. ASSUME NEW t \in Threads, WakeWriter(t) PROVE ManualShape'
  <2>1. pc[t] = "waiting" /\ \A u \in Threads \ {t} : pc'[u] = pc[u]
    BY <1>3, ThreadTypes, Zenon DEF WakeWriter
  <2>2. QED
    BY <1>1, <1>3, <2>1, Zenon
<1>4. ASSUME NEW t \in Threads,
             Form(t) \/ AddRecord(t) \/ SyncLog(t) \/ InsertInto(t)
      PROVE  ManualShape'
  <2>1. pc[t] \in LeaderLines /\ \A u \in Threads \ {t} : pc'[u] = pc[u]
    BY <1>4, ThreadTypes, Zenon DEF Form, AddRecord, SyncLog, InsertInto
  <2>2. QED
    BY <1>1, <1>4, <2>1, Zenon
<1>5. ASSUME NEW t \in Threads, Early(t) PROVE ManualShape'
  <2>1. pc[t] = "room" /\ \E st : FinishWrite(t, 1, st, {})
    BY <1>5, Zenon DEF Early
  <2>2. \A u \in Threads \ {t} : pc'[u] = pc[u]
    BY <2>1, ThreadTypes, Zenon DEF FinishWrite
  <2>3. QED
    BY <1>1, <1>5, <2>1, <2>2, Zenon
<1>6. ASSUME NEW t \in Threads, WriteEnd(t) PROVE ManualShape'
  <2>1. pc[t] = "relock" /\ \E st, signals : FinishWrite(t, group, st, signals)
    BY <1>6, Zenon DEF WriteEnd
  <2>2. \A u \in Threads \ {t} : pc'[u] = pc[u]
    BY <2>1, ThreadTypes, Zenon DEF FinishWrite
  <2>3. QED
    BY <1>1, <1>6, <2>1, <2>2, Zenon
<1>7. ASSUME UNCHANGED <<manual, mdone, mleft, kind, pc>>, Working' => Working,
             bgError => bgError', shuttingDown => shuttingDown'
      PROVE  ManualShape'
  BY <1>7, Zenon DEF ManualShape
<1>8. ASSUME NEW t \in Threads, RoomSwitch(t) PROVE ManualShape'
  <2>1. /\ UNCHANGED <<manual, mdone, mleft, kind, pc, nested, shuttingDown>>
        /\ ~bgError
        /\ bgpc' = MaybeSchedule(bgpc, TRUE, manual, l0, seek, bgError')
    BY <1>8, Zenon DEF RoomSwitch, manualVars
  <2>2. bgpc' \in {bgpc, "queued", "none"}
    BY <2>1, Zenon DEF MaybeSchedule
  <2>3. Working' => Working
    BY <2>1, <2>2, Zenon DEF Working
  <2>4. (bgError => bgError') /\ (shuttingDown => shuttingDown')
    BY <2>1, Zenon
  <2>5. QED
    BY <1>7, <2>1, <2>3, <2>4, Zenon
<1>9. ASSUME SeekStat PROVE ManualShape'
  <2>1. /\ UNCHANGED <<manual, mdone, mleft, kind, pc, nested, shuttingDown, bgError>>
        /\ bgpc' = MaybeSchedule(bgpc, hasImm, manual, l0, TRUE, bgError)
    BY <1>9, Zenon DEF SeekStat, manualVars
  <2>2. bgpc' \in {bgpc, "queued", "none"}
    BY <2>1, Zenon DEF MaybeSchedule
  <2>3. Working' => Working
    BY <2>1, <2>2, Zenon DEF Working
  <2>4. (bgError => bgError') /\ (shuttingDown => shuttingDown')
    BY <2>1, Zenon
  <2>5. QED
    BY <1>7, <2>1, <2>3, <2>4, Zenon
<1>10. ASSUME Close \/ CloseAgain PROVE ManualShape'
  <2>1. UNCHANGED <<manual, mdone, mleft, kind, pc, nested, bgpc, bgError>>
    BY <1>10, Zenon DEF Close, CloseAgain, manualVars, bgVars
  <2>2. Working' => Working
    BY <2>1, Zenon DEF Working
  <2>3. shuttingDown => shuttingDown'
    BY <1>10, BackgroundTypes, Zenon DEF Close, CloseAgain
  <2>4. (bgError => bgError') /\ (shuttingDown => shuttingDown')
    BY <2>1, <2>3, Zenon
  <2>5. QED
    BY <1>7, <2>1, <2>2, <2>4, Zenon
<1>11. QED
  BY StepKinds, ManualThreads, ManualBackground, <1>2, <1>3, <1>4, <1>5, <1>6,
     <1>8, <1>9, <1>10, Zenon DEF Aside

(* The destructor runs alone. *)
CloseSafe == CloseShape /\ CloseWaits

(* Every step leaves the database to the destructor once it runs. *)
LEMMA CloseStep ==
    ASSUME TypeOK, QueueShape, CloseSafe, Next
    PROVE  CloseSafe'
<1>0. shuttingDown \in BOOLEAN
  BY BackgroundTypes, Zenon
<1>1. ASSUME closing = "no", closing' = closing PROVE CloseSafe'
  BY <1>1, Zenon DEF CloseSafe, CloseShape, CloseWaits
<1>2. ASSUME NEW t \in Threads, pc[t] # "idle", closing' = closing
      PROVE  CloseSafe'
  <2>1. closing = "no"
    BY <1>2, Zenon DEF CloseSafe, CloseShape
  <2>2. QED
    BY <1>1, <1>2, <2>1, Zenon
<1>3. ASSUME NEW t \in Threads, NEW sync, NEW batch, Enqueue(t, sync, batch)
      PROVE  CloseSafe'
  BY <1>1, <1>3, Zenon DEF Enqueue
<1>4. ASSUME NEW t \in Threads, WakeWriter(t) \/ Early(t) \/ Form(t)
      PROVE  CloseSafe'
  BY <1>2, <1>4, Zenon DEF WakeWriter, Early, Form
<1>5. ASSUME NEW t \in Threads, RoomSwitch(t) \/ AddRecord(t) \/ SyncLog(t)
      PROVE  CloseSafe'
  BY <1>2, <1>5, Zenon DEF RoomSwitch, AddRecord, SyncLog
<1>6. ASSUME NEW t \in Threads, InsertInto(t) \/ WriteEnd(t) PROVE CloseSafe'
  BY <1>2, <1>6, Zenon DEF InsertInto, WriteEnd
<1>7. ASSUME NEW t \in Threads, Passing(t) PROVE CloseSafe'
  <2>1. closing' = closing
    BY <1>7, ThreadsKeep, Zenon
  <2>2. pc[t] # "idle"
    BY <1>7, PassingKeeps, Zenon
  <2>3. QED
    BY <1>2, <2>1, <2>2, Zenon
<1>8. ASSUME NEW t \in Threads, CompactRangeRegister(t) PROVE CloseSafe'
  BY <1>2, <1>8, Zenon DEF CompactRangeRegister
<1>9. ASSUME Background PROVE CloseSafe'
  <2>1. closing' = closing /\ bgpc # "none" /\ shuttingDown' = shuttingDown
    <3>1. CASE BackgroundSkip \/ BackgroundFlush \/ BackgroundManualDone
      BY <3>1, Zenon DEF BackgroundSkip, BackgroundFlush, BackgroundManualDone
    <3>2. CASE BackgroundCompact \/ WorkFlush \/ FlushEnd
      BY <3>2, Zenon DEF BackgroundCompact, WorkFlush, FlushEnd
    <3>3. CASE FlushFails \/ WorkEnd \/ WorkFails
      BY <3>3, Zenon DEF FlushFails, WorkEnd, WorkFails
    <3>4. QED
      BY <1>9, <3>1, <3>2, <3>3, Zenon DEF Background
  <2>2. pc' = pc
    BY <1>9, AsideKeeps, Zenon DEF Aside
  <2>3. QED
    BY <1>0, <2>1, <2>2, Zenon DEF CloseSafe, CloseShape, CloseWaits
<1>10. ASSUME SeekStat PROVE CloseSafe'
  BY <1>1, <1>10, Zenon DEF SeekStat
<1>11. ASSUME Close PROVE CloseSafe'
  BY <1>11, Zenon DEF Close, CloseWhenIdle, CloseSafe, CloseShape, CloseWaits, bgVars
<1>12. ASSUME CloseAgain PROVE CloseSafe'
  BY <1>0, <1>12, Zenon DEF CloseAgain, CloseWhenIdle, CloseSafe, CloseShape, CloseWaits,
                     bgVars
<1>13. QED
  BY StepKinds, <1>3, <1>4, <1>5, <1>6, <1>7, <1>8, <1>9, <1>10, <1>11, <1>12, Zenon
     DEF Aside
=============================================================================
