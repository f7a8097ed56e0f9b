----------------------------- MODULE WriteQueue -----------------------------
(***************************************************************************)
(* The threads of a LevelDB process and what they wait for: the queue of   *)
(* writers with its group commit, the delays and stops of                  *)
(* MakeRoomForWrite, the background thread with its scheduling, manual     *)
(* compactions, and the destructor (db/db_impl.cc).                        *)
(*                                                                         *)
(* Data.  A batch holds one update, known by its sequence number.  mem,    *)
(* imm and tables are the sets of updates in mem_, in imm_ and in table    *)
(* files.  Of the version only the number of level-0 files matters here.   *)
(*                                                                         *)
(* Atomicity.  A step is a critical section of DBImpl::mutex_ or a piece   *)
(* of work done without it; a thread at "room" or "range" holds the mutex  *)
(* between its steps.  A wait on a condition variable ends after a signal. *)
(*                                                                         *)
(* Bounds.  Every thread makes at most MaxCalls calls, and CompactRange    *)
(* compacts at most MaxLevels levels.                                      *)
(***************************************************************************)
EXTENDS Naturals, Sequences, FiniteSets

CONSTANTS
    Writers,              \* threads that call DB::Write
    Compactors,           \* threads that call DB::CompactRange
    NoThread,             \* a null manual_compaction_
    MaxCalls,             \* bound on the calls of each thread
    WriteBufferSize,      \* updates a memtable holds before it is full
    L0CompactionTrigger,  \* config::kL0_CompactionTrigger
    L0SlowdownTrigger,    \* config::kL0_SlowdownWritesTrigger
    L0StopTrigger,        \* config::kL0_StopWritesTrigger
    MaxLevels,            \* bound on the levels CompactRange goes through
    MaxRange,             \* bound on the compactions one manual range takes
    MaxKeys               \* bound on the keys of a compaction

Threads == Writers \cup Compactors

ASSUME ThreadsAssumption ==
    /\ Writers \cap Compactors = {} /\ NoThread \notin Threads
    /\ IsFiniteSet(Threads)

ASSUME TriggersAssumption ==
    /\ MaxCalls \in Nat /\ WriteBufferSize \in Nat /\ MaxRange \in Nat
    /\ MaxKeys \in Nat /\ MaxLevels \in Nat \ {0}
    /\ L0CompactionTrigger \in Nat \ {0}
    /\ L0SlowdownTrigger \in Nat /\ L0StopTrigger \in Nat
    /\ L0CompactionTrigger <= L0StopTrigger

VARIABLES
    (* DBImpl. *)
    queue,          \* writers_
    mem, imm, hasImm, tables,
    l0,             \* versions_->NumLevelFiles(0)
    seek,           \* file_to_compact_ != nullptr
    lastSequence, bgError, shuttingDown,
    manual,         \* manual_compaction_
    (* Threads. *)
    pc, req,        \* where each thread is, and its Write call
    done, status,   \* Writer::done, Writer::status
    mlevel,         \* the level CompactRange is at
    mdone, mleft,   \* ManualCompaction::done, the compactions it still takes
    woken,          \* threads whose condition variable was signalled
    (* The writer at the head of the queue. *)
    force, allowDelay, group, inserted, hstatus,
    (* The background thread and the destructor. *)
    bgpc, nested, kind, picked, keys, closing,
    (* Bookkeeping: contents of the logs, what callers were told. *)
    logged, synced, seq, acked, ackedSync, before, calls

dbVars == <<mem, imm, hasImm, tables, l0, seek>>
headVars == <<force, allowDelay, group, inserted, hstatus>>
manualVars == <<manual, mlevel, mdone, mleft>>
bgVars == <<bgpc, nested, kind, picked, keys>>
promiseVars == <<acked, ackedSync>>
logVars == <<logged, synced>>

vars == <<queue, dbVars, lastSequence, bgError, shuttingDown, manualVars, pc,
          req, done, status, woken, headVars, bgVars, closing, logVars, seq,
          promiseVars, before, calls>>

Init ==
    /\ queue = <<>>
    /\ mem = {} /\ imm = {} /\ hasImm = FALSE /\ tables = {} /\ l0 = 0
    /\ seek = FALSE /\ lastSequence = 0 /\ bgError = FALSE
    /\ shuttingDown = FALSE /\ manual = NoThread
    /\ pc = [t \in Threads |-> "idle"]
    /\ req = [t \in Threads |-> [sync |-> FALSE, batch |-> FALSE]]
    /\ done = [t \in Threads |-> FALSE] /\ status = [t \in Threads |-> "ok"]
    /\ mlevel = [t \in Threads |-> 0]
    /\ mdone = [t \in Threads |-> FALSE] /\ mleft = [t \in Threads |-> 0]
    /\ woken = {}
    /\ force = FALSE /\ allowDelay = FALSE /\ group = 0 /\ inserted = 0
    /\ hstatus = "ok"
    /\ bgpc = "none" /\ nested = FALSE /\ kind = "none"
    /\ picked = 0 /\ keys = 0
    /\ closing = "no"
    /\ logged = {} /\ synced = {} /\ seq = [t \in Threads |-> 0]
    /\ acked = {} /\ ackedSync = {} /\ before = [t \in Threads |-> {}]
    /\ calls = [t \in Threads |-> 0]

-----------------------------------------------------------------------------
(* Nobody holds mutex_, as a crashed background thread does for ever. *)
Unlocked ==
    bgpc # "crashed" /\ \A t \in Threads : pc[t] \notin {"room", "range"}

(* background_work_finished_signal_.SignalAll, given the threads' places. *)
SignalAll(where) ==
    {t \in Threads : where[t] \in {"roomWait", "memWait", "rangeWait"}}
    \cup (IF closing = "wait" THEN {"closer"} ELSE {})

(* MaybeScheduleCompaction.  background_compaction_scheduled_ is true when *)
(* bgpc is not "none".                                                     *)
NeedsCompaction(files, sk) == files >= L0CompactionTrigger \/ sk
ScheduleIfImm(pending, im, man, files, sk, err) ==
    IF pending # "none" THEN pending
    ELSE IF ~shuttingDown /\ ~err /\ (im \/ man # NoThread)
         THEN "queued" ELSE "none"
MaybeSchedule(pending, im, man, files, sk, err) ==
    IF pending # "none" THEN pending
    ELSE IF ~shuttingDown /\ ~err
            /\ (im \/ man # NoThread \/ NeedsCompaction(files, sk))
         THEN "queued" ELSE "none"

-----------------------------------------------------------------------------
(* DBImpl::Write: the caller joins the queue.  Alone there it goes on to   *)
(* MakeRoomForWrite, else it waits for its turn.                           *)
Enqueue(t, sync, batch) ==
    /\ pc[t] = "idle" /\ Unlocked /\ closing = "no" /\ calls[t] < MaxCalls
    /\ calls' = [calls EXCEPT ![t] = @ + 1]
    /\ req' = [req EXCEPT ![t] = [sync |-> sync, batch |-> batch]]
    /\ queue' = Append(queue, t)
    /\ before' = [before EXCEPT ![t] = IF batch THEN {} ELSE acked]
    /\ pc' = [pc EXCEPT ![t] = IF queue = <<>> THEN "room" ELSE "waiting"]
    /\ force' = IF queue = <<>> THEN ~batch ELSE force
    /\ allowDelay' = IF queue = <<>> THEN batch ELSE allowDelay
    /\ UNCHANGED <<dbVars, lastSequence, bgError, shuttingDown, manualVars,
                   done, status, woken, group, inserted, hstatus, bgVars,
                   closing, logVars, seq, promiseVars>>

(* Where a thread is after its Write returned st. *)
AfterWrite(t, st) ==
    CASE t \in Writers -> "idle"
      [] t \in Compactors /\ st = "ok" -> "memLock"
      [] OTHER -> "rangeLock"

(* Write returns st to t, whose update is number s. *)
Promise(t, s, st) ==
    LET told == IF req[t].batch /\ st = "ok" THEN {s} ELSE {}
    IN  /\ acked' = acked \cup told
        /\ ackedSync' = IF req[t].sync THEN ackedSync \cup told ELSE ackedSync

(* A waiting writer is woken: a leader wrote its batch, or it is the head  *)
(* of the queue, or it waits on.                                           *)
WakeWriter(t) ==
    /\ pc[t] = "waiting" /\ t \in woken /\ Unlocked
    /\ woken' = woken \ {t}
    /\ IF done[t]
       THEN /\ pc' = [pc EXCEPT ![t] = AfterWrite(t, status[t])]
            /\ Promise(t, seq[t], status[t])
            /\ done' = [done EXCEPT ![t] = FALSE]
            /\ status' = [status EXCEPT ![t] = "ok"]
            /\ seq' = [seq EXCEPT ![t] = 0]
            /\ UNCHANGED <<force, allowDelay>>
       ELSE /\ pc' = [pc EXCEPT ![t] = IF t = Head(queue) THEN "room" ELSE @]
            /\ force' = IF t = Head(queue) THEN ~req[t].batch ELSE force
            /\ allowDelay' =
                 IF t = Head(queue) THEN req[t].batch ELSE allowDelay
            /\ UNCHANGED <<done, status, seq, promiseVars>>
    /\ UNCHANGED <<queue, dbVars, lastSequence, bgError, shuttingDown,
                   manualVars, req, group, inserted, hstatus, bgVars, closing,
                   logVars, before, calls>>

-----------------------------------------------------------------------------
(* BuildBatchGroup: how many writers at the front of the queue form the    *)
(* group.  A batch after the first may be too big to join; a null batch    *)
(* always joins; a sync write never joins the group of a non-sync one.     *)
GroupSizesIgnoringSync ==
    {k \in 1..Len(queue) : k = Len(queue) \/ req[queue[k + 1]].batch}
GroupSizes ==
    LET barred(w) == req[w].sync /\ ~req[queue[1]].sync
    IN  {k \in 1..Len(queue) :
           /\ \A i \in 2..k : ~barred(queue[i])
           /\ \/ k = Len(queue)
              \/ barred(queue[k + 1])
              \/ req[queue[k + 1]].batch}

(* The sequence numbers of a group of k writers. *)
BatchesUpTo(k) == Cardinality({i \in 1..k : req[queue[i]].batch})
GroupSeqs == lastSequence + 1 .. lastSequence + BatchesUpTo(group)

(* The end of Write for the leader t of a group of k: every member is done *)
(* with the leader's status, members and the new head are signalled.       *)
SignalMembersOnly(members, rest) == members
SignalGroup(members, rest) ==
    members \cup (IF rest = <<>> THEN {} ELSE {Head(rest)})

FinishWrite(t, k, st, signals) ==
    LET members == {queue[i] : i \in 2..k}
        rest == SubSeq(queue, k + 1, Len(queue))
        seqOf(u) ==
            lastSequence + BatchesUpTo(CHOOSE i \in 1..k : queue[i] = u)
    IN  /\ queue' = rest
        /\ done' = [u \in Threads |-> done[u] \/ u \in members]
        /\ status' = [u \in Threads |->
                        IF u \in members THEN st ELSE status[u]]
        /\ seq' = [u \in Threads |->
                     IF u \in members THEN seqOf(u) ELSE seq[u]]
        /\ woken' = woken \cup signals \cup SignalGroup(members, rest)
        /\ pc' = [pc EXCEPT ![t] = AfterWrite(t, st)]
        /\ Promise(t, seqOf(t), st)
        /\ force' = FALSE /\ allowDelay' = FALSE

-----------------------------------------------------------------------------
(* MakeRoomForWrite: the conditions of its loop, in the code's order. *)
MustDelay == allowDelay /\ l0 >= L0SlowdownTrigger
HasRoom == ~force /\ Cardinality(mem) <= WriteBufferSize
MustWaitForImmOnly == hasImm
MustWaitForLevel0Only == l0 >= L0StopTrigger
MustWait == hasImm \/ l0 >= L0StopTrigger

(* bg_error_ is returned to the leader. *)
RoomError(t) ==
    /\ pc[t] = "room" /\ bgError
    /\ FinishWrite(t, 1, "error", {})
    /\ UNCHANGED <<dbVars, lastSequence, bgError, shuttingDown, manualVars,
                   req, group, inserted, hstatus, bgVars, closing, logVars,
                   before, calls>>

(* A write is delayed once, with the mutex released. *)
RoomDelay(t) ==
    /\ pc[t] = "room" /\ ~bgError /\ MustDelay
    /\ pc' = [pc EXCEPT ![t] = "sleep"] /\ allowDelay' = FALSE
    /\ UNCHANGED <<queue, dbVars, lastSequence, bgError, shuttingDown,
                   manualVars, req, done, status, woken, force, group,
                   inserted, hstatus, bgVars, closing, logVars, seq,
                   promiseVars, before, calls>>

(* There is room: the leader forms its group and goes to the log; a null   *)
(* batch has nothing to write.                                             *)
RoomFound(t) ==
    /\ pc[t] = "room" /\ ~bgError /\ ~MustDelay /\ HasRoom
    /\ \/ /\ req[t].batch
          /\ pc' = [pc EXCEPT ![t] = "append"]
          /\ group' \in GroupSizes /\ inserted' = 0 /\ hstatus' = "ok"
          /\ UNCHANGED <<queue, done, status, woken, seq, promiseVars, force,
                         allowDelay>>
       \/ /\ ~req[t].batch
          /\ FinishWrite(t, 1, "ok", {})
          /\ UNCHANGED <<group, inserted, hstatus>>
    /\ UNCHANGED <<dbVars, lastSequence, bgError, shuttingDown, manualVars,
                   req, bgVars, closing, logVars, before, calls>>

(* The memtable is full and the previous one is still being flushed, or    *)
(* there are too many level-0 files.                                       *)
RoomWait(t) ==
    /\ pc[t] = "room" /\ ~bgError /\ ~MustDelay /\ ~HasRoom /\ MustWait
    /\ pc' = [pc EXCEPT ![t] = "roomWait"]
    /\ UNCHANGED <<queue, dbVars, lastSequence, bgError, shuttingDown,
                   manualVars, req, done, status, woken, headVars, bgVars,
                   closing, logVars, seq, promiseVars, before, calls>>

(* A new log and memtable; the close of the old log may fail. *)
RoomSwitch(t) ==
    /\ pc[t] = "room" /\ ~bgError /\ ~MustDelay /\ ~HasRoom /\ ~MustWait
    /\ bgError' \in BOOLEAN
    /\ imm' = mem /\ hasImm' = TRUE /\ mem' = {} /\ force' = FALSE
    /\ bgpc' = MaybeSchedule(bgpc, TRUE, manual, l0, seek, bgError')
    /\ woken' = IF bgError' THEN woken \cup SignalAll(pc) ELSE woken
    /\ UNCHANGED <<queue, tables, l0, seek, lastSequence, shuttingDown,
                   manualVars, pc, req, done, status, allowDelay, group,
                   inserted, hstatus, nested, kind, picked, keys, closing,
                   logVars, seq, promiseVars, before, calls>>

(* The new log cannot be created. *)
RoomSwitchFails(t) ==
    /\ pc[t] = "room" /\ ~bgError /\ ~MustDelay /\ ~HasRoom /\ ~MustWait
    /\ FinishWrite(t, 1, "error", {})
    /\ UNCHANGED <<dbVars, lastSequence, bgError, shuttingDown, manualVars,
                   req, group, inserted, hstatus, bgVars, closing, logVars,
                   before, calls>>

(* The delay is over, or the background thread signalled. *)
RoomAgain(t) ==
    /\ Unlocked
    /\ pc[t] = "sleep" \/ (pc[t] = "roomWait" /\ t \in woken)
    /\ pc' = [pc EXCEPT ![t] = "room"] /\ woken' = woken \ {t}
    /\ UNCHANGED <<queue, dbVars, lastSequence, bgError, shuttingDown,
                   manualVars, req, done, status, headVars, bgVars, closing,
                   logVars, seq, promiseVars, before, calls>>

-----------------------------------------------------------------------------
(* The leader, without the mutex: AddRecord ... *)
AddRecord(t) ==
    /\ pc[t] = "append"
    /\ \/ /\ pc' = [pc EXCEPT ![t] = IF req[t].sync THEN "sync" ELSE "insert"]
          /\ logged' = logged \cup GroupSeqs
          /\ UNCHANGED hstatus
       \/ /\ pc' = [pc EXCEPT ![t] = "relock"] /\ hstatus' = "error"
          /\ UNCHANGED logged
    /\ UNCHANGED <<queue, dbVars, lastSequence, bgError, shuttingDown,
                   manualVars, req, done, status, woken, force, allowDelay,
                   group, inserted, bgVars, closing, synced, seq, promiseVars,
                   before, calls>>

(* ... Sync, if the leader asked for it ... *)
SyncLog(t) ==
    /\ pc[t] = "sync"
    /\ \/ /\ pc' = [pc EXCEPT ![t] = "insert"] /\ synced' = synced \cup logged
          /\ UNCHANGED hstatus
       \/ /\ pc' = [pc EXCEPT ![t] = "relock"] /\ hstatus' = "syncError"
          /\ UNCHANGED synced
    /\ UNCHANGED <<queue, dbVars, lastSequence, bgError, shuttingDown,
                   manualVars, req, done, status, woken, force, allowDelay,
                   group, inserted, bgVars, closing, logged, seq, promiseVars,
                   before, calls>>

(* ... and InsertInto, one update after the other, which readers may see.  *)
InsertInto(t) ==
    /\ pc[t] = "insert"
    /\ inserted' = inserted + 1
    /\ mem' = mem \cup {lastSequence + inserted'}
    /\ pc' = [pc EXCEPT ![t] =
                IF inserted' = BatchesUpTo(group) THEN "relock" ELSE @]
    /\ UNCHANGED <<queue, imm, hasImm, tables, l0, seek, lastSequence, bgError,
                   shuttingDown, manualVars, req, done, status, woken, force,
                   allowDelay, group, hstatus, bgVars, closing, logVars, seq,
                   promiseVars, before, calls>>

(* SetLastSequence. *)
SequenceAfterOne == lastSequence + 1
SequenceAfterQueue == lastSequence + BatchesUpTo(Len(queue))
SequenceAfterGroup == lastSequence + BatchesUpTo(group)

(* The leader takes the mutex back and ends the group's writes.  A failed  *)
(* Sync is recorded as a background error.                                 *)
WriteEnd(t) ==
    /\ pc[t] = "relock" /\ Unlocked
    /\ bgError' = (bgError \/ hstatus = "syncError")
    /\ lastSequence' = SequenceAfterGroup
    /\ FinishWrite(t, group, IF hstatus = "ok" THEN "ok" ELSE "error",
                   IF bgError' /\ ~bgError THEN SignalAll(pc) ELSE {})
    /\ group' = 0 /\ inserted' = 0 /\ hstatus' = "ok"
    /\ UNCHANGED <<dbVars, shuttingDown, manualVars, req, bgVars, closing,
                   logVars, before, calls>>

-----------------------------------------------------------------------------
(* CompactRange: TEST_CompactMemTable waits for the flush; its status is   *)
(* ignored ...                                                             *)
CompactMemTableWait(c) ==
    /\ Unlocked
    /\ pc[c] = "memLock" \/ (pc[c] = "memWait" /\ c \in woken)
    /\ woken' = woken \ {c}
    /\ pc' = [pc EXCEPT ![c] = IF hasImm /\ ~bgError THEN "memWait"
                               ELSE IF hasImm THEN "rangeLock" ELSE "flushed"]
    /\ UNCHANGED <<queue, dbVars, lastSequence, bgError, shuttingDown,
                   manualVars, req, done, status, headVars, bgVars, closing,
                   logVars, seq, promiseVars, before, calls>>

(* ... and TEST_CompactRange is called for a level. *)
CompactRangeStart(c) ==
    /\ Unlocked /\ pc[c] \in {"rangeLock", "flushed"}
    /\ pc' = [pc EXCEPT ![c] = "range"]
    /\ mdone' = [mdone EXCEPT ![c] = FALSE]
    /\ \E n \in 0..MaxRange : mleft' = [mleft EXCEPT ![c] = n]
    /\ UNCHANGED <<queue, dbVars, lastSequence, bgError, shuttingDown, manual,
                   mlevel, req, done, status, woken, headVars, bgVars, closing,
                   logVars, seq, promiseVars, before, calls>>

(* The loop of TEST_CompactRange: register, wait, or leave. *)
CompactRangeRegister(c) ==
    /\ pc[c] = "range" /\ ~mdone[c] /\ ~shuttingDown /\ ~bgError
    /\ manual = NoThread /\ manual' = c
    /\ bgpc' = MaybeSchedule(bgpc, hasImm, c, l0, seek, bgError)
    /\ UNCHANGED <<queue, dbVars, lastSequence, bgError, shuttingDown, mlevel,
                   mdone, mleft, pc, req, done, status, woken, headVars,
                   nested, kind, picked, keys, closing, logVars, seq,
                   promiseVars, before, calls>>

CompactRangeWait(c) ==
    /\ pc[c] = "range" /\ ~mdone[c] /\ ~shuttingDown /\ ~bgError
    /\ manual # NoThread
    /\ pc' = [pc EXCEPT ![c] = "rangeWait"]
    /\ UNCHANGED <<queue, dbVars, lastSequence, bgError, shuttingDown,
                   manualVars, req, done, status, woken, headVars, bgVars,
                   closing, logVars, seq, promiseVars, before, calls>>

CompactRangeAgain(c) ==
    /\ pc[c] = "rangeWait" /\ c \in woken /\ Unlocked
    /\ pc' = [pc EXCEPT ![c] = "range"] /\ woken' = woken \ {c}
    /\ UNCHANGED <<queue, dbVars, lastSequence, bgError, shuttingDown,
                   manualVars, req, done, status, headVars, bgVars, closing,
                   logVars, seq, promiseVars, before, calls>>

(* A compaction that ended early is cancelled; CompactRange returns or     *)
(* goes on to the next level.                                              *)
CompactRangeEnd(c) ==
    /\ pc[c] = "range" /\ (mdone[c] \/ shuttingDown \/ bgError)
    /\ manual' = IF manual = c THEN NoThread ELSE manual
    /\ mdone' = [mdone EXCEPT ![c] = FALSE] /\ mleft' = [mleft EXCEPT ![c] = 0]
    /\ \/ /\ pc' = [pc EXCEPT ![c] = "idle"]
          /\ mlevel' = [mlevel EXCEPT ![c] = 0]
       \/ /\ mlevel[c] + 1 < MaxLevels
          /\ pc' = [pc EXCEPT ![c] = "rangeLock"]
          /\ mlevel' = [mlevel EXCEPT ![c] = @ + 1]
    /\ UNCHANGED <<queue, dbVars, lastSequence, bgError, shuttingDown, req,
                   done, status, woken, headVars, bgVars, closing, logVars,
                   seq, promiseVars, before, calls>>

-----------------------------------------------------------------------------
(* BackgroundCall ends: reschedule if there is more to do, wake everybody. *)
BackgroundReturnSilently(im, man, files, sk, err) ==
    /\ nested' = FALSE /\ kind' = "none" /\ picked' = 0 /\ keys' = 0
    /\ bgpc' = MaybeSchedule("none", im, man, files, sk, err)
    /\ UNCHANGED woken
BackgroundReturn(im, man, files, sk, err) ==
    /\ nested' = FALSE /\ kind' = "none" /\ picked' = 0 /\ keys' = 0
    /\ bgpc' = MaybeSchedule("none", im, man, files, sk, err)
    /\ woken' = woken \cup SignalAll(pc)

(* BackgroundCall starts: nothing to do ... *)
BackgroundSkip ==
    /\ bgpc = "queued" /\ Unlocked
    /\ \/ shuttingDown \/ bgError
       \/ ~hasImm /\ manual = NoThread /\ ~NeedsCompaction(l0, seek)
    /\ BackgroundReturn(hasImm, manual, l0, seek, bgError)
    /\ UNCHANGED <<queue, dbVars, lastSequence, bgError, shuttingDown,
                   manualVars, pc, req, done, status, headVars, closing,
                   logVars, seq, promiseVars, before, calls>>

(* ... an immutable memtable to flush (CompactMemTable builds the table    *)
(* with the mutex released) ...                                            *)
BackgroundFlush ==
    /\ bgpc = "queued" /\ Unlocked /\ ~shuttingDown /\ ~bgError /\ hasImm
    /\ bgpc' = "flush" /\ nested' = FALSE
    /\ UNCHANGED <<queue, dbVars, lastSequence, bgError, shuttingDown,
                   manualVars, pc, req, done, status, woken, headVars, kind,
                   picked, keys, closing, logVars, seq, promiseVars, before,
                   calls>>

(* ... a manual compaction whose range is exhausted ... *)
BackgroundManualDone ==
    /\ bgpc = "queued" /\ Unlocked /\ ~shuttingDown /\ ~bgError /\ ~hasImm
    /\ manual # NoThread /\ mleft[manual] = 0
    /\ mdone' = [mdone EXCEPT ![manual] = TRUE] /\ manual' = NoThread
    /\ BackgroundReturn(hasImm, NoThread, l0, seek, bgError)
    /\ UNCHANGED <<queue, dbVars, lastSequence, bgError, shuttingDown, mlevel,
                   mleft, pc, req, done, status, headVars, closing, logVars,
                   seq, promiseVars, before, calls>>

(* ... or a compaction, manual or picked. *)
BackgroundCompact ==
    /\ bgpc = "queued" /\ Unlocked /\ ~shuttingDown /\ ~bgError /\ ~hasImm
    /\ \/ manual # NoThread /\ mleft[manual] > 0 /\ kind' = "manual"
          /\ picked' \in 0..l0
       \/ manual = NoThread /\ l0 >= L0CompactionTrigger /\ kind' = "size"
          /\ picked' \in 1..l0
       \/ manual = NoThread /\ l0 < L0CompactionTrigger /\ seek
          /\ kind' = "seek" /\ picked' \in 0..l0
    /\ bgpc' = "work" /\ keys' = MaxKeys
    /\ UNCHANGED <<queue, dbVars, lastSequence, bgError, shuttingDown,
                   manualVars, pc, req, done, status, woken, headVars, nested,
                   closing, logVars, seq, promiseVars, before, calls>>

(* DoCompactionWork notices has_imm_ before it handles a key. *)
WorkFlush ==
    /\ bgpc = "work" /\ Unlocked /\ hasImm /\ ~shuttingDown
    /\ keys > 0 /\ keys' = keys - 1
    /\ bgpc' = "flush" /\ nested' = TRUE
    /\ UNCHANGED <<queue, dbVars, lastSequence, bgError, shuttingDown,
                   manualVars, pc, req, done, status, woken, headVars, kind,
                   picked, closing, logVars, seq, promiseVars, before, calls>>

(* What CompactMemTable's caller does next: DoCompactionWork signals and   *)
(* works on, BackgroundCall returns.                                       *)
AfterFlush(im, files, sk, err) ==
    IF nested
    THEN /\ bgpc' = "work" /\ woken' = woken \cup SignalAll(pc)
         /\ UNCHANGED <<nested, kind, picked, keys>>
    ELSE BackgroundReturn(im, manual, files, sk, err)

(* CompactMemTable commits; the table may go to level 0 or deeper. *)
FlushEnd ==
    /\ bgpc = "flush" /\ Unlocked
    /\ tables' = tables \cup imm /\ imm' = {} /\ hasImm' = FALSE
    /\ l0' \in {l0, l0 + 1} /\ seek' = FALSE
    /\ AfterFlush(FALSE, l0', FALSE, bgError)
    /\ UNCHANGED <<queue, mem, lastSequence, bgError, shuttingDown, manualVars,
                   pc, req, done, status, headVars, closing, logVars, seq,
                   promiseVars, before, calls>>

(* An I/O error, or the database is being closed. *)
FlushFails ==
    /\ bgpc = "flush" /\ Unlocked
    /\ bgError' = TRUE
    /\ AfterFlush(hasImm, l0, seek, TRUE)
    /\ UNCHANGED <<queue, dbVars, lastSequence, shuttingDown, manualVars, pc,
                   req, done, status, headVars, closing, logVars, seq,
                   promiseVars, before, calls>>

(* The end of BackgroundCompaction, which reads manual_compaction_ again:  *)
(* a null pointer there ends the process.  A manual compaction that failed *)
(* is over, else its caller registers the rest of its range again.         *)
CompactionReturn(ok, files, sk, err) ==
    IF kind # "manual"
    THEN /\ BackgroundReturn(hasImm, manual, files, sk, err)
         /\ UNCHANGED manualVars
    ELSE IF manual = NoThread
    THEN /\ bgpc' = "crashed"
         /\ UNCHANGED <<manualVars, woken, nested, kind, picked, keys>>
    ELSE /\ manual' = NoThread
         /\ mdone' = [mdone EXCEPT ![manual] = ~ok]
         /\ mleft' = [mleft EXCEPT ![manual] = @ - 1]
         /\ UNCHANGED mlevel
         /\ BackgroundReturn(hasImm, NoThread, files, sk, err)

(* InstallCompactionResults: a new version without the level-0 inputs. *)
WorkEnd ==
    /\ bgpc = "work" /\ Unlocked
    /\ l0' = l0 - picked /\ seek' = FALSE
    /\ CompactionReturn(TRUE, l0', FALSE, bgError)
    /\ UNCHANGED <<queue, mem, imm, hasImm, tables, lastSequence, bgError,
                   shuttingDown, pc, req, done, status, headVars, closing,
                   logVars, seq, promiseVars, before, calls>>

(* An I/O error, or the database is being closed. *)
WorkFails ==
    /\ bgpc = "work" /\ Unlocked
    /\ bgError' = TRUE
    /\ CompactionReturn(FALSE, l0, seek, TRUE)
    /\ UNCHANGED <<queue, dbVars, lastSequence, shuttingDown, pc, req, done,
                   status, headVars, closing, logVars, seq, promiseVars,
                   before, calls>>

(* DBImpl::Get: UpdateStats finds a file that too many reads went through. *)
SeekStat ==
    /\ Unlocked /\ closing = "no" /\ ~seek
    /\ seek' = TRUE
    /\ bgpc' = MaybeSchedule(bgpc, hasImm, manual, l0, TRUE, bgError)
    /\ UNCHANGED <<queue, mem, imm, hasImm, tables, l0, lastSequence, bgError,
                   shuttingDown, manualVars, pc, req, done, status, woken,
                   headVars, nested, kind, picked, keys, closing, logVars, seq,
                   promiseVars, before, calls>>

(* ~DBImpl waits while background_compaction_scheduled_. *)
CloseAtOnce == "done"
CloseWhenIdle == IF bgpc = "none" THEN "done" ELSE "wait"

(* ~DBImpl, which the caller runs when no other call is in progress. *)
Close ==
    /\ closing = "no" /\ Unlocked /\ \A t \in Threads : pc[t] = "idle"
    /\ shuttingDown' = TRUE
    /\ closing' = CloseWhenIdle
    /\ UNCHANGED <<queue, dbVars, lastSequence, bgError, manualVars, pc, req,
                   done, status, woken, headVars, bgVars, logVars, seq,
                   promiseVars, before, calls>>

CloseAgain ==
    /\ closing = "wait" /\ "closer" \in woken /\ Unlocked
    /\ woken' = woken \ {"closer"}
    /\ closing' = CloseWhenIdle
    /\ UNCHANGED <<queue, dbVars, lastSequence, bgError, shuttingDown,
                   manualVars, pc, req, done, status, headVars, bgVars,
                   logVars, seq, promiseVars, before, calls>>

-----------------------------------------------------------------------------
WriteCall(t) == \E sync \in BOOLEAN : t \in Writers /\ Enqueue(t, sync, TRUE)
CompactCall(t) == t \in Compactors /\ Enqueue(t, FALSE, FALSE)

ThreadStep(t) ==
    \/ WakeWriter(t)
    \/ RoomError(t) \/ RoomDelay(t) \/ RoomFound(t) \/ RoomWait(t)
    \/ RoomSwitch(t) \/ RoomSwitchFails(t) \/ RoomAgain(t)
    \/ AddRecord(t) \/ SyncLog(t) \/ InsertInto(t) \/ WriteEnd(t)
    \/ CompactMemTableWait(t) \/ CompactRangeStart(t)
    \/ CompactRangeRegister(t) \/ CompactRangeWait(t) \/ CompactRangeAgain(t)
    \/ CompactRangeEnd(t)

Background ==
    \/ BackgroundSkip \/ BackgroundFlush \/ BackgroundManualDone
    \/ BackgroundCompact \/ WorkFlush \/ FlushEnd \/ FlushFails \/ WorkEnd
    \/ WorkFails

Next ==
    \/ \E t \in Threads : WriteCall(t) \/ CompactCall(t) \/ ThreadStep(t)
    \/ Background \/ SeekStat \/ Close \/ CloseAgain

Spec == Init /\ [][Next]_vars

(* Every thread runs: the operating system schedules the threads that can  *)
(* go on, and a mutex that stays free is given to a thread that wants it.  *)
(* Nothing makes callers start another call.                               *)
Fairness ==
    /\ \A t \in Threads : WF_vars(ThreadStep(t))
    /\ WF_vars(Background)
    /\ WF_vars(CloseAgain)

FairSpec == Spec /\ Fairness

-----------------------------------------------------------------------------
Seqs == 1..(MaxCalls * Cardinality(Writers))

TypeOK ==
    /\ queue \in Seq(Threads)
    /\ mem \subseteq Seqs /\ imm \subseteq Seqs /\ hasImm \in BOOLEAN
    /\ tables \subseteq Seqs /\ l0 \in Nat /\ seek \in BOOLEAN
    /\ lastSequence \in {0} \cup Seqs
    /\ bgError \in BOOLEAN /\ shuttingDown \in BOOLEAN
    /\ manual \in Compactors \cup {NoThread}
    /\ pc \in [Threads -> {"idle", "waiting", "room", "sleep", "roomWait",
                            "append", "sync", "insert", "relock", "memLock",
                            "memWait", "flushed", "rangeLock", "range",
                            "rangeWait"}]
    /\ req \in [Threads -> [sync : BOOLEAN, batch : BOOLEAN]]
    /\ done \in [Threads -> BOOLEAN] /\ status \in [Threads -> {"ok", "error"}]
    /\ mdone \in [Threads -> BOOLEAN] /\ mleft \in [Threads -> 0..MaxRange]
    /\ mlevel \in [Threads -> 0..MaxLevels - 1]
    /\ woken \subseteq Threads \cup {"closer"}
    /\ force \in BOOLEAN /\ allowDelay \in BOOLEAN /\ group \in Nat
    /\ inserted \in Nat /\ hstatus \in {"ok", "error", "syncError"}
    /\ bgpc \in {"none", "queued", "flush", "work", "crashed"}
    /\ nested \in BOOLEAN /\ kind \in {"none", "manual", "size", "seek"}
    /\ picked \in Nat /\ keys \in 0..MaxKeys
    /\ closing \in {"no", "wait", "done"}
    /\ logged \subseteq Seqs /\ synced \subseteq Seqs
    /\ seq \in [Threads -> {0} \cup Seqs]
    /\ acked \subseteq Seqs /\ ackedSync \subseteq Seqs
    /\ before \in [Threads -> SUBSET Seqs]
    /\ calls \in [Threads -> 0..MaxCalls]

(* A Write with WriteOptions::sync that returned OK is in a part of the log *)
(* that was synced, also when another writer wrote the group it was in.    *)
SyncHonoured == ackedSync \subseteq synced

(* The updates readers can find. *)
Present == mem \cup imm \cup tables

(* An update whose Write returned OK is in the log, and a read that starts *)
(* now sees it: it is in a memtable or a table and not beyond              *)
(* last_sequence_.                                                         *)
ReadYourWrites ==
    \A s \in acked : s \in logged /\ s \in Present /\ s <= lastSequence

(* The updates up to last_sequence_, which a snapshot taken now reads, are *)
(* all in place and stay the same: InsertInto adds entries while readers   *)
(* run, but only beyond last_sequence_, and a flush keeps them.            *)
SnapshotStable ==
    [][\A s \in 1..lastSequence : s \in Present <=> s \in Present']_vars

(* While there is something to do and no error, a background call is       *)
(* scheduled or running: nobody who waits for it waits in vain.            *)
WorkIsScheduled ==
    /\ ~bgError /\ ~shuttingDown
    /\ hasImm \/ manual # NoThread \/ l0 >= L0CompactionTrigger
    => bgpc # "none"

(* kL0_StopWritesTrigger is the "maximum number of level-0 files": a new   *)
(* memtable is started only while there is room for its table.             *)
Level0Bounded == l0 + (IF hasImm THEN 1 ELSE 0) <= L0StopTrigger

(* The destructor frees the database only when no background call uses it. *)
CloseWaits == closing = "done" => bgpc = "none"

(* Every Write, every CompactRange and the destructor return, whatever     *)
(* fails.                                                                  *)
CallsReturn ==
    /\ \A t \in Threads : pc[t] # "idle" ~> pc[t] = "idle" \/ bgpc = "crashed"
    /\ closing = "wait" ~> closing = "done" \/ bgpc = "crashed"

(* BackgroundCompaction uses the ManualCompaction it reads at its end: the *)
(* pointer is never null there.                                            *)
ManualCompactionPresent == bgpc # "crashed"

(* "Force current memtable contents to be compacted": once                 *)
(* TEST_CompactMemTable returned OK, what was acknowledged before the call *)
(* is in tables.                                                           *)
MemTableCompacted ==
    \A c \in Compactors : pc[c] = "flushed" => before[c] \subseteq tables

-----------------------------------------------------------------------------
(* What the safety properties rest on.                                     *)

LeaderLines == {"room", "sleep", "roomWait", "append", "sync", "insert",
                "relock"}
GroupLines == {"append", "sync", "insert", "relock"}

(* Writers never enter CompactRange.  A thread is in the queue from the    *)
(* time it enters Write until a leader is done with it, at most once; only *)
(* the head of the queue is past the wait.                                 *)
QueueShape ==
    /\ \A i, j \in DOMAIN queue : queue[i] = queue[j] => i = j
    /\ \A i \in DOMAIN queue :
         pc[queue[i]] \in LeaderLines \cup {"waiting"} /\ ~done[queue[i]]
    /\ \A t \in Threads :
         /\ pc[t] \in LeaderLines => queue # <<>> /\ queue[1] = t
         /\ done[t] => pc[t] = "waiting"
         /\ pc[t] = "waiting" /\ ~done[t] =>
              \E i \in DOMAIN queue : queue[i] = t
    /\ \A t \in Writers : pc[t] \in LeaderLines \cup {"idle", "waiting"}

(* The log has the group of thread t, and the memtable is being filled.    *)
Written(t) == pc[t] = "insert" \/ (pc[t] = "relock" /\ hstatus = "ok")

(* The group of a leader t, from the time it is formed: a prefix of the    *)
(* queue without a sync write unless t asks for a sync.  Its updates are   *)
(* in the log, synced if t asks for it, before the first of them is in the *)
(* memtable, and all of them are there when t takes the mutex back.        *)
GroupOf(t) ==
    /\ pc[t] \in GroupLines =>
         /\ req[t].batch /\ group \in DOMAIN queue
         /\ \A i \in 2..group : req[queue[i]].sync => req[t].sync
    /\ pc[t] \in {"append", "sync", "insert"} => hstatus = "ok"
    /\ pc[t] \in {"append", "sync"} => inserted = 0
    /\ pc[t] = "insert" => inserted < BatchesUpTo(group)
    /\ pc[t] = "sync" \/ Written(t) => GroupSeqs \subseteq logged
    /\ Written(t) /\ req[t].sync => GroupSeqs \subseteq synced
    /\ Written(t) => (lastSequence + 1 .. lastSequence + inserted) \subseteq mem
    /\ pc[t] = "relock" /\ Written(t) => inserted = BatchesUpTo(group)
GroupShape == \A t \in Threads : GroupOf(t)

(* A writer whose leader succeeded finds its update in place. *)
WrittenFor(u) ==
    done[u] /\ status[u] = "ok" /\ req[u].batch =>
      /\ seq[u] \in logged /\ seq[u] \in Present /\ seq[u] <= lastSequence
      /\ req[u].sync => seq[u] \in synced
DoneWritten == \A u \in Threads : WrittenFor(u)

(* No more sequence numbers are used than batches were passed to Write. *)
Numbered ==
    lastSequence + BatchesUpTo(Len(queue))
        <= Cardinality({p \in Writers \X (1..MaxCalls) : p[2] <= calls[p[1]]})

(* A compaction, or a flush inside one, is running. *)
Working == bgpc = "work" \/ (bgpc = "flush" /\ nested)

(* The background thread flushes a memtable that is there and compacts     *)
(* level-0 files that are there.                                           *)
FlushShape ==
    /\ bgpc = "flush" => hasImm
    /\ ~hasImm => imm = {}
    /\ Working => picked <= l0

(* A registered manual compaction belongs to a thread that waits for it,   *)
(* and is only withdrawn while it runs after an error.                     *)
ManualShape ==
    /\ manual # NoThread =>
         pc[manual] \in {"range", "rangeWait"} /\ ~mdone[manual]
    /\ Working /\ kind = "manual" /\ manual = NoThread => bgError \/ shuttingDown
    /\ Working /\ kind = "manual" /\ manual # NoThread => mleft[manual] > 0

(* The destructor runs when no call is in progress. *)
CloseShape ==
    closing # "no" => shuttingDown /\ \A t \in Threads : pc[t] = "idle"

BackgroundShape == FlushShape /\ ManualShape /\ CloseShape

(* The inductive invariant: types, the shape of the queue and its group,   *)
(* what the members of a group are told, the numbers used, and what the    *)
(* background thread works on.                                             *)
QueueInv ==
    /\ TypeOK /\ QueueShape /\ GroupShape /\ DoneWritten /\ Numbered
    /\ BackgroundShape

=============================================================================
