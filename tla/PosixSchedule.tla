---------------------------- MODULE PosixSchedule ----------------------------
(***************************************************************************)
(* The background thread of leveldb/util/env_posix.cc: Schedule puts work  *)
(* items in a queue, BackgroundThreadMain takes and runs them.  Every lock *)
(* operation and every wait is a step of its own.  A running item may call *)
(* Schedule itself, as DBImpl::BackgroundCall does.                        *)
(***************************************************************************)
EXTENDS Integers, Sequences, TLC

CONSTANTS
    Clients,   \* threads that call Schedule
    Worker,    \* the background thread
    MaxItems   \* bound: Schedule calls

VARIABLES
    holder,     \* who holds background_work_mutex_: a set of none or one
    queue,      \* background_work_queue_
    started,    \* started_background_thread_
    threads,    \* how many background threads were started
    waiting,    \* the worker waits for background_work_cv_
    at,         \* thread -> where it is
    scheduled,  \* the items in the order of their Schedule calls
    ran         \* the items in the order in which they ran

schedVars == <<holder, queue, started, threads, waiting, at, scheduled, ran>>

Callers == Clients \cup {Worker}

SchedInit ==
    /\ holder = {}
    /\ queue = <<>>
    /\ started = FALSE /\ threads = 0
    /\ waiting = FALSE
    /\ at = [c \in Clients |-> "outside"] @@ (Worker :> "unborn")
    /\ scheduled = <<>> /\ ran = <<>>

Go(c, place) == at' = [at EXCEPT ![c] = place]

\* Schedule: Lock; an item is the number of its call.
ScheduleLock(c) ==
    /\ at[c] = IF c = Worker THEN "running" ELSE "outside"
    /\ Len(scheduled) < MaxItems
    /\ holder = {} /\ holder' = {c}
    /\ Go(c, "locked")
    /\ UNCHANGED <<queue, started, threads, waiting, scheduled, ran>>

Starts == ~started

\* The thread is started by the first call.
ScheduleStart(c) ==
    /\ at[c] = "locked"
    /\ started' = TRUE
    /\ threads' = threads + (IF Starts THEN 1 ELSE 0)
    /\ at' = [at EXCEPT ![c] = "signal", ![Worker] = IF @ = "unborn" THEN "begin" ELSE @]
    /\ UNCHANGED <<holder, queue, waiting, scheduled, ran>>

SignalsIfWork == queue # <<>>                          \* a defect: the test is turned round
Signals == queue = <<>>

\* The worker is signalled before the item is there; the mutex is still held.
ScheduleSignal(c) ==
    /\ at[c] = "signal"
    /\ waiting' = (waiting /\ ~Signals)
    /\ Go(c, "enqueue")
    /\ UNCHANGED <<holder, queue, started, threads, scheduled, ran>>

EnqueuedFirst(x) == <<x>> \o queue                     \* a defect: last in, first out
Enqueued(x) == Append(queue, x)

ScheduleEnqueue(c) ==
    /\ at[c] = "enqueue"
    /\ scheduled' = Append(scheduled, Len(scheduled) + 1)
    /\ queue' = Enqueued(Len(scheduled) + 1)
    /\ holder' = {}
    /\ Go(c, IF c = Worker THEN "running" ELSE "outside")
    /\ UNCHANGED <<started, threads, waiting, ran>>

WorkerLock ==
    /\ at[Worker] = "begin"
    /\ holder = {} /\ holder' = {Worker}
    /\ Go(Worker, "check")
    /\ UNCHANGED <<queue, started, threads, waiting, scheduled, ran>>

\* Wait releases the mutex and sleeps in one step.
WorkerWait ==
    /\ at[Worker] = "check" /\ queue = <<>>
    /\ waiting' = TRUE
    /\ holder' = {}
    /\ Go(Worker, "asleep")
    /\ UNCHANGED <<queue, started, threads, scheduled, ran>>

\* Woken by the signal, or for no reason, it takes the mutex again.
WorkerWake ==
    /\ at[Worker] = "asleep" /\ ~waiting
    /\ holder = {} /\ holder' = {Worker}
    /\ Go(Worker, "check")
    /\ UNCHANGED <<queue, started, threads, waiting, scheduled, ran>>

SpuriousWake ==
    /\ at[Worker] = "asleep" /\ waiting
    /\ waiting' = FALSE
    /\ UNCHANGED <<holder, queue, started, threads, at, scheduled, ran>>

\* Pop and Unlock, then the item runs without the mutex.
WorkerPop ==
    /\ at[Worker] = "check" /\ queue # <<>>
    /\ ran' = Append(ran, Head(queue))
    /\ queue' = Tail(queue)
    /\ holder' = {}
    /\ Go(Worker, "running")
    /\ UNCHANGED <<started, threads, waiting, scheduled>>

WorkerDone ==
    /\ at[Worker] = "running"
    /\ Go(Worker, "begin")
    /\ UNCHANGED <<holder, queue, started, threads, waiting, scheduled, ran>>

CallerStep(c) == ScheduleStart(c) \/ ScheduleSignal(c) \/ ScheduleEnqueue(c)

WorkerStep == WorkerLock \/ WorkerWait \/ WorkerWake \/ WorkerPop \/ WorkerDone

SchedNext == (\E c \in Callers : ScheduleLock(c) \/ CallerStep(c)) \/ WorkerStep \/ SpuriousWake

SchedSpec == SchedInit /\ [][SchedNext]_schedVars

-----------------------------------------------------------------------------
(* Types: the queue holds items that were scheduled, each caller is at a   *)
(* step of Schedule.                                                       *)
SchedTypeOK ==
    /\ holder \subseteq Callers
    /\ started \in BOOLEAN /\ threads \in 0..1 /\ waiting \in BOOLEAN
    /\ at \in [Callers -> {"unborn", "outside", "locked", "signal", "enqueue", "begin",
                           "check", "asleep", "running"}]
    /\ scheduled \in Seq(1..MaxItems) /\ ran \in Seq(1..MaxItems)

(* The work items run one by one in the order in which they were handed to *)
(* Schedule, and none is lost or run twice.                                *)
RunsInOrder == ran \o queue = scheduled

(* No lost wakeup: the background thread sleeps unsignalled only while the *)
(* queue is empty or the caller that will fill it has yet to signal.       *)
NoLostWakeup == waiting => queue = <<>> /\ ~(\E c \in Callers : at[c] = "enqueue")

(* The n-th item handed to Schedule has not run yet. *)
Waits(n) == Len(scheduled) >= n /\ Len(ran) < n
=============================================================================
