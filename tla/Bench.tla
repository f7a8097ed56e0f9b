-------------------------------- MODULE Bench --------------------------------
(***************************************************************************)
(* The benchmark driver (leveldb/benchmarks/db_bench.cc).  Run goes        *)
(* through the names it was given; for each it sets the parameters, makes  *)
(* a fresh database if the benchmark wants one, starts the threads, lets   *)
(* them begin together, waits for all of them and merges what they         *)
(* counted.  The database is the set of its keys.  Critical sections are   *)
(* atomic, up to a wait; a wait ends only after a SignalAll.               *)
(***************************************************************************)
EXTENDS Integers, Sequences, FiniteSets, FiniteSetsExt

CONSTANTS
    Runs,            \* [names, threads, existing]: FLAGS_benchmarks, _threads, _use_existing_db
    FLAGS_num, FLAGS_reads,
    BatchEntries,    \* entries of a batch of fillbatch (1000)
    Fewer,           \* the divisor of num_ and reads_ (1000)
    Rounds,          \* operations of crc32c and of the compressions
    MaxPuts          \* bound: puts of the writer of readwhilewriting

VARIABLES
    names, threads, existing,    \* what is left to run; the flags
    main,            \* where Run is
    method, num_, reads_, entries_per_batch_,
    db, keys,        \* db_ is open; the keys in the database
    shared,          \* SharedState, or Gone when RunBenchmark has returned
    thr,             \* per thread: where it is, its loop and its Stats
    waiting,         \* threads, and 0 for main, in cv.Wait
    report           \* what the last Report printed

benchVars == <<names, threads, existing, main, method, num_, reads_,
               entries_per_batch_, db, keys, shared, thr, waiting, report>>
flags == <<threads, existing>>
params == <<method, num_, reads_, entries_per_batch_>>

Gone == [total |-> 0, num_initialized |-> 0, num_done |-> 0, start |-> FALSE]
NoReport == [done |-> -1, bytes |-> -1]
IdleThread == [pc |-> "none", i |-> 0, left |-> 0, done |-> 0, bytes |-> 0]
Tids == 1..3                     \* tid + 1

BenchInit ==
    /\ \E r \in Runs : names = r.names /\ threads = r.threads /\ existing = r.existing
    /\ main = "next" /\ method = "none"
    /\ num_ = FLAGS_num /\ reads_ = FLAGS_reads /\ entries_per_batch_ = 1
    /\ db = TRUE /\ keys = {}
    /\ shared = Gone /\ thr = [t \in Tids |-> IdleThread]
    /\ waiting = {} /\ report = NoReport

-----------------------------------------------------------------------------
(* Run: what each name sets.  DefaultReads is for FLAGS_reads < 0. *)
DefaultReads == IF FLAGS_reads < 0 THEN FLAGS_num ELSE FLAGS_reads
Plain(m) == [method |-> m, fresh |-> FALSE, num |-> FLAGS_num, reads |-> DefaultReads,
             batch |-> 1, extra |-> 0]
AtLeastOne(n) == IF n < 1 THEN 1 ELSE n
Config(name) ==
    CASE name = "open" -> [Plain("OpenBench") EXCEPT !.num = AtLeastOne(FLAGS_num \div Fewer)]
      [] name = "fillseq" -> [Plain("WriteSeq") EXCEPT !.fresh = TRUE]
      [] name = "fillbatch" -> [Plain("WriteSeq") EXCEPT !.fresh = TRUE, !.batch = BatchEntries]
      [] name = "fillrandom" -> [Plain("WriteRandom") EXCEPT !.fresh = TRUE]
      [] name = "overwrite" -> Plain("WriteRandom")
      [] name = "fillsync" -> [Plain("WriteRandom") EXCEPT !.fresh = TRUE, !.num = FLAGS_num \div Fewer]
      [] name = "fill100K" -> [Plain("WriteRandom") EXCEPT !.fresh = TRUE, !.num = FLAGS_num \div Fewer]
      [] name = "readseq" -> Plain("ReadSequential")
      [] name = "readreverse" -> Plain("ReadReverse")
      [] name = "readrandom" -> Plain("ReadRandom")
      [] name = "readmissing" -> Plain("ReadMissing")
      [] name = "seekrandom" -> Plain("SeekRandom")
      [] name = "seekordered" -> Plain("SeekOrdered")
      [] name = "readhot" -> Plain("ReadHot")
      [] name = "readrandomsmall" -> [Plain("ReadRandom") EXCEPT !.reads = DefaultReads \div Fewer]
      [] name = "deleteseq" -> Plain("DeleteSeq")
      [] name = "deleterandom" -> Plain("DeleteRandom")
      [] name = "readwhilewriting" -> [Plain("ReadWhileWriting") EXCEPT !.extra = 1]
      [] name = "compact" -> Plain("Compact")
      [] name = "crc32c" -> Plain("Crc32c")
      [] name \in {"snappycomp", "zstdcomp"} -> Plain("Compress")
      [] name \in {"snappyuncomp", "zstduncomp"} -> Plain("Uncompress")
      [] OTHER -> Plain("none")

(* The next name; fresh_db destroys the database or, with an existing one, *)
(* skips the benchmark.                                                    *)
NextName ==
    LET c == Config(Head(names))
    IN  /\ main = "next" /\ names # <<>>
        /\ names' = Tail(names)
        /\ method' = (IF c.fresh /\ existing THEN "none" ELSE c.method)
        /\ num_' = c.num /\ reads_' = c.reads /\ entries_per_batch_' = c.batch
        /\ keys' = IF c.fresh /\ ~existing THEN {} ELSE keys
        /\ report' = NoReport
        /\ IF method' = "none"
           THEN UNCHANGED <<main, shared, thr>>
           ELSE /\ main' = "waitInitialized"
                /\ shared' = [Gone EXCEPT !.total = threads + c.extra]
                /\ thr' = [t \in Tids |-> IF t <= threads + c.extra
                                          THEN [IdleThread EXCEPT !.pc = "begin"] ELSE IdleThread]
        /\ UNCHANGED <<flags, db, waiting>>

(* RunBenchmark *)
AllInitialized == shared.num_initialized >= shared.total
AllDoneEarly == shared.num_done >= shared.total - 1   \* a defect: off by one
AllDone == shared.num_done >= shared.total
Waits(who, until) == IF until THEN waiting \ {who} ELSE waiting \cup {who}

MainStarts ==
    /\ main = "waitInitialized" /\ 0 \notin waiting
    /\ IF AllInitialized
       THEN /\ shared' = [shared EXCEPT !.start = TRUE]
            /\ waiting' = {}
            /\ main' = "waitDone"
       ELSE waiting' = Waits(0, FALSE) /\ UNCHANGED <<shared, main>>
    /\ UNCHANGED <<names, flags, params, db, keys, thr, report>>
MainWaitsDone ==
    /\ main = "waitDone" /\ 0 \notin waiting
    /\ waiting' = Waits(0, AllDone)
    /\ main' = IF AllDone THEN "merge" ELSE main
    /\ UNCHANGED <<names, flags, params, db, keys, shared, thr, report>>

(* Messages, times and the histogram are left out. *)
Merge(ts) == [done |-> MapThenSumSet(LAMBDA t : thr[t].done, ts),
              bytes |-> MapThenSumSet(LAMBDA t : thr[t].bytes, ts)]

Merged == 1..shared.total
Report ==
    /\ main = "merge"
    /\ report' = [Merge(Merged) EXCEPT !.done = AtLeastOne(@)]
    /\ shared' = Gone
    /\ main' = "next"
    /\ UNCHANGED <<names, flags, params, db, keys, thr, waiting>>

-----------------------------------------------------------------------------
At(t, place) == thr[t].pc = place
Becomes(t, r) == thr' = [thr EXCEPT ![t] = r]

(* ThreadBody *)
Signals(n) == n >= shared.total
SignalAllIf(signals) == IF signals THEN {} ELSE waiting
ThreadInitialized(t) ==
    LET n == shared.num_initialized + 1
    IN  /\ At(t, "begin")
        /\ shared' = [shared EXCEPT !.num_initialized = n]
        /\ waiting' = SignalAllIf(Signals(n)) \cup {t}     \* start is still false
        /\ Becomes(t, [thr[t] EXCEPT !.pc = "waitStart"])
        /\ UNCHANGED <<names, flags, main, params, db, keys, report>>

(* The thread wakes up; stats.Start, and the method begins. *)
StartSeenAlways == TRUE                           \* a defect: if for while
StartSeen == shared.start
ThreadStarts(t) ==
    /\ At(t, "waitStart") /\ t \notin waiting
    /\ IF StartSeen
       THEN /\ Becomes(t, [IdleThread EXCEPT !.pc = "run", !.left = Cardinality(keys)])
            /\ UNCHANGED waiting
       ELSE waiting' = waiting \cup {t} /\ UNCHANGED thr
    /\ UNCHANGED <<names, flags, main, params, db, keys, shared, report>>

ThreadDone(t) ==
    LET n == shared.num_done + 1
    IN  /\ At(t, "stop")
        /\ shared' = [shared EXCEPT !.num_done = n]
        /\ waiting' = SignalAllIf(Signals(n))
        /\ Becomes(t, [thr[t] EXCEPT !.pc = "done"])
        /\ UNCHANGED <<names, flags, main, params, db, keys, report>>

-----------------------------------------------------------------------------
(* The methods, an operation or batch per step; FinishedSingleOp counts.   *)
FinishedOps(t, n) == [thr[t] EXCEPT !.done = @ + n, !.i = @ + n]
Doing(t, ms) == At(t, "run") /\ method \in ms
Rest == UNCHANGED <<names, flags, main, params, shared, waiting, report>>
Exit == main' = "exited" /\ UNCHANGED <<names, flags, params, shared, waiting, report, db, keys, thr>>

SeqKeys(t) == {thr[t].i + j : j \in 0..(entries_per_batch_ - 1)}
RandomKeys == {ks \in SUBSET (0..(FLAGS_num - 1)) :
                  ks # {} /\ Cardinality(ks) <= entries_per_batch_}
Batch(t, seq, ks) == IF seq THEN ks = SeqKeys(t) ELSE ks \in RandomKeys

(* DoWrite: bytes are added once, at the end; a failed write ends the program. *)
DoWrite(t, ks, ok) ==
    /\ Doing(t, {"WriteSeq", "WriteRandom"}) /\ thr[t].i < num_
    /\ Batch(t, method = "WriteSeq", ks)
    /\ IF ok THEN /\ keys' = keys \cup ks
                  /\ Becomes(t, FinishedOps(t, entries_per_batch_))
                  /\ UNCHANGED db /\ Rest
       ELSE Exit
DoDelete(t, ks, ok) ==
    /\ Doing(t, {"DeleteSeq", "DeleteRandom"}) /\ thr[t].i < num_
    /\ Batch(t, method = "DeleteSeq", ks)
    /\ IF ok THEN /\ keys' = keys \ ks
                  /\ Becomes(t, FinishedOps(t, entries_per_batch_))
                  /\ UNCHANGED db /\ Rest
       ELSE Exit

(* A walk over the keys that the iterator sees, and reads of any keys. *)
Walk(t, m) ==
    /\ Doing(t, {m}) /\ thr[t].i < reads_ /\ thr[t].left > 0
    /\ Becomes(t, [FinishedOps(t, 1) EXCEPT !.left = @ - 1, !.bytes = @ + 1])
    /\ UNCHANGED <<db, keys>> /\ Rest
ReadSequential(t) == Walk(t, "ReadSequential")
ReadReverse(t) == Walk(t, "ReadReverse")
ReadOne(t, m) ==
    /\ Doing(t, {m}) /\ thr[t].i < reads_
    /\ Becomes(t, FinishedOps(t, 1))
    /\ UNCHANGED <<db, keys>> /\ Rest
ReadRandom(t) == ReadOne(t, "ReadRandom") \/ (t > 1 /\ ReadOne(t, "ReadWhileWriting"))
ReadMissing(t) == ReadOne(t, "ReadMissing")
ReadHot(t) == ReadOne(t, "ReadHot")
SeekRandom(t) == ReadOne(t, "SeekRandom")
SeekOrdered(t) == ReadOne(t, "SeekOrdered")

(* A gigabyte of rounds; a compression that fails is the last, and adds no *)
(* bytes.  Uncompress compresses once before, and if that fails does none. *)
Round(t, m, ok) ==
    /\ Doing(t, {m}) /\ thr[t].i < Rounds
    /\ Becomes(t, [FinishedOps(t, 1) EXCEPT !.i = IF ok THEN @ ELSE Rounds,
                                            !.bytes = IF ok THEN @ + 1 ELSE 0])
    /\ UNCHANGED <<db, keys>> /\ Rest
Crc32c(t) == Round(t, "Crc32c", TRUE)
Compress(t, ok) == Round(t, "Compress", ok)
Uncompress(t, ok) ==
    \/ Round(t, "Uncompress", ok)
    \/ /\ Doing(t, {"Uncompress"}) /\ thr[t].i = 0 /\ ~ok
       /\ Becomes(t, [thr[t] EXCEPT !.i = Rounds])
       /\ UNCHANGED <<db, keys>> /\ Rest

(* OpenBench: delete db_, Open.  Several threads would delete one db_ at   *)
(* once, so Runs has "open" with one thread only.                          *)
OpenBench(t) ==
    /\ Doing(t, {"OpenBench"}) /\ thr[t].i < num_
    /\ db' = ~db
    /\ Becomes(t, IF db THEN thr[t] ELSE FinishedOps(t, 1))
    /\ UNCHANGED keys /\ Rest

(* ReadWhileWriting of the first thread: it writes until the others are    *)
(* done, and counts nothing.                                               *)
OthersFinished == shared.num_done + 1 >= shared.num_initialized
WriteWhileReading(t, k, ok) ==
    /\ Doing(t, {"ReadWhileWriting"}) /\ t = 1
    /\ ~OthersFinished /\ thr[t].i < MaxPuts
    /\ IF ok THEN /\ keys' = keys \cup {k}
                  /\ Becomes(t, [thr[t] EXCEPT !.i = @ + 1])
                  /\ UNCHANGED db /\ Rest
       ELSE Exit

(* The loops end. *)
LoopEnds(t) ==
    CASE method \in {"WriteSeq", "WriteRandom", "DeleteSeq", "DeleteRandom", "OpenBench"}
            -> thr[t].i >= num_
      [] method \in {"ReadSequential", "ReadReverse"} -> thr[t].i >= reads_ \/ thr[t].left = 0
      [] method \in {"Crc32c", "Compress", "Uncompress"} -> thr[t].i >= Rounds
      [] method = "ReadWhileWriting" /\ t = 1 -> OthersFinished
      [] method = "Compact" -> TRUE
      [] OTHER -> thr[t].i >= reads_
Bytes(t) == IF method \in {"WriteSeq", "WriteRandom"} THEN thr[t].done ELSE thr[t].bytes
ThreadStops(t) ==
    /\ At(t, "run") /\ LoopEnds(t)
    /\ Becomes(t, [thr[t] EXCEPT !.pc = "stop", !.bytes = Bytes(t)])
    /\ UNCHANGED <<db, keys>> /\ Rest

Method(t) ==
    \/ \E ks \in SUBSET (0..(FLAGS_num + BatchEntries)), ok \in BOOLEAN :
            DoWrite(t, ks, ok) \/ DoDelete(t, ks, ok)
    \/ ReadSequential(t) \/ ReadReverse(t) \/ ReadRandom(t) \/ ReadMissing(t) \/ ReadHot(t)
    \/ SeekRandom(t) \/ SeekOrdered(t) \/ OpenBench(t) \/ Crc32c(t)
    \/ \E ok \in BOOLEAN : Compress(t, ok) \/ Uncompress(t, ok)
    \/ \E k \in 0..(FLAGS_num - 1), ok \in BOOLEAN : WriteWhileReading(t, k, ok)
ThreadNext(t) ==
    /\ main # "exited"
    /\ ThreadInitialized(t) \/ ThreadStarts(t) \/ Method(t) \/ ThreadStops(t) \/ ThreadDone(t)
MainNext == NextName \/ MainStarts \/ MainWaitsDone \/ Report
BenchNext == MainNext \/ \E t \in Tids : ThreadNext(t)

BenchSpec == BenchInit /\ [][BenchNext]_benchVars

-----------------------------------------------------------------------------
(* Threads, counters and the shared state have their types.                *)
BenchTypeOK ==
    /\ \A t \in Tids : thr[t].pc \in {"none", "begin", "waitStart", "run", "stop", "done"}
    /\ shared.num_done <= shared.num_initialized /\ shared.num_initialized <= shared.total
    /\ waiting \subseteq Tids \cup {0}
    /\ main = "waitDone" => 0 \in waiting \/ shared.start

(* No thread is in its benchmark before all threads of it are initialized, *)
(* so that the rates are of threads that ran at the same time.             *)
StartTogether ==
    (\E t \in Tids : At(t, "run")) =>
        shared.start /\ \A t \in Tids : ~At(t, "begin")

(* When RunBenchmark returns, destroys the shared state and reports, every *)
(* thread is past its last use of it, and the report has the operations    *)
(* and the bytes of all of them, but at least one operation.               *)
ReportIsComplete ==
    report # NoReport =>
        /\ \A t \in Tids : thr[t].pc \in {"none", "done"}
        /\ report.done = AtLeastOne(Merge(Tids).done)
        /\ report.bytes = Merge(Tids).bytes

(* Every benchmark does what its parameters say: a report of a run of n    *)
(* threads counts n times the operations of one, rounded up to batches.    *)
CountsAsConfigured ==
    report # NoReport =>
        LET n == Cardinality({t \in Tids : At(t, "done")})
            batches == (num_ + entries_per_batch_ - 1) \div entries_per_batch_
        IN  /\ method \in {"WriteSeq", "WriteRandom", "DeleteSeq", "DeleteRandom", "OpenBench"} =>
                    report.done = AtLeastOne(n * batches * entries_per_batch_)
            /\ method \in {"ReadRandom", "ReadMissing", "ReadHot", "SeekRandom", "SeekOrdered"} =>
                    report.done = AtLeastOne(n * reads_)
            /\ method = "ReadWhileWriting" => report.done = AtLeastOne((n - 1) * reads_)

(* Run is over. *)
RunEnded == main = "exited" \/ (main = "next" /\ names = <<>>)
=============================================================================
