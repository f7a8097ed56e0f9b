----------------------------- MODULE MCThreads ------------------------------
(***************************************************************************)
(* The parts in which threads or goroutines wait for one another: the      *)
(* write queue, compaction thread and shutdown of the database             *)
(* (WriteQueue), the work queue of its environment, the threads of its     *)
(* benchmark; the concurrent map, registrar and scheduler of the crawler;  *)
(* and the request chain of gee-web.                                       *)
(***************************************************************************)
EXTENDS WriteQueue, Integers

(* `part` says which component a behaviour is about and never changes;     *)
(* the state of that component is in x1, x2, ..., and the rest is 0.       *)
VARIABLES part,
          x1, x2, x3, x4, x5, x6, x7, x8, x9, x10, x11, x12, x13, x14, x15,
          x16, x17, x18, x19, x20, x21

slots == <<part,
           x1, x2, x3, x4, x5, x6, x7, x8, x9, x10, x11, x12, x13, x14, x15,
           x16, x17, x18, x19, x20, x21>>

(* The slots after the first n are unused, and stay so. *)
Unused(n) ==
    /\ (n < 1 => x1 = 0) /\ (n < 2 => x2 = 0) /\ (n < 3 => x3 = 0)
    /\ (n < 4 => x4 = 0) /\ (n < 5 => x5 = 0) /\ (n < 6 => x6 = 0)
    /\ (n < 7 => x7 = 0) /\ (n < 8 => x8 = 0) /\ (n < 9 => x9 = 0)
    /\ (n < 10 => x10 = 0) /\ (n < 11 => x11 = 0) /\ (n < 12 => x12 = 0)
    /\ (n < 13 => x13 = 0) /\ (n < 14 => x14 = 0) /\ (n < 15 => x15 = 0)
    /\ (n < 16 => x16 = 0) /\ (n < 17 => x17 = 0) /\ (n < 18 => x18 = 0)
    /\ (n < 19 => x19 = 0) /\ (n < 20 => x20 = 0) /\ (n < 21 => x21 = 0)
Kept(n) ==
    /\ (n < 1 => x1' = x1) /\ (n < 2 => x2' = x2) /\ (n < 3 => x3' = x3)
    /\ (n < 4 => x4' = x4) /\ (n < 5 => x5' = x5) /\ (n < 6 => x6' = x6)
    /\ (n < 7 => x7' = x7) /\ (n < 8 => x8' = x8) /\ (n < 9 => x9' = x9)
    /\ (n < 10 => x10' = x10) /\ (n < 11 => x11' = x11) /\ (n < 12 => x12' = x12)
    /\ (n < 13 => x13' = x13) /\ (n < 14 => x14' = x14) /\ (n < 15 => x15' = x15)
    /\ (n < 16 => x16' = x16) /\ (n < 17 => x17' = x17) /\ (n < 18 => x18' = x18)
    /\ (n < 19 => x19' = x19) /\ (n < 20 => x20' = x20) /\ (n < 21 => x21' = x21)

Offered == {[mtype |-> "D", kind |-> "D", maddr |-> <<>>],
            [mtype |-> "D", kind |-> "A", maddr |-> <<>>],
            [mtype |-> "D", kind |-> "D", maddr |-> <<"[::1]", 80>>]}
ScoresOf == {[g \in {"m1", "m2"} |-> IF g = "m1" THEN 1 ELSE 2],
             [g \in {"m1", "m2"} |-> IF g = "m1" THEN 0 ELSE 1]}
GoodArgs == [domains |-> <<"x">>, caps |-> <<1, 1>>,
             modules |-> <<<<"d">>, <<"a">>, <<"p", "nil">>>>]
Doubled == [GoodArgs EXCEPT !.modules = <<<<"e">>, <<"b", "b">>, <<"q">>>>]
NoCap == [GoodArgs EXCEPT !.caps[2] = 0]
Requests == [twice |-> <<"next", "next">>, guard |-> <<"fail">>,
             page |-> <<"write">>, broken |-> <<"write", "panic">>]
Bench(ns, n, e) == [names |-> ns, threads |-> n, existing |-> e]
BenchRuns ==
    {Bench(<<"fillseq", a>>, 2, FALSE) :
        a \in {"readseq", "readrandom", "deleterandom", "deleteseq", "overwrite",
               "compact", "readreverse"}}
    \cup {Bench(<<"fillbatch", "readwhilewriting">>, 2, FALSE),
          Bench(<<"fillsync", "stats", "open">>, 1, FALSE),
          Bench(<<"fillrandom", "readrandomsmall", "open">>, 1, TRUE),
          Bench(<<"crc32c", "snappycomp", "zstduncomp">>, 2, FALSE),
          Bench(<<"fill100K", "readmissing", "readhot", "seekrandom", "seekordered">>, 2, FALSE)}

Sched == INSTANCE PosixSchedule
    WITH Clients <- {"c1", "c2"}, Worker <- "w", MaxItems <- 4, holder <- x1,
         queue <- x2, started <- x3, threads <- x4, waiting <- x5, at <- x6,
         scheduled <- x7, ran <- x8
Ben == INSTANCE Bench
    WITH Runs <- BenchRuns, FLAGS_num <- 2, FLAGS_reads <- -1,
         BatchEntries <- 3, Fewer <- 2, Rounds <- 2, MaxPuts <- 2, names <- x1,
         threads <- x2, existing <- x3, main <- x4, method <- x5, num_ <- x6,
         reads_ <- x7, entries_per_batch_ <- x8, db <- x9, keys <- x10,
         shared <- x11, thr <- x12, waiting <- x13, report <- x14
CMap == INSTANCE ConcurrentMap
    WITH Writers <- {"w1"}, Readers <- {"r1"}, Keys <- {"a", "b", "c"},
         HashHigh <- [k \in {"a", "b", "c"} |-> 0],
         HashLow <- [k \in {"a", "b", "c"} |-> IF k = "a" THEN 0 ELSE 1],
         Concurrency <- 1, DefaultBucketNumber <- 1, MinAverage <- 3,
         MaxBucketSize <- 5, MaxUpdates <- 3, MaxGets <- 1, heap <- x1,
         buckets <- x2, lock <- x3, pairTotal <- x4, total <- x5,
         upperThreshold <- x6, overweight <- x7, pc <- x8, op <- x9,
         key <- x10, element <- x11, ok <- x12, at <- x13, pairs <- x14,
         calls <- x15, content <- x16, deletes <- x17, sawAbsent <- x18,
         overlapped <- x19
Reg == INSTANCE Registrar
    WITH Makers <- {"m1", "m2"}, Users <- {"u1"}, Types <- {"D"}, Start <- 1,
         Max <- 2, Offers <- Offered, Scores <- ScoresOf,
         MaxCalls <- [g \in {"m1", "m2", "u1"} |-> IF g = "m1" THEN 3 ELSE 1],
         next <- x1, cycleCount <- x2, moduleTypeMap <- x3, writer <- x4,
         readers <- x5, waiting <- x6, fatal <- x7, pc <- x8, id <- x9,
         tmp <- x10, made <- x11, calls <- x12, wanted <- x13, offered <- x14,
         seen <- x15, selected <- x16, minScore <- x17, score <- x18,
         overlap <- x19, issued <- x20, unregistered <- x21
Sch == INSTANCE Scheduler
    WITH Goroutines <- {"g1", "g2"}, ArgsSet <- {GoodArgs, Doubled, NoCap},
         PoolKinds <- <<"req", "error">>, MaxCalls <- 2, MaxErrors <- 1,
         status <- x1, registrar <- x2, acceptedDomainMap <- x3, pool <- x4,
         open <- x5, pools <- x6, pc <- x7, oldStatus <- x8, err <- x9,
         args <- x10, at <- x11, calls <- x12, ready <- x13, refused <- x14,
         sending <- x15, errors <- x16
Mod == INSTANCE ModuleCalls
    WITH Callers <- {"c1", "c2"}, Steps <- 2, Word <- 256, MaxCalls <- 1,
         kind <- x1, failFast <- x2, count <- x3, score <- x4, pc <- x5,
         step <- x6, errs <- x7, out <- x8, calls <- x9, snap <- x10,
         taken <- x11, cleared <- x12
Gee == INSTANCE GeeRouter
    WITH Methods <- {"GET", "POST"}, Colon <- {":x"}, Star <- {"*f"},
         Begins <- {<<"v", "vw">>, <<"", "v">>, <<"", "vw">>},
         Programs <- Requests,
         Middlewares <- {"logger", "recovery", "twice", "guard"},
         Pages <- {"page", "broken"}, GroupPrefixes <- {<<"v">>},
         Components <- {<<"">>, <<"v">>, <<":x">>},
         Paths <- {<<"">>, <<"vw">>, <<"v", "">>}, MaxSetup <- 3,
         MaxGroups <- 2, groups <- x1, roots <- x2, handlers <- x3,
         setup <- x4, ctx <- x5

ThreadsInit ==
    /\ Init
    /\ \/ part = "queue" /\ Unused(0)
       \/ part = "schedule" /\ Sched!SchedInit /\ Unused(8)
       \/ part = "bench" /\ Ben!BenchInit /\ Unused(14)
       \/ part = "map" /\ CMap!Init /\ Unused(19)
       \/ part = "registrar" /\ Reg!Init /\ Unused(21)
       \/ part = "scheduler" /\ Sch!Init /\ Unused(16)
       \/ part = "module" /\ Mod!Init /\ Unused(12)
       \/ part = "gee" /\ Gee!GeeInit /\ Unused(5)

QueuePart ==
    part = "queue" /\ Next /\ UNCHANGED slots
SchedPart ==
    /\ part = "schedule" /\ Sched!SchedNext
    /\ Kept(8) /\ UNCHANGED <<part, vars>>
BenPart ==
    /\ part = "bench" /\ Ben!BenchNext
    /\ Kept(14) /\ UNCHANGED <<part, vars>>
CMapPart ==
    /\ part = "map" /\ CMap!Next
    /\ Kept(19) /\ UNCHANGED <<part, vars>>
RegPart ==
    /\ part = "registrar" /\ Reg!Next
    /\ Kept(21) /\ UNCHANGED <<part, vars>>
SchPart ==
    /\ part = "scheduler" /\ Sch!Next
    /\ Kept(16) /\ UNCHANGED <<part, vars>>
ModPart ==
    /\ part = "module" /\ Mod!Next
    /\ Kept(12) /\ UNCHANGED <<part, vars>>
GeePart ==
    /\ part = "gee" /\ Gee!GeeNext
    /\ Kept(5) /\ UNCHANGED <<part, vars>>

ThreadsNext ==
    \/ QueuePart
    \/ SchedPart
    \/ BenPart
    \/ CMapPart
    \/ RegPart
    \/ SchPart
    \/ ModPart
    \/ GeePart

ThreadsFairness == Fairness

ThreadsSpec == ThreadsInit /\ [][ThreadsNext]_<<vars, slots>> /\ ThreadsFairness

-----------------------------------------------------------------------------
Runs ==
    \/ part = "schedule" /\ (Sched!WorkerStep \/ \E c \in {"c1", "c2", "w"} : Sched!CallerStep(c))
    \/ part = "bench" /\ (Ben!MainNext \/ \E t \in 1..3 : Ben!ThreadNext(t))
    \/ part = "map" /\ \E g \in {"w1", "r1"} : CMap!Step(g)
    \/ part = "registrar" /\ (Reg!UserTurn("u1") \/ \E g \in {"m1", "m2"} : Reg!MakerTurn(g))
    \/ part = "scheduler" /\ \E g \in {"g1", "g2"} : Sch!Step(g)
    \/ part = "gee" /\ Gee!Serve

Quiet ==
    CASE part = "schedule" -> \A n \in 1..4 : ~Sched!Waits(n)
      [] part = "bench" -> Ben!RunEnded
      [] part = "map" -> \A g \in {"w1", "r1"} : ~CMap!InCall(g)
      [] part = "registrar" -> \A g \in {"m1", "m2", "u1"} : Reg!Returned(g)
      [] part = "scheduler" -> ~Sch!Unsettled
      [] part = "gee" -> ~Gee!Serving
      [] OTHER -> TRUE

(* Nobody waits for ever: when no thread or goroutine can go on, nobody is *)
(* in a call on the map or the registrar, the scheduler is not between two *)
(* states, no request is being served, no work item waits and the          *)
(* benchmark run is over.  Neither a lost wakeup nor a lock that stays     *)
(* taken leaves anybody behind.                                            *)
NobodyStuck == Quiet \/ ENABLED Runs


=============================================================================
