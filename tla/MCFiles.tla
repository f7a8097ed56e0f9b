------------------------------ MODULE MCFiles -------------------------------
(***************************************************************************)
(* What the database keeps in files, from the write to the disk: the       *)
(* protocol of log, tables, manifest and CURRENT over crashes              *)
(* (Durability), the files of the POSIX, Windows and in-memory             *)
(* environments it runs on, and the caches that hold open tables and       *)
(* blocks.                                                                 *)
(***************************************************************************)
EXTENDS Durability

(* `part` says which component a behaviour is about and never changes;     *)
(* the state of that component is in x1, x2, ..., and the rest is 0.       *)
VARIABLES part,
          x1, x2, x3, x4, x5, x6, x7, x8, x9, x10, x11, x12, x13, x14, x15

slots == <<part,
           x1, x2, x3, x4, x5, x6, x7, x8, x9, x10, x11, x12, x13, x14, x15>>

(* The slots after the first n are unused, and stay so. *)
Unused(n) ==
    /\ (n < 1 => x1 = 0) /\ (n < 2 => x2 = 0) /\ (n < 3 => x3 = 0)
    /\ (n < 4 => x4 = 0) /\ (n < 5 => x5 = 0) /\ (n < 6 => x6 = 0)
    /\ (n < 7 => x7 = 0) /\ (n < 8 => x8 = 0) /\ (n < 9 => x9 = 0)
    /\ (n < 10 => x10 = 0) /\ (n < 11 => x11 = 0) /\ (n < 12 => x12 = 0)
    /\ (n < 13 => x13 = 0) /\ (n < 14 => x14 = 0) /\ (n < 15 => x15 = 0)
Kept(n) ==
    /\ (n < 1 => x1' = x1) /\ (n < 2 => x2' = x2) /\ (n < 3 => x3' = x3)
    /\ (n < 4 => x4' = x4) /\ (n < 5 => x5' = x5) /\ (n < 6 => x6' = x6)
    /\ (n < 7 => x7' = x7) /\ (n < 8 => x8' = x8) /\ (n < 9 => x9' = x9)
    /\ (n < 10 => x10' = x10) /\ (n < 11 => x11' = x11) /\ (n < 12 => x12' = x12)
    /\ (n < 13 => x13' = x13) /\ (n < 14 => x14' = x14) /\ (n < 15 => x15' = x15)

Rdr == INSTANCE PosixReaders
    WITH Threads <- {"r1", "r2", "r3"}, Files <- {"f"}, MaxMmaps <- 1,
         MaxOpen <- 1, mmapAllowed <- x1, fdAllowed <- x2, linked <- x3,
         call <- x4, file <- x5, handle <- x6, fds <- x7, answer <- x8
Writable == INSTANCE PosixWritable
    WITH NewTables <- {"t"}, BufferSize <- 2, MaxAppended <- 5, MaxErrors <- 1,
         is_manifest <- x1, step <- x2, isOpen <- x3, buffer <- x4, os <- x5,
         disk <- x6, appended <- x7, good <- x8, synced <- x9, created <- x10,
         durable <- x11, begun <- x12, covered <- x13, errors <- x14,
         crashed <- x15
Locks == INSTANCE PosixLocks
    WITH Procs <- {"p1", "p2"}, Threads <- {"t1", "t2"}, locked_files <- x1,
         owner <- x2, call <- x3, fds <- x4
Mem == INSTANCE MemEnv
    WITH Names <- {"a", "b"}, States <- {1, 2}, Handles <- {"h1", "h2"},
         BlockSize <- 2, MaxBytes <- 3, file_map <- x1, refs <- x2,
         blocks <- x3, size <- x4, open <- x5, bytes <- x6, contents <- x7,
         orphans <- x8, crashed <- x9
Win == INSTANCE WindowsFiles
    WITH Threads <- {"t1", "t2"}, Current <- "CURRENT", Temp <- "temp",
         Lock <- "LOCK", MaxMmaps <- 1, BufferSize <- 2, MaxInodes <- 2,
         MaxBytes <- 3, dir <- x1, data <- x2, acquiresAllowed <- x3,
         open <- x4, call <- x5
Lru == INSTANCE LRUCache
    WITH Capacity <- 2, Hash <- [k \in 1..3 |-> k], MinLength <- 1,
         Keys <- {1, 2, 3}, Charges <- {1, 2}, MaxHeld <- 2, cache <- x1,
         held <- x2, used <- x3
Tc == INSTANCE TableCache
    WITH Capacity <- 1, Hash <- [k \in 1..3 |-> k], MinLength <- 1,
         FileNumbers <- {1, 2, 3}, Readers <- {"r1", "r2"}, tables <- x1,
         disk <- x2, version <- x3, pc <- x4, file <- x5, handle <- x6,
         evicted <- x7

FilesInit ==
    /\ Init
    /\ \/ part = "database" /\ Unused(0)
       \/ part = "readers" /\ Rdr!ReadInit /\ Unused(8)
       \/ part = "writable" /\ Writable!WritableInit /\ Unused(15)
       \/ part = "locks" /\ Locks!LockInit /\ Unused(4)
       \/ part = "memenv" /\ Mem!MemEnvInit /\ Unused(9)
       \/ part = "windows" /\ Win!WinInit /\ Unused(5)
       \/ part = "cache" /\ Lru!LRUInit /\ Unused(3)
       \/ part = "tablecache" /\ Tc!TableInit /\ Unused(7)

DatabasePart ==
    part = "database" /\ Next /\ UNCHANGED slots
RdrPart ==
    /\ part = "readers" /\ Rdr!ReadNext
    /\ Kept(8) /\ UNCHANGED <<part, vars>>
WritablePart ==
    /\ part = "writable" /\ Writable!WritableNext
    /\ Kept(15) /\ UNCHANGED <<part, vars>>
LocksPart ==
    /\ part = "locks" /\ Locks!LockNext
    /\ Kept(4) /\ UNCHANGED <<part, vars>>
MemPart ==
    /\ part = "memenv" /\ Mem!MemEnvNext
    /\ Kept(9) /\ UNCHANGED <<part, vars>>
WinPart ==
    /\ part = "windows" /\ Win!WinNext
    /\ Kept(5) /\ UNCHANGED <<part, vars>>
LruPart ==
    /\ part = "cache" /\ Lru!LRUNext
    /\ Kept(3) /\ UNCHANGED <<part, vars>>
TcPart ==
    /\ part = "tablecache" /\ Tc!TableNext
    /\ Kept(7) /\ UNCHANGED <<part, vars>>

FilesNext ==
    \/ DatabasePart
    \/ RdrPart
    \/ WritablePart
    \/ LocksPart
    \/ MemPart
    \/ WinPart
    \/ LruPart
    \/ TcPart

FilesSpec == FilesInit /\ [][FilesNext]_<<vars, slots>>

-----------------------------------------------------------------------------

(* No step takes away what somebody counts on: a mapped file or one with a *)
(* descriptor of its own stays readable when it is removed; CURRENT is     *)
(* there at every moment of its replacement on Windows; the LRU cache      *)
(* never grows beyond its capacity while it has an entry nobody holds.     *)
FilesStay ==
    [][ /\ part = "readers" => \A t \in {"r1", "r2", "r3"} : ~Rdr!Loses(t)
        /\ part = "windows" => ~Win!Vanishes
        /\ part = "cache" => ~Lru!Overfills ]_slots
=============================================================================
