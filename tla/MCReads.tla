------------------------------ MODULE MCReads -------------------------------
(***************************************************************************)
(* How a read finds its entry: the levels and what compactions do to them  *)
(* (LevelCompaction), the search in the memtable while it is written, the  *)
(* search through the tables of a version and the seeks it is charged, and *)
(* the iterator over a snapshot; and who keeps alive what a read uses:     *)
(* reference counts, and the objects behind the C interface.               *)
(***************************************************************************)
EXTENDS LevelCompaction, TLC

(* `part` says which component a behaviour is about and never changes;     *)
(* the state of that component is in x1, x2, ..., and the rest is 0.       *)
VARIABLES part,
          x1, x2, x3, x4, x5, x6, x7, x8, x9, x10, x11, x12, x13, x14, x15, x16

slots == <<part,
           x1, x2, x3, x4, x5, x6, x7, x8, x9, x10, x11, x12, x13, x14, x15,
           x16>>

(* The slots after the first n are unused, and stay so. *)
Unused(n) ==
    /\ (n < 1 => x1 = 0) /\ (n < 2 => x2 = 0) /\ (n < 3 => x3 = 0)
    /\ (n < 4 => x4 = 0) /\ (n < 5 => x5 = 0) /\ (n < 6 => x6 = 0)
    /\ (n < 7 => x7 = 0) /\ (n < 8 => x8 = 0) /\ (n < 9 => x9 = 0)
    /\ (n < 10 => x10 = 0) /\ (n < 11 => x11 = 0) /\ (n < 12 => x12 = 0)
    /\ (n < 13 => x13 = 0) /\ (n < 14 => x14 = 0) /\ (n < 15 => x15 = 0)
    /\ (n < 16 => x16 = 0)
Kept(n) ==
    /\ (n < 1 => x1' = x1) /\ (n < 2 => x2' = x2) /\ (n < 3 => x3' = x3)
    /\ (n < 4 => x4' = x4) /\ (n < 5 => x5' = x5) /\ (n < 6 => x6' = x6)
    /\ (n < 7 => x7' = x7) /\ (n < 8 => x8' = x8) /\ (n < 9 => x9' = x9)
    /\ (n < 10 => x10' = x10) /\ (n < 11 => x11' = x11) /\ (n < 12 => x12' = x12)
    /\ (n < 13 => x13' = x13) /\ (n < 14 => x14' = x14) /\ (n < 15 => x15' = x15)
    /\ (n < 16 => x16' = x16)

W(k, t) == [key |-> k, type |-> t]

Ver == INSTANCE VersionReads
    WITH Readers <- {"r1", "r2"},
         Written <- <<W(1, "Value"), W(2, "Value"), W(1, "Deletion"), W(1, "Value"), W(2, "Value")>>,
         Snapshots <- {3}, Seeks <- 1, FewestSeeks <- 0, L0Trigger <- 2,
         MaxBytes <- <<0, 3, 9>>, BlockEntries <- 2, files <- x1,
         allowed <- x2, toCompact <- x3, reader <- x4
Mem == INSTANCE MemTable
    WITH UserKeys <- {1, 2}, kMaxHeight <- 2, Readers <- {"r1"},
         MaxSequence <- 3, MaxReads <- 2, ukey <- x1, next <- x2,
         heights <- x3, last <- x4, height <- x5, level <- x6, prev <- x7,
         op <- x8, x <- x9, depth <- x10, target <- x11, since <- x12,
         done <- x13, pos <- x14, answer <- x15, reads <- x16
It == INSTANCE DBIterator
    WITH UserKeys <- {1, 2, 3}, MaxSequence <- 3, Snapshots <- {2, 3},
         Children <- {1, 2}, ukey <- x1, type <- x2, home <- x3,
         sequence <- x4, children <- x5, current <- x6, mdirection <- x7,
         valid <- x8, direction <- x9, savedKey <- x10, savedValue <- x11
Life == INSTANCE Lifetimes
    WITH Getters <- {"g1"}, Iterators <- {"i1"}, MemTables <- 1..3,
         Versions <- 1..3, Metas <- {1, 2}, None <- 0, mem <- x1, imm <- x2,
         mrefs <- x3, current <- x4, objects <- x5, pinned <- x6, built <- x7,
         flush <- x8, work <- x9, bgError <- x10, closing <- x11
Cee == INSTANCE CBindings
    WITH Places <- 1..5, Failures <- {"IOError", "Corruption"}, Null <- 0,
         heap <- x1, errptr <- x2, owned <- x3, engine <- x4,
         lastFailure <- x5, settings <- x6

ReadsInit ==
    /\ Init
    /\ \/ part = "levels" /\ Unused(0)
       \/ part = "version" /\ Ver!VersionInit /\ Unused(4)
       \/ part = "memtable" /\ Mem!MemInit /\ Unused(16)
       \/ part = "iterator" /\ It!IterInit /\ Unused(11)
       \/ part = "lifetimes" /\ Life!LifeInit /\ Unused(11)
       \/ part = "c" /\ Cee!CInit /\ Unused(6)

LevelsPart ==
    part = "levels" /\ Next /\ UNCHANGED slots
VerPart ==
    /\ part = "version" /\ Ver!VersionNext
    /\ Kept(4) /\ UNCHANGED <<part, vars>>
MemPart ==
    /\ part = "memtable" /\ Mem!MemNext
    /\ Kept(16) /\ UNCHANGED <<part, vars>>
ItPart ==
    /\ part = "iterator" /\ It!IterNext
    /\ Kept(11) /\ UNCHANGED <<part, vars>>
LifePart ==
    /\ part = "lifetimes" /\ Life!LifeNext
    /\ Kept(11) /\ UNCHANGED <<part, vars>>
CeePart ==
    /\ part = "c" /\ Cee!CNext
    /\ Kept(6) /\ UNCHANGED <<part, vars>>

ReadsNext ==
    \/ LevelsPart
    \/ VerPart
    \/ MemPart
    \/ ItPart
    \/ LifePart
    \/ CeePart

ReadsSpec == ReadsInit /\ [][ReadsNext]_<<vars, slots>>

-----------------------------------------------------------------------------
(* A read answers with the newest entry of its key that its snapshot sees: *)
(* Version::Get, also when the entries of a key lie on both sides of a     *)
(* table boundary, and MemTable::Get while the skip list is written, no    *)
(* entry skipped and no link read before it is set. Seeks are charged to   *)
(* the first table read in vain, tables are marked when their seeks are    *)
(* used up, and a full level is picked. In the merger every child is in    *)
(* step with the direction, and DBIter shows no deleted, overwritten or    *)
(* later write.                                                            *)
ReadsExact ==
    /\ part = "version" =>
        Ver!VersionTypeOK /\ Ver!GetIsExact /\ Ver!ChargesFirstInVain /\
        Ver!MarkedWhenExhausted /\ Ver!LoneTablesAreFree /\
        Ver!SeekFindsFirst /\ Ver!SizesApproximate /\ Ver!FullLevelIsPicked
    /\ part = "memtable" =>
        Mem!MemTypeOK /\ Mem!ListsSorted /\ Mem!ReadsInitialized /\
        Mem!NoneSkipped /\ Mem!GetExact
    /\ part = "iterator" =>
        It!IterTypeOK /\ It!ChildrenInStep /\ It!BeforeItsKey /\
        It!ShowsSnapshot
    /\ TypeOK

(* Whatever is shared has an owner as long as it is used, and none after   *)
(* that. The reference counts of memtables, versions and file metadata are *)
(* exactly their users, through flushes, compactions, failed edits,        *)
(* iterators that outlive them and the destructor: what a reader or a      *)
(* compaction has pinned exists, and nothing is left at the end. Behind    *)
(* the C interface the objects live as long as their wrappers, the client  *)
(* is given what it must free, and *errptr is the last failure, none       *)
(* leaked.                                                                 *)
OwnersExact ==
    /\ part = "lifetimes" =>
        Life!LifeTypeOK /\ Life!RefsExact /\ Life!InputsExist /\
        Life!NothingLeaked
    /\ part = "c" =>
        Cee!CTypeOK /\ Cee!LastErrorKept /\ Cee!HeapAccountedFor /\
        Cee!ObjectsLiveAsLong

(* DBIter is a cursor over the snapshot: each call moves to the key that   *)
(* the same call on a plain sorted map moves to, none left out or repeated *)
(* when the direction changes.                                             *)
IteratesSnapshot ==
    (part = "iterator" => It!Cursor!Init) /\ [][part = "iterator" => It!MovesLikeCursor /\ It!CursorStep]_slots
=============================================================================
