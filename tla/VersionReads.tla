---------------------------- MODULE VersionReads ----------------------------
(***************************************************************************)
(* Reads of one version (db/version_set.cc).  A version holds the tables   *)
(* of each level: those of level 0 may overlap, those of a deeper level    *)
(* are disjoint in their internal keys, and of two entries of one user key *)
(* the newer one is never in the deeper place.  Get looks through the      *)
(* tables that may hold the key, from the newest, and charges a seek to    *)
(* the first table that was read in vain; a table that used up its seeks   *)
(* is marked for compaction.  The version never changes while it is read,  *)
(* only its seek counters do, under the mutex.                             *)
(***************************************************************************)
EXTENDS Integers, Sequences, SequencesExt, FiniteSets, FiniteSetsExt

CONSTANTS
    Readers,
    Written,                 \* Written[s]: user key and type of sequence number s
    Snapshots,               \* sequence numbers that are read at
    Seeks,                   \* allowed_seeks of a new table
    FewestSeeks,             \* bound: reads begin while every counter is above it
    L0Trigger, MaxBytes,     \* size limits of level 0 (tables), of levels >= 1 (bytes)
    BlockEntries             \* entries in a block of a table; an entry is one byte

VARIABLES
    files,                   \* files[level + 1]: the tables of a level, by smallest key
    allowed, toCompact,      \* allowed_seeks by table number; file_to_compact_, its level
    reader                   \* per reader, the locals of Get

vars == <<files, allowed, toCompact, reader>>
Levels == 1..3
Seqs == DOMAIN Written
UserKeys == {Written[s].key : s \in Seqs}
TopSeq == Max(Seqs) + 1
IKey(k, s) == [key |-> k, seq |-> s]

(* InternalKeyComparator: by user key, then the newer entry first. *)
Less(a, b) == a.key < b.key \/ (a.key = b.key /\ a.seq > b.seq)
LessEq(a, b) == ~Less(b, a)
Sorted(seqs) == SetToSortSeq({IKey(Written[s].key, s) : s \in seqs}, Less)

Smallest(f) == Head(f.entries)
Largest(f) == f.entries[Len(f.entries)]
Size(f) == Len(f.entries)
TotalFileSize(fs) == FoldSeq(LAMBDA f, n : n + Size(f), 0, fs)

-----------------------------------------------------------------------------
(* The versions that flushes and compactions build.  The place of an entry *)
(* is 1 or 2 (a table of level 0, the newer one first) or 3, 4 (level 1,   *)
(* level 2); level 1 is cut into two tables anywhere, also between two     *)
(* entries of one user key.                                                *)
Flushed(place) ==
    /\ \A s, t \in Seqs : s < t =>
        /\ Written[s].key = Written[t].key => place[s] >= place[t]
        /\ {place[s], place[t]} \subseteq {1, 2} => place[s] >= place[t]
Table(number, entries) == [number |-> number, entries |-> entries]
TablesOf(number, entries) == IF entries = <<>> THEN <<>> ELSE <<Table(number, entries)>>
In(place, p) == Sorted({s \in Seqs : place[s] = p})
BySmallest(fs) == SortSeq(fs, LAMBDA f, g : Less(Smallest(f), Smallest(g)))
Version(place, cut) ==
    LET deep == In(place, 3)
    IN  << BySmallest(TablesOf(5, In(place, 1)) \o TablesOf(4, In(place, 2))),
           TablesOf(6, SubSeq(deep, 1, cut)) \o TablesOf(7, SubSeq(deep, cut + 1, Len(deep))),
           TablesOf(3, In(place, 4)) >>
Versions ==
    UNION {{Version(place, cut) : cut \in 0..Len(In(place, 3))} :
                place \in {p \in [Seqs -> 1..4] : Flushed(p)}}

-----------------------------------------------------------------------------
(* FindFile: the first table whose largest key is not below the target. *)
SkipsWithEnd(f, target) == LessEq(Largest(f), target)   \* a defect: <= for <
Skips(f, target) == Less(Largest(f), target)
RECURSIVE FindFileAt(_, _, _, _)
FindFileAt(fs, target, left, right) ==
    IF left >= right THEN right
    ELSE LET mid == (left + right) \div 2
         IN  IF Skips(fs[mid + 1], target)
             THEN FindFileAt(fs, target, mid + 1, right)
             ELSE FindFileAt(fs, target, left, mid)
FindFile(fs, target) == FindFileAt(fs, target, 0, Len(fs)) + 1

(* ForEachOverlapping: the tables func is called with, in this order. *)
InRange(k, f) == Smallest(f).key <= k /\ k <= Largest(f).key
NewestFirst(fs) == SortSeq(fs, LAMBDA f, g : f.number > g.number)
Candidate(level, fs, k, target) ==
    LET i == FindFile(fs, target)
    IN  IF i > Len(fs) \/ k < Smallest(fs[i]).key THEN <<>>
        ELSE <<[level |-> level, file |-> fs[i]]>>
Overlapping(k, target) ==
    LET level0 == NewestFirst(SelectSeq(files[1], LAMBDA f : InRange(k, f)))
    IN  [i \in DOMAIN level0 |-> [level |-> 1, file |-> level0[i]]]
            \o Candidate(2, files[2], k, target) \o Candidate(3, files[3], k, target)

(* The first entry of a table at or behind the target, as the table finds  *)
(* it; none is the empty sequence.                                         *)
SeekTable(f, target) ==
    LET behind == SelectSeq(f.entries, LAMBDA e : LessEq(target, e))
    IN  IF behind = <<>> THEN <<>> ELSE <<Head(behind)>>

(* SaveValue *)
SaveValue(found, k) ==
    IF found # <<>> /\ found[1].key = k
    THEN [state |-> Written[found[1].seq].type, seq |-> found[1].seq]
    ELSE [state |-> "NotFound", seq |-> 0]

-----------------------------------------------------------------------------
(* AddIterators: an iterator per table of level 0 and one that walks the   *)
(* tables of each other level that has any; here a child is the sequence   *)
(* of its tables.  Seek of such a walk goes to the table FindFile names    *)
(* and, at its end, to the next one.                                       *)
AddIterators ==
    [i \in DOMAIN files[1] |-> <<files[1][i]>>]
        \o SelectSeq(<<files[2], files[3]>>, LAMBDA fs : fs # <<>>)
RECURSIVE SeekFrom(_, _, _)
SeekFrom(fs, i, target) ==
    IF i > Len(fs) THEN <<>>
    ELSE LET e == SeekTable(fs[i], target) IN IF e # <<>> THEN e ELSE SeekFrom(fs, i + 1, target)
SeekChild(fs, target) == SeekFrom(fs, FindFile(fs, target), target)

(* VersionSet::ApproximateOffsetOf, with that of a table: the offset of    *)
(* the block that the key belongs to.                                      *)
Before(f, target) == Cardinality({i \in DOMAIN f.entries : Less(f.entries[i], target)})
TableOffset(f, target) == (Before(f, target) \div BlockEntries) * BlockEntries
OffsetIfInside(level, f, target) ==               \* a defect: a table before the key counts nothing
    IF LessEq(Largest(f), target) \/ Less(target, Smallest(f)) THEN 0 ELSE TableOffset(f, target)
OffsetIn(level, f, target) ==
    IF LessEq(Largest(f), target) THEN Size(f)
    ELSE IF Less(target, Smallest(f)) THEN 0
    ELSE TableOffset(f, target)
RECURSIVE OffsetInLevel(_, _, _)
OffsetInLevel(level, fs, target) ==
    IF fs = <<>> \/ (level > 1 /\ Less(target, Smallest(Head(fs)))) THEN 0
    ELSE OffsetIn(level, Head(fs), target) + OffsetInLevel(level, Tail(fs), target)
ApproximateOffsetOf(target) ==
    MapThenSumSet(LAMBDA l : OffsetInLevel(l, files[l], target), Levels)
GetApproximateSize(start, limit) ==
    LET a == ApproximateOffsetOf(IKey(start, TopSeq))
        b == ApproximateOffsetOf(IKey(limit, TopSeq))
    IN  IF b >= a THEN b - a ELSE 0

(* Finalize: the level that is fullest for its limit, the upper one when   *)
(* two are; a score is a fraction.                                         *)
Score(level) ==
    IF level = 1 THEN <<Len(files[1]), L0Trigger>>
    ELSE <<TotalFileSize(files[level]), MaxBytes[level]>>
Above(s, t) == s[1] * t[2] > t[1] * s[2]
BetterOrSame(s, t) == s[1] >= t[1]                \* a defect: compares sizes, not fractions
Better(s, t) == Above(s, t)
Finalize ==
    FoldLeft(LAMBDA best, l : IF Better(Score(l), best.score)
                              THEN [level |-> l, score |-> Score(l)] ELSE best,
             [level |-> 0, score |-> <<-1, 1>>], <<1, 2>>)

-----------------------------------------------------------------------------
NoSeek == [number |-> 0, level |-> 0]
Idle == [pc |-> "idle", key |-> 0, snapshot |-> 0, todo |-> <<>>, read |-> <<>>,
         seekFile |-> NoSeek, result |-> [state |-> "NotFound", seq |-> 0]]

VersionInit ==
    /\ files \in Versions
    /\ allowed = [n \in 3..7 |-> Seeks]
    /\ toCompact = NoSeek
    /\ reader = [r \in Readers |-> Idle]

SeeksLeft == \A n \in DOMAIN allowed : allowed[n] > FewestSeeks

(* Get takes the version and looks up the tables to go through. *)
Get(r, k, s) ==
    /\ reader[r].pc = "idle" /\ SeeksLeft
    /\ reader' = [reader EXCEPT ![r] =
            [Idle EXCEPT !.pc = "match", !.key = k, !.snapshot = s,
                         !.todo = Overlapping(k, IKey(k, s))]]
    /\ UNCHANGED <<files, allowed, toCompact>>

(* State::Match on one table, without the mutex; the table cache may fail  *)
(* to read it.  The search goes on only when the key was not found.        *)
ChargeAsNumber(c, read) ==                         \* a defect: no level is noted
    IF c = NoSeek /\ read # <<>> THEN [Last(read) EXCEPT !.level = 0] ELSE c
Charge(c, read) == IF c = NoSeek /\ read # <<>> THEN Last(read) ELSE c
GoesOnPastDeletion(state) == state \in {"NotFound", "Deletion"}  \* a defect: a deletion does not end the search
GoesOn(state) == state = "NotFound"
Match(r, ok) ==
    LET me == reader[r]
        c == Head(me.todo)
        saved == IF ok THEN SaveValue(SeekTable(c.file, IKey(me.key, me.snapshot)), me.key)
                 ELSE [state |-> "Error", seq |-> 0]
    IN  /\ me.pc = "match" /\ me.todo # <<>>
        /\ reader' = [reader EXCEPT ![r] =
                [me EXCEPT !.seekFile = Charge(@, me.read),
                           !.read = Append(@, [number |-> c.file.number, level |-> c.level]),
                           !.result = saved,
                           !.todo = IF GoesOn(saved.state) THEN Tail(@) ELSE <<>>]]
        /\ UNCHANGED <<files, allowed, toCompact>>

(* UpdateStats, under the mutex. *)
ExhaustedBelow(n) == n < 0                        \* a defect: one seek too many
Exhausted(n) == n <= 0
UpdateStats(stats) ==
    IF stats = NoSeek THEN UNCHANGED <<allowed, toCompact>>
    ELSE /\ allowed' = [allowed EXCEPT ![stats.number] = @ - 1]
         /\ toCompact' = IF Exhausted(allowed'[stats.number]) /\ toCompact = NoSeek
                         THEN stats ELSE toCompact

(* The end of DBImpl::Get: the counters, then the references are dropped. *)
Return(r) ==
    /\ reader[r].pc = "match" /\ reader[r].todo = <<>>
    /\ UpdateStats(reader[r].seekFile)
    /\ reader' = [reader EXCEPT ![r] = Idle]
    /\ UNCHANGED files

(* RecordReadSample: an iterator passed the key; the first of two tables   *)
(* that overlap it is charged.                                             *)
SampleMatchesAny(cs) == Len(cs) >= 1              \* a defect: one match is enough
SampleMatches(cs) == Len(cs) >= 2
RecordReadSample(k, s) ==
    LET cs == Overlapping(k, IKey(k, s))
    IN  /\ SeeksLeft /\ SampleMatches(cs)
        /\ UpdateStats([number |-> cs[1].file.number, level |-> cs[1].level])
        /\ UNCHANGED <<files, reader>>

VersionNext ==
    \/ \E r \in Readers, k \in UserKeys, s \in Snapshots : Get(r, k, s)
    \/ \E r \in Readers, ok \in BOOLEAN : Match(r, ok)
    \/ \E r \in Readers : Return(r)
    \/ \E s \in Seqs : RecordReadSample(Written[s].key, s)
VersionSpec == VersionInit /\ [][VersionNext]_vars

-----------------------------------------------------------------------------
(* Counters, marks and the locals of the readers have their types, and a   *)
(* read never charges a table that is not in the version.                  *)
VersionTypeOK ==
    LET stats == {NoSeek} \cup
            UNION {{[number |-> files[l][i].number, level |-> l] : i \in DOMAIN files[l]} : l \in Levels}
    IN  /\ \A n \in DOMAIN allowed : allowed[n] <= Seeks
        /\ toCompact \in stats
        /\ \A r \in Readers : /\ reader[r].pc \in {"idle", "match"}
                              /\ reader[r].seekFile \in stats

Entries == UNION {UNION {Range(files[l][i].entries) : i \in DOMAIN files[l]} : l \in Levels}
Visible(k, s) == {e \in Entries : e.key = k /\ e.seq <= s}

(* Version::Get answers with the newest entry of the key that the snapshot *)
(* sees, wherever in the version it is, also when the entries of the key   *)
(* lie on both sides of a table boundary; only a table that cannot be read *)
(* ends the search without an answer.                                      *)
GetIsExact ==
    \A r \in Readers :
        LET me == reader[r]
            see == Visible(me.key, me.snapshot)
        IN  me.pc = "match" /\ me.todo = <<>> /\ me.result.state # "Error" =>
                me.result = IF see = {} THEN [state |-> "NotFound", seq |-> 0]
                            ELSE LET newest == Max({e.seq : e \in see})
                                 IN  [state |-> Written[newest].type, seq |-> newest]

(* A seek is charged exactly when a read needed a second table, and to the *)
(* first one it read, which is the one a compaction would save it.         *)
ChargesFirstInVain ==
    \A r \in Readers :
        LET me == reader[r]
        IN  me.seekFile = IF Len(me.read) < 2 THEN NoSeek ELSE me.read[1]

(* A table is marked for compaction as soon as its seeks are used up, not  *)
(* earlier, by Get and by the samples of iterators together; it is marked  *)
(* with the level that it is in.                                           *)
MarkedWhenExhausted ==
    /\ toCompact # NoSeek => allowed[toCompact.number] <= 0
    /\ (\E n \in DOMAIN allowed : allowed[n] <= 0) => toCompact # NoSeek

(* Only a table that shares a key range with another one is ever charged:  *)
(* with disjoint tables no read and no sample leads to a compaction.       *)
LoneTablesAreFree ==
    (\E n \in DOMAIN allowed : allowed[n] # Seeks)
        => \E k \in UserKeys, s \in Seqs : Len(Overlapping(k, IKey(k, s))) > 1

(* No step changes the tables of a version: what is said of them alone is  *)
(* said before the first read.                                             *)
Unread == \A r \in Readers : reader[r] = Idle /\ \A n \in DOMAIN allowed : allowed[n] = Seeks

(* Seeking every child that AddIterators makes finds, among them, the      *)
(* first entry of the whole version at or behind the target.               *)
SeekFindsFirst ==
    Unread => \A k \in UserKeys, s \in Seqs :
        LET target == IKey(k, s)
            found == UNION {Range(SeekChild(c, target)) : c \in Range(AddIterators)}
            behind == {e \in Entries : LessEq(target, e)}
        IN  {e \in found : \A o \in found : LessEq(e, o)}
                = {e \in behind : \A o \in behind : LessEq(e, o)}

(* GetApproximateSizes: what it says of a range differs from the bytes of  *)
(* the range by less than a block for each table and end of the range, and *)
(* the sizes of two adjacent ranges add up.                                *)
SizesApproximate ==
    LET tables == MapThenSumSet(LAMBDA l : Len(files[l]), Levels)
    IN  Unread => \A a, b \in UserKeys : a <= b =>
            LET exact == Cardinality({e \in Entries : a <= e.key /\ e.key < b})
                size == GetApproximateSize(a, b)
            IN  /\ size - exact \in (-tables * (BlockEntries - 1))..(tables * (BlockEntries - 1))
                /\ \A c \in UserKeys : b <= c =>
                        GetApproximateSize(a, c) = size + GetApproximateSize(b, c)

(* Finalize finds work whenever a level that can be compacted is at its    *)
(* limit, and picks a level than which no other is fuller for its limit.   *)
FullLevelIsPicked ==
    LET best == Finalize
    IN  Unread =>
        /\ best.level # 0 /\ \A l \in {1, 2} : ~Above(Score(l), best.score)
        /\ (\E l \in {1, 2} : ~Above(<<1, 1>>, Score(l))) => ~Above(<<1, 1>>, best.score)
=============================================================================
