--------------------------- MODULE LevelCompaction ---------------------------
(***************************************************************************)
(* The levels of a LevelDB version and what a read finds in them: flushes  *)
(* that choose their level, compactions with their inputs, their drop      *)
(* rules and their outputs, trivial moves, manual compactions, snapshots   *)
(* and Get (db/version_set.cc, db/db_impl.cc).                             *)
(*                                                                         *)
(* Data.  hist lists all writes; an entry is the sequence number of its    *)
(* write, so hist[e] gives its user key and its type.  A file is the set   *)
(* of its entries.  Level 0 is a sequence in the order of file numbers,    *)
(* the other levels are sets.  Sizes in bytes are free: wherever the code  *)
(* compares one with a limit, both outcomes are possible.                  *)
(*                                                                         *)
(* Atomicity.  Only the background thread changes the version, so a flush  *)
(* is one step, also in the middle of a compaction; a compaction is two,   *)
(* its choice of inputs and the installation of its results.               *)
(***************************************************************************)
EXTENDS Naturals, Sequences, FiniteSets

CONSTANTS
    Keys,                \* the user keys, numbers for their order
    MaxSeq,              \* bound on the number of writes
    MaxSnapshots,        \* bound on the number of live snapshots
    Top,                 \* the last level, config::kNumLevels - 1
    MaxMemCompactLevel,  \* config::kMaxMemCompactLevel
    ManualRequests       \* the calls of TEST_CompactRange: <<level, begin, end>>

ASSUME LevelsAssumption ==
    /\ Keys \subseteq Nat /\ Keys # {} /\ IsFiniteSet(Keys)
    /\ MaxSeq \in Nat /\ MaxSnapshots \in Nat
    /\ Top \in Nat \ {0} /\ MaxMemCompactLevel \in 0..Top
    /\ ManualRequests \subseteq (0..(Top - 1)) \X Keys \X Keys

VARIABLES
    hist,                \* every write: its user key and type
    mem, imm,            \* the entries of mem_ and imm_
    level0, levels,      \* the current version
    snapshots,           \* snapshots_
    cpc, clevel, inputs0, inputs1, smallestSnapshot, deeper
                         \* the running compaction

compactionVars == <<cpc, clevel, inputs0, inputs1, smallestSnapshot, deeper>>
vars == <<hist, mem, imm, level0, levels, snapshots, compactionVars>>

Entries == 1..MaxSeq
LastSequence == Len(hist)
File == SUBSET Entries \ {{}}

Init ==
    /\ hist = <<>> /\ mem = {} /\ imm = {}
    /\ level0 = <<>> /\ levels = [l \in 1..Top |-> {}]
    /\ snapshots = {}
    /\ cpc = "idle" /\ clevel = 0 /\ inputs0 = {} /\ inputs1 = {}
    /\ smallestSnapshot = 0 /\ deeper = {}

-----------------------------------------------------------------------------
(* InternalKeyComparator: by user key, then newest first. *)
Key(e) == hist[e].key
Before(a, b) == Key(a) < Key(b) \/ (Key(a) = Key(b) /\ a > b)

(* FileMetaData::smallest and largest. *)
Smallest(f) == CHOOSE e \in f : \A x \in f : x = e \/ Before(e, x)
Largest(f) == CHOOSE e \in f : \A x \in f : x = e \/ Before(x, e)
Covers(f, k) == Key(Smallest(f)) <= k /\ k <= Key(Largest(f))

Files(l) == IF l = 0 THEN {level0[i] : i \in DOMAIN level0} ELSE levels[l]

(* The files of level l that overlap the user keys lo..hi. *)
Overlapping(l, lo, hi) ==
    {f \in Files(l) : Key(Largest(f)) >= lo /\ Key(Smallest(f)) <= hi}

(* GetOverlappingInputs.  In level 0 a file that reaches beyond the range  *)
(* widens it and the search restarts: the result is for the least range    *)
(* around lo..hi that no overlapping file leaves.                          *)
GetOverlappingInputs(l, lo, hi) ==
    LET closed(r) == /\ r[1] <= lo /\ r[2] >= hi
                     /\ \A f \in Overlapping(0, r[1], r[2]) :
                          Key(Smallest(f)) >= r[1] /\ Key(Largest(f)) <= r[2]
        ranges == {r \in Keys \X Keys : closed(r)}
        least == CHOOSE r \in ranges :
                   \A q \in ranges : q[1] <= r[1] /\ r[2] <= q[2]
    IN  IF l = 0 THEN Overlapping(0, least[1], least[2])
        ELSE Overlapping(l, lo, hi)

(* A defect: only level 0 is searched for overlapping files. *)
MemTableOutputLevelsUnchecked(f) ==
    IF Overlapping(0, Key(Smallest(f)), Key(Largest(f))) # {} THEN {0}
    ELSE {MaxMemCompactLevel}

(* PickLevelForMemTableOutput: the levels a flushed file f may go to.  It  *)
(* goes deeper while it overlaps nothing there, and may stop early when    *)
(* files two levels down overlap it.                                       *)
MemTableOutputLevels(f) ==
    LET overlap(l) == Overlapping(l, Key(Smallest(f)), Key(Largest(f))) # {}
        clear(l) == \A m \in 0..l : ~overlap(m)
    IN  IF overlap(0) THEN {0}
        ELSE {l \in 0..MaxMemCompactLevel :
                /\ clear(l)
                /\ \/ l = MaxMemCompactLevel \/ overlap(l + 1)
                   \/ l + 2 <= Top /\ overlap(l + 2)}

-----------------------------------------------------------------------------
(* GetRange: the user keys that a set of files spans. *)
Span(fs) == <<Key(Smallest(UNION fs)), Key(Largest(UNION fs))>>

(* A defect: the inputs are taken as they are. *)
NoBoundaryInputs(l, fs) == fs

(* AddBoundaryInputs: as long as the largest key has older entries at the  *)
(* start of another file of the level, that file is added too.             *)
AddBoundaryInputs(l, fs) ==
    LET following(S) == {f \in Files(l) :
                           /\ Key(Smallest(f)) = Key(Largest(UNION S))
                           /\ Before(Largest(UNION S), Smallest(f))}
        next(S) == CHOOSE f \in following(S) : \A g \in following(S) :
                     f = g \/ Before(Smallest(f), Smallest(g))
        grown[n \in 0..Cardinality(Files(l))] ==
            IF n = 0 THEN fs
            ELSE IF following(grown[n - 1]) = {} THEN grown[n - 1]
            ELSE grown[n - 1] \cup {next(grown[n - 1])}
    IN  IF fs = {} THEN fs ELSE grown[Cardinality(Files(l))]

(* The files of level l that the span of fs overlaps, boundaries included. *)
InputsUnder(l, fs) ==
    AddBoundaryInputs(l, GetOverlappingInputs(l, Span(fs)[1], Span(fs)[2]))

(* SetupOtherInputs: the inputs that may result from fs in level l.  They  *)
(* grow in level l when this adds no file of level l + 1 and the total is  *)
(* under the limit.                                                        *)
SetupOtherInputs(l, fs) ==
    LET in0 == AddBoundaryInputs(l, fs)
        in1 == InputsUnder(l + 1, in0)
        more0 == InputsUnder(l, in0 \cup in1)
        more1 == InputsUnder(l + 1, more0)
        expands == /\ in1 # {}
                   /\ Cardinality(more0) > Cardinality(in0)
                   /\ Cardinality(more1) = Cardinality(in1)
    IN  {<<in0, in1>>} \cup (IF expands THEN {<<more0, more1>>} ELSE {})

(* PickCompaction: a size compaction takes the file after the compaction   *)
(* pointer, a seek compaction one that was read too often: any file of any *)
(* level but the last.                                                     *)
PickCompaction(l, f) ==
    SetupOtherInputs(l,
        IF l = 0
        THEN GetOverlappingInputs(0, Key(Smallest(f)), Key(Largest(f)))
        ELSE {f})

(* CompactRange: the files of the range, below level 0 only the first ones *)
(* when they are large.                                                    *)
CompactRange(l, lo, hi) ==
    LET fs == GetOverlappingInputs(l, lo, hi)
        first(f) == {g \in fs : g = f \/ Before(Smallest(g), Smallest(f))}
    IN  UNION {SetupOtherInputs(l, S) :
                 S \in IF l = 0 THEN {fs} \ {{}} ELSE {first(f) : f \in fs}}

-----------------------------------------------------------------------------
(* A write, as one step: it takes the next sequence number and is inserted *)
(* in mem_ (WriteQueue has the steps of it).                               *)
Write(k, type) ==
    /\ LastSequence < MaxSeq
    /\ hist' = Append(hist, [key |-> k, type |-> type])
    /\ mem' = mem \cup {LastSequence + 1}
    /\ UNCHANGED <<imm, level0, levels, snapshots, compactionVars>>

(* MakeRoomForWrite makes mem_ immutable. *)
SwitchMemTable ==
    /\ mem # {} /\ imm = {}
    /\ imm' = mem /\ mem' = {}
    /\ UNCHANGED <<hist, level0, levels, snapshots, compactionVars>>

(* CompactMemTable: imm_ becomes a file of the level that is chosen for    *)
(* it.  The background thread does this first, and also between two keys   *)
(* of a compaction.                                                        *)
CompactMemTable ==
    /\ imm # {}
    /\ \E l \in MemTableOutputLevels(imm) :
         IF l = 0
         THEN level0' = Append(level0, imm) /\ UNCHANGED levels
         ELSE /\ levels' = [levels EXCEPT ![l] = @ \cup {imm}]
              /\ UNCHANGED level0
    /\ imm' = {}
    /\ UNCHANGED <<hist, mem, snapshots, compactionVars>>

GetSnapshot ==
    /\ Cardinality(snapshots) < MaxSnapshots
    /\ snapshots' = snapshots \cup {LastSequence}
    /\ UNCHANGED <<hist, mem, imm, level0, levels, compactionVars>>

ReleaseSnapshot(s) ==
    /\ snapshots' = snapshots \ {s}
    /\ UNCHANGED <<hist, mem, imm, level0, levels, compactionVars>>

-----------------------------------------------------------------------------
(* VersionSet::Builder: the version without the inputs of level l and      *)
(* l + 1 and with new files in level l + 1.                                *)
Install(l, in0, in1, new) ==
    /\ level0' = IF l = 0 THEN SelectSeq(level0, LAMBDA f : f \notin in0)
                 ELSE level0
    /\ levels' = [m \in 1..Top |->
                     CASE m = l     -> levels[m] \ in0
                       [] m = l + 1 -> (levels[m] \ in1) \cup new
                       [] OTHER     -> levels[m]]

(* A defect: the newest snapshot bounds what may be dropped. *)
NewestSnapshot ==
    IF snapshots = {} THEN LastSequence
    ELSE CHOOSE s \in snapshots : \A t \in snapshots : s >= t

(* The smallest_snapshot of DoCompactionWork. *)
SmallestSnapshot ==
    IF snapshots = {} THEN LastSequence
    ELSE CHOOSE s \in snapshots : \A t \in snapshots : s <= t

(* DoCompactionWork up to the point where it releases the mutex. *)
StartWork(l, in0, in1) ==
    /\ cpc' = "work" /\ clevel' = l
    /\ inputs0' = in0 /\ inputs1' = in1
    /\ smallestSnapshot' = SmallestSnapshot
    /\ deeper' = UNION {levels[m] : m \in (l + 2)..Top}
    /\ UNCHANGED <<level0, levels>>

(* IsTrivialMove, up to the size of the grandparents. *)
MovesTrivially(in0, in1) == Cardinality(in0) = 1 /\ in1 = {}

(* A single file that meets none in the next level. *)
TrivialMove(l, in0, in1) ==
    /\ MovesTrivially(in0, in1)
    /\ Install(l, in0, {}, in0)
    /\ UNCHANGED compactionVars

(* The grandparents that the inputs overlap, limiting a move. *)
Grandparents(l, in0, in1) ==
    IF l + 2 > Top THEN {}
    ELSE Overlapping(l + 2, Span(in0 \cup in1)[1], Span(in0 \cup in1)[2])

(* BackgroundCompaction with a compaction that PickCompaction chose. *)
AutomaticCompaction(l, f) ==
    /\ cpc = "idle" /\ imm = {}
    /\ \E in \in PickCompaction(l, f) :
         \/ TrivialMove(l, in[1], in[2])
         \/ /\ \/ ~MovesTrivially(in[1], in[2])
               \/ Grandparents(l, in[1], in[2]) # {}
            /\ StartWork(l, in[1], in[2])
    /\ UNCHANGED <<hist, mem, imm, snapshots>>

(* BackgroundCompaction with a manual compaction, which never only moves. *)
ManualCompaction(l, lo, hi) ==
    /\ cpc = "idle" /\ imm = {}
    /\ \E in \in CompactRange(l, lo, hi) : StartWork(l, in[1], in[2])
    /\ UNCHANGED <<hist, mem, imm, snapshots>>

-----------------------------------------------------------------------------
(* IsBaseLevelForKey: no file below the output level, in the version that  *)
(* the compaction started from, can hold the key.                          *)
IsBaseLevelForKey(k) == \A f \in deeper : ~Covers(f, k)

(* The entries among S of newer writes to the key of e. *)
NewerOf(S, e) == {x \in S : Key(x) = Key(e) /\ x > e}

(* Two defects: a deletion is dropped at any level, and an entry is        *)
(* dropped as soon as any newer one is there.                              *)
DropsAllDeletions(S, e) ==
    \/ \E x \in NewerOf(S, e) : x <= smallestSnapshot
    \/ hist[e].type = "deletion" /\ e <= smallestSnapshot
DropsShadowed(S, e) ==
    \/ NewerOf(S, e) # {}
    \/ hist[e].type = "deletion" /\ e <= smallestSnapshot
       /\ IsBaseLevelForKey(Key(e))

(* The drop rules of DoCompactionWork for an entry e of the inputs S.  By  *)
(* rule (A) the next newer entry, last_sequence_for_key, hides e when the  *)
(* smallest snapshot sees it.                                              *)
Drops(S, e) ==
    \/ \E x \in NewerOf(S, e) :
         /\ \A y \in NewerOf(S, e) : x <= y
         /\ x <= smallestSnapshot
    \/ /\ hist[e].type = "deletion"
       /\ e <= smallestSnapshot
       /\ IsBaseLevelForKey(Key(e))

(* A defect: a file is finished even when every entry was dropped. *)
OutputsEvenIfEmpty(S, cuts) == {S}

(* The output files when the entries S are written in order and a file is  *)
(* finished after each entry of cuts, and after the last.  ShouldStopBefore *)
(* and the file size limit may end a file anywhere.                        *)
Outputs(S, cuts) ==
    LET ends == cuts \cup {Largest(S)}
        upTo(c) == {e \in S : e = c \/ Before(e, c)}
        earlier(c) == UNION {upTo(d) : d \in {x \in ends : Before(x, c)}}
    IN  IF S = {} THEN {} ELSE {upTo(c) \ earlier(c) : c \in ends}

Idle ==
    /\ cpc' = "idle" /\ clevel' = 0 /\ inputs0' = {} /\ inputs1' = {}
    /\ smallestSnapshot' = 0 /\ deeper' = {}

(* The rest of DoCompactionWork, with InstallCompactionResults. *)
FinishCompaction ==
    /\ cpc = "work"
    /\ LET S == UNION (inputs0 \cup inputs1)
           kept == {e \in S : ~Drops(S, e)}
       IN  \E cuts \in SUBSET kept :
             /\ Install(clevel, inputs0, inputs1, Outputs(kept, cuts))
             /\ Idle
    /\ UNCHANGED <<hist, mem, imm, snapshots>>

(* A compaction that fails is cleaned up and leaves the version as it is. *)
FailCompaction ==
    /\ cpc = "work"
    /\ Idle
    /\ UNCHANGED <<hist, mem, imm, level0, levels, snapshots>>

Next ==
    \/ \E k \in Keys, type \in {"value", "deletion"} : Write(k, type)
    \/ SwitchMemTable
    \/ CompactMemTable
    \/ GetSnapshot
    \/ \E s \in snapshots : ReleaseSnapshot(s)
    \/ \E l \in 0..(Top - 1) : \E f \in Files(l) : AutomaticCompaction(l, f)
    \/ \E r \in ManualRequests : ManualCompaction(r[1], r[2], r[3])
    \/ FinishCompaction
    \/ FailCompaction

Spec == Init /\ [][Next]_vars

-----------------------------------------------------------------------------
(* The newest entry of key k in S that a read at sequence number s sees. *)
Newest(S, k, s) ==
    LET seen == {e \in S : Key(e) = k /\ e <= s}
    IN  IF seen = {} THEN 0 ELSE CHOOSE e \in seen : \A x \in seen : x <= e

(* FindFile: the first file of a sorted level whose largest key is not     *)
(* before the read of k at s; none, or one that starts after k, gives      *)
(* nothing.                                                                *)
FindInLevel(l, k, s) ==
    LET reaches(f) == \/ Key(Largest(f)) > k
                      \/ Key(Largest(f)) = k /\ Largest(f) <= s
        first(f) == /\ reaches(f)
                    /\ \A g \in levels[l] \ {f} :
                         reaches(g) => Before(Smallest(f), Smallest(g))
    IN  IF \E f \in levels[l] : reaches(f)
        THEN Newest(CHOOSE f \in levels[l] : first(f), k, s)
        ELSE 0

(* DBImpl::Get and Version::Get: mem_, imm_, level 0 from the newest file, *)
(* then level after level; the first entry found decides.  The result is   *)
(* the write whose value is read, 0 for a key that is not found.           *)
Get(k, s) ==
    LET n == Len(level0)
        sources == <<Newest(mem, k, s), Newest(imm, k, s)>>
                   \o [i \in 1..n |-> Newest(level0[n + 1 - i], k, s)]
                   \o [l \in 1..Top |-> FindInLevel(l, k, s)]
        found == SelectSeq(sources, LAMBDA e : e # 0)
    IN  IF found # <<>> /\ hist[Head(found)].type = "value"
        THEN Head(found)
        ELSE 0

-----------------------------------------------------------------------------
(* Types: entries are writes that happened, files are not empty, the       *)
(* inputs of a compaction are files.                                       *)
TypeOK ==
    /\ hist \in Seq([key : Keys, type : {"value", "deletion"}])
    /\ LastSequence <= MaxSeq
    /\ mem \subseteq 1..LastSequence /\ imm \subseteq 1..LastSequence
    /\ level0 \in Seq(File)
    /\ levels \in [1..Top -> SUBSET File]
    /\ snapshots \subseteq 0..LastSequence
    /\ cpc \in {"idle", "work"} /\ clevel \in 0..(Top - 1)
    /\ inputs0 \subseteq File /\ inputs1 \subseteq File
    /\ smallestSnapshot \in 0..LastSequence
    /\ deeper \subseteq File

(* doc/impl.md: the files of a level other than 0 "have distinct           *)
(* non-overlapping key ranges", which Builder::MaybeAddFile asserts for    *)
(* the internal keys and FindFile's binary search relies on.  Flushes,     *)
(* moves and compactions with a flush in the middle all have to keep it.   *)
LevelsDisjoint ==
    \A l \in 1..Top : \A f, g \in levels[l] :
        \/ f = g
        \/ Before(Largest(f), Smallest(g)) \/ Before(Largest(g), Smallest(f))

(* Newer entries of a key lie above older ones: in mem_, imm_, level 0     *)
(* from the newest file, then level after level.  Get stops at the first   *)
(* entry it finds and drop rule (A) relies on it.                          *)
NewerAbove ==
    LET n == Len(level0)
        places == <<mem, imm>> \o [i \in 1..n |-> level0[n + 1 - i]]
                  \o [l \in 1..Top |-> UNION levels[l]]
    IN  \A i, j \in DOMAIN places : i < j =>
          \A a \in places[i], b \in places[j] : Key(a) = Key(b) => a > b

(* A read at the last sequence number or at a live snapshot returns the    *)
(* newest write to the key up to there: what compactions drop, and where   *)
(* they and flushes put the rest, never shows.                             *)
GetCorrect ==
    \A k \in Keys, s \in snapshots \cup {LastSequence} :
        LET e == Newest(1..LastSequence, k, s)
        IN  Get(k, s) = IF e # 0 /\ hist[e].type = "value" THEN e ELSE 0

Abstract == INSTANCE SnapshotStore WITH
    store <- [k \in Keys |-> Get(k, LastSequence)],
    writes <- LastSequence,
    taken <- snapshots,
    views <- [s \in snapshots |-> [k \in Keys |-> Get(k, s)]]

(* The levels implement a store with snapshots: no flush, move, compaction *)
(* or failure changes what any Get returns, and a write changes one key.   *)
ImplementsStore == Abstract!Spec

-----------------------------------------------------------------------------
(* Manual compactions for TLC: of single keys, whose inputs have no gap,   *)
(* and of all of level 1.                                                  *)
SingleKeys == {<<l, k, k>> : l \in {0, 1}, k \in Keys}
WholeLevel == {<<1, 1, 3>>}
=============================================================================
