----------------------------- MODULE Lifetimes ------------------------------
(***************************************************************************)
(* The objects of an open database that are deleted with their last        *)
(* reference: memtables, versions and the FileMetaData that versions share *)
(* (leveldb/db/db_impl.cc, version_set.cc, memtable.h).  Reads and         *)
(* iterators use them without the mutex while the writer switches the      *)
(* memtable and the background thread installs new versions, which it      *)
(* builds before it gives up the mutex to log them.  Every action is one   *)
(* section under the mutex.  A deleted object's place may be used again.   *)
(***************************************************************************)
EXTENDS Integers, FiniteSets, FiniteSetsExt

CONSTANTS
    Getters, Iterators,           \* calls of Get, and iterators, that may exist at once
    MemTables, Versions, Metas,   \* the places for objects: numbers
    None

VARIABLES
    mem, imm,      \* mem_ and imm_
    mrefs,         \* memtable -> refs_, 0 where there is none
    current,       \* current_
    objects,       \* refs: version -> refs_; files: version -> its FileMetaData;
                   \* metas: FileMetaData -> refs
    pinned,        \* reader -> what it has references to, if any
    built,         \* the version LogAndApply is logging, or None
    flush,         \* CompactMemTable: where it is, and its base
    work,          \* BackgroundCompaction: where it is, input_version_ and inputs_
    bgError, closing

lifeVars == <<mem, imm, mrefs, current, objects, pinned, built, flush, work, bgError, closing>>

NoPins  == [mem |-> None, imm |-> None, version |-> None]
NoFlush == [at |-> "idle", base |-> None]
NoWork  == [at |-> "idle", version |-> None, inputs |-> {}]

\* A new database: one memtable, and one version without files.
LifeInit ==
    /\ mem = Min(MemTables) /\ imm = None
    /\ mrefs = [m \in MemTables |-> IF m = mem THEN 1 ELSE 0]
    /\ current = Min(Versions)
    /\ objects = [refs  |-> [v \in Versions |-> IF v = current THEN 1 ELSE 0],
                  files |-> [v \in Versions |-> {}],
                  metas |-> [f \in Metas |-> 0]]
    /\ pinned = [r \in Getters \cup Iterators |-> NoPins]
    /\ built = None /\ flush = NoFlush /\ work = NoWork
    /\ bgError = FALSE /\ closing = FALSE

Readers == Getters \cup Iterators
Present(x) == {x} \ {None}

Ref(refs, S)   == [x \in DOMAIN refs |-> IF x \in S THEN refs[x] + 1 ELSE refs[x]]
Unref(refs, S) == [x \in DOMAIN refs |-> IF x \in S THEN refs[x] - 1 ELSE refs[x]]

RefVersion(o, v) == [o EXCEPT !.refs = Ref(@, {v})]

\* ~Version: the files lose a reference each.
DeleteVersion(o, v) == [o EXCEPT !.files[v] = {}, !.metas = Unref(@, o.files[v])]

UnrefVersion(o, v) ==
    LET less == [o EXCEPT !.refs = Unref(@, {v})]
    IN  IF less.refs[v] = 0 THEN DeleteVersion(less, v) ELSE less

FreeVersions(o) == {v \in Versions : o.refs[v] = 0}
FreeMetas(o)    == {f \in Metas : o.metas[f] = 0}

\* Builder: Apply makes the added files with one reference, SaveTo adds one for each
\* file of the version, and ~Builder drops those of Apply.  The reference it has to
\* its base, the current version, comes and goes in the same section.
ApplyEdit(metas, added) == [f \in Metas |-> IF f \in added THEN 1 ELSE metas[f]]
SaveTo(metas, files)    == Ref(metas, files)
BuilderKeeps(metas, added) == metas                    \* a defect: ~Builder keeps them
BuilderDone(metas, added) == Unref(metas, added)

Build(o, v, deleted, added) ==
    LET files == (o.files[current] \ deleted) \cup added
    IN  [o EXCEPT !.files[v] = files,
                  !.metas = BuilderDone(SaveTo(ApplyEdit(@, added), files), added)]

\* LogAndApply up to the unlock; the edit may add a file.
LogAndApply(o, deleted, adds) ==
    /\ FreeVersions(o) # {} /\ FreeMetas(o) # {}
    /\ built' = Min(FreeVersions(o))
    /\ objects' = Build(o, built', deleted, IF adds THEN {Min(FreeMetas(o))} ELSE {})

AppendVersion(o, v) == RefVersion(UnrefVersion(o, current), v)

-----------------------------------------------------------------------------
Pin(r) ==
    /\ pinned[r] = NoPins /\ ~closing
    /\ mrefs' = Ref(mrefs, {mem} \cup Present(imm))
    /\ objects' = RefVersion(objects, current)
    /\ pinned' = [pinned EXCEPT ![r] = [mem |-> mem, imm |-> imm, version |-> current]]
    /\ UNCHANGED <<mem, imm, current, built, flush, work, bgError, closing>>

Unpin(r) ==
    /\ pinned[r] # NoPins
    /\ mrefs' = Unref(mrefs, {pinned[r].mem} \cup Present(pinned[r].imm))
    /\ objects' = UnrefVersion(objects, pinned[r].version)
    /\ pinned' = [pinned EXCEPT ![r] = NoPins]
    /\ UNCHANGED <<mem, imm, current, built, flush, work, bgError, closing>>

\* DBImpl::Get up to the unlock, and after its search.
GetStart(g) == Pin(g)
GetEnd(g)   == Unpin(g)

\* NewInternalIterator, and the cleanup function ~Iterator runs.
NewIterator(i)          == Pin(i)
CleanupIteratorState(i) == Unpin(i)

\* MakeRoomForWrite: imm_ takes over the reference of mem_.
SwitchMemTable ==
    /\ imm = None /\ ~closing /\ ~bgError
    /\ \E m \in MemTables : mrefs[m] = 0
    /\ imm' = mem
    /\ mem' = Min({m \in MemTables : mrefs[m] = 0})
    /\ mrefs' = Ref(mrefs, {mem'})
    /\ UNCHANGED <<current, objects, pinned, built, flush, work, bgError, closing>>

-----------------------------------------------------------------------------
\* CompactMemTable up to the unlock in WriteLevel0Table, called by BackgroundCompaction
\* or in the loop of DoCompactionWork.
FlushStart ==
    /\ flush.at = "idle" /\ imm # None
    /\ work.at = "merging" \/ (work.at = "idle" /\ ~bgError /\ ~closing)
    /\ flush' = [at |-> "building", base |-> current]
    /\ objects' = RefVersion(objects, current)
    /\ UNCHANGED <<mem, imm, mrefs, current, pinned, built, work, bgError, closing>>

\* The table is written; one without entries is not part of the edit.
FlushLog(adds) ==
    /\ flush.at = "building" /\ ~closing
    /\ LogAndApply(UnrefVersion(objects, flush.base), {}, adds)
    /\ flush' = [at |-> "logging", base |-> None]
    /\ UNCHANGED <<mem, imm, mrefs, current, pinned, work, bgError, closing>>

\* BuildTable failed, or the database is being closed.
FlushFails ==
    /\ flush.at = "building"
    /\ objects' = UnrefVersion(objects, flush.base)
    /\ flush' = NoFlush /\ bgError' = TRUE
    /\ UNCHANGED <<mem, imm, mrefs, current, pinned, built, work, closing>>

FlushInstall ==
    /\ flush.at = "logging"
    /\ objects' = AppendVersion(objects, built) /\ current' = built
    /\ mrefs' = Unref(mrefs, {imm}) /\ imm' = None
    /\ flush' = NoFlush /\ built' = None
    /\ UNCHANGED <<mem, pinned, work, bgError, closing>>

\* The descriptor could not be written: LogAndApply deletes the version.
FlushLogFails ==
    /\ flush.at = "logging"
    /\ objects' = DeleteVersion(objects, built)
    /\ flush' = NoFlush /\ built' = None /\ bgError' = TRUE
    /\ UNCHANGED <<mem, imm, mrefs, current, pinned, work, closing>>

-----------------------------------------------------------------------------
CanCompact == flush.at = "idle" /\ work.at = "idle" /\ imm = None /\ ~bgError /\ ~closing
PinsNothing(o) == o                                    \* a defect: input_version_ not pinned
PinInputs(o) == RefVersion(o, current)

\* PickCompaction or CompactRange chose the inputs; DoCompactionWork unlocks.
CompactionStart(inputs) ==
    /\ CanCompact /\ inputs # {} /\ inputs \subseteq objects.files[current]
    /\ objects' = PinInputs(objects)
    /\ work' = [at |-> "merging", version |-> current, inputs |-> inputs]
    /\ UNCHANGED <<mem, imm, mrefs, current, pinned, built, flush, bgError, closing>>

\* A trivial move: the file leaves its level and enters the next as a new object.
TrivialMove(f) ==
    /\ CanCompact /\ f \in objects.files[current]
    /\ LogAndApply(PinInputs(objects), {f}, TRUE)
    /\ work' = [at |-> "logging", version |-> current, inputs |-> {f}]
    /\ UNCHANGED <<mem, imm, mrefs, current, pinned, flush, bgError, closing>>

\* InstallCompactionResults, with AddInputDeletions.
CompactionLog(adds) ==
    /\ work.at = "merging" /\ flush.at = "idle"
    /\ LogAndApply(objects, work.inputs, adds)
    /\ work' = [work EXCEPT !.at = "logging"]
    /\ UNCHANGED <<mem, imm, mrefs, current, pinned, flush, bgError, closing>>

\* ReleaseInputs, or ~Compaction after a trivial move.
ReleaseInputs(o) == UnrefVersion(o, work.version)

CompactionFails ==
    /\ work.at = "merging" /\ flush.at = "idle"
    /\ objects' = ReleaseInputs(objects)
    /\ work' = NoWork /\ bgError' = TRUE
    /\ UNCHANGED <<mem, imm, mrefs, current, pinned, built, flush, closing>>

CompactionInstall ==
    /\ work.at = "logging"
    /\ objects' = ReleaseInputs(AppendVersion(objects, built)) /\ current' = built
    /\ work' = NoWork /\ built' = None
    /\ UNCHANGED <<mem, imm, mrefs, pinned, flush, bgError, closing>>

CompactionLogFails ==
    /\ work.at = "logging"
    /\ objects' = ReleaseInputs(DeleteVersion(objects, built))
    /\ work' = NoWork /\ built' = None /\ bgError' = TRUE
    /\ UNCHANGED <<mem, imm, mrefs, current, pinned, flush, closing>>

-----------------------------------------------------------------------------
\* ~DBImpl: a client deletes its iterators before the database.
CloseStart ==
    /\ ~closing /\ \A r \in Readers : pinned[r] = NoPins
    /\ closing' = TRUE
    /\ UNCHANGED <<mem, imm, mrefs, current, objects, pinned, built, flush, work, bgError>>

\* No background work is left: ~VersionSet, and the memtables.
Close ==
    /\ closing /\ current # None /\ flush.at = "idle" /\ work.at = "idle"
    /\ objects' = UnrefVersion(objects, current) /\ current' = None
    /\ mrefs' = Unref(mrefs, {mem} \cup Present(imm))
    /\ mem' = None /\ imm' = None
    /\ UNCHANGED <<pinned, built, flush, work, bgError, closing>>

LifeNext ==
    \/ \E g \in Getters : GetStart(g) \/ GetEnd(g)
    \/ \E i \in Iterators : NewIterator(i) \/ CleanupIteratorState(i)
    \/ SwitchMemTable \/ FlushStart \/ FlushFails \/ FlushInstall \/ FlushLogFails
    \/ \E adds \in BOOLEAN : FlushLog(adds) \/ CompactionLog(adds)
    \/ \E inputs \in SUBSET Metas : CompactionStart(inputs)
    \/ \E f \in Metas : TrivialMove(f)
    \/ CompactionFails \/ CompactionInstall \/ CompactionLogFails
    \/ CloseStart \/ Close

LifeSpec == LifeInit /\ [][LifeNext]_lifeVars

-----------------------------------------------------------------------------
(* Types: counts never go below zero, and the background thread is in one  *)
(* place.                                                                  *)
LifeTypeOK ==
    /\ mem \in MemTables \cup {None} /\ imm \in MemTables \cup {None}
    /\ mrefs \in [MemTables -> Nat]
    /\ current \in Versions \cup {None} /\ built \in Versions \cup {None}
    /\ objects.refs \in [Versions -> Nat]
    /\ objects.files \in [Versions -> SUBSET Metas]
    /\ objects.metas \in [Metas -> Nat]
    /\ flush.at \in {"idle", "building", "logging"} /\ work.at \in {"idle", "merging", "logging"}

Uses(x, S) == IF x \in S THEN 1 ELSE 0
PinnedBy(field(_), x) == Cardinality({r \in Readers : x \in field(pinned[r])})

(* Every count is the number of those who use the object: a memtable or a  *)
(* version that Get, an iterator, a flush or a compaction still uses is    *)
(* not deleted under it (Unref in db_impl.cc and version_set.cc), and one  *)
(* that nobody uses any more is deleted.                                   *)
RefsExact ==
    /\ \A m \in MemTables :
         LET tables(p) == {p.mem, p.imm}
         IN  mrefs[m] = Uses(m, {mem}) + Uses(m, {imm}) + PinnedBy(tables, m)
    /\ \A v \in Versions :
         LET version(p) == {p.version}
         IN  objects.refs[v] = Uses(v, {current}) + Uses(v, {flush.base}) + Uses(v, {work.version})
                               + PinnedBy(version, v)
    /\ \A f \in Metas : objects.metas[f] = Cardinality({v \in Versions : f \in objects.files[v]})

(* The inputs of a compaction are read without the mutex and named again   *)
(* when its result is installed or logged: their FileMetaData exist until  *)
(* then, whatever was flushed and installed meanwhile.                     *)
InputsExist ==
    /\ work.version # None => work.inputs \subseteq objects.files[work.version]
    /\ built # None => objects.refs[built] = 0 /\ built # current

(* ~VersionSet asserts that no version is left; nothing else is either.    *)
NothingLeaked ==
    current = None => /\ \A m \in MemTables : mrefs[m] = 0
                      /\ \A v \in Versions : objects.refs[v] = 0 /\ objects.files[v] = {}
                      /\ \A f \in Metas : objects.metas[f] = 0
=============================================================================
