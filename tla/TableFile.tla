----------------------------- MODULE TableFile -----------------------------
(***************************************************************************)
(* One table file of LevelDB: TableBuilder (table/table_builder.cc) writes *)
(* it, with Appends that may fail, and Table (table/table.cc) with         *)
(* TwoLevelIterator (table/two_level_iterator.cc) reads it, with blocks    *)
(* that may be unreadable.  A table is built and then read by one thread,  *)
(* so an action is a whole call.                                           *)
(*                                                                         *)
(* First the keys and blocks: the comparators (util/comparator.cc,         *)
(* db/dbformat.cc), BlockBuilder (table/block_builder.cc), Block::Iter     *)
(* (table/block.cc), the Bloom filter (util/bloom.cc) and the filter block *)
(* (table/filter_block.cc).  An internal key is its bytes, a sequence: the *)
(* bytes of the user key and then the tag, eight bytes that are one        *)
(* element here.  The offset of an entry in its block is its number.       *)
(***************************************************************************)
EXTENDS Integers, Sequences, FiniteSets, SequencesExt, TLC

CONSTANTS
    MaxByte,                 \* 0xff
    MaxTag,                  \* the tag of kMaxSequenceNumber
    RestartInterval,         \* of data blocks; 1 in index blocks
    BloomHash, WordSize,     \* user key -> number below WordSize, 2^32
    Rotated,                 \* the rotation of a hash by 17 bits
    Probes, BitsPerKey,      \* k_ and bits_per_key_
    MinBits,                 \* 64
    kFilterBase

UserKey(ikey) == Front(ikey)
InternalKey(u, tag) == Append(u, tag)

(* BytewiseComparator: less, a prefix first *)
CommonPrefix(a, b) ==
    LET agree == {n \in 0..(IF Len(a) < Len(b) THEN Len(a) ELSE Len(b)) :
                    \A i \in 1..n : a[i] = b[i]}
    IN  CHOOSE n \in agree : \A o \in agree : o <= n
BytesLess(a, b) ==
    \E n \in 0..(Len(b) - 1) :
        /\ n <= Len(a) /\ \A i \in 1..n : a[i] = b[i]
        /\ n = Len(a) \/ (n < Len(a) /\ a[n + 1] < b[n + 1])

(* InternalKeyComparator::Compare: a higher tag first *)
Less(a, b) ==
    \/ BytesLess(UserKey(a), UserKey(b))
    \/ UserKey(a) = UserKey(b) /\ Last(a) > Last(b)

BytesSeparator(start, limit) ==
    LET n == CommonPrefix(start, limit)
    IN  IF n >= Len(start) \/ n >= Len(limit) THEN start
        ELSE IF start[n + 1] < MaxByte /\ start[n + 1] + 1 < limit[n + 1]
        THEN Append(SubSeq(start, 1, n), start[n + 1] + 1) ELSE start
BytesSuccessor(key) ==
    LET i == SelectInSeq(key, LAMBDA byte : byte # MaxByte)
    IN  IF i = 0 THEN key ELSE Append(SubSeq(key, 1, i - 1), key[i] + 1)

(* A shorter user key gets the earliest tag. *)
Shortened(ikey, u) ==
    IF Len(u) < Len(UserKey(ikey)) /\ BytesLess(UserKey(ikey), u)
    THEN InternalKey(u, MaxTag) ELSE ikey
SeparatorOfLimit(start, limit) == limit    \* a defect: the first key of the next block
FindShortestSeparator(start, limit) ==
    Shortened(start, BytesSeparator(UserKey(start), UserKey(limit)))
FindShortSuccessor(ikey) == Shortened(ikey, BytesSuccessor(UserKey(ikey)))

-----------------------------------------------------------------------------
(* BlockBuilder: the entries as written, the entries at which a restart    *)
(* point is, the last key, and the number of entries since the last one.   *)
NewBlock == [entries |-> <<>>, restarts |-> <<1>>, last |-> <<>>, counter |-> 0]

AddEntry(b, key, value, interval) ==
    LET restart == b.counter >= interval
        shared == IF restart THEN 0 ELSE CommonPrefix(b.last, key)
        entry == [shared |-> shared, delta |-> SubSeq(key, shared + 1, Len(key)),
                  value |-> value]
    IN  [entries |-> Append(b.entries, entry),
         restarts |-> IF restart THEN Append(b.restarts, Len(b.entries) + 1)
                      ELSE b.restarts,
         last |-> key,
         counter |-> IF restart THEN 1 ELSE b.counter + 1]

(* In bytes: three lengths, the key with its tag of eight bytes, a value of *)
(* one byte, and the restart array                                          *)
CurrentSizeEstimate(b) ==
    FoldSeq(LAMBDA e, n : n + Len(e.delta) + 11, 4 * Len(b.restarts) + 4, b.entries)

-----------------------------------------------------------------------------
(* Block::Iter over block b is [cur, nxt, ri, key]: the current entry,     *)
(* NextEntryOffset(), restart_index_ and key_.                             *)
End(b) == Len(b.entries) + 1
NumRestarts(b) == Len(b.restarts)
RestartPoint(b, i) == b.restarts[i + 1]
NewIter(b) == [cur |-> End(b), nxt |-> End(b), ri |-> NumRestarts(b), key |-> <<>>]
IterValid(b, it) == it.cur < End(b)
IterValue(b, it) == b.entries[it.cur].value

SeekToRestartPoint(b, it, i) ==
    [it EXCEPT !.key = <<>>, !.ri = i, !.nxt = RestartPoint(b, i)]

(* Whether it parsed an entry shows in Valid(). *)
ParseNextKey(b, it) ==
    LET cur == it.nxt
        e == b.entries[cur]
        passed == {i \in it.ri..(NumRestarts(b) - 1) :
                     i = it.ri \/ RestartPoint(b, i) < cur}
    IN  IF cur >= End(b) THEN [it EXCEPT !.cur = End(b), !.ri = NumRestarts(b)]
        ELSE [cur |-> cur, nxt |-> cur + 1,
              key |-> SubSeq(it.key, 1, e.shared) \o e.delta,
              ri |-> CHOOSE i \in passed : \A o \in passed : o <= i]

(* The loops around it: up to the entry that ends at an offset, and up to  *)
(* the first key that is not less than the target                          *)
RECURSIVE ParseUntil(_, _, _)
ParseUntil(b, it, offset) ==
    LET on == ParseNextKey(b, it)
    IN  IF IterValid(b, on) /\ on.nxt < offset THEN ParseUntil(b, on, offset) ELSE on
RECURSIVE ParseUpTo(_, _, _)
ParseUpTo(b, it, target) ==
    LET on == ParseNextKey(b, it)
    IN  IF IterValid(b, on) /\ Less(on.key, target) THEN ParseUpTo(b, on, target)
        ELSE on

IterSeekToFirst(b, it) == ParseNextKey(b, SeekToRestartPoint(b, it, 0))
IterSeekToLast(b, it) ==
    ParseUntil(b, SeekToRestartPoint(b, it, NumRestarts(b) - 1), End(b))
IterNext(b, it) == ParseNextKey(b, it)

(* Back to a restart point in front of the entry, and forward again *)
IterPrev(b, it) ==
    LET points == {i \in 0..it.ri : RestartPoint(b, i) < it.cur}
    IN  IF points = {} THEN [it EXCEPT !.cur = End(b), !.ri = NumRestarts(b)]
        ELSE LET i == CHOOSE i \in points : \A o \in points : o <= i
             IN  ParseUntil(b, SeekToRestartPoint(b, it, i), it.cur)

(* The binary search for the last restart point with a key < target *)
RECURSIVE SearchRestart(_, _, _, _)
SearchRestart(b, left, right, target) ==
    LET mid == (left + right + 1) \div 2
    IN  IF left >= right THEN left
        ELSE IF Less(b.entries[RestartPoint(b, mid)].delta, target)
        THEN SearchRestart(b, mid, right, target)
        ELSE SearchRestart(b, left, mid - 1, target)

(* The search starts at the current position if that is in the right       *)
(* restart block and in front of the target.                               *)
IterSeek(b, it, target) ==
    LET valid == IterValid(b, it)
        ahead == valid /\ Less(it.key, target)
        behind == valid /\ Less(target, it.key)
        left == SearchRestart(b, IF ahead THEN it.ri ELSE 0,
                              IF behind THEN it.ri ELSE NumRestarts(b) - 1, target)
        from == IF left = it.ri /\ ahead THEN it
                ELSE SeekToRestartPoint(b, it, left)
    IN  IF valid /\ ~ahead /\ ~behind THEN it
        ELSE ParseUpTo(b, from, target)

-----------------------------------------------------------------------------
(* The Bloom filter is [bits, set]: its length, and the bits that are set. *)
ProbesOf(u, bits) ==
    {((BloomHash[u] + j * Rotated[BloomHash[u]]) % WordSize) % bits :
       j \in 0..(Probes - 1)}
CreateFilter(keys) ==
    LET wanted == Cardinality(keys) * BitsPerKey
        bits == (((IF wanted < MinBits THEN MinBits ELSE wanted) + 7) \div 8) * 8
    IN  [bits |-> bits, set |-> UNION {ProbesOf(UserKey(k), bits) : k \in keys}]
EmptyFilter == [bits |-> 0, set |-> {}]
KeyMatchesFilter(ikey, filter) ==
    filter # EmptyFilter /\ ProbesOf(UserKey(ikey), filter.bits) \subseteq filter.set

(* FilterBlockBuilder is [filters, keys]: the filters made, one for each   *)
(* range of kFilterBase offsets, and the keys of the one in the making.    *)
NewFilterBlock == [filters |-> <<>>, keys |-> {}]
GenerateFilter(f) ==
    [filters |-> Append(f.filters, IF f.keys = {} THEN EmptyFilter
                                   ELSE CreateFilter(f.keys)),
     keys |-> {}]
RECURSIVE StartBlock(_, _)
StartBlock(f, offset) ==
    IF offset \div kFilterBase > Len(f.filters)
    THEN StartBlock(GenerateFilter(f), offset) ELSE f
AddKey(f, key) == [f EXCEPT !.keys = @ \cup {key}]
FinishFilter(f) == (IF f.keys # {} THEN GenerateFilter(f) ELSE f).filters

(* FilterBlockReader: without a filter for the offset, a key may match. *)
FilterIndexNext(offset) == (offset \div kFilterBase) + 1   \* a defect: one too far
FilterIndex(offset) == offset \div kFilterBase
KeyMayMatch(filters, offset, key) ==
    FilterIndex(offset) < Len(filters) =>
        KeyMatchesFilter(key, filters[FilterIndex(offset) + 1])

-----------------------------------------------------------------------------
(* The table *)
CONSTANTS
    InternalKeys,            \* the keys that may be added
    BlockSize, TrailerSize,  \* block_size, kBlockTrailerSize
    GoodAppends              \* how many file operations may succeed at most

VARIABLES
    phase,                   \* "build", "closed", "open" or "unreadable"
    builder,                 \* TableBuilder::Rep
    added,                   \* the keys added, in order
    bad,                     \* the offsets of blocks that cannot be read
    rep,                     \* Table::Rep: the index block and the filters
    iter                     \* TwoLevelIterator

tableVars == <<phase, builder, added, bad, rep, iter>>

NoData == [handle |-> -1, err |-> FALSE, at |-> NewIter(NewBlock)]

(* left is the number of file operations that will still succeed. *)
TableInit ==
    /\ phase = "build"
    /\ \E n \in GoodAppends :
         builder = [data |-> NewBlock, index |-> NewBlock, last |-> <<>>,
                    offset |-> 0, pending |-> FALSE, handle |-> 0,
                    filter |-> StartBlock(NewFilterBlock, 0), ok |-> TRUE,
                    file |-> <<>>, left |-> n]
    /\ added = <<>> /\ bad = {}
    /\ rep = [index |-> NewBlock, filtered |-> FALSE, filters |-> <<>>]
    /\ iter = [index |-> NewIter(NewBlock), data |-> NoData, saved |-> FALSE]

-----------------------------------------------------------------------------
(* One file operation of builder r *)
FileOp(r) == IF r.left = 0 THEN [r EXCEPT !.ok = FALSE]
             ELSE [r EXCEPT !.left = @ - 1]

(* The contents, then the trailer; the file grows by both or fails. *)
WriteRawBlock(r, kind, contents, size) ==
    LET first == FileOp(r)
        second == IF first.ok THEN FileOp(first) ELSE first
    IN  IF ~second.ok THEN second
        ELSE [second EXCEPT
                !.offset = @ + size + TrailerSize,
                !.file = @ @@ (r.offset :> [kind |-> kind, contents |-> contents])]

WriteBlock(r, kind, b) == WriteRawBlock(r, kind, b, CurrentSizeEstimate(b))

ResetNot(b) == b                           \* a defect: the block keeps its entries
Reset(b) == NewBlock

Flush(r) ==
    LET w == WriteBlock([r EXCEPT !.handle = r.offset], "data", r.data)
        f == IF w.ok THEN FileOp([w EXCEPT !.pending = TRUE]) ELSE w
    IN  IF ~r.ok \/ r.data.entries = <<>> THEN r
        ELSE [f EXCEPT !.data = Reset(@), !.filter = StartBlock(@, f.offset)]

(* The index entry of the block in front, once the next key is known *)
AddIndexEntryNot(r, key) == [r EXCEPT !.pending = FALSE]   \* a defect
AddIndexEntry(r, key) ==
    IF ~r.pending THEN r
    ELSE [r EXCEPT !.pending = FALSE, !.index = AddEntry(@, key, r.handle, 1)]

Add(k) ==
    LET r == AddIndexEntry(builder, IF builder.pending
                THEN FindShortestSeparator(builder.last, k) ELSE k)
        a == [r EXCEPT !.filter = AddKey(@, k), !.last = k,
                       !.data = AddEntry(@, k, 0, RestartInterval)]
    IN  /\ phase = "build"
        /\ added # <<>> => Less(Last(added), k)
        /\ builder' = IF ~builder.ok THEN builder
                      ELSE IF CurrentSizeEstimate(a.data) >= BlockSize THEN Flush(a)
                      ELSE a
        /\ added' = Append(added, k)
        /\ UNCHANGED <<phase, bad, rep, iter>>

WriteFilter(r) == WriteRawBlock(r, "filter", FinishFilter(r.filter), 1)
WriteMetaIndex(r) == WriteBlock(r, "metaindex", NewBlock)
WriteIndex(r) ==
    LET i == AddIndexEntry(r, IF r.pending THEN FindShortSuccessor(r.last) ELSE r.last)
    IN  WriteBlock(i, "index", i.index)
IfOk(r, Op(_)) == IF r.ok THEN Op(r) ELSE r
Finish ==
    /\ phase = "build" /\ phase' = "closed"
    /\ builder' = IfOk(IfOk(IfOk(IfOk(Flush(builder),
                     WriteFilter), WriteMetaIndex), WriteIndex), FileOp)
    /\ UNCHANGED <<added, bad, rep, iter>>

Abandon ==
    /\ phase = "build" /\ phase' = "closed"
    /\ builder' = [builder EXCEPT !.ok = FALSE]
    /\ UNCHANGED <<added, bad, rep, iter>>

-----------------------------------------------------------------------------
BlockAt(offset) == builder.file[offset].contents
Offsets == DOMAIN builder.file
OffsetOf(kind) == CHOOSE o \in Offsets : builder.file[o].kind = kind
IndexBlock == rep.index

(* Table::Open with ReadMeta and ReadFilter, when the blocks at the offsets *)
(* in unreadable cannot be read: without its filter a table is usable.      *)
Open(unreadable) ==
    /\ phase = "closed" /\ builder.ok
    /\ bad' = unreadable
    /\ IF OffsetOf("index") \in unreadable
       THEN phase' = "unreadable" /\ UNCHANGED <<rep, iter>>
       ELSE LET index == BlockAt(OffsetOf("index"))
                meta == {OffsetOf("metaindex"), OffsetOf("filter")}
            IN  /\ phase' = "open"
                /\ rep' = [index |-> index, filtered |-> meta \cap unreadable = {},
                           filters |-> BlockAt(OffsetOf("filter"))]
                /\ iter' = [iter EXCEPT !.index = NewIter(index)]
    /\ UNCHANGED <<builder, added>>

-----------------------------------------------------------------------------
(* TwoLevelIterator t is [index, data, saved]; data is a block's iterator, *)
(* an error iterator or NoData, saved is whether status_ holds an error.   *)
DataValid(t) ==
    t.data # NoData /\ ~t.data.err /\ IterValid(BlockAt(t.data.handle), t.data.at)
IndexValid(t) == IterValid(IndexBlock, t.index)
OnData(t, Op(_, _)) ==
    IF t.data = NoData \/ t.data.err THEN t
    ELSE [t EXCEPT !.data.at = Op(BlockAt(t.data.handle), @)]

SetDataDropsError(t, d) == [t EXCEPT !.data = d]     \* a defect: SaveError left out
SetDataIterator(t, d) == [t EXCEPT !.data = d, !.saved = @ \/ t.data.err]

(* ReadBlock: the contents, or the error of a read, a checksum or a type *)
ReadBlock(h) == [err |-> h \in bad, contents |-> IF h \in bad THEN NewBlock ELSE BlockAt(h)]
(* BlockReader: an iterator for the block, or an error iterator *)
BlockReader(h) ==
    [handle |-> h, err |-> ReadBlock(h).err, at |-> NewIter(ReadBlock(h).contents)]
InitDataBlock(t) ==
    LET h == IterValue(IndexBlock, t.index)
    IN  IF ~IndexValid(t) THEN SetDataIterator(t, NoData)
        ELSE IF t.data # NoData /\ h = t.data.handle THEN t
        ELSE SetDataIterator(t, BlockReader(h))

RECURSIVE SkipEmptyDataBlocksForward(_)
SkipEmptyDataBlocksForward(t) ==
    IF DataValid(t) THEN t
    ELSE IF ~IndexValid(t) THEN SetDataIterator(t, NoData)
    ELSE SkipEmptyDataBlocksForward(OnData(
           InitDataBlock([t EXCEPT !.index = IterNext(IndexBlock, @)]), IterSeekToFirst))
RECURSIVE SkipEmptyDataBlocksBackward(_)
SkipEmptyDataBlocksBackward(t) ==
    IF DataValid(t) THEN t
    ELSE IF ~IndexValid(t) THEN SetDataIterator(t, NoData)
    ELSE SkipEmptyDataBlocksBackward(OnData(
           InitDataBlock([t EXCEPT !.index = IterPrev(IndexBlock, @)]), IterSeekToLast))

Moves(t) == /\ phase = "open" /\ iter' = t
            /\ UNCHANGED <<phase, builder, added, bad, rep>>
Seek(target) ==
    LET t == InitDataBlock([iter EXCEPT !.index = IterSeek(IndexBlock, @, target)])
    IN  Moves(SkipEmptyDataBlocksForward(
                OnData(t, LAMBDA b, it : IterSeek(b, it, target))))
SeekToFirst ==
    LET t == InitDataBlock([iter EXCEPT !.index = IterSeekToFirst(IndexBlock, @)])
    IN  Moves(SkipEmptyDataBlocksForward(OnData(t, IterSeekToFirst)))
SeekToLast ==
    LET t == InitDataBlock([iter EXCEPT !.index = IterSeekToLast(IndexBlock, @)])
    IN  Moves(SkipEmptyDataBlocksBackward(OnData(t, IterSeekToLast)))
Next == /\ phase = "open" /\ DataValid(iter)
        /\ Moves(SkipEmptyDataBlocksForward(OnData(iter, IterNext)))
Prev == /\ phase = "open" /\ DataValid(iter)
        /\ Moves(SkipEmptyDataBlocksBackward(OnData(iter, IterPrev)))

TableNext ==
    \/ \E k \in InternalKeys : Add(k)
    \/ Finish \/ Abandon
    \/ \E unreadable \in SUBSET Offsets : Open(unreadable)
    \/ \E k \in InternalKeys : Seek(k)
    \/ SeekToFirst \/ SeekToLast \/ Next \/ Prev

TableSpec == TableInit /\ [][TableNext]_tableVars

-----------------------------------------------------------------------------
(* Table::InternalGet: the key given to handle_result, none or an error *)
ErrorKey == <<-1>>
InternalGet(k) ==
    LET i == IterSeek(IndexBlock, NewIter(IndexBlock), k)
        h == IterValue(IndexBlock, i)
        hit == IterSeek(BlockAt(h), NewIter(BlockAt(h)), k)
    IN  IF ~IterValid(IndexBlock, i) THEN <<>>
        ELSE IF rep.filtered /\ ~KeyMayMatch(rep.filters, h, k) THEN <<>>
        ELSE IF h \in bad THEN ErrorKey
        ELSE IF IterValid(BlockAt(h), hit) THEN hit.key ELSE <<>>

(* Table::ApproximateOffsetOf *)
ApproximateOffsetOrZero(k) ==              \* a defect: a key past the end
    LET i == IterSeek(IndexBlock, NewIter(IndexBlock), k)
    IN  IF IterValid(IndexBlock, i) THEN IterValue(IndexBlock, i) ELSE 0
ApproximateOffsetOf(k) ==
    LET i == IterSeek(IndexBlock, NewIter(IndexBlock), k)
    IN  IF IterValid(IndexBlock, i) THEN IterValue(IndexBlock, i)
        ELSE OffsetOf("metaindex")

AddedKeys == {added[i] : i \in DOMAIN added}
(* Types: the builder, the file and the iterator on it.                    *)
TableTypeOK ==
    /\ phase \in {"build", "closed", "open", "unreadable"}
    /\ builder.ok \in BOOLEAN /\ builder.left \in Nat /\ builder.offset \in Nat
    /\ AddedKeys \subseteq InternalKeys /\ iter.saved \in BOOLEAN
    /\ builder.pending => builder.data.entries = <<>>
    /\ bad \subseteq Offsets /\ rep.filtered \in BOOLEAN

(* An iterator changes nothing in the table: what is said of the table     *)
(* alone is said before the iterator is first moved.                       *)
JustOpened == phase = "open" /\ iter.data = NoData /\ ~iter.saved

(* The index splits the keys: the entry of a block is at or after all of   *)
(* its keys and in front of all keys of later blocks, though the           *)
(* comparators shorten it.                                                 *)
IndexSeparates ==
    JustOpened => \A i \in DOMAIN IndexBlock.entries :
        LET key == IndexBlock.entries[i].delta
            block == BlockAt(IndexBlock.entries[i].value)
            RECURSIVE KeysFrom(_)
            KeysFrom(it) == IF IterValid(block, it)
                            THEN {it.key} \cup KeysFrom(IterNext(block, it)) ELSE {}
            own == KeysFrom(IterSeekToFirst(block, NewIter(block)))
            last == CHOOSE k \in own : \A o \in own : ~Less(k, o)
        IN  /\ \A k \in own : ~Less(key, k)
            /\ \A k \in AddedKeys : Less(last, k) => Less(key, k)

(* A key that was added is found: no filter, index entry or restart point  *)
(* hides it, and an unreadable block is an error, never "not found".       *)
GetFindsAll ==
    JustOpened => \A k \in InternalKeys :
        LET later == {a \in AddedKeys : ~Less(a, k)}
            first == CHOOSE a \in later : \A o \in later : ~Less(o, a)
        IN  (later # {} /\ UserKey(first) = UserKey(k)) =>
                InternalGet(k) \in {first, ErrorKey}

(* Offsets estimate monotonically: a later key is never placed in front of *)
(* an earlier one, nor after the end of the file.                          *)
OffsetsGrow ==
    JustOpened => \A k, l \in InternalKeys :
        Less(k, l) => /\ ApproximateOffsetOf(k) <= ApproximateOffsetOf(l)
                      /\ ApproximateOffsetOf(l) <= builder.offset

(* A table that Finish reports as good has all its blocks, and its index   *)
(* names exactly the data blocks.                                          *)
FinishedIsWhole ==
    phase # "build" /\ builder.ok =>
        LET Of(kind) == {o \in Offsets : builder.file[o].kind = kind}
            index == BlockAt(OffsetOf("index"))
        IN  /\ \A kind \in {"filter", "metaindex", "index"} : Cardinality(Of(kind)) = 1
            /\ {index.entries[i].value : i \in DOMAIN index.entries} = Of("data")

(* As long as its status is OK the iterator is a cursor over the keys that *)
(* were added: a block that is passed over shows in the status.            *)
Rank(k) == Cardinality({o \in InternalKeys : ~Less(k, o)})
Cursor == INSTANCE SnapshotCursor
            WITH UserKeys <- {Rank(k) : k \in InternalKeys}, None <- 0,
                 view <- [i \in {Rank(k) : k \in AddedKeys} |-> i],
                 at <- IF DataValid(iter) THEN Rank(iter.data.at.key) ELSE 0
StatusOk == ~iter.saved /\ ~iter.data.err
MovesLikeCursor ==
    phase = "open" /\ StatusOk' =>
        /\ SeekToFirst => Cursor!SeekToFirst
        /\ SeekToLast => Cursor!SeekToLast
        /\ \A k \in InternalKeys : Seek(k) => Cursor!Seek(Rank(k))
        /\ Next => Cursor!Next
        /\ Prev => Cursor!Prev
IteratesTable == [][MovesLikeCursor]_tableVars
=============================================================================
