------------------------------- MODULE LRUOps -------------------------------
(***************************************************************************)
(* One shard of the LRU cache (util/cache.cc), as operators from a cache   *)
(* to a cache.  Every operation of a shard runs under its mutex, so that   *)
(* each is one step of whoever calls it.                                   *)
(*                                                                         *)
(* A cache is a record: entries maps the handles that are not freed to     *)
(* [key, charge, refs, inCache]; lru is the list from the oldest to the    *)
(* newest, inUse the other list, whose order means nothing; table is the   *)
(* hash table, length and buckets of handles; usage is the sum of charges. *)
(***************************************************************************)
EXTENDS Integers, Sequences, FiniteSets

CONSTANTS Capacity, Hash, MinLength   \* Hash: key -> number; MinLength: 4

EmptyTable == [length |-> MinLength, elems |-> 0,
               list |-> [b \in 0..(MinLength - 1) |-> <<>>]]
EmptyCache == [entries |-> <<>>, lru |-> <<>>, inUse |-> {}, table |-> EmptyTable,
               usage |-> 0]

Without(s, e) == SelectSeq(s, LAMBDA x : x # e)
RangeOf(s) == {s[i] : i \in DOMAIN s}

-----------------------------------------------------------------------------
(* The hash table *)
Bucket(c, k) == Hash[k] % c.table.length

(* FindPointer: the entry of the bucket with this key, 0 if there is none. *)
FindPointerInBucket(c, k) ==               \* a defect: does not compare the key
    IF c.table.list[Bucket(c, k)] = <<>> THEN 0 ELSE c.table.list[Bucket(c, k)][1]
FindPointer(c, k) ==
    LET hits == {e \in RangeOf(c.table.list[Bucket(c, k)]) : c.entries[e].key = k}
    IN  IF hits = {} THEN 0 ELSE CHOOSE e \in hits : TRUE

(* Resize: the entries of the old buckets, in order, each put in front.    *)
NewLength(elems) ==
    LET fits == {n \in {MinLength * 2^i : i \in 0..elems} : n >= elems}
    IN  CHOOSE n \in fits : \A m \in fits : n <= m

ResizeFirst(c) ==                          \* a defect: one entry of each bucket only
    LET new == NewLength(c.table.elems)
        put[b \in 0..(new - 1)] ==
            SelectSeq([i \in 1..c.table.length |-> IF c.table.list[i - 1] = <<>> THEN 0
                                                   ELSE c.table.list[i - 1][1]],
                      LAMBDA e : e # 0 /\ Hash[c.entries[e].key] % new = b)
    IN  [c EXCEPT !.table = [length |-> new, elems |-> c.table.elems, list |-> put]]
Resize(c) ==
    LET new == NewLength(c.table.elems)
        all[i \in 0..c.table.length] ==
            IF i = 0 THEN <<>> ELSE all[i - 1] \o c.table.list[i - 1]
        old == all[c.table.length]
        n == Len(old)
        put[b \in 0..(new - 1)] ==
            SelectSeq([i \in 1..n |-> old[n + 1 - i]],
                      LAMBDA e : Hash[c.entries[e].key] % new = b)
    IN  [c EXCEPT !.table = [length |-> new, elems |-> c.table.elems, list |-> put]]

(* An entry with the same key is replaced in its place. *)
TableInsert(c, e) ==
    LET b == Bucket(c, c.entries[e].key)
        old == FindPointer(c, c.entries[e].key)
        bucket == c.table.list[b]
        replaced == [i \in DOMAIN bucket |-> IF bucket[i] = old THEN e ELSE bucket[i]]
        grown == [c EXCEPT !.table.list[b] = Append(bucket, e), !.table.elems = @ + 1]
    IN  IF old # 0 THEN [c EXCEPT !.table.list[b] = replaced]
        ELSE IF grown.table.elems > grown.table.length THEN Resize(grown) ELSE grown

TableRemove(c, k) ==
    LET e == FindPointer(c, k)
    IN  IF e = 0 THEN c
        ELSE [c EXCEPT !.table.list[Bucket(c, k)] = Without(@, e), !.table.elems = @ - 1]

-----------------------------------------------------------------------------
(* References *)
RefMoved(c, e) ==                          \* a defect: moves, but does not count
    IF c.entries[e].refs = 1 /\ c.entries[e].inCache
    THEN [c EXCEPT !.lru = Without(@, e), !.inUse = @ \cup {e}] ELSE c
Ref(c, e) ==
    LET moved == IF c.entries[e].refs = 1 /\ c.entries[e].inCache
                 THEN [c EXCEPT !.lru = Without(@, e), !.inUse = @ \cup {e}] ELSE c
    IN  [moved EXCEPT !.entries[e].refs = @ + 1]

UnrefOldest(c, e) ==                       \* a defect: becomes the oldest entry
    LET less == [c EXCEPT !.entries[e].refs = @ - 1]
        n == less.entries[e].refs
    IN  IF n = 0 THEN [less EXCEPT !.entries = [x \in DOMAIN @ \ {e} |-> @[x]]]
        ELSE IF less.entries[e].inCache /\ n = 1
        THEN [less EXCEPT !.inUse = @ \ {e}, !.lru = <<e>> \o Without(@, e)]
        ELSE less
Unref(c, e) ==
    LET less == [c EXCEPT !.entries[e].refs = @ - 1]
        n == less.entries[e].refs
    IN  IF n = 0 THEN [less EXCEPT !.entries = [x \in DOMAIN @ \ {e} |-> @[x]]]
        ELSE IF less.entries[e].inCache /\ n = 1
        THEN [less EXCEPT !.inUse = @ \ {e}, !.lru = Append(Without(@, e), e)]
        ELSE less

FinishEraseCharged(c, e) ==                \* a defect: usage keeps the charge
    IF e = 0 THEN c
    ELSE Unref([c EXCEPT !.lru = Without(@, e), !.inUse = @ \ {e},
                         !.entries[e].inCache = FALSE], e)
FinishErase(c, e) ==
    IF e = 0 THEN c
    ELSE Unref([c EXCEPT !.lru = Without(@, e), !.inUse = @ \ {e},
                         !.entries[e].inCache = FALSE,
                         !.usage = @ - c.entries[e].charge], e)

EraseKey(c, k) == FinishErase(TableRemove(c, k), FindPointer(c, k))

(* The while loops of Insert and Prune: the oldest go until it fits, or    *)
(* until none is left.                                                     *)
Trim(c, capacity) ==
    LET step[i \in 0..Len(c.lru)] ==
            IF i = 0 THEN c
            ELSE IF step[i - 1].usage > capacity
                 THEN LET d == step[i - 1] IN EraseKey(d, d.entries[d.lru[1]].key)
                 ELSE step[i - 1]
    IN  step[Len(c.lru)]

-----------------------------------------------------------------------------
(* The operations of a shard; h is a handle that is not in use. *)
NewHandle(c) == CHOOSE h \in 1..(Cardinality(DOMAIN c.entries) + 1) :
                    h \notin DOMAIN c.entries
InsertUntrimmed(c, h, k, charge) ==        \* a defect: never evicts
    LET e == [key |-> k, charge |-> charge, refs |-> 2, inCache |-> TRUE]
        added == [c EXCEPT !.entries = [x \in DOMAIN @ \cup {h} |-> IF x = h THEN e ELSE @[x]],
                           !.inUse = @ \cup {h}, !.usage = @ + charge]
    IN  FinishErase(TableInsert(added, h), FindPointer(c, k))
Insert(c, h, k, charge) ==
    LET e == [key |-> k, charge |-> charge, refs |-> 1, inCache |-> FALSE]
        added == [c EXCEPT !.entries = [x \in DOMAIN @ \cup {h} |-> IF x = h THEN e ELSE @[x]]]
        cached == [added EXCEPT !.entries[h].refs = 2, !.entries[h].inCache = TRUE,
                                !.inUse = @ \cup {h}, !.usage = @ + charge]
    IN  IF Capacity > 0
        THEN Trim(FinishErase(TableInsert(cached, h), FindPointer(c, k)), Capacity)
        ELSE added

Lookup(c, k) == LET e == FindPointer(c, k) IN IF e = 0 THEN c ELSE Ref(c, e)
Release(c, h) == Unref(c, h)
Erase(c, k) == EraseKey(c, k)
Prune(c) == Trim(c, -1)
=============================================================================
