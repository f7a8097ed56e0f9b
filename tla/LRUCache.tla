------------------------------ MODULE LRUCache ------------------------------
(***************************************************************************)
(* Clients of one shard of the LRU cache: they insert values, look keys    *)
(* up, release the handles they hold, erase keys and prune, in any order.  *)
(***************************************************************************)
EXTENDS LRUOps, Bags, TLC

CONSTANTS Keys, Charges, MaxHeld     \* MaxHeld: bound on the handles held

VARIABLES cache, held, used          \* held: handle -> number of times held;
                                     \* used: keys from least to most recently
                                     \* released or inserted

vars == <<cache, held, used>>
Total(f) == LET S == DOMAIN f IN
    IF S = {} THEN 0 ELSE LET sum[T \in SUBSET S] ==
        IF T = {} THEN 0 ELSE LET x == CHOOSE x \in T : TRUE IN f[x] + sum[T \ {x}]
                          IN sum[S]
Hold(h) == IF h \in DOMAIN held THEN [held EXCEPT ![h] = @ + 1] ELSE held @@ (h :> 1)
Drop(h) == IF held[h] = 1 THEN [x \in DOMAIN held \ {h} |-> held[x]]
           ELSE [held EXCEPT ![h] = @ - 1]

LRUInit == cache = EmptyCache /\ held = <<>> /\ used = <<>>

DoInsert(k, charge) ==
    LET h == NewHandle(cache)
    IN  /\ Total(held) < MaxHeld
        /\ cache' = Insert(cache, h, k, charge)
        /\ held' = Hold(h)
        /\ used' = Without(used, k)

DoLookup(k) ==
    LET e == FindPointer(cache, k)
    IN  /\ Total(held) < MaxHeld /\ e # 0
        /\ cache' = Lookup(cache, k)
        /\ held' = Hold(e)
        /\ used' = Without(used, k)

DoRelease(h) ==
    /\ h \in DOMAIN held
    /\ cache' = Release(cache, h)
    /\ held' = Drop(h)
    /\ used' = IF cache.entries[h].inCache /\ held[h] = 1
               THEN Append(used, cache.entries[h].key) ELSE used

DoErase(k) ==
    /\ cache' = Erase(cache, k)
    /\ used' = Without(used, k)
    /\ UNCHANGED held

DoPrune == cache' = Prune(cache) /\ used' = <<>> /\ UNCHANGED held

LRUNext ==
    \/ \E k \in Keys, charge \in Charges : DoInsert(k, charge)
    \/ \E k \in Keys : DoLookup(k) \/ DoErase(k)
    \/ \E h \in DOMAIN held : DoRelease(h)
    \/ DoPrune

LRUSpec == LRUInit /\ [][LRUNext]_vars

-----------------------------------------------------------------------------
Live == DOMAIN cache.entries
CachedEntries == {e \in Live : cache.entries[e].inCache}

(* Types: the cache, and the handles its callers hold.                     *)
LRUTypeOK ==
    /\ \A e \in Live : cache.entries[e].refs \in Nat \ {0}
    /\ cache.usage \in Nat
    /\ RangeOf(cache.lru) \subseteq Live /\ cache.inUse \subseteq Live

(* No entry is freed while a client holds it, and none stays that nobody   *)
(* can reach: an entry lives exactly as long as the cache or a client      *)
(* refers to it, and its count says how many do.                           *)
RefsAreExact ==
    /\ DOMAIN held \subseteq Live
    /\ \A e \in Live :
         cache.entries[e].refs = (IF e \in DOMAIN held THEN held[e] ELSE 0)
                                 + (IF cache.entries[e].inCache THEN 1 ELSE 0)

(* The two lists: an entry of the cache is on exactly one of them, on the  *)
(* LRU list if and only if no client holds it; the hash table has the same *)
(* entries, each where a look-up will search for it, also after a resize.  *)
ListsPartition ==
    /\ RangeOf(cache.lru) \cap cache.inUse = {}
    /\ RangeOf(cache.lru) \cup cache.inUse = CachedEntries
    /\ RangeOf(cache.lru) = CachedEntries \ DOMAIN held
    /\ Len(cache.lru) = Cardinality(RangeOf(cache.lru))
    /\ \A e \in CachedEntries : FindPointer(cache, cache.entries[e].key) = e
    /\ cache.table.elems = Cardinality(CachedEntries)

(* usage is the charge of the entries in the cache, no more and no less,  *)
(* after any replacement, eviction or erasure; without capacity nothing is *)
(* kept.                                                                   *)
UsageIsCharge ==
    /\ cache.usage = Total([e \in CachedEntries |-> cache.entries[e].charge])
    /\ Capacity = 0 => CachedEntries = {}

(* Capacity: the cache grows beyond it only when everything in it is held  *)
(* by clients.  (Release does not evict: what was held then goes with the  *)
(* next Insert.)                                                           *)
Overfills == cache'.usage > cache.usage /\ cache'.usage > Capacity /\ cache'.lru # <<>>
GrowsWithinCapacity == [][~Overfills]_vars

(* Eviction takes the least recently released first: the LRU list is in    *)
(* the order in which the last handles were given back.                    *)
EvictsOldest ==
    LET order == [i \in DOMAIN cache.lru |-> cache.entries[cache.lru[i]].key]
        expected == SelectSeq(used, LAMBDA k : k \in RangeOf(order))
    IN  order = expected
=============================================================================
