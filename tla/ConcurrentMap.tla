--------------------------- MODULE ConcurrentMap ---------------------------
(***************************************************************************)
(* The concurrent map of the web crawler (cmap): segments with a lock,     *)
(* each an array of buckets, each the head of a list of linked pairs.      *)
(* Put and Delete hold the segment's lock; Get takes it only to find the   *)
(* bucket and walks the list without it.  When too many buckets are too    *)
(* long the pairs are redistributed over twice as many, in place.          *)
(*                                                                         *)
(* A pointer to a pair is an index of heap, 0 is nil (and the placeholder  *)
(* of an empty bucket).  One action is one store that a Get can see.  A    *)
(* hash is abstracted to the two parts that are used, the high part that   *)
(* finds the segment and the low part that finds the bucket.               *)
(***************************************************************************)
EXTENDS Integers, Sequences, FiniteSets

CONSTANTS
    Writers, Readers,        \* the goroutines, by what they call
    Keys,
    HashHigh, HashLow,       \* functions from keys to numbers
    Concurrency,             \* number of segments
    DefaultBucketNumber,     \* 16
    MinAverage,              \* 100, in UpdateThreshold
    MaxBucketSize,           \* DEFAULT_BUCKET_MAX_SIZE, 1000
    MaxUpdates, MaxGets      \* bounds on the calls of a goroutine

Segments == 0..(Concurrency - 1)
Goroutines == Writers \cup Readers
Nil == 0

(* Every Put brings an element of its own. *)
Elements == Writers \X (1..MaxUpdates)
NoElement == <<>>

VARIABLES
    heap,                    \* the pairs, [key, element, next]
    buckets,                 \* per segment, a sequence of [first, size]
    lock,                    \* per segment, the set of holders
    pairTotal, total,        \* the counters of the segments and of the map
    upperThreshold, overweight,   \* of the redistributors
    pc, op, key, element,    \* per goroutine, its place and its arguments
    ok, at, pairs,           \* locals: result, a pointer or index, a list
    calls,
    content, deletes,        \* history: what Put and Delete left in the map
    sawAbsent, overlapped    \* history of a Get: its key was absent once, or
                             \* the segment was being redistributed

segVars == <<buckets, pairTotal, upperThreshold, overweight>>
callVars == <<op, key, element, calls>>
histVars == <<content, deletes>>
getVars == <<sawAbsent, overlapped>>
vars == <<heap, segVars, lock, total, pc, callVars, ok, at, pairs, histVars,
          getVars>>

findSegment(k) == IF Concurrency = 1 THEN 0 ELSE HashHigh[k] % Concurrency
SegmentOf(g) == findSegment(key[g])
BucketIndex(k, n) == (HashLow[k] % n) + 1

(* newSegment with newDefaultPairRedistributor *)
Threshold(n, bucketNumber) ==
    LET average == n \div bucketNumber
    IN  ((IF average < MinAverage THEN MinAverage ELSE average) * 3) \div 4

Init ==
    /\ heap = <<>>
    /\ buckets = [s \in Segments |->
                    [i \in 1..DefaultBucketNumber |-> [first |-> Nil, size |-> 0]]]
    /\ lock = [s \in Segments |-> {}]
    /\ pairTotal = [s \in Segments |-> 0] /\ total = 0
    /\ upperThreshold = [s \in Segments |-> Threshold(0, DefaultBucketNumber)]
    /\ overweight = [s \in Segments |-> 0]
    /\ pc = [g \in Goroutines |-> "idle"]
    /\ op = [g \in Goroutines |-> "get"]
    /\ key = [g \in Goroutines |-> CHOOSE k \in Keys : TRUE]
    /\ element = [g \in Goroutines |-> NoElement]
    /\ ok = [g \in Goroutines |-> FALSE]
    /\ at = [g \in Goroutines |-> Nil]
    /\ pairs = [g \in Goroutines |-> <<>>]
    /\ calls = [g \in Goroutines |-> 0]
    /\ content = [k \in Keys |-> NoElement] /\ deletes = 0
    /\ sawAbsent = [g \in Readers |-> FALSE]
    /\ overlapped = [g \in Readers |-> FALSE]

-----------------------------------------------------------------------------
(* The list that starts at p, as long as it does not run in a circle. *)
RECURSIVE WalkUpTo(_, _, _)
WalkUpTo(h, p, n) ==
    IF p = Nil \/ n = 0 THEN <<>> ELSE <<p>> \o WalkUpTo(h, h[p].next, n - 1)
Walk(h, p) == WalkUpTo(h, p, Len(h) + 1)

Ends(h, p) == Len(Walk(h, p)) <= Len(h)

(* bucket.Get under the lock: the first pair with the key, or nil. *)
LookupNothing(h, first, k) == Nil          \* a defect: every Put adds a pair
Lookup(h, first, k) ==
    LET list == Walk(h, first)
        hits == {i \in DOMAIN list : h[list[i]].key = k}
    IN  IF hits = {} THEN Nil
        ELSE list[CHOOSE i \in hits : \A j \in hits : i <= j]

(* The fields of a pair that change, and its copy *)
SetElementNot(h, p, e) == h                \* a defect: the new element is dropped
SetElement(h, p, e) == [h EXCEPT ![p].element = e]
SetNext(h, p, next) == [h EXCEPT ![p].next = next]
Copy(h, p, next) == [key |-> h[p].key, element |-> h[p].element, next |-> next]

(* The atomic counters of a segment's and the map's pairs *)
AddTotal(n, d) == n + d

Goto(g, l) == pc' = [pc EXCEPT ![g] = l]
Set(f, g, v) == [f EXCEPT ![g] = v]

(* The histories of the Gets in progress, for a step of another goroutine. *)
Redistributing(s, places) ==
    \E w \in Writers : SegmentOf(w) = s /\ places[w] \in {"clear", "relink", "publish"}
Observe ==
    /\ sawAbsent' = [g \in Readers |->
            sawAbsent[g] \/ (pc[g] # "idle" /\ content'[key[g]] = NoElement)]
    /\ overlapped' = [g \in Readers |->
            overlapped[g] \/ (pc[g] # "idle" /\ Redistributing(SegmentOf(g), pc'))]

-----------------------------------------------------------------------------
(* Put and Delete: the segment is found and locked. *)
Call(g, o, k, e) ==
    LET s == findSegment(k)
    IN  /\ pc[g] = "idle" /\ calls[g] < MaxUpdates
        /\ lock[s] = {}
        /\ lock' = Set(lock, s, {g})
        /\ op' = Set(op, g, o) /\ key' = Set(key, g, k)
        /\ element' = Set(element, g, e) /\ calls' = Set(calls, g, calls[g] + 1)
        /\ Goto(g, o)
        /\ UNCHANGED <<heap, segVars, total, ok, at, pairs, histVars, getVars>>

(* bucket.Put and the count of the segment *)
BucketPut(g) ==
    LET s == SegmentOf(g)
        b == BucketIndex(key[g], Len(buckets[s]))
        target == Lookup(heap, buckets[s][b].first, key[g])
    IN  /\ pc[g] = "put"
        /\ IF target # Nil
           THEN /\ heap' = SetElement(heap, target, element[g])
                /\ ok' = Set(ok, g, FALSE) /\ Goto(g, "unlock")
                /\ UNCHANGED <<buckets, pairTotal>>
           ELSE /\ heap' = Append(heap, [key |-> key[g], element |-> element[g],
                                         next |-> buckets[s][b].first])
                /\ buckets' = [buckets EXCEPT ![s][b] =
                                 [first |-> Len(heap) + 1, size |-> @.size + 1]]
                /\ pairTotal' = Set(pairTotal, s, AddTotal(pairTotal[s], 1))
                /\ ok' = Set(ok, g, TRUE) /\ Goto(g, "redistribute")
        /\ content' = Set(content, key[g], element[g])
        /\ Observe
        /\ UNCHANGED <<upperThreshold, overweight, lock, total, callVars, at,
                       pairs, deletes>>

(* bucket.Delete and the count of the segment: the pairs in front of the   *)
(* deleted one are copied.                                                 *)
BucketDelete(g) ==
    LET s == SegmentOf(g)
        b == BucketIndex(key[g], Len(buckets[s]))
        list == Walk(heap, buckets[s][b].first)
        target == Lookup(heap, buckets[s][b].first, key[g])
        n == IF target = Nil THEN 0
             ELSE (CHOOSE i \in DOMAIN list : list[i] = target) - 1
        NextOf(i) == IF i = n THEN heap[target].next ELSE Len(heap) + i + 1
    IN  /\ pc[g] = "delete"
        /\ IF target = Nil
           THEN /\ ok' = Set(ok, g, FALSE) /\ Goto(g, "unlock")
                /\ UNCHANGED <<heap, buckets, pairTotal, deletes>>
           ELSE /\ heap' = heap \o [i \in 1..n |-> Copy(heap, list[i], NextOf(i))]
                /\ buckets' = [buckets EXCEPT ![s][b] =
                     [first |-> IF n = 0 THEN heap[target].next ELSE Len(heap) + 1,
                      size |-> @.size - 1]]
                /\ pairTotal' = Set(pairTotal, s, AddTotal(pairTotal[s], -1))
                /\ ok' = Set(ok, g, TRUE) /\ Goto(g, "redistribute")
                /\ deletes' = deletes + 1
        /\ content' = Set(content, key[g], NoElement)
        /\ Observe
        /\ UNCHANGED <<upperThreshold, overweight, lock, total, callVars, at,
                       pairs>>

-----------------------------------------------------------------------------
(* CheckBucketStatus never returns BUCKET_STATUS_UNDERWEIGHT. *)
CheckBucketStatus(size, upper) ==
    IF size > MaxBucketSize \/ size >= upper THEN "overweight" ELSE "normal"

(* How many buckets Redistribe wants, with this count of buckets that were *)
(* too long.                                                               *)
NewNumber(status, count, n) ==
    IF status = "overweight" /\ count * 4 >= n THEN 2 * n ELSE n

(* The pairs of all buckets, list by list. *)
AllPairsButLast(h, bs) ==                  \* a defect: leaves out the last bucket
    LET upTo[i \in 0..Len(bs)] ==
            IF i = 0 THEN <<>> ELSE upTo[i - 1] \o Walk(h, bs[i].first)
    IN  upTo[Len(bs) - 1]
AllPairs(h, bs) ==
    LET upTo[i \in 0..Len(bs)] ==
            IF i = 0 THEN <<>> ELSE upTo[i - 1] \o Walk(h, bs[i].first)
    IN  upTo[Len(bs)]

(* segment.redistribute up to the decision in Redistribe *)
Redistribute(g) ==
    LET s == SegmentOf(g)
        n == Len(buckets[s])
        b == BucketIndex(key[g], n)
        upper == Threshold(pairTotal[s], n)
        status == CheckBucketStatus(buckets[s][b].size, upper)
        count == overweight[s] + (IF status = "overweight" THEN 1 ELSE 0)
        change == NewNumber(status, count, n) # n
    IN  /\ pc[g] = "redistribute"
        /\ upperThreshold' = Set(upperThreshold, s, upper)
        /\ overweight' = Set(overweight, s, count)
        /\ pairs' = Set(pairs, g, IF change THEN AllPairs(heap, buckets[s]) ELSE <<>>)
        /\ at' = Set(at, g, IF change THEN 1 ELSE Nil)
        /\ Goto(g, IF change THEN "clear" ELSE "unlock")
        /\ UNCHANGED histVars /\ Observe
        /\ UNCHANGED <<heap, buckets, pairTotal, lock, total, callVars, ok>>

(* Redistribe: the old buckets are cleared one by one, then as many new    *)
(* ones are added.                                                         *)
ClearBucket(g) ==
    LET s == SegmentOf(g)
        n == Len(buckets[s])
        empty == [first |-> Nil, size |-> 0]
        cleared == [buckets[s] EXCEPT ![at[g]] = empty]
    IN  /\ pc[g] = "clear"
        /\ IF at[g] < n
           THEN /\ buckets' = Set(buckets, s, cleared)
                /\ at' = Set(at, g, at[g] + 1) /\ UNCHANGED pc
           ELSE /\ buckets' = Set(buckets, s, cleared \o [i \in 1..n |-> empty])
                /\ at' = Set(at, g, Nil) /\ Goto(g, "relink")
        /\ UNCHANGED histVars /\ Observe
        /\ UNCHANGED <<heap, pairTotal, upperThreshold, overweight, lock, total,
                       callVars, ok, pairs>>

(* Redistribe: bucket.Put of the next pair, which still has its old link. *)
Relink(g) ==
    LET s == SegmentOf(g)
        p == Head(pairs[g])
        b == BucketIndex(heap[p].key, Len(buckets[s]))
        first == buckets[s][b].first
        target == Lookup(heap, first, heap[p].key)
    IN  /\ pc[g] = "relink" /\ pairs[g] # <<>>
        /\ IF first = Nil
           THEN /\ buckets' = [buckets EXCEPT ![s][b] =
                                 [first |-> p, size |-> @.size + 1]]
                /\ pairs' = Set(pairs, g, Tail(pairs[g]))
                /\ UNCHANGED <<heap, pc>>
           ELSE IF target # Nil
           THEN /\ heap' = SetElement(heap, target, heap[p].element)
                /\ pairs' = Set(pairs, g, Tail(pairs[g]))
                /\ UNCHANGED <<buckets, pc>>
           ELSE /\ heap' = SetNext(heap, p, first)
                /\ Goto(g, "publish")
                /\ UNCHANGED <<buckets, pairs>>
        /\ UNCHANGED histVars /\ Observe
        /\ UNCHANGED <<pairTotal, upperThreshold, overweight, lock, total,
                       callVars, ok, at>>

(* The store of the new first pair in that bucket.Put *)
Publish(g) ==
    LET s == SegmentOf(g)
        p == Head(pairs[g])
        b == BucketIndex(heap[p].key, Len(buckets[s]))
    IN  /\ pc[g] = "publish"
        /\ buckets' = [buckets EXCEPT ![s][b] = [first |-> p, size |-> @.size + 1]]
        /\ pairs' = Set(pairs, g, Tail(pairs[g]))
        /\ Goto(g, "relink")
        /\ UNCHANGED histVars /\ Observe
        /\ UNCHANGED <<heap, pairTotal, upperThreshold, overweight, lock, total,
                       callVars, ok, at>>

Redistributed(g) ==
    /\ pc[g] = "relink" /\ pairs[g] = <<>>
    /\ overweight' = Set(overweight, SegmentOf(g), 0)
    /\ Goto(g, "unlock")
    /\ UNCHANGED histVars /\ Observe
    /\ UNCHANGED <<heap, buckets, pairTotal, upperThreshold, lock, total,
                   callVars, ok, at, pairs>>

Unlock(g) ==
    /\ pc[g] = "unlock"
    /\ lock' = Set(lock, SegmentOf(g), {})
    /\ Goto(g, IF ok[g] THEN "count" ELSE "idle")
    /\ UNCHANGED <<heap, segVars, total, callVars, ok, at, pairs, histVars,
                   getVars>>

(* The counter of the whole map, after the segment was unlocked *)
Count(g) ==
    /\ pc[g] = "count"
    /\ total' = AddTotal(total, IF op[g] = "put" THEN 1 ELSE -1)
    /\ Goto(g, "idle")
    /\ UNCHANGED <<heap, segVars, lock, callVars, ok, at, pairs, histVars, getVars>>

-----------------------------------------------------------------------------
(* segment.GetWithHash: the bucket is found under the lock. *)
GetBucket(g, k) ==
    LET s == findSegment(k)
    IN  /\ pc[g] = "idle" /\ calls[g] < MaxGets
        /\ lock[s] = {}
        /\ key' = Set(key, g, k) /\ calls' = Set(calls, g, calls[g] + 1)
        /\ at' = Set(at, g, BucketIndex(k, Len(buckets[s])))
        /\ Goto(g, "first")
        /\ sawAbsent' = Set(sawAbsent, g, content[k] = NoElement)
        /\ overlapped' = Set(overlapped, g, FALSE)
        /\ UNCHANGED <<heap, segVars, lock, total, op, element, ok, pairs,
                       histVars>>

(* bucket.Get: the first pair *)
GetFirst(g) ==
    LET first == buckets[SegmentOf(g)][at[g]].first
    IN  /\ pc[g] = "first"
        /\ at' = Set(at, g, first)
        /\ Goto(g, IF first = Nil THEN "missed" ELSE "walk")
        /\ UNCHANGED <<heap, segVars, lock, total, callVars, ok, pairs, histVars,
                       getVars>>

(* bucket.Get: a turn of its loop *)
GetNext(g) ==
    LET hit == heap[at[g]].key = key[g]
        next == IF hit THEN at[g] ELSE heap[at[g]].next
    IN  /\ pc[g] = "walk"
        /\ at' = Set(at, g, next)
        /\ Goto(g, IF hit THEN "found" ELSE IF next = Nil THEN "missed" ELSE "walk")
        /\ UNCHANGED <<heap, segVars, lock, total, callVars, ok, pairs, histVars,
                       getVars>>

(* Get returns nil, or the element of the pair. *)
GetReturn(g) ==
    /\ pc[g] \in {"missed", "found"}
    /\ element' = Set(element, g, IF pc[g] = "missed" THEN NoElement
                                  ELSE heap[at[g]].element)
    /\ at' = Set(at, g, Nil)
    /\ sawAbsent' = Set(sawAbsent, g, FALSE)
    /\ overlapped' = Set(overlapped, g, FALSE)
    /\ Goto(g, "idle")
    /\ UNCHANGED <<heap, segVars, lock, total, op, key, ok, pairs, calls, histVars>>

-----------------------------------------------------------------------------
Step(g) ==
    \/ BucketPut(g) \/ BucketDelete(g) \/ Redistribute(g) \/ ClearBucket(g)
    \/ Relink(g) \/ Publish(g) \/ Redistributed(g) \/ Unlock(g) \/ Count(g)
    \/ GetFirst(g) \/ GetNext(g) \/ GetReturn(g)

Next ==
    \/ \E g \in Writers, k \in Keys : Call(g, "put", k, <<g, calls[g] + 1>>)
    \/ \E g \in Writers, k \in Keys : Call(g, "delete", k, NoElement)
    \/ \E g \in Readers, k \in Keys : GetBucket(g, k)
    \/ \E g \in Goroutines : Step(g)

Spec == Init /\ [][Next]_vars

-----------------------------------------------------------------------------
Pointers == 0..Len(heap)
(* Types: cells of the heap, heads and the steps of the calls.             *)
TypeOK ==
    /\ heap \in Seq([key : Keys, element : Elements, next : Nat])
    /\ \A i \in DOMAIN heap : heap[i].next \in Pointers
    /\ \A s \in Segments :
         /\ buckets[s] \in Seq([first : Nat, size : Int])
         /\ lock[s] \subseteq Writers /\ Cardinality(lock[s]) <= 1
    /\ pairTotal \in [Segments -> Nat] /\ total \in Int
    /\ key \in [Goroutines -> Keys] /\ ok \in [Goroutines -> BOOLEAN]
    /\ at \in [Goroutines -> Nat] /\ deletes \in Nat

(* No pair is lost: whenever a segment is unlocked, each key that was put  *)
(* and not deleted since is in the list of its own bucket, although        *)
(* Redistribe puts the pairs in their new buckets with their old links.    *)
NoKeyLost ==
    \A k \in Keys :
        LET s == findSegment(k)
            b == buckets[s][BucketIndex(k, Len(buckets[s]))]
        IN  lock[s] = {} /\ content[k] # NoElement => Lookup(heap, b.first, k) # Nil

(* Lists end: from no pair, also in the middle of Redistribe and also for  *)
(* a Get that still holds an old pair, do the links lead in a circle.      *)
ListsEnd == \A p \in Pointers : Ends(heap, p)

(* A Get that finds nothing is right: its key was not in the map at some   *)
(* moment of the call, unless a redistribution cleared the buckets in it.  *)
MissIsReal ==
    \A g \in Readers : pc[g] = "missed" => sawAbsent[g] \/ overlapped[g]

(* As the crawler uses the map, without Delete: between calls its length   *)
(* is the number of keys, and every key has the element of its last Put,   *)
(* however often the pairs were redistributed.                             *)
ExactWithoutDelete ==
    deletes = 0 /\ (\A g \in Writers : pc[g] = "idle") =>
        /\ total = Cardinality({k \in Keys : content[k] # NoElement})
        /\ \A k \in Keys :
             LET s == findSegment(k)
                 p == Lookup(heap, buckets[s][BucketIndex(k, Len(buckets[s]))].first, k)
             IN  IF content[k] = NoElement THEN p = Nil
                 ELSE p # Nil /\ heap[p].element = content[k]

InCall(g) == pc[g] # "idle"

(* What the comment of ConcurrentMap.Get says: if nil is returned, the key *)
(* does not exist.                                                         *)
NilMeansAbsent == \A g \in Readers : pc[g] = "missed" => sawAbsent[g]

(* What the comment of ConcurrentMap.Delete says: the pair is deleted.     *)
DeletedIsGone ==
    \A k \in Keys :
        LET s == findSegment(k)
            b == buckets[s][BucketIndex(k, Len(buckets[s]))]
        IN  lock[s] = {} /\ content[k] = NoElement => Lookup(heap, b.first, k) = Nil
=============================================================================
