----------------------------- MODULE MemTable -----------------------------
(***************************************************************************)
(* A memtable of LevelDB (db/memtable.cc) and the skip list below it       *)
(* (db/skiplist.h).  One writer at a time inserts, which the caller sees   *)
(* to; any number of readers walk the list at the same time, without a     *)
(* lock.  A step is one load or one store of a link that another thread    *)
(* can see: the links are stored with release and loaded with acquire, so  *)
(* who sees a link also sees what was written before it.                   *)
(*                                                                         *)
(* An entry is named by its sequence number, 1, 2, ...; 0 is head_.  Its   *)
(* internal key is its user key and that number, a higher number first.    *)
(* Its type and value stay with it and are not modelled: what Get answers  *)
(* is the entry it takes them from.                                        *)
(***************************************************************************)
EXTENDS Integers, FiniteSets

CONSTANTS
    UserKeys,                \* a set of integers
    kMaxHeight,              \* 12
    Readers,
    MaxSequence, MaxReads    \* bounds on the Adds, and on the calls of a reader

Entries == 1..MaxSequence
Head == 0
Null == MaxSequence + 1
Unset == MaxSequence + 2     \* what a new node's links hold
Levels == 0..(kMaxHeight - 1)

VARIABLES
    ukey,                    \* the entries
    next,                    \* node, level -> node
    heights,                 \* the values max_height_ has had
    last,                    \* the sequence number of the newest entry
    height, level, prev,     \* of the Add in progress, height 0 when none is
    op, x, depth, target,    \* per reader: its call and the search's locals
    since,                   \* the entries that were complete when it began
    done,                    \* the call that has returned last
    pos, answer, reads       \* iterator's node, Get's answer, calls so far

listVars == <<ukey, next, heights, last, height, level, prev>>
readVars == <<op, x, depth, target, since, done, pos, answer,
              reads>>
memVars == <<listVars, readVars>>

InsertTop == CHOOSE h \in heights : \A o \in heights : o <= h
Complete == IF height = 0 THEN last ELSE last - 1
NoKey == [ukey |-> 0, seq |-> 0]
KeyOf(e) == [ukey |-> ukey[e], seq |-> e]

(* InternalKeyComparator::Compare on two internal keys *)
Before(a, b) == a.ukey < b.ukey \/ (a.ukey = b.ukey /\ a.seq > b.seq)

(* null sorts after every key. *)
KeyIsAfterNode(key, n) == n \in Entries /\ Before(KeyOf(n), key)

MemInit ==
    /\ ukey = [e \in Entries |-> 0]
    /\ next = [n \in Entries \cup {Head} |->
                 [l \in Levels |-> IF n = Head THEN Null ELSE Unset]]
    /\ heights = {1}
    /\ last = 0 /\ height = 0 /\ level = 0 /\ prev = [l \in Levels |-> Head]
    /\ op = [r \in Readers |-> "idle"]
    /\ x = [r \in Readers |-> Head] /\ depth = [r \in Readers |-> 0]
    /\ target = [r \in Readers |-> NoKey] /\ since = [r \in Readers |-> 0]
    /\ done = [r \in Readers |-> "none"] /\ pos = [r \in Readers |-> Null]
    /\ answer = [r \in Readers |-> Null]
    /\ reads = [r \in Readers |-> 0]

-----------------------------------------------------------------------------
(* FindGreaterOrEqual of the writer, which nothing can change meanwhile:   *)
(* on each level the last node in front of the key.                        *)
FrontNodes(key) ==
    LET from[l \in 0..kMaxHeight] ==
            IF l >= InsertTop THEN Head
            ELSE LET walk[n \in 0..MaxSequence] ==
                        IF n = 0 THEN from[l + 1]
                        ELSE IF KeyIsAfterNode(key, next[walk[n - 1]][l])
                             THEN next[walk[n - 1]][l] ELSE walk[n - 1]
                 IN  walk[MaxSequence]
    IN  [l \in Levels |-> from[l]]

(* MemTable::Add with SkipList::Insert up to its loop; the height is       *)
(* random.                                                                 *)
Add(k, h) ==
    /\ height = 0 /\ last < MaxSequence
    /\ ukey' = [ukey EXCEPT ![last + 1] = k]
    /\ prev' = FrontNodes([ukey |-> k, seq |-> last + 1])
    /\ height' = h /\ level' = 0
    /\ heights' = IF h > InsertTop THEN heights \cup {h} ELSE heights
    /\ last' = last + 1
    /\ UNCHANGED <<next, readVars>>

(* The level that turn i of the loop links: from the bottom up. *)
TurnLevelDown(i) == height - 1 - i         \* a defect: from the top down
TurnLevel(i) == i

(* A turn of the loop: the node's own link, then the link to it. *)
LinkedLost(n, p, l) ==                     \* a defect: what followed is dropped
    [next EXCEPT ![n][l] = Null, ![p][l] = n]
LinkedLast(n, p, l) ==                     \* a defect: stores in the wrong order
    [next EXCEPT ![p][l] = n, ![n][l] = n]
Linked(n, p, l) == [next EXCEPT ![n][l] = next[p][l], ![p][l] = n]
LinkLevel ==
    LET l == TurnLevel(level)
        top == level + 1 = height
    IN  /\ height > 0
        /\ next' = Linked(last, prev[l], l)
        /\ level' = IF top THEN 0 ELSE level + 1
        /\ height' = IF top THEN 0 ELSE height
        /\ prev' = IF top THEN [i \in Levels |-> Head] ELSE prev
        /\ UNCHANGED <<ukey, heights, last, readVars>>

-----------------------------------------------------------------------------
(* A call of a reader: the search begins at head_, at a height that may be *)
(* an old one, as max_height_ is loaded without a barrier.                 *)
StartHeights == heights

Begin(r, o, key, keep) ==
    /\ op[r] = "idle" /\ reads[r] < MaxReads
    /\ op' = [op EXCEPT ![r] = o]
    /\ target' = [target EXCEPT ![r] = key]
    /\ x' = [x EXCEPT ![r] = Head]
    /\ \E h \in StartHeights : depth' = [depth EXCEPT ![r] = h - 1]
    /\ since' = [since EXCEPT ![r] = Complete]
    /\ reads' = [reads EXCEPT ![r] = @ + 1]
    /\ pos' = IF keep THEN pos ELSE [pos EXCEPT ![r] = Null]
    /\ answer' = [answer EXCEPT ![r] = Null]
    /\ done' = [done EXCEPT ![r] = "none"]
    /\ UNCHANGED listVars

(* Get asks with a snapshot, the number of a write that is complete. *)
Get(r, k) ==
    \E s \in 0..Complete : Begin(r, "get", [ukey |-> k, seq |-> s], FALSE)
Seek(r, k) ==
    \E s \in 0..MaxSequence : Begin(r, "seek", [ukey |-> k, seq |-> s], FALSE)
SeekToLast(r) == Begin(r, "last", NoKey, FALSE)
Prev(r) == pos[r] # Null /\ Begin(r, "prev", KeyOf(pos[r]), TRUE)

(* Iterator::Next and SeekToFirst, one load *)
Move(r, o, from) ==
    /\ op[r] = "idle" /\ reads[r] < MaxReads
    /\ pos' = [pos EXCEPT ![r] = next[from][0]]
    /\ reads' = [reads EXCEPT ![r] = @ + 1]
    /\ answer' = [answer EXCEPT ![r] = Null]
    /\ done' = [done EXCEPT ![r] = o]
    /\ target' = [target EXCEPT ![r] = IF from = Head THEN NoKey ELSE KeyOf(from)]
    /\ since' = [since EXCEPT ![r] = Complete]
    /\ UNCHANGED <<listVars, op, x, depth>>
SeekToFirst(r) == Move(r, "first", Head)
NextEntry(r) == pos[r] # Null /\ Move(r, "next", pos[r])

(* Whether the search goes on to n on its level *)
GoesOnTooFar(r, n) ==                      \* a defect: passes over an equal key
    IF op[r] = "last" THEN n # Null
    ELSE KeyIsAfterNode([target[r] EXCEPT !.seq = @ - 1], n)
GoesOn(r, n) == IF op[r] = "last" THEN n # Null ELSE KeyIsAfterNode(target[r], n)

(* MemTable::Get looks at the entry the search found, by its user key. *)
AnswerUnchecked(r, n) ==                   \* a defect: takes the entry as it is
    n
Answer(r, n) ==
    IF n # Null /\ ukey[n] = target[r].ukey THEN n ELSE Null

(* A turn of FindGreaterOrEqual, FindLessThan or FindLast *)
Search(r) ==
    LET n == next[x[r]][depth[r]]
        found == IF op[r] \in {"seek", "get"} THEN n
                 ELSE IF x[r] = Head THEN Null ELSE x[r]
    IN  /\ op[r] # "idle"
        /\ IF GoesOn(r, n)
           THEN /\ x' = [x EXCEPT ![r] = n] /\ UNCHANGED <<op, depth, done, pos, answer>>
           ELSE IF depth[r] > 0
           THEN /\ depth' = [depth EXCEPT ![r] = @ - 1]
                /\ UNCHANGED <<op, x, done, pos, answer>>
           ELSE /\ pos' = [pos EXCEPT ![r] = found]
                /\ answer' = [answer EXCEPT ![r] =
                                IF op[r] = "get" THEN Answer(r, n) ELSE Null]
                /\ x' = [x EXCEPT ![r] = Head]
                /\ done' = [done EXCEPT ![r] = op[r]]
                /\ op' = [op EXCEPT ![r] = "idle"] /\ UNCHANGED depth
        /\ UNCHANGED <<listVars, target, since, reads>>

MemNext ==
    \/ \E k \in UserKeys, h \in 1..kMaxHeight : Add(k, h)
    \/ LinkLevel
    \/ \E r \in Readers : Search(r) \/ SeekToLast(r) \/ Prev(r)
                          \/ SeekToFirst(r) \/ NextEntry(r)
    \/ \E r \in Readers, k \in UserKeys : Get(r, k) \/ Seek(r, k)

(* A reader runs on in its search, whatever the writer does. *)
MemSpec == MemInit /\ [][MemNext]_memVars /\ \A r \in Readers : WF_memVars(Search(r))

-----------------------------------------------------------------------------
(* Types: towers, links and the place of each search; a level that is not  *)
(* linked yet is garbage.                                                  *)
MemTypeOK ==
    /\ next \in [Entries \cup {Head} -> [Levels -> 1..Unset]]
    /\ prev \in [Levels -> 0..MaxSequence]
    /\ heights \subseteq 1..kMaxHeight /\ last \in 0..MaxSequence
    /\ x \in [Readers -> 0..MaxSequence] /\ pos \in [Readers -> Entries \cup {Null}]
    /\ answer \in [Readers -> Entries \cup {Null}]

(* The nodes of a level, by the links from head_ *)
OnLevel(l) ==
    LET upTo[n \in 0..MaxSequence] ==
            IF n = 0 THEN {next[Head][l]}
            ELSE upTo[n - 1] \cup {next[e][l] : e \in upTo[n - 1] \cap Entries}
    IN  upTo[MaxSequence]

(* The skip list's structure, also in the middle of an Insert: the links   *)
(* of a level go up in the order of the keys, each level is part of the    *)
(* one below, and every complete entry is on the lowest one.               *)
ListsSorted ==
    /\ \A l \in Levels : \A e \in OnLevel(l) \cap Entries :
           next[e][l] # Null => KeyIsAfterNode(KeyOf(next[e][l]), e)
    /\ \A l \in Levels \ {0} : OnLevel(l) \subseteq OnLevel(l - 1) \cup {Null}
    /\ 1..Complete \subseteq OnLevel(0)

(* No reader loads a link that has not been stored: the next load of a     *)
(* search in progress is of a link the writer has set.                     *)
ReadsInitialized ==
    \A r \in Readers : op[r] # "idle" => next[x[r]][depth[r]] # Unset

(* Entries of the list that a call which returned n should have preferred *)
Missed(r, n) ==
    LET t == target[r]
        Closer(e) == n = Null \/ Before(KeyOf(e), KeyOf(n))
        CloserBack(e) == n = Null \/ Before(KeyOf(n), KeyOf(e))
    IN  {e \in 1..since[r] :
           CASE done[r] \in {"seek", "get"} -> ~Before(KeyOf(e), t) /\ Closer(e)
             [] done[r] = "next"  -> Before(t, KeyOf(e)) /\ Closer(e)
             [] done[r] = "first" -> Closer(e)
             [] done[r] = "prev"  -> Before(KeyOf(e), t) /\ CloserBack(e)
             [] done[r] = "last"  -> CloserBack(e)
             [] OTHER -> FALSE}

(* No call of an iterator passes over an entry that was complete when the  *)
(* call began: what it stops at is the nearest of those, or a newer one.   *)
NoneSkipped == \A r \in Readers : Missed(r, pos[r]) = {}

(* Get with a snapshot answers with the newest entry of its key that is    *)
(* not newer than the snapshot, whatever is inserted while it searches.    *)
GetExact ==
    \A r \in Readers : done[r] = "get" =>
        LET own == {e \in 1..target[r].seq : ukey[e] = target[r].ukey}
        IN  answer[r] = IF own = {} THEN Null
                        ELSE CHOOSE e \in own : \A o \in own : o <= e
=============================================================================
