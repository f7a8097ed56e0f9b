----------------------------- MODULE DBIterator -----------------------------
(***************************************************************************)
(* Iteration over the database: DBIter (db/db_iter.cc), which shows the    *)
(* user keys and values of one snapshot, on top of MergingIterator         *)
(* (table/merger.cc), which merges the internal keys of the memtables and  *)
(* the tables.                                                             *)
(*                                                                         *)
(* A write is named by its sequence number.  A child of the merger is the  *)
(* sorted list of its internal keys, which does not change, and a place in *)
(* that list, 0 when it is not valid.  An iterator is used by one thread,  *)
(* so an action is a whole call.                                           *)
(***************************************************************************)
EXTENDS Integers, Sequences, SequencesExt

CONSTANTS UserKeys, MaxSequence, Snapshots, Children

Writes == 1..MaxSequence
NoKey == 0                   \* an empty saved_key_; user keys are 1, 2, ...
NoValue == 0                 \* a value is named by its write

VARIABLES
    ukey, type, home,        \* per write: user key, type, the child it is in
    sequence,                \* the snapshot
    children,                \* the merger: place of each child,
    current, mdirection,     \* the child it shows or 0, and its direction
    valid, direction,        \* of DBIter
    savedKey, savedValue

dataVars == <<ukey, type, home, sequence>>
mergeVars == <<children, current, mdirection>>
iterVars == <<dataVars, mergeVars, valid, direction, savedKey, savedValue>>

(* InternalKeyComparator::Compare; a search key has a type above all others *)
Before(a, b) == a.ukey < b.ukey \/ (a.ukey = b.ukey /\ a.seq > b.seq)
KeyOf(w) == [ukey |-> ukey[w], seq |-> w]
List(c) == SetToSortSeq({w \in Writes : home[w] = c},
                        LAMBDA v, w : Before(KeyOf(v), KeyOf(w)))

(* The newer of two writes of a key is in the same child or in one that is *)
(* asked first.                                                            *)
IterInit ==
    /\ ukey \in [Writes -> UserKeys] /\ type \in [Writes -> {"value", "deletion"}]
    /\ home \in [Writes -> Children]
    /\ \A v, w \in Writes : ukey[v] = ukey[w] /\ v < w => home[w] <= home[v]
    /\ sequence \in Snapshots
    /\ children = [c \in Children |-> 0] /\ current = 0 /\ mdirection = "forward"
    /\ valid = FALSE /\ direction = "forward"
    /\ savedKey = NoKey /\ savedValue = NoValue

-----------------------------------------------------------------------------
(* The children, as the merger moves them *)
Start(c) == IF List(c) = <<>> THEN 0 ELSE 1
End(c) == Len(List(c))
After(c, p) == IF p = Len(List(c)) THEN 0 ELSE p + 1
AtOrAfter(c, key) ==
    SelectInSeq(List(c), LAMBDA w : ~Before(KeyOf(w), key))

(* A merging iterator m is [at, current, dir]. *)
EntryAt(m, c) == List(c)[m.at[c]]
ValidChildren(m) == {c \in Children : m.at[c] # 0}
MValid(m) == m.current # 0
Entry(m) == EntryAt(m, m.current)

FindFirst(m) ==                            \* a defect: does not compare the keys
    LET ready == ValidChildren(m)
    IN  [m EXCEPT !.current = IF ready = {} THEN 0
           ELSE CHOOSE c \in ready : \A o \in ready : c <= o]
FindSmallest(m) ==
    LET ready == ValidChildren(m)
    IN  [m EXCEPT !.current = IF ready = {} THEN 0
           ELSE CHOOSE c \in ready : \A o \in ready \ {c} :
                  Before(KeyOf(EntryAt(m, c)), KeyOf(EntryAt(m, o)))]
FindLargest(m) ==
    LET ready == ValidChildren(m)
    IN  [m EXCEPT !.current = IF ready = {} THEN 0
           ELSE CHOOSE c \in ready : \A o \in ready \ {c} :
                  Before(KeyOf(EntryAt(m, o)), KeyOf(EntryAt(m, c)))]

MSeekToFirst(m) ==
    [FindSmallest([m EXCEPT !.at = [c \in Children |-> Start(c)]])
       EXCEPT !.dir = "forward"]
MSeekToLast(m) ==
    [FindLargest([m EXCEPT !.at = [c \in Children |-> End(c)]])
       EXCEPT !.dir = "reverse"]
MSeek(m, key) ==
    [FindSmallest([m EXCEPT !.at = [c \in Children |-> AtOrAfter(c, key)]])
       EXCEPT !.dir = "forward"]

(* Next in the other direction first places the other children after key(). *)
TurnForward(m) ==
    LET key == KeyOf(Entry(m))
        Place(c) == LET p == AtOrAfter(c, key)
                    IN  IF p # 0 /\ List(c)[p] = Entry(m) THEN After(c, p) ELSE p
    IN  [m EXCEPT !.at = [c \in Children |->
                            IF c = m.current THEN @[c] ELSE Place(c)],
                  !.dir = "forward"]
Forth(m) == FindSmallest([m EXCEPT !.at[m.current] = After(m.current, @)])
MNext(m) == Forth(IF m.dir # "forward" THEN TurnForward(m) ELSE m)

(* Prev in the other direction first places the others in front of key(). *)
TurnReverse(m) ==
    LET Place(c) == LET p == AtOrAfter(c, KeyOf(Entry(m)))
                    IN  IF p # 0 THEN p - 1 ELSE End(c)
    IN  [m EXCEPT !.at = [c \in Children |->
                            IF c = m.current THEN @[c] ELSE Place(c)],
                  !.dir = "reverse"]
Back(m) == FindLargest([m EXCEPT !.at[m.current] = @ - 1])
MPrev(m) == Back(IF m.dir # "reverse" THEN TurnReverse(m) ELSE m)

-----------------------------------------------------------------------------
(* DBIter: it is [m, valid, dir, key, value].  The loops end with their    *)
(* result.                                                                 *)
Visible(w) == w <= sequence
Ended(it) == [it EXCEPT !.valid = FALSE, !.key = NoKey]
YieldKept(it) == [it EXCEPT !.valid = TRUE]          \* a defect: saved_key_ stays
Yield(it) == [it EXCEPT !.valid = TRUE, !.key = NoKey]

(* An entry hidden by a newer one, and an entry of an earlier key *)
EarlierOrSameKey(w, k) == ukey[w] <= k               \* a defect
EarlierKey(w, k) == ukey[w] < k
HiddenNever(w, skipping, skip) == FALSE              \* a defect
HiddenEarlier(w, skipping, skip) ==                  \* a defect
    skipping /\ ukey[w] < skip
Hidden(w, skipping, skip) == skipping /\ ukey[w] <= skip

RECURSIVE FindNextUserEntry(_, _, _)
OrEnded(it, skipping, skip) ==
    IF MValid(it.m) THEN FindNextUserEntry(it, skipping, skip) ELSE Ended(it)
FindNextUserEntry(it, skipping, skip) ==
    LET w == Entry(it.m)
        hides == Visible(w) /\ type[w] = "deletion"
        yields == Visible(w) /\ type[w] = "value" /\ ~Hidden(w, skipping, skip)
    IN  IF yields THEN Yield(it)
        ELSE OrEnded([it EXCEPT !.m = MNext(@)], skipping \/ hides,
                     IF hides THEN ukey[w] ELSE skip)

(* kind is the type of the entry saved last. *)
RECURSIVE FindPrevUserEntry(_, _)
FindPrevUserEntry(it, kind) ==
    LET w == Entry(it.m)
        saved == CASE ~Visible(w) -> it
                   [] Visible(w) /\ type[w] = "deletion" ->
                        [it EXCEPT !.key = NoKey, !.value = NoValue]
                   [] OTHER -> [it EXCEPT !.key = ukey[w], !.value = w]
    IN  IF ~MValid(it.m) \/ (Visible(w) /\ kind # "deletion" /\ EarlierKey(w, it.key))
        THEN IF kind = "deletion"
             THEN [Ended(it) EXCEPT !.value = NoValue, !.dir = "forward"]
             ELSE [it EXCEPT !.valid = TRUE]
        ELSE FindPrevUserEntry([saved EXCEPT !.m = MPrev(@)],
                               IF Visible(w) THEN type[w] ELSE kind)

Iter == [m |-> [at |-> children, current |-> current, dir |-> mdirection],
         valid |-> valid, dir |-> direction, key |-> savedKey, value |-> savedValue]

Becomes(it) ==
    /\ children' = it.m.at /\ current' = it.m.current /\ mdirection' = it.m.dir
    /\ valid' = it.valid /\ direction' = it.dir
    /\ savedKey' = it.key /\ savedValue' = it.value
    /\ UNCHANGED dataVars

OrEnd(it, skipping, skip) ==
    IF MValid(it.m) THEN FindNextUserEntry(it, skipping, skip)
    ELSE [it EXCEPT !.valid = FALSE]

Seek(target) ==
    LET key == [ukey |-> target, seq |-> sequence]
    IN  Becomes(OrEnd([Iter EXCEPT !.m = MSeek(@, key), !.dir = "forward",
                                   !.value = NoValue, !.key = target], FALSE, NoKey))
SeekToFirst ==
    Becomes(OrEnd([Iter EXCEPT !.m = MSeekToFirst(@), !.dir = "forward",
                               !.value = NoValue], FALSE, NoKey))
SeekToLast ==
    Becomes(FindPrevUserEntry([Iter EXCEPT !.m = MSeekToLast(@), !.dir = "reverse",
                                           !.value = NoValue], "deletion"))

(* Next: the key to skip is the current one, saved if moving in reverse. *)
Skip(it) == OrEnded(it, TRUE, it.key)
Next ==
    LET enter(m) == IF MValid(m) THEN MNext(m) ELSE MSeekToFirst(m)
    IN  /\ valid
        /\ Becomes(Skip(IF direction = "reverse"
                        THEN [Iter EXCEPT !.dir = "forward", !.m = enter(@)]
                        ELSE [Iter EXCEPT !.key = ukey[Entry(Iter.m)], !.m = MNext(@)]))

(* Prev moving forward: back over the entries of the current key *)
RECURSIVE BeforeKey(_, _)
BeforeKey(m, k) ==
    IF MValid(m) /\ ~EarlierKey(Entry(m), k) THEN BeforeKey(MPrev(m), k) ELSE m
Turned(it) ==
    IF MValid(it.m) THEN FindPrevUserEntry([it EXCEPT !.dir = "reverse"], "deletion")
    ELSE [Ended(it) EXCEPT !.value = NoValue]
Prev ==
    LET k == ukey[Entry(Iter.m)]
    IN  /\ valid
        /\ Becomes(IF direction = "reverse" THEN FindPrevUserEntry(Iter, "deletion")
                   ELSE Turned([Iter EXCEPT !.m = BeforeKey(MPrev(@), k), !.key = k]))

IterNext ==
    \/ \E t \in UserKeys : Seek(t)
    \/ SeekToFirst \/ SeekToLast \/ Next \/ Prev

IterSpec == IterInit /\ [][IterNext]_iterVars

-----------------------------------------------------------------------------
(* key() and value() *)
Key == IF direction = "forward" THEN ukey[Entry(Iter.m)] ELSE savedKey
Value == IF direction = "forward" THEN Entry(Iter.m) ELSE savedValue

(* Types: the places of the children and what the iterators keep; a saved  *)
(* key is only kept on the way back.                                       *)
IterTypeOK ==
    /\ \A c \in Children : children[c] \in 0..Len(List(c))
    /\ current \in Children \cup {0} /\ valid \in BOOLEAN
    /\ mdirection \in {"forward", "reverse"} /\ direction \in {"forward", "reverse"}
    /\ valid /\ direction = "forward" => savedKey = NoKey
    /\ savedKey \in UserKeys \cup {NoKey} /\ savedValue \in Writes \cup {NoValue}

(* What the snapshot holds: the keys whose newest visible write is a value *)
Newest(k) == LET own == {w \in Writes : ukey[w] = k /\ Visible(w)}
             IN  IF own = {} THEN 0 ELSE CHOOSE w \in own : \A o \in own : o <= w
Snapshot == [k \in {u \in UserKeys : Newest(u) # 0 /\ type[Newest(u)] = "value"} |->
               Newest(k)]

(* The merger's rule, as its comments say it: every child but the current  *)
(* one is at its first entry after key() moving forward, and at its last   *)
(* entry in front of it moving in reverse.                                 *)
ChildrenInStep ==
    current # 0 => \A c \in Children \ {current} :
        LET key == KeyOf(List(current)[children[current]])
            ahead == AtOrAfter(c, key)
        IN  children[c] = IF mdirection = "forward" THEN ahead
                          ELSE IF ahead = 0 THEN End(c) ELSE ahead - 1

(* DBIter moving in reverse has left all entries of its key behind, and    *)
(* between it and them there are only entries the snapshot does not see.   *)
BeforeItsKey ==
    valid /\ direction = "reverse" =>
        \A w \in Writes :
            /\ ukey[w] = savedKey /\ current # 0 =>
                 Before(KeyOf(Entry(Iter.m)), KeyOf(w))
            /\ ukey[w] < savedKey /\ Visible(w) =>
                 current # 0 /\ ~Before(KeyOf(Entry(Iter.m)), KeyOf(w))

(* The value shown is the newest one the snapshot sees, after any calls in *)
(* either direction: no deleted, overwritten or later write is shown.      *)
ShowsSnapshot == valid => Key \in DOMAIN Snapshot /\ Value = Snapshot[Key]

(* DBIter is a cursor over the snapshot: each call moves to the key that   *)
(* the same call on a plain sorted map moves to, none left out or repeated *)
(* when the direction changes.                                             *)
At == IF valid THEN Key ELSE NoKey
Cursor == INSTANCE SnapshotCursor WITH None <- NoKey, view <- Snapshot, at <- At
MovesLikeCursor ==
    /\ SeekToFirst => Cursor!SeekToFirst
    /\ SeekToLast => Cursor!SeekToLast
    /\ \A t \in UserKeys : Seek(t) => Cursor!Seek(t)
    /\ Next => Cursor!Next
    /\ Prev => Cursor!Prev
CursorStep == [Cursor!Step /\ Snapshot' = Snapshot]_<<Snapshot, At>>
IteratesSnapshot == Cursor!Spec /\ [][MovesLikeCursor]_iterVars
=============================================================================
