---------------------------- MODULE SnapshotStore ----------------------------
(***************************************************************************)
(* What DB promises its callers (include/leveldb/db.h): Put and Delete     *)
(* change one key, Get reads the last change, and a snapshot shows the     *)
(* store as it was when the snapshot was taken, whatever the background    *)
(* work does.  A value is the number of the write that put it, 0 stands    *)
(* for a key that is not found.                                            *)
(***************************************************************************)
EXTENDS Naturals

CONSTANT Keys

VARIABLES
    writes,    \* the number of writes so far
    store,     \* the value of each key
    taken,     \* the live snapshots, as the writes before them
    views      \* the store each of them shows

vars == <<writes, store, taken, views>>

Init ==
    /\ writes = 0
    /\ store = [k \in Keys |-> 0]
    /\ taken = {}
    /\ views = <<>>

Put(k) ==
    /\ writes' = writes + 1
    /\ store' = [store EXCEPT ![k] = writes']
    /\ UNCHANGED <<taken, views>>

Delete(k) ==
    /\ writes' = writes + 1
    /\ store' = [store EXCEPT ![k] = 0]
    /\ UNCHANGED <<taken, views>>

GetSnapshot ==
    /\ taken' = taken \cup {writes}
    /\ views' = [s \in taken' |-> IF s = writes THEN store ELSE views[s]]
    /\ UNCHANGED <<writes, store>>

ReleaseSnapshot(s) ==
    /\ taken' = taken \ {s}
    /\ views' = [t \in taken' |-> views[t]]
    /\ UNCHANGED <<writes, store>>

Next ==
    \/ \E k \in Keys : Put(k) \/ Delete(k)
    \/ GetSnapshot
    \/ \E s \in taken : ReleaseSnapshot(s)

Spec == Init /\ [][Next]_vars

=============================================================================
