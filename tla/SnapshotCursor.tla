--------------------------- MODULE SnapshotCursor ---------------------------
(***************************************************************************)
(* What an iterator over the database promises: a cursor over one fixed    *)
(* map from user keys to values, in the order of the keys.                 *)
(***************************************************************************)
EXTENDS Integers

CONSTANTS UserKeys, None
VARIABLES view, at           \* the map, and the key the cursor is at or None

Pick(keys, Better(_, _)) ==
    IF keys = {} THEN None ELSE CHOOSE k \in keys : \A o \in keys : Better(k, o)
Least(keys) == Pick(keys, LAMBDA k, o : k <= o)
Greatest(keys) == Pick(keys, LAMBDA k, o : k >= o)

ViewKeys == DOMAIN view
Init == at = None
SeekToFirst == at' = Least(ViewKeys)
SeekToLast == at' = Greatest(ViewKeys)
Seek(t) == at' = Least({k \in ViewKeys : k >= t})
Next == at # None /\ at' = Least({k \in ViewKeys : k > at})
Prev == at # None /\ at' = Greatest({k \in ViewKeys : k < at})

Step == SeekToFirst \/ SeekToLast \/ (\E t \in UserKeys : Seek(t)) \/ Next \/ Prev
Spec == Init /\ [][Step /\ view' = view]_<<view, at>>
=============================================================================
