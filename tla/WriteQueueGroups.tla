-------------------------- MODULE WriteQueueGroups --------------------------
(***************************************************************************)
(* The group of the leader, for any number of threads and calls and any    *)
(* limits: the sequence numbers of a group are those behind lastSequence,  *)
(* one for every batch among the first writers of the queue.  The lemmas on *)
(* Batches count them; what a call was told, and the numbers its batches   *)
(* got, follow.                                                            *)
(***************************************************************************)
EXTENDS WriteQueueProofs, FiniteSetTheorems

USE DEF LeaderLines, GroupLines

-----------------------------------------------------------------------------
(* Counting batches.                                                       *)

(* The places among the first k of the queue q that have a batch. *)
BatchSet(q, r, k) == {i \in 1..k : r[q[i]].batch}
Batches(q, r, k) == Cardinality(BatchSet(q, r, k))

(* The first k places have at most k batches. *)
LEMMA BatchesType ==
    ASSUME NEW q, NEW r, NEW k \in Nat
    PROVE  /\ IsFiniteSet(BatchSet(q, r, k))
           /\ Batches(q, r, k) \in Nat /\ Batches(q, r, k) <= k
<1>1. 1 \in Int /\ k \in Int
  OBVIOUS
<1>2. IsFiniteSet(1..k) /\ Cardinality(1..k) = IF 1 > k THEN 0 ELSE k - 1 + 1
  BY <1>1, FS_Interval, Zenon
<1>3. Cardinality(1..k) = k
  BY <1>2
<1>4. BatchSet(q, r, k) \in SUBSET (1..k)
  BY Zenon DEF BatchSet
<1>5. /\ IsFiniteSet(BatchSet(q, r, k))
      /\ Cardinality(BatchSet(q, r, k)) <= Cardinality(1..k)
  BY <1>2, <1>4, FS_Subset, Zenon
<1>6. QED
  BY <1>3, <1>5, FS_CardinalityType, Zenon DEF Batches

(* More places have at least as many batches. *)
LEMMA BatchesGrow ==
    ASSUME NEW q, NEW r, NEW j \in Nat, NEW k \in Nat, j <= k
    PROVE  Batches(q, r, j) <= Batches(q, r, k)
<1>1. BatchSet(q, r, j) \in SUBSET BatchSet(q, r, k)
  BY DEF BatchSet
<1>2. QED
  BY <1>1, BatchesType, FS_Subset, Zenon DEF Batches

(* A batch at the next place is counted. *)
LEMMA BatchesNext ==
    ASSUME NEW q, NEW r, NEW k \in Nat
    PROVE  Batches(q, r, k + 1)
             = IF r[q[k + 1]].batch THEN Batches(q, r, k) + 1
               ELSE Batches(q, r, k)
<1>0. k + 1 \notin BatchSet(q, r, k)
  BY DEF BatchSet
<1>1. IsFiniteSet(BatchSet(q, r, k)) /\ k + 1 \notin BatchSet(q, r, k)
  BY <1>0, BatchesType, Zenon
<1>2. CASE r[q[k + 1]].batch
  <2>1. BatchSet(q, r, k + 1) = BatchSet(q, r, k) \cup {k + 1}
    BY <1>2 DEF BatchSet
  <2>2. Cardinality(BatchSet(q, r, k) \cup {k + 1})
          = Cardinality(BatchSet(q, r, k)) + 1
    BY <1>1, FS_AddElement, Zenon
  <2>3. QED
    BY <1>2, <2>1, <2>2, Zenon DEF Batches
<1>3. CASE ~r[q[k + 1]].batch
  <2>1. BatchSet(q, r, k + 1) = BatchSet(q, r, k)
    BY <1>3 DEF BatchSet
  <2>2. QED
    BY <1>3, <2>1, Zenon DEF Batches
<1>4. QED
  BY <1>2, <1>3, Zenon

(* Queues that agree on the first k places have the same batches there. *)
LEMMA BatchesSame ==
    ASSUME NEW q, NEW r, NEW p, NEW s, NEW k \in Nat,
           \A i \in 1..k : r[q[i]].batch <=> s[p[i]].batch
    PROVE  Batches(q, r, k) = Batches(p, s, k)
<1>1. BatchSet(q, r, k) = BatchSet(p, s, k)
  BY Zenon DEF BatchSet
<1>2. QED
  BY <1>1, Zenon DEF Batches

(* The batches of a queue are those of a prefix and those of the rest. *)
LEMMA BatchesSplit ==
    ASSUME NEW q, NEW r, NEW p, NEW k \in Nat, NEW m \in Nat,
           \A i \in 1..m : p[i] = q[k + i]
    PROVE  Batches(q, r, k + m) = Batches(q, r, k) + Batches(p, r, m)
<1> DEFINE S == BatchSet(q, r, k)
           T == BatchSet(p, r, m)
           U == {i \in (k + 1)..(k + m) : r[q[i]].batch}
           f == [i \in T |-> k + i]
<1>1. IsFiniteSet(S) /\ IsFiniteSet(T)
  BY BatchesType, Zenon
<1>2. f \in Bijection(T, U)
  <2>1. f \in [T -> U]
    BY DEF BatchSet
  <2>2. \A i, j \in T : f[i] = f[j] => i = j
    BY DEF BatchSet
  <2>3. \A u \in U : \E i \in T : f[i] = u
    <3> SUFFICES ASSUME NEW u \in U PROVE \E i \in T : f[i] = u
      BY Zenon
    <3>1. u - k \in T /\ k + (u - k) = u
      BY DEF BatchSet
    <3>2. QED
      BY <3>1, Zenon
  <2> HIDE DEF T, U, f
  <2>4. QED
    BY <2>1, <2>2, <2>3, Zenon DEF Bijection, Injection, IsInjective, Surjection
<1>3. IsFiniteSet(U) /\ Cardinality(U) = Cardinality(T)
  BY <1>1, <1>2, FS_Bijection, Zenon DEF ExistsBijection
<1>4. BatchSet(q, r, k + m) = S \cup U
  BY DEF BatchSet
<1>5. S \cap U = {}
  BY DEF BatchSet
<1>6. Cardinality(S \cup U)
        = Cardinality(S) + Cardinality(U) - Cardinality(S \cap U)
  BY <1>1, <1>3, FS_Union, Zenon
<1>7. Cardinality(S \cap U) = 0
  BY <1>5, FS_EmptySet, Zenon
<1>8. Batches(q, r, k + m) = Cardinality(S \cup U)
  BY <1>4, Zenon DEF Batches
<1>9. Cardinality(S) \in Nat /\ Cardinality(T) \in Nat
  BY <1>1, FS_CardinalityType, Zenon
<1>10. Cardinality(S) = Batches(q, r, k) /\ Cardinality(T) = Batches(p, r, m)
  BY Zenon DEF Batches
<1> HIDE DEF S, T, U
<1>11. QED
  BY <1>3, <1>6, <1>7, <1>8, <1>9, <1>10

-----------------------------------------------------------------------------
(* The group of the leader.                                                *)

(* Numbers are natural numbers. *)
LEMMA NumberTypes ==
    ASSUME TypeOK
    PROVE  lastSequence \in Nat /\ inserted \in Nat /\ group \in Nat
BY DEF TypeOK, Seqs

(* BatchesUpTo counts the batches of the queue. *)
LEMMA BatchesUpToIs ==
    /\ \A k : BatchesUpTo(k) = Batches(queue, req, k)
    /\ GroupSeqs = lastSequence + 1 .. lastSequence + Batches(queue, req, group)
BY Zenon DEF BatchesUpTo, GroupSeqs, Batches, BatchSet

(* The same after a step. *)
LEMMA BatchesUpToNext ==
    /\ BatchesUpTo(group)' = Batches(queue', req', group')
    /\ BatchesUpTo(Len(queue))' = Batches(queue', req', Len(queue'))
    /\ GroupSeqs' = lastSequence' + 1 .. lastSequence' + Batches(queue', req', group')
BY Zenon DEF BatchesUpTo, GroupSeqs, Batches, BatchSet

(* A thread without a group has nothing to show. *)
LEMMA GroupElsewhere ==
    ASSUME NEW u, pc'[u] \notin GroupLines
    PROVE  GroupOf(u)'
BY Zenon DEF GroupOf, Written

(* The group of a thread whose place, queue and numbers stay the same. *)
LEMMA GroupKept ==
    ASSUME NEW u, GroupOf(u), pc'[u] = pc[u],
           UNCHANGED <<queue, req, group, inserted, hstatus, lastSequence,
                       logged, synced, mem>>
    PROVE  GroupOf(u)'
<1>1. BatchesUpTo(group)' = BatchesUpTo(group) /\ GroupSeqs' = GroupSeqs
  BY BatchesUpToIs, BatchesUpToNext, Zenon
<1>2. QED
  BY <1>1, Zenon DEF GroupOf, Written

(* Steps in which nobody forms, writes or ends a group. *)
LEMMA GroupSame ==
    ASSUME GroupShape, UNCHANGED <<queue, req, group, inserted, hstatus,
                                   lastSequence, logged, synced, mem>>,
           \A u \in Threads : pc'[u] = pc[u] \/ pc'[u] \notin GroupLines
    PROVE  GroupShape'
BY GroupKept, GroupElsewhere, Zenon DEF GroupShape

(* After the end of a leader's Write there is no group. *)
LEMMA GroupEnds ==
    ASSUME TypeOK, QueueShape, NEW t \in Threads, NEW k \in 1..Len(queue),
           NEW st, NEW signals, pc[t] \in LeaderLines,
           FinishWrite(t, k, st, signals)
    PROVE  GroupShape'
<1>1. ASSUME NEW u \in Threads PROVE pc'[u] \notin GroupLines
  <2>1. CASE u = t
    <3>1. pc'[t] \in Lines \ (LeaderLines \cup {"waiting"})
      BY FinishIs
    <3>2. QED
      BY <2>1, <3>1, Zenon
  <2>2. CASE u # t
    <3>1. pc'[u] = pc[u]
      BY <2>2, FinishIs
    <3>2. QED
      BY <2>2, <3>1, LeaderIs, Zenon
  <2>3. QED
    BY <2>1, <2>2, Zenon
<1>2. QED
  BY <1>1, GroupElsewhere, Zenon DEF GroupShape

(* A call that joins the queue behind a group does not change it. *)
LEMMA GroupJoined ==
    ASSUME TypeOK, QueueShape, GroupShape, NEW t \in Threads, NEW sync,
           NEW batch, Enqueue(t, sync, batch)
    PROVE  GroupShape'
<1>1. /\ \A u \in Threads \ {t} : pc'[u] = pc[u] /\ req'[u] = req[u]
      /\ pc'[t] \in {"room", "waiting"} /\ pc[t] = "idle"
      /\ queue' = Append(queue, t)
      /\ UNCHANGED <<group, inserted, hstatus, lastSequence, logged, synced, mem>>
  BY ThreadTypes, Zenon DEF Enqueue, dbVars, logVars
<1>2. GroupOf(t)'
  BY <1>1, GroupElsewhere, Zenon
<1>3. ASSUME NEW u \in Threads \ {t}, pc[u] \in GroupLines PROVE GroupOf(u)'
  <2>1. GroupOf(u) /\ pc'[u] = pc[u] /\ req'[u] = req[u]
    BY <1>1, Zenon DEF GroupShape
  <2>2. group \in 1..Len(queue)
    BY <1>3, <2>1, QueuePlaces, Zenon DEF GroupOf
  <2>3. \A i \in 1..Len(queue) : queue'[i] = queue[i] /\ queue[i] \in Threads \ {t}
    <3>1. \A i \in 1..Len(queue) : queue'[i] = queue[i]
      BY <1>1 DEF TypeOK
    <3>2. \A i \in 1..Len(queue) : queue[i] # t
      BY <1>1, QueuePlaces, Zenon DEF QueueShape
    <3>3. QED
      BY <3>1, <3>2, QueuePlaces, Zenon
  <2>4. group \in DOMAIN queue'
    BY <1>1, <2>2 DEF TypeOK
  <2>5. \A i \in 1..group : i \in 1..Len(queue)
    BY <2>2, QueuePlaces
  <2>6. \A i \in 1..group : req'[queue'[i]] = req[queue[i]]
    BY <1>1, <2>3, <2>5, Zenon
  <2>7. Batches(queue', req', group) = Batches(queue, req, group)
    <3>1. group \in Nat
      BY NumberTypes, Zenon
    <3>2. \A i \in 1..group : req'[queue'[i]].batch <=> req[queue[i]].batch
      BY <2>6, Zenon
    <3>3. QED
      BY <3>1, <3>2, BatchesSame
  <2>8. BatchesUpTo(group)' = BatchesUpTo(group) /\ GroupSeqs' = GroupSeqs
    BY <1>1, <2>7, BatchesUpToIs, BatchesUpToNext, Zenon
  <2>9. \A i \in 2..group : req'[queue'[i]].sync = req[queue[i]].sync
    BY <2>6
  <2>10. QED
    BY <1>1, <2>1, <2>4, <2>8, <2>9, Zenon DEF GroupOf, Written
<1>4. ASSUME NEW u \in Threads \ {t}, pc[u] \notin GroupLines PROVE GroupOf(u)'
  BY <1>1, <1>4, GroupElsewhere, Zenon
<1>5. QED
  BY <1>2, <1>3, <1>4, Zenon DEF GroupShape

(* A leader with a batch finds at least one update in its group. *)
LEMMA GroupHasBatch ==
    ASSUME TypeOK, NEW k \in 1..Len(queue), req[queue[1]].batch
    PROVE  /\ Batches(queue, req, k) \in Nat /\ Batches(queue, req, k) >= 1
           /\ Batches(queue, req, 1) = 1
<1>1. 0 \in Nat /\ 1 \in Nat /\ k \in Nat /\ 0 + 1 = 1 /\ 1 <= k
  BY QueuePlaces
<1>2. Batches(queue, req, 0) \in Nat /\ Batches(queue, req, 0) <= 0
  BY <1>1, BatchesType, Zenon
<1>3. Batches(queue, req, 0 + 1) = Batches(queue, req, 0) + 1
  BY <1>1, BatchesNext, Zenon
<1>4. Batches(queue, req, 1) = 1
  BY <1>1, <1>2, <1>3
<1>5. Batches(queue, req, 1) <= Batches(queue, req, k)
  BY <1>1, BatchesGrow, Zenon
<1>6. Batches(queue, req, k) \in Nat
  BY <1>1, BatchesType, Zenon
<1>7. QED
  BY <1>4, <1>5, <1>6, Zenon

(* A leader that forms its group takes no sync write unless it syncs. *)
LEMMA GroupForms ==
    ASSUME TypeOK, QueueShape, GroupShape, NEW t \in Threads, Form(t)
    PROVE  GroupShape'
<1>1. /\ pc' = [pc EXCEPT ![t] = "append"] /\ pc[t] = "room" /\ req[t].batch
      /\ group' \in GroupSizes /\ inserted' = 0 /\ hstatus' = "ok"
      /\ queue' = queue /\ req' = req
  BY Zenon DEF Form
<1>2. /\ \A u \in Threads \ {t} : pc'[u] = pc[u] /\ pc[u] \notin LeaderLines
      /\ pc'[t] = "append" /\ queue[1] = t
  BY <1>1, ThreadTypes, LeaderIs, Zenon
<1>3. /\ group' \in DOMAIN queue
      /\ \A i \in 2..group' : req[queue[i]].sync => req[t].sync
  <2>1. /\ group' \in 1..Len(queue)
        /\ \A i \in 2..group' : ~(req[queue[i]].sync /\ ~req[queue[1]].sync)
    BY <1>1, Zenon DEF GroupSizes
  <2>2. QED
    BY <1>2, <2>1, QueuePlaces, Zenon
<1>4. GroupOf(t)'
  BY <1>1, <1>2, <1>3, Zenon DEF GroupOf, Written
<1>5. ASSUME NEW u \in Threads \ {t} PROVE GroupOf(u)'
  BY <1>2, GroupElsewhere, Zenon
<1>6. QED
  BY <1>4, <1>5, Zenon DEF GroupShape

(* What the steps of a leader outside the mutex leave alone. *)
LEMMA LeaderAlone ==
    ASSUME TypeOK, QueueShape, GroupShape, NEW t \in Threads,
           pc[t] \in GroupLines, NEW l, pc' = [pc EXCEPT ![t] = l],
           UNCHANGED <<queue, req, group, lastSequence>>, GroupOf(t)'
    PROVE  GroupShape'
<1>1. \A u \in Threads \ {t} : pc'[u] = pc[u] /\ pc[u] \notin LeaderLines
  BY ThreadTypes, LeaderIs, Zenon
<1>2. ASSUME NEW u \in Threads \ {t} PROVE GroupOf(u)'
  BY <1>1, GroupElsewhere, Zenon
<1>3. QED
  BY <1>2, Zenon DEF GroupShape

(* What is known of a leader and its group. *)
LEMMA GroupFacts ==
    ASSUME TypeOK, QueueShape, GroupShape, NEW t \in Threads,
           pc[t] \in GroupLines
    PROVE  /\ GroupOf(t) /\ req[t].batch /\ group \in 1..Len(queue)
           /\ queue[1] = t /\ group \in DOMAIN queue
           /\ \A i \in 2..group : req[queue[i]].sync => req[t].sync
           /\ BatchesUpTo(group) \in Nat /\ BatchesUpTo(group) >= 1
           /\ BatchesUpTo(1) = 1
<1>1. GroupOf(t) /\ queue[1] = t
  BY LeaderIs, Zenon DEF GroupShape
<1>2. /\ req[t].batch /\ group \in DOMAIN queue
      /\ \A i \in 2..group : req[queue[i]].sync => req[t].sync
  BY <1>1, Zenon DEF GroupOf
<1>3. group \in 1..Len(queue)
  BY <1>2, QueuePlaces, Zenon
<1>4. QED
  BY <1>1, <1>2, <1>3, GroupHasBatch, BatchesUpToIs, Zenon

(* The record of the group is added to the log. *)
LEMMA GroupAdded ==
    ASSUME TypeOK, QueueShape, GroupShape, NEW t \in Threads, AddRecord(t)
    PROVE  GroupShape'
<1>1. pc[t] = "append"
  BY Zenon DEF AddRecord
<1>2. UNCHANGED <<queue, req, group, lastSequence, inserted, mem, synced>>
  BY Zenon DEF AddRecord, dbVars
<1>3. BatchesUpTo(group)' = BatchesUpTo(group) /\ GroupSeqs' = GroupSeqs
  BY <1>2, BatchesUpToIs, BatchesUpToNext, Zenon
<1>4. /\ inserted = 0 /\ hstatus = "ok" /\ BatchesUpTo(group) >= 1
      /\ BatchesUpTo(group) \in Nat
      /\ req[t].batch /\ group \in DOMAIN queue
      /\ \A i \in 2..group : req[queue[i]].sync => req[t].sync
  BY <1>1, GroupFacts, Zenon DEF GroupOf
<1>5. CASE /\ pc' = [pc EXCEPT ![t] = IF req[t].sync THEN "sync" ELSE "insert"]
           /\ logged' = logged \cup GroupSeqs
           /\ UNCHANGED hstatus
  <2>1. pc'[t] = IF req[t].sync THEN "sync" ELSE "insert"
    BY <1>5, ThreadTypes, Zenon
  <2>2. lastSequence + 1 .. lastSequence + 0 = {}
    BY NumberTypes
  <2>3. GroupOf(t)'
    BY <1>2, <1>3, <1>4, <1>5, <2>1, <2>2 DEF GroupOf, Written
  <2>4. QED
    BY <1>1, <1>2, <1>5, <2>3, LeaderAlone, Zenon
<1>6. CASE /\ pc' = [pc EXCEPT ![t] = "relock"] /\ hstatus' = "error"
  <2>1. pc'[t] = "relock"
    BY <1>6, ThreadTypes, Zenon
  <2>2. GroupOf(t)'
    BY <1>2, <1>4, <1>6, <2>1, Zenon DEF GroupOf, Written
  <2>3. QED
    BY <1>1, <1>2, <1>6, <2>2, LeaderAlone, Zenon
<1>7. QED
  BY <1>5, <1>6, Zenon DEF AddRecord

(* The log is synced for a leader that asks for it. *)
LEMMA GroupSynced ==
    ASSUME TypeOK, QueueShape, GroupShape, NEW t \in Threads, SyncLog(t)
    PROVE  GroupShape'
<1>1. pc[t] = "sync"
  BY Zenon DEF SyncLog
<1>2. UNCHANGED <<queue, req, group, lastSequence, inserted, mem, logged>>
  BY Zenon DEF SyncLog, dbVars
<1>3. BatchesUpTo(group)' = BatchesUpTo(group) /\ GroupSeqs' = GroupSeqs
  BY <1>2, BatchesUpToIs, BatchesUpToNext, Zenon
<1>4. /\ inserted = 0 /\ hstatus = "ok" /\ BatchesUpTo(group) >= 1
      /\ BatchesUpTo(group) \in Nat /\ GroupSeqs \subseteq logged
      /\ req[t].batch /\ group \in DOMAIN queue
      /\ \A i \in 2..group : req[queue[i]].sync => req[t].sync
  BY <1>1, GroupFacts, Zenon DEF GroupOf
<1>5. CASE /\ pc' = [pc EXCEPT ![t] = "insert"] /\ synced' = synced \cup logged
           /\ UNCHANGED hstatus
  <2>1. pc'[t] = "insert"
    BY <1>5, ThreadTypes, Zenon
  <2>2. lastSequence + 1 .. lastSequence + 0 = {}
    BY NumberTypes
  <2>3. GroupOf(t)'
    BY <1>2, <1>3, <1>4, <1>5, <2>1, <2>2 DEF GroupOf, Written
  <2>4. QED
    BY <1>1, <1>2, <1>5, <2>3, LeaderAlone, Zenon
<1>6. CASE /\ pc' = [pc EXCEPT ![t] = "relock"] /\ hstatus' = "syncError"
  <2>1. pc'[t] = "relock"
    BY <1>6, ThreadTypes, Zenon
  <2>2. GroupOf(t)'
    BY <1>2, <1>4, <1>6, <2>1, Zenon DEF GroupOf, Written
  <2>3. QED
    BY <1>1, <1>2, <1>6, <2>2, LeaderAlone, Zenon
<1>7. QED
  BY <1>5, <1>6, Zenon DEF SyncLog

(* One update of the group is put in the memtable. *)
LEMMA GroupInserted ==
    ASSUME TypeOK, QueueShape, GroupShape, NEW t \in Threads, InsertInto(t)
    PROVE  GroupShape'
<1>1. /\ pc[t] = "insert" /\ inserted' = inserted + 1
      /\ mem' = mem \cup {lastSequence + inserted'}
      /\ UNCHANGED <<queue, req, group, lastSequence, logged, synced, hstatus>>
  BY Zenon DEF InsertInto, logVars
<1>2. PICK l : /\ pc' = [pc EXCEPT ![t] = l]
               /\ l = IF inserted' = BatchesUpTo(group) THEN "relock" ELSE "insert"
  BY <1>1, Zenon DEF InsertInto
<1>3. pc'[t] = l
  BY <1>2, ThreadTypes, Zenon
<1>4. BatchesUpTo(group)' = BatchesUpTo(group) /\ GroupSeqs' = GroupSeqs
  BY <1>1, BatchesUpToIs, BatchesUpToNext, Zenon
<1>5. /\ inserted < BatchesUpTo(group) /\ hstatus = "ok"
      /\ BatchesUpTo(group) \in Nat /\ GroupSeqs \subseteq logged
      /\ req[t].sync => GroupSeqs \subseteq synced
      /\ (lastSequence + 1 .. lastSequence + inserted) \subseteq mem
      /\ req[t].batch /\ group \in DOMAIN queue
      /\ \A i \in 2..group : req[queue[i]].sync => req[t].sync
  BY <1>1, GroupFacts, Zenon DEF GroupOf, Written
<1>6. lastSequence + 1 .. lastSequence + inserted'
        = (lastSequence + 1 .. lastSequence + inserted) \cup {lastSequence + inserted'}
  BY <1>1, NumberTypes
<1>7. (lastSequence + 1 .. lastSequence + inserted') \subseteq mem'
  BY <1>1, <1>5, <1>6, Zenon
<1>8. inserted' # BatchesUpTo(group) => inserted' < BatchesUpTo(group)
  BY <1>1, <1>5, NumberTypes
<1>9. GroupOf(t)'
  BY <1>1, <1>2, <1>3, <1>4, <1>5, <1>7, <1>8 DEF GroupOf, Written
<1>10. QED
  BY <1>1, <1>2, <1>9, LeaderAlone, Zenon

(* Every step keeps what is known of the group. *)
LEMMA GroupStep ==
    ASSUME TypeOK, QueueShape, GroupShape, Next
    PROVE  GroupShape'
<1>1. ASSUME NEW t \in Threads, WakeWriter(t) PROVE GroupShape'
  <2>1. UNCHANGED <<queue, req, group, inserted, hstatus, lastSequence, logged,
                    synced, mem>>
    BY <1>1, Zenon DEF WakeWriter, dbVars, logVars
  <2>2. \A u \in Threads \ {t} : pc'[u] = pc[u]
    BY <1>1, ThreadTypes, Zenon DEF WakeWriter
  <2>3. pc'[t] \notin GroupLines
    BY <1>1, ThreadTypes, ThreadsAssumption, Zenon DEF WakeWriter, AfterWrite, Threads
  <2>4. QED
    BY <2>1, <2>2, <2>3, GroupSame, Zenon
<1>2. ASSUME NEW t \in Threads, Passing(t) PROVE GroupShape'
  <2>1. UNCHANGED <<queue, req, group, inserted, hstatus, lastSequence, logged,
                    synced, mem>>
    BY <1>2, PassingKeeps, Zenon DEF writerVars, logVars
  <2>2. PICK l \in Lines \ GroupLines : pc' = [pc EXCEPT ![t] = l]
    BY <1>2, PassingKeeps, Zenon
  <2>3. \A u \in Threads : pc'[u] = pc[u] \/ pc'[u] \notin GroupLines
    BY <2>2, ThreadTypes, Zenon
  <2>4. QED
    BY <2>1, <2>3, GroupSame, Zenon
<1>3. ASSUME NEW t \in Threads, Early(t) PROVE GroupShape'
  <2>1. 1 \in 1..Len(queue)
    BY <1>3, LeaderIs, Zenon DEF Early
  <2>2. QED
    BY <1>3, <2>1, GroupEnds, SMTT(30) DEF Early
<1>4. ASSUME NEW t \in Threads, WriteEnd(t) PROVE GroupShape'
  <2>1. group \in 1..Len(queue)
    BY <1>4, GroupFacts, Zenon DEF WriteEnd
  <2>2. QED
    BY <1>4, <2>1, GroupEnds DEF WriteEnd
<1>5. ASSUME NEW t \in Threads, RoomSwitch(t) PROVE GroupShape'
  <2>1. pc[t] = "room" /\ pc' = pc
    BY <1>5, Zenon DEF RoomSwitch
  <2>2. \A u \in Threads : pc'[u] \notin GroupLines
    BY <2>1, LeaderIs, Zenon
  <2>3. QED
    BY <2>2, GroupElsewhere, Zenon DEF GroupShape
<1>6. ASSUME Aside PROVE GroupShape'
  <2>1. UNCHANGED <<queue, req, group, inserted, hstatus, lastSequence, logged,
                    synced, mem, pc>>
    BY <1>6, AsideKeeps, Zenon DEF writerVars, logVars
  <2>2. QED
    BY <2>1, GroupSame, Zenon
<1>7. QED
  BY StepKinds, GroupJoined, GroupForms, GroupAdded, GroupSynced, GroupInserted,
     <1>1, <1>2, <1>3, <1>4, <1>5, <1>6, Zenon

-----------------------------------------------------------------------------
(* Promises.                                                               *)

(* No step takes an update away from the readers: a memtable that is       *)
(* replaced becomes imm_, which is empty then, and a flushed one becomes a *)
(* table.                                                                  *)
LEMMA PresentStep ==
    ASSUME BackgroundShape, Next
    PROVE  /\ Present \subseteq Present'
           /\ Present' # Present =>
                \E t \in Threads : /\ InsertInto(t)
                                   /\ Present' = Present \cup {lastSequence + inserted'}
<1> USE DEF Present, dbVars
<1>1. ASSUME UNCHANGED <<mem, imm, tables>> PROVE Present' = Present
  BY <1>1, Zenon
<1>2. ASSUME NEW t \in Threads, RoomSwitch(t) PROVE Present' = Present
  BY <1>2, Zenon DEF RoomSwitch, MustWait, BackgroundShape, FlushShape
<1>3. ASSUME NEW t \in Threads, InsertInto(t)
      PROVE  Present' = Present \cup {lastSequence + inserted'}
  BY <1>3, Zenon DEF InsertInto
<1>4. ASSUME FlushEnd PROVE Present' = Present
  BY <1>4, Zenon DEF FlushEnd
<1>5. ASSUME Aside PROVE Present' = Present
  <2>1. CASE FlushEnd
    BY <1>4, <2>1, Zenon
  <2>2. CASE BackgroundSkip \/ BackgroundFlush \/ BackgroundManualDone
    BY <2>2, <1>1, Zenon DEF BackgroundSkip, BackgroundFlush, BackgroundManualDone
  <2>3. CASE BackgroundCompact \/ WorkFlush \/ FlushFails
    BY <2>3, <1>1, Zenon DEF BackgroundCompact, WorkFlush, FlushFails
  <2>4. CASE WorkEnd \/ WorkFails
    BY <2>4, <1>1, Zenon DEF WorkEnd, WorkFails
  <2>5. CASE SeekStat \/ Close \/ CloseAgain
    BY <2>5, <1>1, Zenon DEF SeekStat, Close, CloseAgain
  <2>6. CASE \E t \in Threads : CompactRangeRegister(t)
    BY <2>6, <1>1, Zenon DEF CompactRangeRegister
  <2>7. QED
    BY <1>5, <2>1, <2>2, <2>3, <2>4, <2>5, <2>6, Zenon DEF Aside, Background
<1>6. ASSUME NEW t \in Threads, NEW sync, NEW batch, Enqueue(t, sync, batch)
      PROVE  Present' = Present
  BY <1>6, <1>1, Zenon DEF Enqueue
<1>7. ASSUME NEW t \in Threads,
             \/ WakeWriter(t) \/ Passing(t) \/ Early(t) \/ Form(t)
             \/ AddRecord(t) \/ SyncLog(t) \/ WriteEnd(t)
      PROVE  Present' = Present
  BY <1>7, <1>1, PassingKeeps, Zenon
     DEF WakeWriter, Early, Form, AddRecord, SyncLog, WriteEnd
<1> HIDE DEF Present
<1>8. QED
  BY StepKinds, <1>2, <1>3, <1>5, <1>6, <1>7, Zenon

(* What a done writer was told stays true. *)
LEMMA TellsStill ==
    ASSUME NEW u, WrittenFor(u), done'[u] = done[u], status'[u] = status[u],
           req'[u] = req[u], seq'[u] = seq[u], logged \subseteq logged',
           synced \subseteq synced', Present \subseteq Present',
           seq[u] <= lastSequence => seq[u] <= lastSequence'
    PROVE  WrittenFor(u)'
BY Zenon DEF WrittenFor

(* The place of a writer in the queue. *)
LEMMA PlaceOf ==
    ASSUME TypeOK, QueueShape, NEW k \in 1..Len(queue), NEW i \in 1..k
    PROVE  (CHOOSE j \in 1..k : queue[j] = queue[i]) = i
<1>1. \A j \in 1..k : queue[j] = queue[i] => j = i
  BY QueuePlaces DEF QueueShape
<1>2. QED
  BY <1>1, Zenon

(* The leader and the members of a group with a batch have numbers of the  *)
(* group.                                                                  *)
LEMMA NumberOf ==
    ASSUME TypeOK, NEW k \in 1..Len(queue), NEW i \in 1..k,
           req[queue[i]].batch
    PROVE  lastSequence + BatchesUpTo(i)
             \in lastSequence + 1 .. lastSequence + BatchesUpTo(k)
<1>1. i - 1 \in Nat /\ k \in Nat /\ i \in Nat /\ i <= k /\ (i - 1) + 1 = i
  BY QueuePlaces
<1>2. Batches(queue, req, (i - 1) + 1) = Batches(queue, req, i - 1) + 1
  BY <1>1, BatchesNext, Zenon
<1>3. Batches(queue, req, i) <= Batches(queue, req, k)
  BY <1>1, BatchesGrow, Zenon
<1>4. /\ Batches(queue, req, i - 1) \in Nat /\ Batches(queue, req, i) \in Nat
      /\ Batches(queue, req, k) \in Nat
  BY <1>1, BatchesType, Zenon
<1>5. QED
  BY <1>1, <1>2, <1>3, <1>4, BatchesUpToIs, NumberTypes

(* What the end of Write tells the members, and what the leader returns. *)
LEMMA FinishTells ==
    ASSUME TypeOK, QueueShape, NEW t \in Threads, NEW k \in 1..Len(queue),
           NEW st, NEW signals, pc[t] \in LeaderLines,
           FinishWrite(t, k, st, signals)
    PROVE  /\ \A u \in Threads \ Members(k) :
                done'[u] = done[u] /\ status'[u] = status[u] /\ seq'[u] = seq[u]
           /\ \A i \in 2..k : /\ status'[queue[i]] = st
                              /\ seq'[queue[i]] = lastSequence + BatchesUpTo(i)
           /\ acked' = acked \cup (IF req[t].batch /\ st = "ok"
                                   THEN {lastSequence + BatchesUpTo(1)} ELSE {})
           /\ ackedSync' = ackedSync \cup
                             (IF req[t].sync /\ req[t].batch /\ st = "ok"
                              THEN {lastSequence + BatchesUpTo(1)} ELSE {})
<1> DEFINE Place(u) == CHOOSE j \in 1..k : queue[j] = u
           SeqOf(u) == lastSequence + BatchesUpTo(Place(u))
<1>1. /\ done' = [u \in Threads |-> done[u] \/ u \in Members(k)]
      /\ status' = [u \in Threads |-> IF u \in Members(k) THEN st ELSE status[u]]
      /\ seq' = [u \in Threads |-> IF u \in Members(k) THEN SeqOf(u) ELSE seq[u]]
      /\ Promise(t, SeqOf(t), st)
  BY Zenon DEF FinishWrite, Members
<1>2. \A i \in 1..k : Place(queue[i]) = i
  BY PlaceOf, Zenon
<1>3. Place(t) = 1
  BY <1>2, LeaderIs, QueuePlaces
<1>4. SeqOf(t) = lastSequence + BatchesUpTo(1)
  BY <1>3, Zenon
<1>5. ASSUME NEW i \in 2..k
      PROVE  /\ status'[queue[i]] = st
             /\ seq'[queue[i]] = lastSequence + BatchesUpTo(i)
  <2>1. queue[i] \in Members(k) /\ queue[i] \in Threads /\ i \in 1..k
    BY QueuePlaces DEF Members
  <2>2. Place(queue[i]) = i
    BY <1>2, <2>1, Zenon
  <2>3. SeqOf(queue[i]) = lastSequence + BatchesUpTo(i)
    BY <2>2, Zenon
  <2> HIDE DEF SeqOf
  <2>4. QED
    BY <1>1, <2>1, <2>3, Zenon
<1>6. \A u \in Threads \ Members(k) :
        done'[u] = done[u] /\ status'[u] = status[u] /\ seq'[u] = seq[u]
  <2> HIDE DEF SeqOf
  <2>1. QED
    BY <1>1, ThreadTypes, Zenon
<1>7. /\ acked' = acked \cup (IF req[t].batch /\ st = "ok"
                              THEN {lastSequence + BatchesUpTo(1)} ELSE {})
      /\ ackedSync' = ackedSync \cup
                        (IF req[t].sync /\ req[t].batch /\ st = "ok"
                         THEN {lastSequence + BatchesUpTo(1)} ELSE {})
  <2> HIDE DEF SeqOf
  <2>1. QED
    BY <1>1, <1>4, Zenon DEF Promise
<1>8. QED
  BY <1>5, <1>6, <1>7, Zenon

(* A writer that finishes alone tells nobody, and promises nothing. *)
LEMMA EarlyTells ==
    ASSUME TypeOK, QueueShape, NEW t \in Threads, Early(t)
    PROVE  /\ \A u \in Threads :
                done'[u] = done[u] /\ status'[u] = status[u] /\ seq'[u] = seq[u]
           /\ acked' = acked /\ ackedSync' = ackedSync
           /\ UNCHANGED <<lastSequence, req, logged, synced, calls>>
<1>1. PICK st \in {"ok", "error"} :
        (st = "ok" => ~req[t].batch) /\ FinishWrite(t, 1, st, {})
  BY Zenon DEF Early
<1>2. 1 \in 1..Len(queue) /\ pc[t] \in LeaderLines
  BY LeaderIs, Zenon DEF Early
<1>3. Members(1) = {}
  BY DEF Members
<1>4. UNCHANGED <<lastSequence, req, logged, synced, calls>>
  BY Zenon DEF Early, logVars
<1>5. \A u \in Threads :
        done'[u] = done[u] /\ status'[u] = status[u] /\ seq'[u] = seq[u]
  <2>1. \A u \in Threads \ Members(1) :
          done'[u] = done[u] /\ status'[u] = status[u] /\ seq'[u] = seq[u]
    BY <1>1, <1>2, FinishTells
  <2>2. QED
    BY <1>3, <2>1, Zenon
<1>6. /\ acked' = acked \cup (IF req[t].batch /\ st = "ok"
                              THEN {lastSequence + BatchesUpTo(1)} ELSE {})
      /\ ackedSync' = ackedSync \cup
                        (IF req[t].sync /\ req[t].batch /\ st = "ok"
                         THEN {lastSequence + BatchesUpTo(1)} ELSE {})
  BY <1>1, <1>2, FinishTells
<1>7. QED
  BY <1>1, <1>4, <1>5, <1>6, Zenon

(* The end of a group that was written: every member finds its update in   *)
(* the log, synced if it asked for it, and in the memtable.                *)
LEMMA EndTells ==
    ASSUME TypeOK, QueueShape, GroupShape, NEW t \in Threads, WriteEnd(t),
           hstatus = "ok", NEW i \in 1..group, req[queue[i]].batch
    PROVE  LET s == lastSequence + BatchesUpTo(i)
           IN  /\ s \in logged /\ s \in mem /\ s <= lastSequence'
               /\ req[queue[i]].sync => s \in synced
<1>1. /\ pc[t] = "relock" /\ Written(t)
      /\ lastSequence' = lastSequence + BatchesUpTo(group)
  BY Zenon DEF WriteEnd, SequenceAfterGroup, Written
<1>2. /\ GroupOf(t) /\ group \in 1..Len(queue) /\ BatchesUpTo(group) \in Nat
      /\ queue[1] = t
      /\ \A j \in 2..group : req[queue[j]].sync => req[t].sync
  BY <1>1, GroupFacts, Zenon
<1>3. /\ GroupSeqs \subseteq logged
      /\ req[t].sync => GroupSeqs \subseteq synced
      /\ (lastSequence + 1 .. lastSequence + BatchesUpTo(group)) \subseteq mem
  BY <1>1, <1>2, Zenon DEF GroupOf
<1>4. lastSequence + BatchesUpTo(i)
        \in lastSequence + 1 .. lastSequence + BatchesUpTo(group)
  BY <1>2, NumberOf, Zenon
<1>5. req[queue[i]].sync => req[t].sync
  <2>1. i = 1 \/ i \in 2..group
    BY <1>2
  <2>2. QED
    BY <1>2, <2>1, Zenon
<1>6. QED
  BY <1>1, <1>2, <1>3, <1>4, <1>5, NumberTypes DEF GroupSeqs

(* Every step keeps what done writers were told. *)
LEMMA DoneStep ==
    ASSUME TypeOK, QueueShape, GroupShape, DoneWritten, BackgroundShape, Next
    PROVE  DoneWritten'
<1>1. Present \subseteq Present'
  BY PresentStep, Zenon
<1>2. ASSUME UNCHANGED <<done, status, req, seq, lastSequence>>,
             logged \subseteq logged', synced \subseteq synced'
      PROVE  DoneWritten'
  BY <1>1, <1>2, TellsStill, Zenon DEF DoneWritten
<1>3. ASSUME NEW t \in Threads, NEW sync, NEW batch, Enqueue(t, sync, batch)
      PROVE  DoneWritten'
  <2>1. ~done'[t]
    BY <1>3, Zenon DEF Enqueue, QueueShape
  <2>2. WrittenFor(t)'
    BY <2>1, Zenon DEF WrittenFor
  <2>3. ASSUME NEW u \in Threads \ {t} PROVE WrittenFor(u)'
    BY <1>1, <1>3, ThreadTypes, TellsStill, Zenon DEF Enqueue, logVars, DoneWritten
  <2>4. QED
    BY <2>2, <2>3, Zenon DEF DoneWritten
<1>4. ASSUME NEW t \in Threads, WakeWriter(t) PROVE DoneWritten'
  <2>1. CASE done[t]
    <3>1. /\ ~done'[t]
          /\ \A u \in Threads \ {t} :
               done'[u] = done[u] /\ status'[u] = status[u] /\ seq'[u] = seq[u]
      BY <1>4, <2>1, ThreadTypes, Zenon DEF WakeWriter
    <3>2. WrittenFor(t)'
      BY <3>1, Zenon DEF WrittenFor
    <3>3. ASSUME NEW u \in Threads \ {t} PROVE WrittenFor(u)'
      BY <1>1, <1>4, <3>1, TellsStill, Zenon DEF WakeWriter, logVars, DoneWritten
    <3>4. QED
      BY <3>2, <3>3, Zenon DEF DoneWritten
  <2>2. CASE ~done[t]
    BY <1>2, <1>4, <2>2, Zenon DEF WakeWriter, logVars
  <2>3. QED
    BY <2>1, <2>2, Zenon
<1>5. ASSUME NEW t \in Threads, Early(t) PROVE DoneWritten'
  <2>1. ASSUME NEW u \in Threads PROVE WrittenFor(u)'
    BY <1>1, <1>5, EarlyTells, TellsStill, Zenon DEF DoneWritten
  <2>2. QED
    BY <2>1, Zenon DEF DoneWritten
<1>6. ASSUME NEW t \in Threads, WriteEnd(t) PROVE DoneWritten'
  <2> DEFINE st == IF hstatus = "ok" THEN "ok" ELSE "error"
  <2>1. /\ pc[t] = "relock" /\ UNCHANGED <<req, logged, synced, mem>>
        /\ \E signals : FinishWrite(t, group, st, signals)
        /\ lastSequence' = lastSequence + BatchesUpTo(group)
    BY <1>6, Zenon DEF WriteEnd, SequenceAfterGroup, logVars, dbVars
  <2>2. group \in 1..Len(queue) /\ BatchesUpTo(group) \in Nat
    BY <2>1, GroupFacts, Zenon
  <2>3. ASSUME NEW u \in Threads \ Members(group) PROVE WrittenFor(u)'
    <3>1. done'[u] = done[u] /\ status'[u] = status[u] /\ seq'[u] = seq[u]
      BY <2>1, <2>2, FinishTells
    <3>2. seq[u] <= lastSequence => seq[u] <= lastSequence'
      <4>1. seq[u] \in Nat /\ lastSequence \in Nat
        BY DEF TypeOK, Seqs
      <4>2. QED
        BY <2>1, <2>2, <4>1
    <3>3. QED
      BY <1>1, <2>1, <3>1, <3>2, TellsStill, Zenon DEF DoneWritten
  <2>4. ASSUME NEW u \in Members(group) PROVE WrittenFor(u)'
    <3>1. PICK i \in 2..group : u = queue[i]
      BY Zenon DEF Members
    <3>2. status'[u] = st /\ seq'[u] = lastSequence + BatchesUpTo(i)
      BY <2>1, <2>2, <3>1, FinishTells
    <3>3. CASE hstatus = "ok" /\ req[u].batch
      <4>1. i \in 1..group
        BY <2>2
      <4>2. LET s == lastSequence + BatchesUpTo(i)
            IN  /\ s \in logged /\ s \in mem /\ s <= lastSequence'
                /\ req[u].sync => s \in synced
        BY <1>6, <3>1, <3>3, <4>1, EndTells, Zenon
      <4>3. QED
        BY <2>1, <3>2, <4>2, Zenon DEF WrittenFor, Present
    <3>4. CASE ~(hstatus = "ok" /\ req[u].batch)
      BY <2>1, <3>2, <3>4, Zenon DEF WrittenFor
    <3>5. QED
      BY <3>3, <3>4, Zenon
  <2>5. QED
    BY <2>3, <2>4, Zenon DEF DoneWritten
<1>7. ASSUME NEW t \in Threads, Form(t) PROVE DoneWritten'
  BY <1>2, <1>7, Zenon DEF Form, logVars
<1>8. ASSUME NEW t \in Threads, AddRecord(t) \/ SyncLog(t) PROVE DoneWritten'
  BY <1>2, <1>8, Zenon DEF AddRecord, SyncLog
<1>9. ASSUME NEW t \in Threads, InsertInto(t) \/ RoomSwitch(t) PROVE DoneWritten'
  BY <1>2, <1>9, Zenon DEF InsertInto, RoomSwitch, logVars
<1>10. ASSUME UNCHANGED writerVars PROVE DoneWritten'
  BY <1>2, <1>10, Zenon DEF writerVars, logVars
<1>11. QED
  BY StepKinds, AsideKeeps, PassingKeeps, <1>3, <1>4, <1>5, <1>6, <1>7, <1>8,
     <1>9, <1>10, Zenon

(* Every step keeps the promises: what Write returned OK for was written,  *)
(* and synced if the caller asked for it.                                  *)
LEMMA PromiseStep ==
    ASSUME TypeOK, QueueShape, GroupShape, DoneWritten, BackgroundShape,
           SyncHonoured, ReadYourWrites, Next
    PROVE  SyncHonoured' /\ ReadYourWrites'
<1>1. Present \subseteq Present'
  BY PresentStep, Zenon
<1>2. ASSUME NEW told, logged \subseteq logged', synced \subseteq synced',
             lastSequence' \in Nat, lastSequence <= lastSequence',
             \A s \in told :
                s \in logged' /\ s \in Present' /\ s <= lastSequence',
             acked' = acked \cup told,
             ackedSync' \subseteq ackedSync \cup (told \cap synced')
      PROVE  SyncHonoured' /\ ReadYourWrites'
  <2>1. \A s \in acked : s \in Nat
    BY DEF TypeOK, Seqs
  <2>2. \A s \in acked : s <= lastSequence'
    BY <1>2, <2>1, NumberTypes DEF ReadYourWrites
  <2>3. QED
    BY <1>1, <1>2, <2>2, Zenon DEF SyncHonoured, ReadYourWrites
<1>3. ASSUME UNCHANGED <<acked, ackedSync, lastSequence>>,
             logged \subseteq logged', synced \subseteq synced'
      PROVE  SyncHonoured' /\ ReadYourWrites'
  BY <1>1, <1>3, Zenon DEF SyncHonoured, ReadYourWrites
<1>4. ASSUME NEW t \in Threads, WakeWriter(t)
      PROVE  SyncHonoured' /\ ReadYourWrites'
  <2> DEFINE told == IF req[t].batch /\ status[t] = "ok" THEN {seq[t]} ELSE {}
  <2>1. UNCHANGED <<logged, synced, lastSequence>>
    BY <1>4, Zenon DEF WakeWriter, logVars
  <2>2. CASE done[t]
    <3>1. /\ acked' = acked \cup told
          /\ ackedSync' = IF req[t].sync THEN ackedSync \cup told ELSE ackedSync
      BY <1>4, <2>2, Zenon DEF WakeWriter, Promise
    <3>2. /\ \A s \in told : s \in logged /\ s \in Present /\ s <= lastSequence
          /\ req[t].sync => told \subseteq synced
      BY <2>2, Zenon DEF DoneWritten, WrittenFor
    <3> HIDE DEF told
    <3>3. QED
      BY <1>1, <1>2, <2>1, <3>1, <3>2, NumberTypes
  <2>3. CASE ~done[t]
    BY <1>3, <1>4, <2>1, <2>3, Zenon DEF WakeWriter, promiseVars
  <2>4. QED
    BY <2>2, <2>3, Zenon
<1>5. ASSUME NEW t \in Threads, Early(t) PROVE SyncHonoured' /\ ReadYourWrites'
  BY <1>3, <1>5, EarlyTells, Zenon
<1>6. ASSUME NEW t \in Threads, WriteEnd(t)
      PROVE  SyncHonoured' /\ ReadYourWrites'
  <2> DEFINE st == IF hstatus = "ok" THEN "ok" ELSE "error"
             told == IF req[t].batch /\ st = "ok"
                     THEN {lastSequence + BatchesUpTo(1)} ELSE {}
  <2>1. /\ pc[t] = "relock" /\ UNCHANGED <<req, logged, synced, mem>>
        /\ \E signals : FinishWrite(t, group, st, signals)
        /\ lastSequence' = lastSequence + BatchesUpTo(group)
    BY <1>6, Zenon DEF WriteEnd, SequenceAfterGroup, logVars, dbVars
  <2>2. /\ group \in 1..Len(queue) /\ BatchesUpTo(group) \in Nat
        /\ queue[1] = t /\ 1 \in 1..group
    BY <2>1, GroupFacts, QueuePlaces
  <2>3. /\ acked' = acked \cup told
        /\ ackedSync' = ackedSync \cup
                          (IF req[t].sync /\ req[t].batch /\ st = "ok"
                           THEN {lastSequence + BatchesUpTo(1)} ELSE {})
    <3> HIDE DEF st
    <3>1. QED
      BY <2>1, <2>2, FinishTells
  <2>4. ackedSync' = ackedSync \cup (IF req[t].sync THEN told ELSE {})
    BY <2>3, Zenon
  <2>5. CASE hstatus = "ok" /\ req[t].batch
    <3>1. told = {lastSequence + BatchesUpTo(1)}
      BY <2>5, Zenon
    <3>2. LET s == lastSequence + BatchesUpTo(1)
          IN  /\ s \in logged /\ s \in mem /\ s <= lastSequence'
              /\ req[t].sync => s \in synced
      BY <1>6, <2>2, <2>5, EndTells, Zenon
    <3>3. /\ \A s \in told : s \in logged' /\ s \in Present' /\ s <= lastSequence'
          /\ req[t].sync => told \subseteq synced'
      BY <2>1, <3>1, <3>2, Zenon DEF Present
    <3>4. lastSequence' \in Nat /\ lastSequence <= lastSequence'
      BY <2>1, <2>2, NumberTypes
    <3> HIDE DEF told
    <3>5. QED
      BY <1>2, <2>1, <2>3, <2>4, <3>3, <3>4, Zenon
  <2>6. CASE ~(hstatus = "ok" /\ req[t].batch)
    <3>1. told = {}
      BY <2>6, Zenon
    <3>2. lastSequence' \in Nat /\ lastSequence <= lastSequence'
      BY <2>1, <2>2, NumberTypes
    <3> HIDE DEF told
    <3>3. QED
      BY <1>2, <2>1, <2>3, <2>4, <3>1, <3>2
  <2>7. QED
    BY <2>5, <2>6, Zenon
<1>7. ASSUME NEW t \in Threads, Form(t) PROVE SyncHonoured' /\ ReadYourWrites'
  BY <1>3, <1>7, Zenon DEF Form, logVars, promiseVars
<1>8. ASSUME NEW t \in Threads, AddRecord(t) \/ SyncLog(t)
      PROVE  SyncHonoured' /\ ReadYourWrites'
  BY <1>3, <1>8, Zenon DEF AddRecord, SyncLog, promiseVars
<1>9. ASSUME NEW t \in Threads, InsertInto(t) \/ RoomSwitch(t)
      PROVE  SyncHonoured' /\ ReadYourWrites'
  BY <1>3, <1>9, Zenon DEF InsertInto, RoomSwitch, logVars, promiseVars
<1>10. ASSUME UNCHANGED writerVars PROVE SyncHonoured' /\ ReadYourWrites'
  BY <1>3, <1>10, Zenon DEF writerVars, logVars, promiseVars
<1>11. ASSUME NEW t \in Threads, NEW sync, NEW batch, Enqueue(t, sync, batch)
       PROVE  SyncHonoured' /\ ReadYourWrites'
  BY <1>3, <1>11, Zenon DEF Enqueue, logVars, promiseVars
<1>12. QED
  BY StepKinds, AsideKeeps, PassingKeeps, <1>4, <1>5, <1>6, <1>7, <1>8,
     <1>9, <1>10, <1>11, Zenon

(* No step changes which of the updates up to last_sequence_ are there. *)
LEMMA StableStep ==
    ASSUME TypeOK, BackgroundShape, Next
    PROVE  \A s \in 1..lastSequence : s \in Present <=> s \in Present'
<1>1. ASSUME NEW t \in Threads, InsertInto(t),
             Present' = Present \cup {lastSequence + inserted'}
      PROVE  \A s \in 1..lastSequence : s \in Present <=> s \in Present'
  <2>1. lastSequence + inserted' \notin 1..lastSequence
    BY <1>1, NumberTypes DEF InsertInto
  <2>2. QED
    BY <1>1, <2>1, Zenon
<1>2. QED
  BY <1>1, PresentStep, Zenon

-----------------------------------------------------------------------------
(* Sequence numbers.                                                       *)

(* The calls of Write so far. *)
Made(c) == {p \in Writers \X (1..MaxCalls) : p[2] <= c[p[1]]}

(* There are at most MaxCalls of them for each writer. *)
LEMMA MadeType ==
    ASSUME NEW c
    PROVE  /\ IsFiniteSet(Made(c)) /\ Cardinality(Made(c)) \in Nat
           /\ MaxCalls * Cardinality(Writers) \in Nat
           /\ Cardinality(Made(c)) <= MaxCalls * Cardinality(Writers)
<1>1. IsFiniteSet(Writers) /\ Cardinality(Writers) \in Nat
  <2>1. Writers \in SUBSET Threads /\ IsFiniteSet(Threads)
    BY ThreadsAssumption, Zenon DEF Threads
  <2>2. QED
    BY <2>1, FS_Subset, FS_CardinalityType, Zenon
<1>2. 1 \in Int /\ MaxCalls \in Int /\ MaxCalls \in Nat
  BY TriggersAssumption
<1>3. /\ IsFiniteSet(1..MaxCalls)
      /\ Cardinality(1..MaxCalls) = IF 1 > MaxCalls THEN 0 ELSE MaxCalls - 1 + 1
  BY <1>2, FS_Interval, Zenon
<1>4. Cardinality(1..MaxCalls) = MaxCalls
  BY <1>2, <1>3
<1>5. /\ IsFiniteSet(Writers \X (1..MaxCalls))
      /\ Cardinality(Writers \X (1..MaxCalls))
           = Cardinality(Writers) * Cardinality(1..MaxCalls)
  BY <1>1, <1>3, FS_Product, Zenon
<1>6. Cardinality(Writers \X (1..MaxCalls)) = Cardinality(Writers) * MaxCalls
  BY <1>4, <1>5, Zenon
<1>7. Made(c) \in SUBSET (Writers \X (1..MaxCalls))
  BY Zenon DEF Made
<1>8. /\ IsFiniteSet(Made(c))
      /\ Cardinality(Made(c)) <= Cardinality(Writers \X (1..MaxCalls))
  BY <1>5, <1>7, FS_Subset, Zenon
<1>9. Cardinality(Made(c)) \in Nat
  BY <1>8, FS_CardinalityType, Zenon
<1>10. /\ MaxCalls * Cardinality(Writers) \in Nat
       /\ Cardinality(Writers) * MaxCalls = MaxCalls * Cardinality(Writers)
  BY <1>1, <1>2
<1>11. Cardinality(Made(c)) <= MaxCalls * Cardinality(Writers)
  BY <1>6, <1>8, <1>10, Zenon
<1>12. QED
  BY <1>8, <1>9, <1>10, <1>11, Zenon

(* A call of Write is counted. *)
LEMMA MadeStep ==
    ASSUME TypeOK, NEW t \in Threads, calls[t] < MaxCalls,
           calls' = [calls EXCEPT ![t] = @ + 1]
    PROVE  Cardinality(Made(calls'))
             = IF t \in Writers THEN Cardinality(Made(calls)) + 1
               ELSE Cardinality(Made(calls))
<1>1. /\ \A u \in Threads : calls[u] \in 0..MaxCalls
      /\ calls'[t] = calls[t] + 1 /\ \A u \in Threads \ {t} : calls'[u] = calls[u]
      /\ calls[t] \in Nat /\ calls[t] + 1 \in 1..MaxCalls
  BY TriggersAssumption DEF TypeOK
<1>2. IsFiniteSet(Made(calls))
  BY MadeType, Zenon
<1>3. CASE t \in Writers
  <2> DEFINE new == <<t, calls[t] + 1>>
  <2>1. new \notin Made(calls)
    BY <1>1 DEF Made
  <2>2. ASSUME NEW p \in Made(calls') PROVE p \in Made(calls) \cup {new}
    <3>1. PICK u \in Writers, n \in 1..MaxCalls : p = <<u, n>>
      BY DEF Made
    <3>2. n <= calls'[u] /\ u \in Threads
      BY <3>1, Zenon DEF Made, Threads
    <3>3. CASE u = t
      <4>1. n <= calls[t] \/ n = calls[t] + 1
        BY <1>1, <3>2, <3>3
      <4>2. QED
        BY <3>1, <3>3, <4>1, Zenon DEF Made
    <3>4. CASE u # t
      BY <1>1, <3>1, <3>2, <3>4, Zenon DEF Made
    <3>5. QED
      BY <3>3, <3>4, Zenon
  <2>3. ASSUME NEW p \in Made(calls) PROVE p \in Made(calls')
    <3>1. PICK u \in Writers, n \in 1..MaxCalls : p = <<u, n>>
      BY DEF Made
    <3>2. n <= calls[u] /\ u \in Threads
      BY <3>1, Zenon DEF Made, Threads
    <3>3. n <= calls'[u]
      <4>1. CASE u = t
        BY <1>1, <3>2, <4>1
      <4>2. CASE u # t
        BY <1>1, <3>2, <4>2, Zenon
      <4>3. QED
        BY <4>1, <4>2, Zenon
    <3>4. QED
      BY <3>1, <3>3, Zenon DEF Made
  <2>4. new \in Made(calls')
    BY <1>1, <1>3 DEF Made
  <2> HIDE DEF new
  <2>5. Made(calls') = Made(calls) \cup {new}
    BY <2>2, <2>3, <2>4, Zenon
  <2>6. Cardinality(Made(calls) \cup {new}) = Cardinality(Made(calls)) + 1
    BY <1>2, <2>1, FS_AddElement, Zenon
  <2>7. Cardinality(Made(calls')) = Cardinality(Made(calls)) + 1
    BY <2>5, <2>6, Zenon
  <2>8. QED
    BY <1>3, <2>7, Zenon
<1>4. CASE t \notin Writers
  <2>1. \A u \in Writers : calls'[u] = calls[u]
    BY <1>1, <1>4, Zenon DEF Threads
  <2>2. Made(calls') = Made(calls)
    BY <2>1, Zenon DEF Made
  <2>3. QED
    BY <1>4, <2>2, Zenon
<1>5. QED
  BY <1>3, <1>4, Zenon

(* No step uses more sequence numbers than there are batches. *)
LEMMA NumberedStep ==
    ASSUME TypeOK, QueueShape, GroupShape, Numbered, Next
    PROVE  Numbered'
<1> DEFINE N(s, q, r) == s + Batches(q, r, Len(q))
<1>1. /\ Numbered <=> N(lastSequence, queue, req) <= Cardinality(Made(calls))
      /\ Numbered' <=> N(lastSequence', queue', req') <= Cardinality(Made(calls'))
  BY BatchesUpToIs, BatchesUpToNext, Zenon DEF Numbered, Made
<1>2. N(lastSequence, queue, req) <= Cardinality(Made(calls))
  BY <1>1, Zenon
<1>3. /\ Cardinality(Made(calls)) \in Nat /\ lastSequence \in Nat
      /\ Len(queue) \in Nat /\ Batches(queue, req, Len(queue)) \in Nat
  BY MadeType, NumberTypes, QueuePlaces, BatchesType, Zenon
<1>4. ASSUME UNCHANGED <<queue, req, lastSequence, calls>> PROVE Numbered'
  BY <1>4, Zenon DEF Numbered, BatchesUpTo
<1>5. ASSUME NEW t \in Threads, NEW sync \in BOOLEAN, NEW batch \in BOOLEAN,
             Enqueue(t, sync, batch), batch <=> t \in Writers
      PROVE  Numbered'
  <2>1. /\ queue' = Append(queue, t) /\ lastSequence' = lastSequence
        /\ calls[t] < MaxCalls /\ calls' = [calls EXCEPT ![t] = @ + 1]
        /\ req' = [req EXCEPT ![t] = [sync |-> sync, batch |-> batch]]
        /\ pc[t] = "idle"
    BY <1>5, Zenon DEF Enqueue
  <2>2. /\ Len(queue') = Len(queue) + 1 /\ queue'[Len(queue) + 1] = t
        /\ \A i \in 1..Len(queue) : queue'[i] = queue[i]
    BY <2>1 DEF TypeOK
  <2>3. req'[t].batch = batch /\ \A u \in Threads \ {t} : req'[u] = req[u]
    BY <2>1, ThreadTypes, Zenon
  <2>4. \A i \in 1..Len(queue) : queue[i] \in Threads \ {t}
    BY <2>1, QueuePlaces, Zenon DEF QueueShape
  <2>5. \A i \in 1..Len(queue) : req'[queue'[i]].batch <=> req[queue[i]].batch
    BY <2>2, <2>3, <2>4, Zenon
  <2>6. Batches(queue', req', Len(queue)) = Batches(queue, req, Len(queue))
    BY <1>3, <2>5, BatchesSame
  <2>7. Batches(queue', req', Len(queue) + 1)
          = IF req'[queue'[Len(queue) + 1]].batch
            THEN Batches(queue', req', Len(queue)) + 1
            ELSE Batches(queue', req', Len(queue))
    BY <1>3, BatchesNext, Zenon
  <2>8. Batches(queue', req', Len(queue'))
          = IF t \in Writers THEN Batches(queue, req, Len(queue)) + 1
            ELSE Batches(queue, req, Len(queue))
    BY <1>5, <2>2, <2>3, <2>6, <2>7, Zenon
  <2>9. Cardinality(Made(calls'))
          = IF t \in Writers THEN Cardinality(Made(calls)) + 1
            ELSE Cardinality(Made(calls))
    BY <2>1, MadeStep, Zenon
  <2>10. QED
    BY <1>1, <1>2, <1>3, <2>1, <2>8, <2>9
<1>6. ASSUME NEW t \in Threads, NEW k \in 1..Len(queue), NEW st, NEW signals,
             pc[t] \in LeaderLines, FinishWrite(t, k, st, signals),
             UNCHANGED <<req, calls>>,
             lastSequence' \in {lastSequence, lastSequence + BatchesUpTo(k)}
      PROVE  Numbered'
  <2> DEFINE m == Len(queue) - k
  <2>1. /\ m \in Nat /\ k \in Nat /\ k + m = Len(queue)
    BY <1>3
  <2>2. Len(queue') = m /\ \A i \in 1..m : queue'[i] = queue[k + i]
    BY <1>6, FinishIs, SMTT(30)
  <2> HIDE DEF m
  <2>3. Batches(queue, req, k + m) = Batches(queue, req, k) + Batches(queue', req, m)
    <3>1. ASSUME NEW p, p = queue'
          PROVE  Batches(queue, req, k + m) = Batches(queue, req, k) + Batches(p, req, m)
      <4>1. \A i \in 1..m : p[i] = queue[k + i]
        BY <2>2, <3>1, Zenon
      <4>2. QED
        BY <2>1, <4>1, BatchesSplit
    <3>2. QED
      BY <3>1, Zenon
  <2>4. Batches(queue, req, k) \in Nat /\ Batches(queue', req, m) \in Nat
    BY <2>1, BatchesType, Zenon
  <2>5. N(lastSequence', queue', req') = lastSequence' + Batches(queue', req, m)
    BY <1>6, <2>2, Zenon
  <2>6. BatchesUpTo(k) = Batches(queue, req, k)
    BY BatchesUpToIs, Zenon
  <2>7. lastSequence' + Batches(queue', req, m)
          <= lastSequence + Batches(queue, req, Len(queue))
    BY <1>3, <1>6, <2>1, <2>3, <2>4, <2>6
  <2>8. Cardinality(Made(calls')) = Cardinality(Made(calls))
    BY <1>6, Zenon
  <2>9. lastSequence' \in Nat
    BY <1>3, <1>6, <2>4, <2>6
  <2>10. QED
    BY <1>1, <1>2, <1>3, <2>4, <2>5, <2>7, <2>8, <2>9
<1>7. ASSUME NEW t \in Threads, Early(t) PROVE Numbered'
  <2>1. 1 \in 1..Len(queue) /\ pc[t] \in LeaderLines
    BY <1>7, LeaderIs, Zenon DEF Early
  <2>2. UNCHANGED <<req, calls, lastSequence>> /\ \E st : FinishWrite(t, 1, st, {})
    BY <1>7, Zenon DEF Early
  <2>3. QED
    BY <1>6, <2>1, <2>2
<1>8. ASSUME NEW t \in Threads, WriteEnd(t) PROVE Numbered'
  <2>1. /\ pc[t] = "relock" /\ UNCHANGED <<req, calls>>
        /\ lastSequence' = lastSequence + BatchesUpTo(group)
        /\ \E st, signals : FinishWrite(t, group, st, signals)
    BY <1>8, Zenon DEF WriteEnd, SequenceAfterGroup
  <2>2. group \in 1..Len(queue)
    BY <2>1, GroupFacts, Zenon
  <2>3. QED
    BY <1>6, <2>1, <2>2
<1>9. ASSUME NEW t \in Threads, WakeWriter(t) \/ Form(t) \/ RoomSwitch(t)
      PROVE  Numbered'
  BY <1>4, <1>9, Zenon DEF WakeWriter, Form, RoomSwitch
<1>10. ASSUME NEW t \in Threads, AddRecord(t) \/ SyncLog(t) \/ InsertInto(t)
       PROVE  Numbered'
  BY <1>4, <1>10, Zenon DEF AddRecord, SyncLog, InsertInto
<1>11. ASSUME UNCHANGED writerVars PROVE Numbered'
  BY <1>4, <1>11, Zenon DEF writerVars
<1>12. QED
  BY StepKinds, AsideKeeps, PassingKeeps, <1>5, <1>7, <1>8, <1>9, <1>10, <1>11,
     Zenon

(* The numbers of the writers in the queue are within bounds. *)
LEMMA NumbersInRange ==
    ASSUME TypeOK, Numbered, NEW k \in 0..Len(queue)
    PROVE  /\ BatchesUpTo(k) \in Nat
           /\ lastSequence + BatchesUpTo(k) \in {0} \cup Seqs
           /\ (lastSequence + 1 .. lastSequence + BatchesUpTo(k)) \subseteq Seqs
<1> DEFINE bound == MaxCalls * Cardinality(Writers)
<1>1. k \in Nat /\ k <= Len(queue) /\ Len(queue) \in Nat /\ lastSequence \in Nat
  BY QueuePlaces, NumberTypes
<1>2. /\ BatchesUpTo(k) \in Nat /\ BatchesUpTo(Len(queue)) \in Nat
      /\ BatchesUpTo(k) <= BatchesUpTo(Len(queue))
  BY <1>1, BatchesType, BatchesGrow, BatchesUpToIs, Zenon
<1>3. /\ Cardinality(Made(calls)) \in Nat /\ bound \in Nat
      /\ Cardinality(Made(calls)) <= bound
  BY MadeType, Zenon
<1>4. lastSequence + BatchesUpTo(Len(queue)) <= Cardinality(Made(calls))
  BY Zenon DEF Numbered, Made
<1>5. Seqs = 1..bound
  BY Zenon DEF Seqs
<1> HIDE DEF bound
<1>6. QED
  BY <1>1, <1>2, <1>3, <1>4, <1>5

=============================================================================
