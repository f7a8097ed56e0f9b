-------------------------- MODULE BufferPoolProofs --------------------------
(***************************************************************************)
(* The buffer pool is correct for any goroutines, calls and buffers: no    *)
(* goroutine sends on a closed channel or blocks in a send, no datum is    *)
(* lost or got twice before Close, and the counters are right.             *)
(*                                                                         *)
(* PoolInv is the inductive invariant.  LockInv is the discipline of       *)
(* rwlock: a line under the lock has it, and the channel is closed by a    *)
(* writer, when nobody is between the look at closed and the send.         *)
(* CountInv relates bufferNumber with the buffers in the channel and in    *)
(* hands.  PlaceInv says that a datum is in one place.  TotalInv relates   *)
(* total with the data: what was put and not yet added, or got and not yet *)
(* subtracted.  That total does not wrap needs the bound of LostInv on the *)
(* data that a closed pool has dropped.  LocalInv is what a goroutine      *)
(* knows at its line.  LockInv, LocalInv and CountInv are shown here,      *)
(* PlaceInv and LostInv in BufferPoolPlaces, TotalInv and the theorems     *)
(* about PoolInv in BufferPoolTotals.                                      *)
(***************************************************************************)
EXTENDS BufferPool, FiniteSetTheorems, TLAPS

(* The lines without a lock, under the read lock and under the lock. *)
Unlocked == {"idle", "limit", "range", "entry", "put", "add", "full", "lock",
             "defer", "get", "subtract", "shrink", "discard"}
Reading == {"giveBack", "send", "drop"}
Writing == {"recheck", "reopen", "grow", "countBuffer", "countDatum", "drain"}

(* The inductive invariant. *)
LockInv ==
    /\ pc \in [Goroutines -> Lines]
    /\ chClosed \in BOOLEAN /\ closed \in BOOLEAN
    /\ chClosed => closed
    /\ writer # {} => readers = {}
    /\ \A g \in Goroutines :
         /\ pc[g] \in Reading => g \in readers
         /\ pc[g] \in Writing => writer = {g}
         /\ pc[g] \in {"drop", "closeLock", "drain"} => closed
         /\ pc[g] \in {"send", "grow"} => ~chClosed

(***************************************************************************)
(* The invariant of the buffers and of their data.                         *)
(***************************************************************************)
PutLines == {"put", "add", "full", "lock", "recheck", "reopen", "grow",
             "countBuffer", "countDatum"}
GetLines == {"get", "subtract", "shrink", "discard"}
BackLines == {"defer", "giveBack", "send", "drop"}
(* The lines at which a goroutine has a buffer of the pool in its hands,   *)
(* and those at which this one is full.                                    *)
HeldLines == {"entry", "put", "add", "full", "lock", "recheck", "reopen", "grow",
              "countBuffer", "countDatum", "get", "subtract", "shrink",
              "discard", "defer", "giveBack", "send", "drop"}
FullLines == {"full", "lock", "recheck", "reopen", "grow", "countBuffer",
              "countDatum"}
(* The lines of a Put before its datum is in a buffer. *)
EarlyLines == {"limit", "range", "entry", "put", "full", "lock", "recheck",
               "reopen", "grow"}

Fresh(g) == Datum(g) \notin accepted

(* What a goroutine knows at its line: the datum of a Put is new until it  *)
(* is in a buffer, and a buffer is full, empty or has room.                *)
LocalInv ==
    /\ \A g \in Goroutines :
         /\ pc[g] \in PutLines => g \in Putters
         /\ pc[g] \in GetLines => g \in Getters
         /\ pc[g] \notin {"idle", "closeLock", "drain"} => calls[g] >= 1
         /\ pc[g] \notin HeldLines => buf[g] = Empty
         /\ pc[g] = "discard" => buf[g] = Empty
         /\ pc[g] \in FullLines => Len(buf[g]) = BufferCap
         /\ pc[g] = "add" => buf[g] # Empty /\ ok[g]
         /\ pc[g] = "subtract" => Len(buf[g]) < BufferCap
    /\ \A g \in Putters :
         /\ pc[g] \in EarlyLines => Fresh(g)
         /\ pc[g] \in BackLines /\ ~ok[g] => Fresh(g)
    /\ \A d \in accepted : d[2] <= calls[d[1]]

Holders == {g \in Goroutines : pc[g] \in HeldLines}
(* A new buffer that is in the channel and not counted yet. *)
Uncounted == IF \E g \in Goroutines : pc[g] = "countBuffer" THEN 1 ELSE 0
BuffersOut == Len(buffCh) + Cardinality(Holders)

(* bufferNumber counts the buffers in the channel and in hands; a closed   *)
(* pool may count some that are gone.                                      *)
CountInv ==
    /\ IsFiniteSet(Holders)
    /\ bufferNumber \in Nat
    /\ BuffersOut <= bufferNumber + Uncounted
    /\ ~closed => BuffersOut = bufferNumber + Uncounted
    /\ bufferNumber + Uncounted <= MaxBufferNumber
    /\ \A g \in Goroutines :
         pc[g] \in {"reopen", "grow"} => bufferNumber < MaxBufferNumber

(* A datum is in one place only, and it was put and not yet got. *)
PlaceInv ==
    /\ \A i, j \in DOMAIN buffCh :
         \A k \in DOMAIN buffCh[i], l \in DOMAIN buffCh[j] :
           buffCh[i][k] = buffCh[j][l] => i = j /\ k = l
    /\ \A g, h \in Goroutines : \A k \in DOMAIN buf[g], l \in DOMAIN buf[h] :
           buf[g][k] = buf[h][l] => g = h /\ k = l
    /\ \A i \in DOMAIN buffCh, g \in Goroutines :
         \A k \in DOMAIN buffCh[i], l \in DOMAIN buf[g] :
           buffCh[i][k] # buf[g][l]
    /\ Stored \subseteq accepted \ taken
    /\ taken \subseteq accepted
    /\ IsFiniteSet(accepted)
    /\ NothingLost

(* The data that went with the buffers of a closed pool are not more than  *)
(* the buffers that are gone could hold.                                   *)
Lost == (accepted \ taken) \ Stored
LostInv ==
    /\ Cardinality(Lost) <= BufferCap * (MaxBufferNumber - BuffersOut)
    /\ \A g \in Goroutines : pc[g] = "grow" =>
         Cardinality(Lost) <= BufferCap * (bufferNumber - BuffersOut)

(* Goroutines that have put or got a datum and not yet counted it. *)
Adding == {g \in Goroutines : pc[g] \in {"add", "countBuffer", "countDatum"}}
Subtracting == {g \in Goroutines : pc[g] = "subtract"}
TotalInv ==
    total = Cardinality(accepted \ taken) - Cardinality(Adding)
              + Cardinality(Subtracting)

(* The inductive invariant. *)
PoolInv ==
    TypeOK /\ LockInv /\ LocalInv /\ CountInv /\ PlaceInv /\ LostInv /\ TotalInv

USE DEF Lines, Unlocked, Reading, Writing

(* A goroutine that goes to a line outside of the locks disturbs nothing   *)
(* as long as the locks, the flag and the state of the channel stay.       *)
LEMMA LocalStep ==
    ASSUME LockInv, NEW g \in Goroutines, NEW l \in Unlocked,
           Goto(g, l), UNCHANGED <<chClosed, closed, readers, writer>>
    PROVE  LockInv'
BY Zenon DEF LockInv, Goto

(* NewPool: nobody holds the lock and the pool is open. *)
LEMMA LockInit == Init => LockInv
BY Zenon DEF Init, LockInv

(* The steps of Put and Get around putData and getData. *)
LEMMA AttemptStep ==
    ASSUME LockInv, NEW g \in Putters \cup Getters, Attempt(g)
    PROVE  LockInv'
<1>0. g \in Goroutines
  BY Zenon DEF Goroutines
<1>1. CASE Call(g)
  <2>1. PICK l \in Unlocked : Goto(g, l)
    BY <1>1, Zenon DEF Call
  <2>2. QED
    BY <1>0, <1>1, <2>1, LocalStep, Zenon DEF Call, chanVars, fieldVars, lockVars
<1>2. CASE ReadLimit(g)
  BY <1>0, <1>2, LocalStep, Zenon DEF ReadLimit, chanVars, fieldVars, lockVars
<1>3. CASE RangeCh(g)
  <2>1. PICK l \in Unlocked : Goto(g, l)
    BY <1>3, Zenon DEF RangeCh, Return
  <2>2. QED
    BY <1>0, <1>3, <2>1, LocalStep, Zenon DEF RangeCh, fieldVars, lockVars
<1>4. CASE Entry(g)
  <2>1. PICK l \in Unlocked : Goto(g, l)
    BY <1>4, Zenon DEF Entry, Return
  <2>2. QED
    BY <1>0, <1>4, <2>1, LocalStep, Zenon DEF Entry, chanVars, fieldVars, lockVars
<1>5. CASE ReadLock(g)
  BY <1>0, <1>5, Zenon DEF ReadLock, LockInv, At, Goto, chanVars, fieldVars
<1>6. CASE CheckGiveBack(g)
  BY <1>0, <1>6, Zenon
  DEF CheckGiveBack, GivesBack, LockInv, At, Goto, chanVars, fieldVars, lockVars
<1>7. CASE Send(g)
  <2>1. PICK l \in Unlocked : Goto(g, l)
    BY <1>7, Zenon DEF Send, EndAttempt, Return
  <2>2. QED
    BY <1>0, <1>7, <2>1, Zenon DEF Send, LockInv, At, Goto, fieldVars
<1>8. CASE Drop(g)
  BY <1>0, <1>8, Zenon DEF Drop, Return, LockInv, At, Goto, chanVars
<1>9. QED
  BY <1>1, <1>2, <1>3, <1>4, <1>5, <1>6, <1>7, <1>8, Zenon DEF Attempt

(* The steps of putData. *)
LEMMA PutStepStep ==
    ASSUME LockInv, NEW g \in Putters, PutStep(g)
    PROVE  LockInv'
<1>0. g \in Goroutines
  BY Zenon DEF Goroutines
<1>1. CASE PutDatum(g)
  BY <1>0, <1>1, LocalStep, Zenon DEF PutDatum, chanVars, fieldVars, lockVars
<1>2. CASE AddTotal(g)
  BY <1>0, <1>2, LocalStep, Zenon DEF AddTotal, chanVars, lockVars
<1>3. CASE CheckGrow(g)
  <2>1. PICK l \in Unlocked : Goto(g, l)
    BY <1>3, Zenon DEF CheckGrow
  <2>2. QED
    BY <1>0, <1>3, <2>1, LocalStep, Zenon DEF CheckGrow, chanVars, fieldVars, lockVars
<1>4. CASE Lock(g)
  BY <1>0, <1>4, Zenon DEF Lock, LockInv, At, Goto, chanVars, fieldVars
<1>5. CASE Recheck(g)
  BY <1>0, <1>5, ZenonT(60) DEF Recheck, LockInv, At, Goto, chanVars, fieldVars
<1>6. CASE RecheckOpen(g)
  BY <1>0, <1>6, ZenonT(60) DEF RecheckOpen, LockInv, At, Goto, chanVars, fieldVars
<1>7. CASE Grow(g)
  BY <1>0, <1>7, Zenon DEF Grow, LockInv, At, Goto, fieldVars, lockVars
<1>8. CASE CountBuffer(g)
  BY <1>0, <1>8, Zenon DEF CountBuffer, LockInv, At, Goto, chanVars, lockVars
<1>9. CASE CountDatum(g)
  BY <1>0, <1>9, Zenon DEF CountDatum, LockInv, At, Goto, chanVars
<1>10. QED
  BY <1>1, <1>2, <1>3, <1>4, <1>5, <1>6, <1>7, <1>8, <1>9, Zenon DEF PutStep

(* The steps of getData. *)
LEMMA GetStepStep ==
    ASSUME LockInv, NEW g \in Getters, GetStep(g)
    PROVE  LockInv'
<1>0. g \in Goroutines
  BY Zenon DEF Goroutines
<1>1. CASE GetDatum(g)
  BY <1>0, <1>1, LocalStep, Zenon DEF GetDatum, chanVars, fieldVars, lockVars
<1>2. CASE SubtractTotal(g)
  BY <1>0, <1>2, LocalStep, Zenon DEF SubtractTotal, chanVars, lockVars
<1>3. CASE CheckShrink(g)
  <2>1. PICK l \in Unlocked : Goto(g, l)
    BY <1>3, Zenon DEF CheckShrink
  <2>2. QED
    BY <1>0, <1>3, <2>1, LocalStep, Zenon DEF CheckShrink, chanVars, fieldVars, lockVars
<1>4. CASE Discard(g)
  <2>1. PICK l \in Unlocked : Goto(g, l)
    BY <1>4, Zenon DEF Discard, EndAttempt, Return
  <2>2. QED
    BY <1>0, <1>4, <2>1, LocalStep, Zenon DEF Discard, chanVars, lockVars
<1>5. QED
  BY <1>1, <1>2, <1>3, <1>4, Zenon DEF GetStep

(* The steps of Close: nobody holds the lock when the channel is closed. *)
LEMMA CloseStep ==
    ASSUME LockInv, NEW g \in Closers,
           Close(g) \/ CloseChannel(g) \/ Drain(g)
    PROVE  LockInv'
<1>0. g \in Goroutines
  BY Zenon DEF Goroutines
<1>1. CASE Close(g)
  BY <1>0, <1>1, Zenon DEF Close, LockInv, At, Goto, chanVars, lockVars
<1>2. CASE CloseChannel(g)
  BY <1>0, <1>2, Zenon DEF CloseChannel, LockInv, At, Goto, fieldVars
<1>3. CASE Drain(g)
  BY <1>0, <1>3, ZenonT(60) DEF Drain, LockInv, At, Goto, fieldVars
<1>4. QED
  BY <1>1, <1>2, <1>3, Zenon

(* A buffer is never sent on the closed channel: Put, Get and Close may    *)
(* run at the same time in any number without a panic.                     *)
THEOREM NoSendOnClosed == Spec => []NeverSendsOnClosed
<1>1. LockInv /\ [Next]_vars => LockInv'
  <2>1. SUFFICES ASSUME LockInv, [Next]_vars PROVE LockInv'
    BY Zenon
  <2>2. CASE UNCHANGED vars
    BY <2>1, <2>2, Zenon DEF vars, LockInv, chanVars, fieldVars, lockVars
  <2>3. CASE Next
    BY <2>1, <2>3, AttemptStep, PutStepStep, GetStepStep, CloseStep, Zenon DEF Next
  <2>4. QED
    BY <2>1, <2>2, <2>3, Zenon
<1>2. LockInv => NeverSendsOnClosed
  BY Zenon DEF LockInv, NeverSendsOnClosed, Sending, At, Goroutines
<1>3. QED
  BY LockInit, <1>1, <1>2, PTL DEF Spec

-----------------------------------------------------------------------------
(***************************************************************************)
(* The buffers: bufferNumber and the room in the channel.                  *)
(***************************************************************************)
USE DEF PutLines, GetLines, BackLines, HeldLines, FullLines, EarlyLines

(* The lines of goroutines and the types that the steps below work with. *)
LEMMA HoldersStay ==
    ASSUME LockInv, NEW g \in Goroutines, NEW l, Goto(g, l),
           pc[g] \in HeldLines <=> l \in HeldLines
    PROVE  Holders' = Holders
BY Zenon DEF LockInv, Goto, Holders

(* A goroutine that takes a buffer is one more holder, ... *)
LEMMA HoldersEnter ==
    ASSUME LockInv, NEW g \in Goroutines, NEW l \in HeldLines, Goto(g, l),
           pc[g] \notin HeldLines, IsFiniteSet(Holders)
    PROVE  /\ IsFiniteSet(Holders')
           /\ Cardinality(Holders') = Cardinality(Holders) + 1
<1>1. Holders' = Holders \cup {g} /\ g \notin Holders
  BY Zenon DEF LockInv, Goto, Holders
<1>2. QED
  BY <1>1, FS_AddElement, Zenon

(* ... and one that gives it away is one less. *)
LEMMA HoldersLeave ==
    ASSUME LockInv, NEW g \in Goroutines, NEW l, l \notin HeldLines, Goto(g, l),
           pc[g] \in HeldLines, IsFiniteSet(Holders)
    PROVE  /\ IsFiniteSet(Holders')
           /\ Cardinality(Holders') = Cardinality(Holders) - 1
           /\ Cardinality(Holders) >= 1
<1>1. Holders' = Holders \ {g} /\ g \in Holders
  BY Zenon DEF LockInv, Goto, Holders
<1>2. /\ IsFiniteSet(Holders \ {g})
      /\ Cardinality(Holders \ {g}) = Cardinality(Holders) - 1
  BY <1>1, FS_RemoveElement, Zenon
<1>3. Cardinality(Holders \ {g}) \in Nat /\ Cardinality(Holders) \in Nat
  BY <1>2, FS_CardinalityType, Zenon
<1>4. QED
  BY <1>1, <1>2, <1>3

(* A step that is none of a buffer being sent and counted. *)
LEMMA UncountedStays ==
    ASSUME LockInv, NEW g \in Goroutines, NEW l, Goto(g, l),
           pc[g] # "countBuffer", l # "countBuffer"
    PROVE  Uncounted' = Uncounted
BY Zenon DEF LockInv, Goto, Uncounted

(* A step of a goroutine that keeps what it has, or has nothing. *)
LEMMA QuietCount ==
    ASSUME TypeOK, LockInv, CountInv, NEW g \in Goroutines,
           NEW l \in Lines,
           Goto(g, l), pc[g] \in HeldLines <=> l \in HeldLines,
           pc[g] # "countBuffer", l \notin {"reopen", "grow", "countBuffer"},
           UNCHANGED <<buffCh, bufferNumber>>, closed => closed'
    PROVE  CountInv'
<1>1. Holders' = Holders
  BY HoldersStay, Zenon
<1>2. Uncounted' = Uncounted
  BY UncountedStays, Zenon
<1>3. \A h \in Goroutines :
        pc'[h] \in {"reopen", "grow"} => pc[h] \in {"reopen", "grow"}
  BY Zenon DEF LockInv, Goto
<1>4. BuffersOut' = BuffersOut
  BY <1>1, Zenon DEF BuffersOut
<1>5. QED
  BY <1>1, <1>2, <1>3, <1>4, Zenon DEF CountInv

(* A writer is alone: nobody else has sent a buffer that is not counted,   *)
(* and nobody is at a line under the read lock.                            *)
LEMMA WriterAlone ==
    ASSUME LockInv, NEW g \in Goroutines, NEW h \in Goroutines,
           pc[g] \in Writing, pc[h] \in Reading \cup Writing
    PROVE  h = g
BY Zenon DEF LockInv

(* RangeCh: a buffer moves from the channel to the hands of a goroutine. *)
LEMMA RangeCount ==
    ASSUME TypeOK, LockInv, CountInv, NEW g \in Goroutines, RangeCh(g)
    PROVE  CountInv'
<1>1. CASE Goto(g, "entry") /\ buffCh # <<>> /\ buffCh' = Tail(buffCh)
  <2>1. /\ IsFiniteSet(Holders')
        /\ Cardinality(Holders') = Cardinality(Holders) + 1
    BY <1>1, HoldersEnter, Zenon DEF RangeCh, At, CountInv
  <2>2. Len(buffCh') = Len(buffCh) - 1
    BY <1>1 DEF TypeOK
  <2>3. Cardinality(Holders) \in Nat /\ Len(buffCh) \in Nat
    BY FS_CardinalityType DEF CountInv, TypeOK
  <2>4. BuffersOut' = BuffersOut
    BY <2>1, <2>2, <2>3 DEF BuffersOut
  <2>5. Uncounted' = Uncounted
    BY <1>1, UncountedStays, Zenon DEF RangeCh, At
  <2>6. \A h \in Goroutines :
          pc'[h] \in {"reopen", "grow"} => pc[h] \in {"reopen", "grow"}
    BY <1>1, Zenon DEF LockInv, Goto
  <2>7. UNCHANGED <<bufferNumber, closed>>
    BY Zenon DEF RangeCh, fieldVars
  <2>8. QED
    BY <2>1, <2>4, <2>5, <2>6, <2>7, Zenon DEF CountInv
<1>2. CASE Goto(g, "idle") /\ buffCh' = buffCh
  BY <1>2, QuietCount, Zenon DEF RangeCh, At, fieldVars
<1>3. QED
  BY <1>1, <1>2, Zenon DEF RangeCh, Return

(* Entry: a buffer that was taken from a closed pool is not given back. *)
LEMMA EntryCount ==
    ASSUME TypeOK, LockInv, CountInv, NEW g \in Goroutines, Entry(g)
    PROVE  CountInv'
<1>1. CASE closed /\ Goto(g, "idle")
  <2>1. /\ IsFiniteSet(Holders')
        /\ Cardinality(Holders') = Cardinality(Holders) - 1
    BY <1>1, HoldersLeave, Zenon DEF Entry, At, CountInv
  <2>2. Cardinality(Holders) \in Nat /\ Len(buffCh) \in Nat
    BY FS_CardinalityType DEF CountInv, TypeOK
  <2>3. UNCHANGED <<bufferNumber, closed, buffCh>>
    BY Zenon DEF Entry, fieldVars, chanVars
  <2>4. BuffersOut' = BuffersOut - 1 /\ BuffersOut \in Nat
    BY <2>1, <2>2, <2>3 DEF BuffersOut
  <2>5. Uncounted' = Uncounted /\ Uncounted \in Nat
    BY <1>1, UncountedStays, Zenon DEF Entry, At, Uncounted
  <2>6. \A h \in Goroutines :
          pc'[h] \in {"reopen", "grow"} => pc[h] \in {"reopen", "grow"}
    BY <1>1, Zenon DEF LockInv, Goto
  <2>7. QED
    BY <1>1, <2>1, <2>3, <2>4, <2>5, <2>6 DEF CountInv
<1>2. CASE Goto(g, "put") \/ Goto(g, "get")
  BY <1>2, QuietCount, Zenon DEF Entry, At, fieldVars, chanVars
<1>3. QED
  BY <1>1, <1>2, Zenon DEF Entry, Return

(* Recheck and RecheckOpen: the lock keeps the number of buffers from      *)
(* growing between the look at it and the growth.                          *)
LEMMA RecheckCount ==
    ASSUME TypeOK, LockInv, CountInv, NEW g \in Goroutines,
           Recheck(g) \/ RecheckOpen(g)
    PROVE  CountInv'
<1>1. UNCHANGED <<bufferNumber, closed, buffCh>>
  BY Zenon DEF Recheck, RecheckOpen, fieldVars, chanVars
<1>2. CASE Goto(g, "defer")
  BY <1>1, <1>2, QuietCount, Zenon DEF Recheck, RecheckOpen, At
<1>3. ASSUME NEW l \in {"reopen", "grow"}, Goto(g, l), bufferNumber < MaxBufferNumber
      PROVE  CountInv'
  <2>1. Holders' = Holders
    BY <1>3, HoldersStay, Zenon DEF Recheck, RecheckOpen, At
  <2>2. Uncounted' = Uncounted
    BY <1>3, UncountedStays, Zenon DEF Recheck, RecheckOpen, At
  <2>3. QED
    BY <1>1, <1>3, <2>1, <2>2, Zenon DEF CountInv, BuffersOut
<1>4. CASE Goto(g, "reopen") /\ GrowsStill
  BY <1>3, <1>4, Zenon DEF GrowsStill
<1>5. CASE Goto(g, "grow") /\ At(g, "reopen")
  BY <1>3, <1>5, Zenon DEF CountInv, At
<1>6. QED
  BY <1>2, <1>4, <1>5, Zenon DEF Recheck, RecheckOpen

(* Grow: the new buffer is in the channel before it is counted. *)
LEMMA GrowCount ==
    ASSUME TypeOK, LockInv, CountInv, NEW g \in Goroutines, Grow(g)
    PROVE  CountInv'
<1>1. Holders' = Holders
  BY HoldersStay, Zenon DEF Grow, At
<1>2. Uncounted = 0
  BY WriterAlone, Zenon DEF Grow, At, Uncounted
<1>3. Uncounted' = 1
  BY Zenon DEF Grow, Goto, Uncounted, LockInv
<1>4. Len(buffCh') = Len(buffCh) + 1
  BY DEF Grow, TypeOK
<1>5. Cardinality(Holders) \in Nat /\ Len(buffCh) \in Nat
  BY FS_CardinalityType DEF CountInv, TypeOK
<1>6. BuffersOut' = BuffersOut + 1 /\ BuffersOut \in Nat
  BY <1>1, <1>4, <1>5 DEF BuffersOut
<1>7. UNCHANGED <<bufferNumber, closed>> /\ bufferNumber < MaxBufferNumber
  BY Zenon DEF Grow, At, fieldVars, CountInv
<1>8. QED
  BY <1>1, <1>2, <1>3, <1>6, <1>7, PoolAssumption DEF CountInv

(* CountBuffer: now it is counted. *)
LEMMA CountBufferCount ==
    ASSUME TypeOK, LockInv, CountInv, NEW g \in Goroutines, CountBuffer(g)
    PROVE  CountInv'
<1>1. Holders' = Holders
  BY HoldersStay, Zenon DEF CountBuffer, At
<1>2. Uncounted = 1
  BY Zenon DEF CountBuffer, At, Uncounted
<1>3. \A h \in Goroutines : h # g => pc'[h] = pc[h] /\ pc[h] \notin Writing
  BY WriterAlone, Zenon DEF CountBuffer, At, Goto, LockInv
<1>4. pc'[g] = "countDatum"
  BY Zenon DEF CountBuffer, Goto, LockInv
<1>5. Uncounted' = 0
  BY <1>3, <1>4, Zenon DEF Uncounted
<1>6. UNCHANGED <<buffCh, closed>> /\ bufferNumber' = bufferNumber + 1
  BY Zenon DEF CountBuffer, chanVars
<1>7. BuffersOut' = BuffersOut
  BY <1>1, <1>6, Zenon DEF BuffersOut
<1>8. \A h \in Goroutines : pc'[h] \notin {"reopen", "grow"}
  BY <1>3, <1>4, Zenon
<1>9. QED
  BY <1>1, <1>2, <1>5, <1>6, <1>7, <1>8, PoolAssumption DEF CountInv

(* Discard, Send and Drop: the buffer leaves the hands of the goroutine,   *)
(* to the channel, or it is counted out.                                   *)
LEMMA LeaveCount ==
    ASSUME TypeOK, LockInv, CountInv, NEW g \in Goroutines,
           Discard(g) \/ Send(g) \/ Drop(g)
    PROVE  CountInv'
<1>1. PICK l \in {"idle", "range"} : Goto(g, l)
  BY Zenon DEF Discard, Send, Drop, EndAttempt, Return
<1>2. pc[g] \in {"discard", "send", "drop"}
  BY Zenon DEF Discard, Send, Drop, At
<1>3. /\ IsFiniteSet(Holders')
      /\ Cardinality(Holders') = Cardinality(Holders) - 1
      /\ Cardinality(Holders) >= 1
  BY <1>1, <1>2, HoldersLeave, Zenon DEF CountInv
<1>4. Cardinality(Holders) \in Nat /\ Len(buffCh) \in Nat
  BY FS_CardinalityType DEF CountInv, TypeOK
<1>5. Uncounted' = Uncounted /\ Uncounted \in {0, 1}
  BY <1>1, <1>2, UncountedStays, Zenon DEF Uncounted
<1>6. \A h \in Goroutines :
        pc'[h] \in {"reopen", "grow"} => pc[h] \in {"reopen", "grow"}
  BY <1>1, Zenon DEF LockInv, Goto
<1>7. CASE Send(g)
  <2>1. Len(buffCh') = Len(buffCh) + 1
    BY <1>7 DEF Send, TypeOK
  <2>2. BuffersOut' = BuffersOut
    BY <1>3, <1>4, <2>1 DEF BuffersOut
  <2>3. UNCHANGED <<bufferNumber, closed>>
    BY <1>7, Zenon DEF Send, fieldVars
  <2>4. QED
    BY <1>3, <1>5, <1>6, <2>2, <2>3, Zenon DEF CountInv
<1>8. CASE Discard(g) \/ Drop(g)
  <2>1. UNCHANGED <<buffCh, closed>> /\ bufferNumber' = bufferNumber - 1
    BY <1>8, Zenon DEF Discard, Drop, chanVars
  <2>2. BuffersOut' = BuffersOut - 1 /\ BuffersOut \in Nat
    BY <1>3, <1>4, <2>1 DEF BuffersOut
  <2>3. BuffersOut >= Uncounted + 1
    <3>1. CASE Uncounted = 0
      BY <1>3, <1>4, <3>1 DEF BuffersOut
    <3>2. CASE Uncounted = 1
      <4>1. PICK h \in Goroutines : pc[h] = "countBuffer"
        BY <3>2 DEF Uncounted
      <4>2. h # g /\ h \in Holders'
        BY <1>1, <1>2, <4>1, Zenon DEF Holders, Goto, LockInv
      <4>3. Cardinality(Holders') # 0 /\ Cardinality(Holders') \in Nat
        BY <1>3, <4>2, FS_EmptySet, FS_CardinalityType, Zenon
      <4>4. QED
        BY <1>3, <1>4, <3>2, <4>3 DEF BuffersOut
    <3>3. QED
      BY <1>5, <3>1, <3>2, Zenon
  <2>4. QED
    BY <1>3, <1>5, <1>6, <2>1, <2>2, <2>3, PoolAssumption DEF CountInv
<1>9. QED
  BY <1>7, <1>8, Zenon

(* Drain: the buffers in the closed channel are gone; they stay counted. *)
LEMMA DrainCount ==
    ASSUME TypeOK, LockInv, CountInv, NEW g \in Goroutines, Drain(g), closed
    PROVE  CountInv'
<1>1. CASE buffCh # <<>>
  <2>1. Len(buffCh') = Len(buffCh) - 1
    BY <1>1 DEF Drain, TypeOK
  <2>2. UNCHANGED <<pc, bufferNumber, closed>>
    BY <1>1, Zenon DEF Drain, fieldVars
  <2>3. Cardinality(Holders) \in Nat /\ Len(buffCh) \in Nat
    BY FS_CardinalityType DEF CountInv, TypeOK
  <2>4. Holders' = Holders /\ Uncounted' = Uncounted /\ Uncounted \in {0, 1}
    BY <2>2, Zenon DEF Holders, Uncounted
  <2>5. BuffersOut' = BuffersOut - 1 /\ BuffersOut \in Nat
    BY <2>1, <2>3, <2>4 DEF BuffersOut
  <2>6. QED
    BY <2>2, <2>4, <2>5 DEF CountInv
<1>2. CASE buffCh = <<>>
  BY <1>2, QuietCount, Zenon DEF Drain, At, fieldVars
<1>3. QED
  BY <1>1, <1>2, Zenon

(* Every step keeps the count of the buffers. *)
LEMMA CountStep ==
    ASSUME TypeOK, LockInv, CountInv, Next
    PROVE  CountInv'
<1>1. ASSUME NEW g \in Putters \cup Getters, Attempt(g) PROVE CountInv'
  <2>0. g \in Goroutines
    BY Zenon DEF Goroutines
  <2>1. CASE Call(g)
    BY <2>0, <2>1, QuietCount, Zenon DEF Call, At, chanVars, fieldVars
  <2>2. CASE ReadLimit(g) \/ ReadLock(g)
    BY <2>0, <2>2, QuietCount DEF ReadLimit, ReadLock, At, chanVars, fieldVars
  <2>3. CASE CheckGiveBack(g)
    BY <2>0, <2>3, QuietCount, Zenon DEF CheckGiveBack, At, chanVars, fieldVars
  <2>4. QED
    BY <1>1, <2>0, <2>1, <2>2, <2>3, RangeCount, EntryCount, LeaveCount, Zenon
    DEF Attempt
<1>2. ASSUME NEW g \in Putters, PutStep(g) PROVE CountInv'
  <2>0. g \in Goroutines
    BY Zenon DEF Goroutines
  <2>1. CASE PutDatum(g)
    BY <2>0, <2>1, QuietCount, Zenon DEF PutDatum, At, chanVars, fieldVars
  <2>2. CASE AddTotal(g) \/ CountDatum(g)
    <3>1. /\ pc[g] \in {"add", "countDatum"} /\ Goto(g, "defer")
          /\ UNCHANGED <<buffCh, bufferNumber, closed>>
      BY <2>2, Zenon DEF AddTotal, CountDatum, At, chanVars
    <3>2. QED
      BY <2>0, <3>1, QuietCount, Zenon
  <2>3. CASE CheckGrow(g) \/ Lock(g)
    BY <2>0, <2>3, QuietCount DEF CheckGrow, Lock, At, chanVars, fieldVars
  <2>4. QED
    BY <1>2, <2>0, <2>1, <2>2, <2>3, RecheckCount, GrowCount, CountBufferCount, Zenon
    DEF PutStep
<1>3. ASSUME NEW g \in Getters, GetStep(g) PROVE CountInv'
  <2>0. g \in Goroutines
    BY Zenon DEF Goroutines
  <2>1. CASE GetDatum(g)
    BY <2>0, <2>1, QuietCount, Zenon DEF GetDatum, At, chanVars, fieldVars
  <2>2. CASE SubtractTotal(g)
    BY <2>0, <2>2, QuietCount, Zenon DEF SubtractTotal, At, chanVars
  <2>3. CASE CheckShrink(g)
    BY <2>0, <2>3, QuietCount, Zenon DEF CheckShrink, At, chanVars, fieldVars
  <2>4. QED
    BY <1>3, <2>0, <2>1, <2>2, <2>3, LeaveCount, Zenon DEF GetStep
<1>4. ASSUME NEW g \in Closers, Close(g) \/ CloseChannel(g) \/ Drain(g)
      PROVE  CountInv'
  <2>0. g \in Goroutines
    BY Zenon DEF Goroutines
  <2>1. CASE Close(g)
    BY <2>0, <2>1, QuietCount, Zenon DEF Close, At, chanVars, fieldVars
  <2>2. CASE CloseChannel(g)
    BY <2>0, <2>2, QuietCount, Zenon DEF CloseChannel, At, fieldVars
  <2>3. CASE Drain(g)
    BY <2>0, <2>3, DrainCount, Zenon DEF LockInv, Drain, At
  <2>4. QED
    BY <1>4, <2>1, <2>2, <2>3, Zenon
<1>5. QED
  BY <1>1, <1>2, <1>3, <1>4, Zenon DEF Next

-----------------------------------------------------------------------------
(***************************************************************************)
(* What a goroutine knows at its line.                                     *)
(***************************************************************************)
(* Buffers are the sequences of at most BufferCap data. *)
LEMMA BuffersAreSequences ==
    ASSUME NEW b
    PROVE  b \in Buffers <=> b \in Seq(Data) /\ Len(b) <= BufferCap
<1>1. ASSUME b \in Buffers PROVE b \in Seq(Data) /\ Len(b) <= BufferCap
  <2>1. PICK n \in 0..BufferCap : b \in [1..n -> Data]
    BY <1>1, Zenon DEF Buffers
  <2>2. QED
    BY <2>1, PoolAssumption
<1>2. ASSUME b \in Seq(Data), Len(b) <= BufferCap PROVE b \in Buffers
  <2>1. b \in [1..Len(b) -> Data] /\ Len(b) \in 0..BufferCap
    BY <1>2, PoolAssumption
  <2>2. QED
    BY <2>1, Zenon DEF Buffers
<1>3. QED
  BY <1>1, <1>2, Zenon

(* Steps that change no buffer and no datum. *)
LEMMA MoveLocal ==
    ASSUME TypeOK, LockInv, LocalInv, NEW g \in Goroutines,
           NEW l \in Lines,
           Goto(g, l), UNCHANGED <<buf, calls, accepted>>,
           \A h \in Goroutines : h # g => ok'[h] = ok[h],
           l \in PutLines => g \in Putters,
           l \in GetLines => g \in Getters,
           l \notin {"idle", "closeLock", "drain"} => calls[g] >= 1,
           l \notin HeldLines \/ l = "discard" => buf[g] = Empty,
           l \in FullLines => Len(buf[g]) = BufferCap,
           l = "add" => buf[g] # Empty /\ ok'[g],
           l = "subtract" => Len(buf[g]) < BufferCap,
           g \in Putters /\ (l \in EarlyLines \/ (l \in BackLines /\ ~ok'[g]))
             => Fresh(g)
    PROVE  LocalInv'
<1>1. \A h \in Goroutines : h # g => pc'[h] = pc[h]
  BY Zenon DEF Goto, LockInv
<1>2. pc'[g] = l
  BY Zenon DEF Goto, LockInv
<1>3. \A h \in Goroutines : Fresh(h)' <=> Fresh(h)
  BY Zenon DEF Fresh, Datum
<1>4. Putters \subseteq Goroutines
  BY Zenon DEF Goroutines
<1>5. QED
  BY <1>1, <1>2, <1>3, <1>4, ZenonT(60) DEF LocalInv

(* A step that leaves the buffer to the channel or to nobody. *)
LEMMA LeaveLocal ==
    ASSUME TypeOK, LockInv, LocalInv, NEW g \in Putters \cup Getters,
           pc[g] \in HeldLines, NEW l \in {"idle", "range"}, Goto(g, l),
           buf' = Set(buf, g, Empty), UNCHANGED <<calls, accepted>>,
           \A h \in Goroutines : h # g => ok'[h] = ok[h],
           l = "range" /\ g \in Putters => Fresh(g)
    PROVE  LocalInv'
<1>0. g \in Goroutines
  BY Zenon DEF Goroutines
<1>1. \A h \in Goroutines : h # g => pc'[h] = pc[h] /\ buf'[h] = buf[h]
  BY <1>0, Zenon DEF Goto, LockInv, Set, TypeOK
<1>2. pc'[g] = l /\ buf'[g] = Empty
  BY <1>0, Zenon DEF Goto, LockInv, Set, TypeOK
<1>3. \A h \in Goroutines : Fresh(h)' <=> Fresh(h)
  BY Zenon DEF Fresh, Datum
<1>4. Putters \subseteq Goroutines
  BY Zenon DEF Goroutines
<1>5. calls[g] >= 1
  BY <1>0, Zenon DEF LocalInv
<1>6. QED
  BY <1>0, <1>1, <1>2, <1>3, <1>4, <1>5, Zenon DEF LocalInv

(* Entry, Discard, Send and Drop: a Put goes on only when its datum is in  *)
(* no buffer.                                                              *)
LEMMA EndLocal ==
    ASSUME TypeOK, LockInv, LocalInv, NEW g \in Putters \cup Getters,
           (Entry(g) /\ closed) \/ (g \in Getters /\ Discard(g)) \/ Send(g) \/ Drop(g)
    PROVE  LocalInv'
<1>0. g \in Goroutines
  BY Zenon DEF Goroutines
<1>1. pc[g] \in HeldLines
  BY Zenon DEF Entry, Discard, Send, Drop, At
<1>2. CASE Return(g, TRUE) \/ Return(g, FALSE)
  <2>1. /\ Goto(g, "idle") /\ buf' = Set(buf, g, Empty)
        /\ UNCHANGED <<calls, accepted>> /\ ok' = Set(ok, g, FALSE)
    BY <1>2, Zenon DEF Return
  <2>2. \A h \in Goroutines : h # g => ok'[h] = ok[h]
    BY <2>1, Zenon DEF Set, TypeOK
  <2>3. QED
    BY <1>1, <2>1, <2>2, LeaveLocal, Zenon
<1>3. CASE ~ok[g] /\ EndAttempt(g, count[g]) /\ Send(g)
  <2>1. /\ Goto(g, "range") /\ buf' = Set(buf, g, Empty)
        /\ UNCHANGED <<calls, accepted, ok>>
    BY <1>3, Zenon DEF EndAttempt, histVars
  <2>2. g \in Putters => Fresh(g)
    BY <1>0, <1>3, Zenon DEF Send, At, LocalInv
  <2>3. QED
    BY <1>1, <2>1, <2>2, LeaveLocal, Zenon
<1>4. CASE ~ok[g] /\ EndAttempt(g, 0) /\ g \in Getters
  <2>1. /\ Goto(g, "range") /\ buf' = Set(buf, g, Empty)
        /\ UNCHANGED <<calls, accepted, ok>>
    BY <1>4, Zenon DEF EndAttempt, histVars
  <2>2. g \notin Putters
    BY <1>4, PoolAssumption, Zenon
  <2>3. QED
    BY <1>1, <2>1, <2>2, LeaveLocal, Zenon
<1>5. QED
  BY <1>2, <1>3, <1>4, Zenon DEF Entry, Discard, Send, Drop, EndAttempt

(* Call: the datum of a new Put is a new one. *)
LEMMA CallLocal ==
    ASSUME TypeOK, LockInv, LocalInv, NEW g \in Putters \cup Getters, Call(g)
    PROVE  LocalInv'
<1>0. g \in Goroutines /\ Putters \subseteq Goroutines
  BY Zenon DEF Goroutines
<1>1. \A h \in Goroutines : h # g => pc'[h] = pc[h] /\ calls'[h] = calls[h]
  BY <1>0, Zenon DEF Call, Goto, LockInv, Set, TypeOK
<1>2. /\ pc[g] = "idle" /\ pc'[g] \in {"idle", "limit"}
      /\ calls'[g] = calls[g] + 1 /\ calls[g] \in Nat
      /\ UNCHANGED <<buf, accepted, ok>>
  BY <1>0 DEF Call, At, Goto, LockInv, Set, TypeOK, histVars
<1>3. \A h \in Goroutines : h # g => (Fresh(h)' <=> Fresh(h))
  BY <1>1, <1>2, Zenon DEF Fresh, Datum
<1>4. g \in Putters => Fresh(g)'
  <2>1. \A d \in accepted : d[2] <= calls[d[1]]
    BY Zenon DEF LocalInv
  <2>2. <<g, calls[g] + 1>> \notin accepted
    BY <1>2, <2>1
  <2>3. QED
    BY <1>2, <2>2, Zenon DEF Fresh, Datum
<1>5. \A d \in accepted' : d[2] <= calls'[d[1]]
  <2>1. ASSUME NEW d \in accepted PROVE d[2] <= calls'[d[1]]
    <3>1. d \in Data /\ d[1] \in Goroutines /\ d[2] \in Nat
      BY <1>0, PoolAssumption DEF TypeOK, Data
    <3>2. d[2] <= calls[d[1]] /\ calls[d[1]] \in Nat
      BY <3>1, PoolAssumption DEF LocalInv, TypeOK
    <3>3. QED
      BY <1>1, <1>2, <3>1, <3>2
  <2>2. QED
    BY <1>2, <2>1, Zenon
<1>6. QED
  BY <1>0, <1>1, <1>2, <1>3, <1>4, <1>5 DEF LocalInv

(* RangeCh: the goroutine holds the buffer that it took. *)
LEMMA RangeLocal ==
    ASSUME TypeOK, LockInv, LocalInv, NEW g \in Putters \cup Getters, RangeCh(g)
    PROVE  LocalInv'
<1>0. g \in Goroutines /\ Putters \subseteq Goroutines
  BY Zenon DEF Goroutines
<1>1. CASE buf' = Set(buf, g, Head(buffCh)) /\ Goto(g, "entry")
           /\ UNCHANGED <<loopVars, histVars>>
  <2>1. \A h \in Goroutines : h # g => pc'[h] = pc[h] /\ buf'[h] = buf[h]
    BY <1>0, <1>1, Zenon DEF Goto, LockInv, Set, TypeOK
  <2>2. /\ pc[g] = "range" /\ pc'[g] = "entry"
        /\ UNCHANGED <<calls, accepted, ok>>
    BY <1>0, <1>1, Zenon DEF RangeCh, At, Goto, LockInv, loopVars, histVars
  <2>3. \A h \in Goroutines : Fresh(h)' <=> Fresh(h)
    BY <2>2, Zenon DEF Fresh, Datum
  <2>4. QED
    BY <1>0, <2>1, <2>2, <2>3, Zenon DEF LocalInv
<1>2. CASE Return(g, FALSE)
  <2>1. /\ Goto(g, "idle") /\ buf' = Set(buf, g, Empty)
        /\ UNCHANGED <<calls, accepted>> /\ ok' = Set(ok, g, FALSE)
    BY <1>2, Zenon DEF Return
  <2>2. \A h \in Goroutines : h # g => ok'[h] = ok[h]
    BY <2>1, Zenon DEF Set, TypeOK
  <2>3. buf[g] = Empty
    BY <1>0, Zenon DEF RangeCh, At, LocalInv
  <2>4. buf' = buf
    BY <1>0, <2>1, <2>3, Zenon DEF Set, TypeOK
  <2>5. QED
    BY <1>0, <2>1, <2>2, <2>3, <2>4, MoveLocal, Zenon
<1>3. QED
  BY <1>1, <1>2, Zenon DEF RangeCh

(* PutDatum: the datum is accepted with the step that puts it in. *)
LEMMA PutLocal ==
    ASSUME TypeOK, LockInv, LocalInv, NEW g \in Putters, PutDatum(g)
    PROVE  LocalInv'
<1>0. g \in Goroutines /\ Putters \subseteq Goroutines
  BY Zenon DEF Goroutines
<1>1. CASE /\ buf' = Set(buf, g, Append(buf[g], Datum(g)))
           /\ accepted' = accepted \cup {Datum(g)}
           /\ ok' = Set(ok, g, TRUE) /\ Goto(g, "add")
  <2>1. \A h \in Goroutines :
          h # g => pc'[h] = pc[h] /\ buf'[h] = buf[h] /\ ok'[h] = ok[h]
    BY <1>0, <1>1, Zenon DEF Goto, LockInv, Set, TypeOK
  <2>2. buf[g] \in Seq(Data)
    BY <1>0, BuffersAreSequences, Zenon DEF TypeOK
  <2>3. /\ pc[g] = "put" /\ pc'[g] = "add" /\ UNCHANGED calls
        /\ buf'[g] # Empty /\ ok'[g] = TRUE
    <3>1. buf'[g] = Append(buf[g], Datum(g)) /\ ok'[g] = TRUE
      BY <1>0, <1>1, Zenon DEF Set, TypeOK
    <3>2. Append(buf[g], Datum(g)) # Empty
      BY <2>2 DEF Empty
    <3>3. QED
      BY <1>0, <1>1, <3>1, <3>2, Zenon DEF PutDatum, At, Goto, LockInv
  <2>4. \A h \in Goroutines : h # g => (Fresh(h)' <=> Fresh(h))
    BY <1>1, <2>3, Zenon DEF Fresh, Datum
  <2>5. \A d \in accepted' : d[2] <= calls'[d[1]]
    <3>1. Datum(g)[1] = g /\ Datum(g)[2] = calls[g] /\ calls[g] \in Nat
      BY <1>0 DEF Datum, TypeOK
    <3>2. QED
      BY <1>1, <2>3, <3>1 DEF LocalInv
  <2>6. QED
    BY <1>0, <2>1, <2>3, <2>4, <2>5, Zenon DEF LocalInv
<1>2. CASE /\ Len(buf[g]) = BufferCap /\ Goto(g, "full")
           /\ UNCHANGED <<buf, accepted, ok>>
  BY <1>0, <1>2, MoveLocal, Zenon DEF PutDatum, At, LocalInv
<1>3. QED
  BY <1>1, <1>2, Zenon DEF PutDatum

(* Grow: the datum is accepted with the step that sends the new buffer. *)
LEMMA GrowLocal ==
    ASSUME TypeOK, LockInv, LocalInv, NEW g \in Putters, Grow(g)
    PROVE  LocalInv'
<1>0. g \in Goroutines /\ Putters \subseteq Goroutines
  BY Zenon DEF Goroutines
<1>1. \A h \in Goroutines : h # g => pc'[h] = pc[h]
  BY <1>0, Zenon DEF Grow, Goto, LockInv
<1>2. /\ pc[g] = "grow" /\ pc'[g] = "countBuffer" /\ UNCHANGED <<calls, buf, ok>>
      /\ accepted' = accepted \cup {Datum(g)}
  BY <1>0, Zenon DEF Grow, At, Goto, LockInv, loopVars
<1>3. \A h \in Goroutines : h # g => (Fresh(h)' <=> Fresh(h))
  BY <1>2, Zenon DEF Fresh, Datum
<1>4. \A d \in accepted' : d[2] <= calls'[d[1]]
  <2>1. Datum(g)[1] = g /\ Datum(g)[2] = calls[g] /\ calls[g] \in Nat
    BY <1>0 DEF Datum, TypeOK
  <2>2. QED
    BY <1>2, <2>1 DEF LocalInv
<1>5. QED
  BY <1>0, <1>1, <1>2, <1>3, <1>4, Zenon DEF LocalInv

(* GetDatum: a buffer from which a datum was got has room. *)
LEMMA GetLocal ==
    ASSUME TypeOK, LockInv, LocalInv, NEW g \in Getters, GetDatum(g)
    PROVE  LocalInv'
<1>0. g \in Goroutines /\ Putters \subseteq Goroutines
  BY Zenon DEF Goroutines
<1>1. CASE /\ buf[g] # Empty /\ buf' = Set(buf, g, Tail(buf[g]))
           /\ ok' = Set(ok, g, TRUE) /\ Goto(g, "subtract")
  <2>1. \A h \in Goroutines :
          h # g => pc'[h] = pc[h] /\ buf'[h] = buf[h] /\ ok'[h] = ok[h]
    BY <1>0, <1>1, Zenon DEF Goto, LockInv, Set, TypeOK
  <2>2. buf[g] \in Seq(Data) /\ Len(buf[g]) <= BufferCap
    BY <1>0, BuffersAreSequences, Zenon DEF TypeOK
  <2>3. Len(Tail(buf[g])) < BufferCap
    BY <1>1, <2>2, PoolAssumption DEF Empty
  <2>4. /\ pc[g] = "get" /\ pc'[g] = "subtract" /\ UNCHANGED <<calls, accepted>>
        /\ Len(buf'[g]) < BufferCap
    BY <1>0, <1>1, <2>3, Zenon DEF GetDatum, At, Goto, LockInv, Set, TypeOK
  <2>5. \A h \in Goroutines : Fresh(h)' <=> Fresh(h)
    BY <2>4, Zenon DEF Fresh, Datum
  <2>6. g \notin Putters
    BY PoolAssumption, Zenon
  <2>7. QED
    BY <1>0, <2>1, <2>4, <2>5, <2>6, ZenonT(60) DEF LocalInv
<1>2. CASE buf[g] = Empty /\ Goto(g, "shrink") /\ UNCHANGED <<buf, ok>>
  BY <1>0, <1>2, MoveLocal, PoolAssumption, Zenon DEF GetDatum, At, LocalInv
<1>3. QED
  BY <1>1, <1>2, Zenon DEF GetDatum

(* Close, CloseChannel and Drain touch neither buffers in hands nor data. *)
LEMMA CloseLocal ==
    ASSUME TypeOK, LockInv, LocalInv, NEW g \in Closers,
           Close(g) \/ CloseChannel(g) \/ Drain(g)
    PROVE  LocalInv'
<1>0. /\ g \in Goroutines /\ Putters \subseteq Goroutines
      /\ g \notin Putters \cup Getters
  BY PoolAssumption, Zenon DEF Goroutines
<1>1. /\ pc[g] \in {"idle", "closeLock", "drain"}
      /\ pc'[g] \in {"idle", "closeLock", "drain"}
      /\ \A h \in Goroutines : h # g => pc'[h] = pc[h] /\ calls'[h] = calls[h]
      /\ UNCHANGED <<buf, ok, accepted>>
  BY <1>0, Zenon DEF Close, CloseChannel, Drain, At, Goto, Set, LockInv, TypeOK,
     loopVars, histVars
<1>2. \A h \in Putters : Fresh(h)' <=> Fresh(h)
  BY <1>0, <1>1, Zenon DEF Fresh, Datum
<1>3. \A d \in accepted : d[1] \in Putters
  BY Zenon DEF TypeOK, Data
<1>4. QED
  BY <1>0, <1>1, <1>2, <1>3, Zenon DEF LocalInv

(* Every step keeps what the goroutines know. *)
LEMMA LocalInvStep ==
    ASSUME TypeOK, LockInv, LocalInv, Next
    PROVE  LocalInv'
<1>1. ASSUME NEW g \in Putters \cup Getters, Attempt(g) PROVE LocalInv'
  <2>0. g \in Goroutines
    BY Zenon DEF Goroutines
  <2>1. CASE ReadLimit(g) \/ ReadLock(g)
    BY <2>0, <2>1, MoveLocal, Zenon
    DEF ReadLimit, ReadLock, At, loopVars, histVars, LocalInv
  <2>2. CASE CheckGiveBack(g)
    BY <2>0, <2>2, MoveLocal, Zenon DEF CheckGiveBack, At, loopVars, histVars, LocalInv
  <2>3. CASE Entry(g) /\ ~closed
    <3>1. /\ pc[g] = "entry" /\ UNCHANGED <<buf, calls, accepted, ok>>
          /\ Goto(g, IF g \in Putters THEN "put" ELSE "get")
      BY <2>3, Zenon DEF Entry, At, loopVars, histVars
    <3>2. CASE g \in Putters
      BY <2>0, <3>1, <3>2, MoveLocal, Zenon DEF LocalInv
    <3>3. CASE g \in Getters /\ g \notin Putters
      BY <2>0, <3>1, <3>3, MoveLocal, Zenon DEF LocalInv
    <3>4. QED
      BY <3>2, <3>3, Zenon
  <2>4. QED
    BY <1>1, <2>1, <2>2, <2>3, CallLocal, RangeLocal, EndLocal, Zenon DEF Attempt
<1>2. ASSUME NEW g \in Putters, PutStep(g) PROVE LocalInv'
  <2>0. g \in Goroutines
    BY Zenon DEF Goroutines
  <2>1. CASE AddTotal(g) \/ CheckGrow(g) \/ Lock(g)
    BY <2>0, <2>1, MoveLocal, Zenon
    DEF AddTotal, CheckGrow, Lock, At, loopVars, histVars, LocalInv
  <2>2. CASE Recheck(g) \/ RecheckOpen(g)
    BY <2>0, <2>2, MoveLocal, Zenon
    DEF Recheck, RecheckOpen, At, loopVars, histVars, LocalInv
  <2>3. CASE CountBuffer(g)
    BY <2>0, <2>3, MoveLocal, Zenon DEF CountBuffer, At, loopVars, histVars, LocalInv
  <2>4. CASE CountDatum(g)
    <3>1. ok'[g] = TRUE /\ \A h \in Goroutines : h # g => ok'[h] = ok[h]
      BY <2>0, <2>4, Zenon DEF CountDatum, Set, TypeOK
    <3>2. QED
      BY <2>0, <2>4, <3>1, MoveLocal, Zenon DEF CountDatum, At, histVars, LocalInv
  <2>5. QED
    BY <1>2, <2>1, <2>2, <2>3, <2>4, PutLocal, GrowLocal, Zenon DEF PutStep
<1>3. ASSUME NEW g \in Getters, GetStep(g) PROVE LocalInv'
  <2>0. g \in Goroutines /\ g \notin Putters /\ g \in Putters \cup Getters
    BY PoolAssumption, Zenon DEF Goroutines
  <2>1. CASE SubtractTotal(g)
    BY <2>0, <2>1, MoveLocal, Zenon DEF SubtractTotal, At, loopVars, histVars, LocalInv
  <2>2. CASE CheckShrink(g)
    BY <2>0, <2>2, MoveLocal, Zenon
    DEF CheckShrink, Shrinks, At, loopVars, histVars, LocalInv
  <2>3. QED
    BY <1>3, <2>0, <2>1, <2>2, GetLocal, EndLocal, Zenon DEF GetStep
<1>4. QED
  BY <1>1, <1>2, <1>3, CloseLocal, Zenon DEF Next

-----------------------------------------------------------------------------
(***************************************************************************)
(* Types.                                                                  *)
(***************************************************************************)
(* The part of the types that does not follow from the other invariants. *)
ValuesOK ==
    /\ buffCh \in Seq(Buffers) /\ total \in 0..(TotalMod - 1)
    /\ readers \subseteq Goroutines /\ writer \subseteq Goroutines
    /\ buf \in [Goroutines -> Buffers]
    /\ count \in [Goroutines -> Nat] /\ maxCount \in [Goroutines -> Nat]
    /\ ok \in [Goroutines -> BOOLEAN]
    /\ calls \in [Goroutines -> 0..MaxCalls]
    /\ accepted \subseteq Data /\ taken \subseteq Data /\ nilPuts \subseteq Data

(* Counting modulo TotalMod. *)
LEMMA Modulo ==
    /\ BufferCap * MaxBufferNumber \in Nat /\ TotalMod \in Nat \ {0}
    /\ \A n \in Int : n % TotalMod \in 0..(TotalMod - 1)
    /\ \A n \in 0..(TotalMod - 1) : n % TotalMod = n
<1>1. BufferCap * MaxBufferNumber \in Nat
  BY PoolAssumption
<1>2. TotalMod \in Nat \ {0}
  BY <1>1, PoolAssumption
<1>3. QED
  BY <1>1, <1>2

(* The datum of a call of Put is a datum. *)
LEMMA DatumType ==
    ASSUME TypeOK, LocalInv, NEW g \in Putters,
           pc[g] \notin {"idle", "closeLock", "drain"}
    PROVE  Datum(g) \in Data
<1>1. g \in Goroutines
  BY Zenon DEF Goroutines
<1>2. calls[g] \in 0..MaxCalls /\ calls[g] >= 1
  BY <1>1, Zenon DEF TypeOK, LocalInv
<1>3. QED
  BY <1>2, PoolAssumption DEF Datum, Data

(* Empty and one-element buffers are buffers. *)
LEMMA SmallBuffers ==
    /\ Empty \in Buffers
    /\ \A d \in Data : <<d>> \in Buffers
<1>1. Empty \in Seq(Data) /\ Len(Empty) <= BufferCap
  BY PoolAssumption DEF Empty
<1>2. \A d \in Data : <<d>> \in Seq(Data) /\ Len(<<d>>) <= BufferCap
  BY PoolAssumption
<1>3. QED
  BY <1>1, <1>2, BuffersAreSequences, Zenon

(* The locals after the end of a call. *)
LEMMA ReturnTypes ==
    ASSUME TypeOK, LocalInv, NEW g \in Putters \cup Getters, NEW failed,
           pc[g] \notin {"idle", "closeLock", "drain"}, Return(g, failed)
    PROVE  /\ buf' \in [Goroutines -> Buffers]
           /\ count' \in [Goroutines -> Nat] /\ maxCount' \in [Goroutines -> Nat]
           /\ ok' \in [Goroutines -> BOOLEAN]
           /\ calls' \in [Goroutines -> 0..MaxCalls]
           /\ accepted' \subseteq Data /\ taken' \subseteq Data
           /\ nilPuts' \subseteq Data
<1>1. g \in Putters => Datum(g) \in Data
  BY DatumType, Zenon
<1>2. nilPuts' \subseteq Data
  BY <1>1, Zenon DEF Return, TypeOK
<1>3. buf' \in [Goroutines -> Buffers]
  BY SmallBuffers, Zenon DEF Return, Set, TypeOK
<1>4. QED
  BY <1>2, <1>3, Zenon DEF Return, Set, TypeOK

(* The locals after the end of an attempt. *)
LEMMA EndTypes ==
    ASSUME TypeOK, LocalInv, NEW g \in Putters \cup Getters, NEW n \in Nat,
           pc[g] \notin {"idle", "closeLock", "drain"}, EndAttempt(g, n)
    PROVE  /\ buf' \in [Goroutines -> Buffers]
           /\ count' \in [Goroutines -> Nat] /\ maxCount' \in [Goroutines -> Nat]
           /\ ok' \in [Goroutines -> BOOLEAN]
           /\ calls' \in [Goroutines -> 0..MaxCalls]
           /\ accepted' \subseteq Data /\ taken' \subseteq Data
           /\ nilPuts' \subseteq Data
<1>1. CASE Return(g, FALSE)
  BY <1>1, ReturnTypes, Zenon
<1>2. CASE /\ buf' = Set(buf, g, Empty) /\ count' = Set(count, g, n)
           /\ UNCHANGED <<maxCount, ok, calls, histVars>>
  BY <1>2, SmallBuffers, Zenon DEF Set, TypeOK, histVars
<1>3. QED
  BY <1>1, <1>2, Zenon DEF EndAttempt

(* The steps around putData and getData. *)
LEMMA AttemptTypes ==
    ASSUME TypeOK, LocalInv, NEW g \in Putters \cup Getters, Attempt(g)
    PROVE  ValuesOK'
<1>0. g \in Goroutines
  BY Zenon DEF Goroutines
<1>1. CASE Call(g)
  BY <1>0, <1>1, PoolAssumption
  DEF Call, Set, TypeOK, ValuesOK, chanVars, fieldVars, lockVars, histVars
<1>2. CASE ReadLimit(g)
  <2>1. \A f \in Nat : bufferNumber * f \in Nat
    BY PoolAssumption DEF TypeOK
  <2>2. maxCount' \in [Goroutines -> Nat]
    BY <1>0, <1>2, <2>1, PoolAssumption, Zenon DEF ReadLimit, Set, TypeOK
  <2>3. QED
    BY <1>2, <2>2, Zenon DEF ReadLimit, TypeOK, ValuesOK, chanVars, fieldVars,
       lockVars, histVars
<1>3. CASE RangeCh(g)
  <2>1. CASE /\ buffCh # <<>> /\ buffCh' = Tail(buffCh)
             /\ buf' = Set(buf, g, Head(buffCh)) /\ UNCHANGED <<loopVars, histVars>>
    <3>1. Head(buffCh) \in Buffers /\ Tail(buffCh) \in Seq(Buffers)
      BY <2>1 DEF TypeOK
    <3>2. QED
      BY <1>0, <1>3, <2>1, <3>1, Zenon DEF RangeCh, Set, TypeOK, ValuesOK, fieldVars,
         lockVars, loopVars, histVars
  <2>2. CASE Return(g, FALSE) /\ UNCHANGED buffCh
    BY <1>3, <2>2, ReturnTypes, Zenon DEF RangeCh, At, TypeOK, ValuesOK, fieldVars,
       lockVars
  <2>3. QED
    BY <1>3, <2>1, <2>2, Zenon DEF RangeCh
<1>4. CASE Entry(g)
  <2>1. CASE Return(g, TRUE)
    BY <1>4, <2>1, ReturnTypes, Zenon DEF Entry, At, TypeOK, ValuesOK, chanVars,
       fieldVars, lockVars
  <2>2. CASE UNCHANGED <<buf, loopVars, histVars>>
    BY <1>4, <2>2, Zenon DEF Entry, TypeOK, ValuesOK, chanVars, fieldVars, lockVars,
       loopVars, histVars
  <2>3. QED
    BY <1>4, <2>1, <2>2, Zenon DEF Entry
<1>5. CASE ReadLock(g) \/ CheckGiveBack(g)
  BY <1>0, <1>5, Zenon DEF ReadLock, CheckGiveBack, TypeOK, ValuesOK, chanVars,
     fieldVars, lockVars, loopVars, histVars
<1>6. CASE Send(g)
  <2>1. count[g] \in Nat /\ buf[g] \in Buffers
    BY <1>0, Zenon DEF TypeOK
  <2>2. buffCh' \in Seq(Buffers)
    BY <1>6, <2>1 DEF Send, TypeOK
  <2>3. QED
    BY <1>6, <2>1, <2>2, EndTypes, Zenon DEF Send, At, TypeOK, ValuesOK, fieldVars
<1>7. CASE Drop(g)
  BY <1>7, ReturnTypes, Zenon DEF Drop, At, TypeOK, ValuesOK, chanVars
<1>8. QED
  BY <1>1, <1>2, <1>3, <1>4, <1>5, <1>6, <1>7, Zenon DEF Attempt

(* The steps of putData. *)
LEMMA PutTypes ==
    ASSUME TypeOK, LocalInv, NEW g \in Putters, PutStep(g)
    PROVE  ValuesOK'
<1>0. g \in Goroutines
  BY Zenon DEF Goroutines
<1>1. CASE PutDatum(g)
  <2>1. CASE /\ Len(buf[g]) < BufferCap
             /\ buf' = Set(buf, g, Append(buf[g], Datum(g)))
             /\ accepted' = accepted \cup {Datum(g)}
             /\ ok' = Set(ok, g, TRUE) /\ UNCHANGED count
    <3>1. Datum(g) \in Data
      BY <1>1, DatumType, Zenon DEF PutDatum, At
    <3>2. buf[g] \in Seq(Data)
      BY <1>0, BuffersAreSequences, Zenon DEF TypeOK
    <3>3. /\ Append(buf[g], Datum(g)) \in Seq(Data)
          /\ Len(Append(buf[g], Datum(g))) <= BufferCap
      BY <2>1, <3>1, <3>2, PoolAssumption
    <3>4. Append(buf[g], Datum(g)) \in Buffers
      BY <3>3, BuffersAreSequences, Zenon
    <3>5. buf' \in [Goroutines -> Buffers] /\ accepted' \subseteq Data
      BY <1>0, <2>1, <3>1, <3>4, Zenon DEF Set, TypeOK
    <3>6. QED
      BY <1>1, <2>1, <3>5, Zenon DEF PutDatum, Set, TypeOK, ValuesOK, chanVars,
         fieldVars, lockVars
  <2>2. CASE CountUp(g) /\ UNCHANGED <<buf, accepted, ok>>
    BY <1>0, <1>1, <2>2 DEF PutDatum, CountUp, Set, TypeOK, ValuesOK, chanVars,
       fieldVars, lockVars
  <2>3. QED
    BY <1>1, <2>1, <2>2, Zenon DEF PutDatum
<1>2. CASE AddTotal(g) \/ CountDatum(g)
  <2>0. total \in Int
    BY Modulo DEF TypeOK
  <2>1. total' = (total + 1) % TotalMod
    BY <1>2, Zenon DEF AddTotal, CountDatum
  <2>2. total' \in 0..(TotalMod - 1)
    BY <2>0, <2>1, Modulo
  <2>3. CASE AddTotal(g)
    BY <2>2, <2>3, Zenon DEF AddTotal, TypeOK, ValuesOK, chanVars, lockVars, loopVars,
       histVars
  <2>4. CASE CountDatum(g)
    BY <1>0, <2>2, <2>4, Zenon DEF CountDatum, Set, TypeOK, ValuesOK, chanVars, histVars
  <2>5. QED
    BY <1>2, <2>3, <2>4, Zenon
<1>3. CASE CheckGrow(g) \/ Lock(g) \/ CountBuffer(g)
  BY <1>0, <1>3, Zenon DEF CheckGrow, Lock, CountBuffer, TypeOK, ValuesOK, chanVars,
     fieldVars, lockVars, loopVars, histVars
<1>4. CASE Recheck(g) \/ RecheckOpen(g)
  <2>1. /\ writer' \in {writer, {}} /\ count' \in [Goroutines -> Nat]
        /\ UNCHANGED <<buffCh, total, readers, buf, maxCount, ok, calls, accepted,
                       taken, nilPuts>>
    BY <1>0, <1>4 DEF Recheck, RecheckOpen, Set, TypeOK, chanVars, fieldVars,
       loopVars, histVars
  <2>2. QED
    BY <2>1, Zenon DEF TypeOK, ValuesOK
<1>5. CASE Grow(g)
  <2>1. Datum(g) \in Data
    BY <1>5, DatumType, Zenon DEF Grow, At
  <2>2. <<Datum(g)>> \in Buffers
    BY <2>1, SmallBuffers, Zenon
  <2>3. buffCh' \in Seq(Buffers) /\ accepted' \subseteq Data
    BY <1>5, <2>1, <2>2 DEF Grow, TypeOK
  <2>4. QED
    BY <1>5, <2>3, Zenon DEF Grow, TypeOK, ValuesOK, fieldVars, lockVars, loopVars
<1>6. QED
  BY <1>1, <1>2, <1>3, <1>4, <1>5, Zenon DEF PutStep

(* The steps of getData. *)
LEMMA GetTypes ==
    ASSUME TypeOK, LocalInv, NEW g \in Getters, GetStep(g)
    PROVE  ValuesOK'
<1>0. g \in Goroutines
  BY Zenon DEF Goroutines
<1>1. CASE GetDatum(g)
  <2>1. CASE /\ buf[g] # Empty /\ taken' = taken \cup {Head(buf[g])}
             /\ buf' = Set(buf, g, Tail(buf[g]))
             /\ ok' = Set(ok, g, TRUE) /\ UNCHANGED count
    <3>1. buf[g] \in Seq(Data) /\ Len(buf[g]) <= BufferCap
      BY <1>0, BuffersAreSequences, Zenon DEF TypeOK
    <3>2. /\ Head(buf[g]) \in Data /\ Tail(buf[g]) \in Seq(Data)
          /\ Len(Tail(buf[g])) <= BufferCap
      BY <2>1, <3>1, PoolAssumption DEF Empty
    <3>3. Tail(buf[g]) \in Buffers
      BY <3>2, BuffersAreSequences, Zenon
    <3>4. buf' \in [Goroutines -> Buffers] /\ taken' \subseteq Data
      BY <1>0, <2>1, <3>2, <3>3, Zenon DEF Set, TypeOK
    <3>5. QED
      BY <1>1, <2>1, <3>4, Zenon DEF GetDatum, Set, TypeOK, ValuesOK, chanVars,
         fieldVars, lockVars
  <2>2. CASE CountUp(g) /\ UNCHANGED <<buf, taken, ok>>
    BY <1>0, <1>1, <2>2 DEF GetDatum, CountUp, Set, TypeOK, ValuesOK, chanVars,
       fieldVars, lockVars
  <2>3. QED
    BY <1>1, <2>1, <2>2, Zenon DEF GetDatum
<1>2. CASE SubtractTotal(g)
  <2>1. total' = (total - 1) % TotalMod /\ total \in Int
    BY <1>2, Modulo DEF SubtractTotal, TypeOK
  <2>2. total' \in 0..(TotalMod - 1)
    BY <2>1, Modulo
  <2>3. QED
    BY <1>2, <2>2, Zenon DEF SubtractTotal, TypeOK, ValuesOK, chanVars, lockVars,
       loopVars, histVars
<1>3. CASE CheckShrink(g)
  BY <1>3, Zenon DEF CheckShrink, TypeOK, ValuesOK, chanVars, fieldVars, lockVars,
     loopVars, histVars
<1>4. CASE Discard(g)
  BY <1>4, EndTypes, Zenon DEF Discard, At, TypeOK, ValuesOK, chanVars, lockVars
<1>5. QED
  BY <1>1, <1>2, <1>3, <1>4, Zenon DEF GetStep

(* The number of buffers and the length of the channel are bounded. *)
LEMMA CountTypes ==
    CountInv /\ buffCh \in Seq(Buffers)
      => bufferNumber \in 0..MaxBufferNumber /\ Len(buffCh) <= MaxBufferNumber
<1>1. Uncounted \in Nat
  BY Zenon DEF Uncounted
<1>2. ASSUME CountInv PROVE Cardinality(Holders) \in Nat
  BY <1>2, FS_CardinalityType, Zenon DEF CountInv
<1>3. QED
  BY <1>1, <1>2, PoolAssumption DEF CountInv, BuffersOut

(* Every step keeps the types. *)
LEMMA TypeStep ==
    ASSUME TypeOK, LocalInv, LockInv', CountInv', Next
    PROVE  TypeOK'
<1>1. ASSUME NEW g \in Closers, Close(g) \/ CloseChannel(g) \/ Drain(g)
      PROVE  ValuesOK'
  <2>0. g \in Goroutines
    BY Zenon DEF Goroutines
  <2>1. CASE Close(g)
    BY <2>0, <2>1, PoolAssumption DEF Close, Set, TypeOK, ValuesOK, chanVars,
       lockVars, histVars
  <2>2. CASE CloseChannel(g)
    BY <2>0, <2>2, Zenon DEF CloseChannel, TypeOK, ValuesOK, fieldVars, loopVars, histVars
  <2>3. CASE Drain(g)
    <3>1. ASSUME buffCh # <<>> PROVE Tail(buffCh) \in Seq(Buffers)
      BY <3>1 DEF TypeOK
    <3>2. buffCh' \in Seq(Buffers)
      BY <2>3, <3>1, Zenon DEF Drain, TypeOK
    <3>3. writer' \subseteq Goroutines
      BY <2>3, Zenon DEF Drain, TypeOK
    <3>4. QED
      BY <2>3, <3>2, <3>3, Zenon DEF Drain, TypeOK, ValuesOK, fieldVars, loopVars, histVars
  <2>4. QED
    BY <1>1, <2>1, <2>2, <2>3, Zenon
<1>2. ValuesOK'
  BY <1>1, AttemptTypes, PutTypes, GetTypes, Zenon DEF Next
<1>3. /\ pc' \in [Goroutines -> Lines] /\ chClosed' \in BOOLEAN
      /\ closed' \in BOOLEAN
  BY Zenon DEF LockInv
<1>4. bufferNumber' \in 0..MaxBufferNumber /\ Len(buffCh') <= MaxBufferNumber
  <2>1. (CountInv /\ buffCh \in Seq(Buffers)
           => /\ bufferNumber \in 0..MaxBufferNumber
              /\ Len(buffCh) <= MaxBufferNumber)'
    BY CountTypes, PTL
  <2>2. QED
    BY <1>2, <2>1, Zenon DEF ValuesOK
<1>5. QED
  BY <1>2, <1>3, <1>4, Zenon DEF ValuesOK, TypeOK

-----------------------------------------------------------------------------
(* For TLC: putters are alike, and so are getters. *)
Symmetry ==
    {p : p \in Bijection(Putters, Putters) \cup Bijection(Getters, Getters)}
=============================================================================
