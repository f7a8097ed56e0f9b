----------------------------- MODULE BufferPool -----------------------------
(***************************************************************************)
(* The buffer pool of the web crawler (toolkit/buffer/pool.go): goroutines *)
(* that call Put, Get and Close.  A goroutine takes a buffer from the      *)
(* channel buffCh, works on it alone and sends it back; Put adds buffers   *)
(* and Get removes empty ones after enough failed attempts.                *)
(*                                                                         *)
(* A buffer belongs to the channel or to one goroutine, so it is its       *)
(* contents, the sequence of data in its own channel.  One action is one   *)
(* access to shared state, an atomic field, the lock or the channel; the   *)
(* lock is released together with the last access it protects.             *)
(***************************************************************************)
EXTENDS Integers, Sequences, FiniteSets

CONSTANTS
    Putters, Getters, Closers,    \* the goroutines, by what they call; one
                                  \* that calls several stands in each set
                                  \* under another name
    BufferCap, MaxBufferNumber,   \* the parameters of NewPool
    PutFactor, GetFactor,         \* 5 and 10 in Put and Get
    TotalMod,                     \* total counts modulo this, for 2^64
    MaxCalls                      \* bound on the calls of a goroutine

ASSUME PoolAssumption ==
    /\ BufferCap \in Nat \ {0} /\ MaxBufferNumber \in Nat \ {0}
    /\ Putters \cap Getters = {} /\ Closers \cap (Putters \cup Getters) = {}
    /\ PutFactor \in Nat /\ GetFactor \in Nat /\ MaxCalls \in Nat
    /\ TotalMod \in Nat /\ TotalMod > BufferCap * MaxBufferNumber

Goroutines == Putters \cup Getters \cup Closers

VARIABLES
    buffCh, chClosed,             \* the channel of buffers
    closed, bufferNumber, total,  \* the atomic fields
    readers, writer,              \* who holds rwlock
    pc, buf, count, maxCount, ok, calls,   \* locals of the goroutines
    accepted, taken, nilPuts
        \* history: data put in a buffer, got from one, and given to a Put
        \* that returned no error

fieldVars == <<closed, bufferNumber, total>>
lockVars == <<readers, writer>>
chanVars == <<buffCh, chClosed>>
loopVars == <<count, maxCount, ok, calls>>
histVars == <<accepted, taken, nilPuts>>
vars == <<chanVars, fieldVars, lockVars, pc, buf, loopVars, histVars>>

Empty == <<>>
Datum(g) == <<g, calls[g]>>

Init ==
    /\ buffCh = <<Empty>> /\ chClosed = FALSE
    /\ closed = FALSE /\ bufferNumber = 1 /\ total = 0
    /\ readers = {} /\ writer = {}
    /\ pc = [g \in Goroutines |-> "idle"]
    /\ buf = [g \in Goroutines |-> Empty]
    /\ count = [g \in Goroutines |-> 0]
    /\ maxCount = [g \in Goroutines |-> 0]
    /\ ok = [g \in Goroutines |-> FALSE]
    /\ calls = [g \in Goroutines |-> 0]
    /\ accepted = {} /\ taken = {} /\ nilPuts = {}

At(g, l) == pc[g] = l
Goto(g, l) == pc' = [pc EXCEPT ![g] = l]
Set(f, g, v) == [f EXCEPT ![g] = v]

(* The end of a call of Put, Get: the locals are gone. *)
Return(g, failed) ==
    /\ Goto(g, "idle")
    /\ buf' = Set(buf, g, Empty)
    /\ count' = Set(count, g, 0) /\ maxCount' = Set(maxCount, g, 0)
    /\ ok' = Set(ok, g, FALSE)
    /\ nilPuts' = IF g \in Putters /\ ~failed THEN nilPuts \cup {Datum(g)}
                  ELSE nilPuts
    /\ UNCHANGED <<calls, accepted, taken>>

-----------------------------------------------------------------------------
(* Put and Get up to their loop. *)
Call(g) ==
    /\ At(g, "idle") /\ g \notin Closers /\ calls[g] < MaxCalls
    /\ calls' = Set(calls, g, calls[g] + 1)
    /\ Goto(g, IF closed THEN "idle" ELSE "limit")
    /\ UNCHANGED <<chanVars, fieldVars, lockVars, buf, count, maxCount, ok,
                   histVars>>

ReadLimit(g) ==
    /\ At(g, "limit")
    /\ maxCount' = Set(maxCount, g, bufferNumber *
                         IF g \in Putters THEN PutFactor ELSE GetFactor)
    /\ Goto(g, "range")
    /\ UNCHANGED <<chanVars, fieldVars, lockVars, buf, count, ok, calls,
                   histVars>>

(* range buffCh: the next buffer; the loop ends without an error once the  *)
(* channel is closed and empty.                                            *)
RangeCh(g) ==
    /\ At(g, "range")
    /\ \/ /\ buffCh # <<>>
          /\ buf' = Set(buf, g, Head(buffCh)) /\ buffCh' = Tail(buffCh)
          /\ Goto(g, "entry")
          /\ UNCHANGED <<loopVars, histVars>>
       \/ /\ buffCh = <<>> /\ chClosed
          /\ Return(g, FALSE)
          /\ UNCHANGED buffCh
    /\ UNCHANGED <<chClosed, fieldVars, lockVars>>

(* The first test of putData and getData, before the deferred function. *)
Entry(g) ==
    /\ At(g, "entry")
    /\ IF closed THEN Return(g, TRUE)
       ELSE /\ Goto(g, IF g \in Putters THEN "put" ELSE "get")
            /\ UNCHANGED <<buf, loopVars, histVars>>
    /\ UNCHANGED <<chanVars, fieldVars, lockVars>>

(* One more failed attempt.  Past maxCount the count makes no difference. *)
CountUp(g) ==
    count' = Set(count, g,
                 IF count[g] < maxCount[g] THEN count[g] + 1 ELSE count[g])


-----------------------------------------------------------------------------
(* putData: the datum goes in the buffer, or this was a failed attempt. *)
PutDatum(g) ==
    /\ At(g, "put")
    /\ \/ /\ Len(buf[g]) < BufferCap
          /\ buf' = Set(buf, g, Append(buf[g], Datum(g)))
          /\ accepted' = accepted \cup {Datum(g)}
          /\ ok' = Set(ok, g, TRUE)
          /\ Goto(g, "add")
          /\ UNCHANGED count
       \/ /\ Len(buf[g]) = BufferCap
          /\ CountUp(g)
          /\ Goto(g, "full")
          /\ UNCHANGED <<buf, accepted, ok>>
    /\ UNCHANGED <<chanVars, fieldVars, lockVars, maxCount, calls, taken,
                   nilPuts>>

(* A defect: the datum is not counted. *)
AddNothing(g) ==
    /\ At(g, "add")
    /\ Goto(g, "defer")
    /\ UNCHANGED <<chanVars, fieldVars, lockVars, buf, loopVars, histVars>>

AddTotal(g) ==
    /\ At(g, "add")
    /\ total' = (total + 1) % TotalMod
    /\ Goto(g, "defer")
    /\ UNCHANGED <<chanVars, closed, bufferNumber, lockVars, buf, loopVars,
                   histVars>>

(* After enough failures a pool that is not at its limit may grow. *)
CheckGrow(g) ==
    /\ At(g, "full")
    /\ Goto(g, IF count[g] >= maxCount[g] /\ bufferNumber < MaxBufferNumber
               THEN "lock" ELSE "defer")
    /\ UNCHANGED <<chanVars, fieldVars, lockVars, buf, loopVars, histVars>>

Lock(g) ==
    /\ At(g, "lock") /\ readers = {} /\ writer = {}
    /\ writer' = {g}
    /\ Goto(g, "recheck")
    /\ UNCHANGED <<chanVars, fieldVars, readers, buf, loopVars, histVars>>

(* A defect: the number of buffers is not read again under the lock. *)
GrowsOnceLocked == TRUE
(* Under the lock the number of buffers is read again. *)
GrowsStill == bufferNumber < MaxBufferNumber

Recheck(g) ==
    /\ At(g, "recheck")
    /\ IF GrowsStill
       THEN Goto(g, "reopen") /\ UNCHANGED <<writer, count>>
       ELSE /\ writer' = {} /\ count' = Set(count, g, 0)
            /\ Goto(g, "defer")
    /\ UNCHANGED <<chanVars, fieldVars, readers, buf, maxCount, ok, calls,
                   histVars>>

RecheckOpen(g) ==
    /\ At(g, "reopen")
    /\ IF closed
       THEN writer' = {} /\ Goto(g, "defer")
       ELSE Goto(g, "grow") /\ UNCHANGED writer
    /\ UNCHANGED <<chanVars, fieldVars, readers, buf, loopVars, histVars>>

(* A defect: the datum is not put in the new buffer. *)
GrowEmpty(g) ==
    /\ At(g, "grow") /\ Len(buffCh) < MaxBufferNumber
    /\ buffCh' = Append(buffCh, Empty)
    /\ accepted' = accepted \cup {Datum(g)}
    /\ Goto(g, "countBuffer")
    /\ UNCHANGED <<chClosed, fieldVars, lockVars, buf, loopVars, taken, nilPuts>>

(* A new buffer with the datum is sent, then counted, then its datum is. *)
Grow(g) ==
    /\ At(g, "grow") /\ Len(buffCh) < MaxBufferNumber
    /\ buffCh' = Append(buffCh, <<Datum(g)>>)
    /\ accepted' = accepted \cup {Datum(g)}
    /\ Goto(g, "countBuffer")
    /\ UNCHANGED <<chClosed, fieldVars, lockVars, buf, loopVars, taken, nilPuts>>

CountBuffer(g) ==
    /\ At(g, "countBuffer")
    /\ bufferNumber' = bufferNumber + 1
    /\ Goto(g, "countDatum")
    /\ UNCHANGED <<chanVars, closed, total, lockVars, buf, loopVars, histVars>>

CountDatum(g) ==
    /\ At(g, "countDatum")
    /\ total' = (total + 1) % TotalMod
    /\ ok' = Set(ok, g, TRUE) /\ count' = Set(count, g, 0)
    /\ writer' = {}
    /\ Goto(g, "defer")
    /\ UNCHANGED <<chanVars, closed, bufferNumber, readers, buf, maxCount,
                   calls, histVars>>

-----------------------------------------------------------------------------
(* getData: a datum from the buffer, or this was a failed attempt. *)
GetDatum(g) ==
    /\ At(g, "get")
    /\ \/ /\ buf[g] # Empty
          /\ taken' = taken \cup {Head(buf[g])}
          /\ buf' = Set(buf, g, Tail(buf[g]))
          /\ ok' = Set(ok, g, TRUE)
          /\ Goto(g, "subtract")
          /\ UNCHANGED count
       \/ /\ buf[g] = Empty
          /\ CountUp(g)
          /\ Goto(g, "shrink")
          /\ UNCHANGED <<buf, taken, ok>>
    /\ UNCHANGED <<chanVars, fieldVars, lockVars, maxCount, calls,
                   accepted, nilPuts>>

SubtractTotal(g) ==
    /\ At(g, "subtract")
    /\ total' = (total - 1) % TotalMod
    /\ Goto(g, "shrink")
    /\ UNCHANGED <<chanVars, closed, bufferNumber, lockVars, buf, loopVars,
                   histVars>>

(* The deferred function of getData: after enough failures an empty buffer *)
(* that is not the only one is not given back.                             *)
Shrinks(g) ==
    count[g] >= maxCount[g] /\ buf[g] = Empty /\ bufferNumber > 1

CheckShrink(g) ==
    /\ At(g, "shrink")
    /\ Goto(g, IF Shrinks(g) THEN "discard" ELSE "defer")
    /\ UNCHANGED <<chanVars, fieldVars, lockVars, buf, loopVars, histVars>>

(* The end of putData and getData: the loop goes on after a failed attempt. *)
EndAttempt(g, failures) ==
    IF ok[g] THEN Return(g, FALSE)
    ELSE /\ Goto(g, "range") /\ buf' = Set(buf, g, Empty)
         /\ count' = Set(count, g, failures)
         /\ UNCHANGED <<maxCount, ok, calls, histVars>>

(* A defect: the buffer that is gone is still counted. *)
DiscardUncounted(g) ==
    /\ At(g, "discard")
    /\ EndAttempt(g, 0)
    /\ UNCHANGED <<chanVars, fieldVars, lockVars>>

(* The buffer is closed and counted out, and the attempts start again. *)
Discard(g) ==
    /\ At(g, "discard")
    /\ bufferNumber' = bufferNumber - 1
    /\ EndAttempt(g, 0)
    /\ UNCHANGED <<chanVars, closed, total, lockVars>>

-----------------------------------------------------------------------------
(* The deferred function: under the read lock the buffer goes back to the  *)
(* channel unless the pool was closed.                                     *)
ReadLock(g) ==
    /\ At(g, "defer") /\ writer = {}
    /\ readers' = readers \cup {g}
    /\ Goto(g, "giveBack")
    /\ UNCHANGED <<chanVars, fieldVars, writer, buf, loopVars, histVars>>

(* A defect: buffers are sent back without a look at closed. *)
GivesBackAlways == TRUE
GivesBack == ~closed

CheckGiveBack(g) ==
    /\ At(g, "giveBack")
    /\ Goto(g, IF GivesBack THEN "send" ELSE "drop")
    /\ UNCHANGED <<chanVars, fieldVars, lockVars, buf, loopVars, histVars>>

Send(g) ==
    /\ At(g, "send") /\ Len(buffCh) < MaxBufferNumber
    /\ buffCh' = Append(buffCh, buf[g])
    /\ readers' = readers \ {g}
    /\ EndAttempt(g, count[g])
    /\ UNCHANGED <<chClosed, fieldVars, writer>>

Drop(g) ==
    /\ At(g, "drop")
    /\ bufferNumber' = bufferNumber - 1
    /\ readers' = readers \ {g}
    /\ Return(g, TRUE)
    /\ UNCHANGED <<chanVars, closed, total, writer>>

-----------------------------------------------------------------------------
(* Close: the first call sets the flag, then closes the channel under the  *)
(* lock and closes the buffers that are in it.                             *)
Close(g) ==
    /\ At(g, "idle") /\ g \in Closers /\ calls[g] < MaxCalls
    /\ calls' = Set(calls, g, calls[g] + 1)
    /\ closed' = TRUE
    /\ Goto(g, IF closed THEN "idle" ELSE "closeLock")
    /\ UNCHANGED <<chanVars, bufferNumber, total, lockVars, buf, count,
                   maxCount, ok, histVars>>

CloseChannel(g) ==
    /\ At(g, "closeLock") /\ readers = {} /\ writer = {}
    /\ writer' = {g} /\ chClosed' = TRUE
    /\ Goto(g, "drain")
    /\ UNCHANGED <<buffCh, fieldVars, readers, buf, loopVars, histVars>>

Drain(g) ==
    /\ At(g, "drain")
    /\ IF buffCh # <<>>
       THEN buffCh' = Tail(buffCh) /\ UNCHANGED <<writer, pc>>
       ELSE writer' = {} /\ Goto(g, "idle") /\ UNCHANGED buffCh
    /\ UNCHANGED <<chClosed, fieldVars, readers, buf, loopVars, histVars>>

Attempt(g) ==
    \/ Call(g) \/ ReadLimit(g) \/ RangeCh(g) \/ Entry(g)
    \/ ReadLock(g) \/ CheckGiveBack(g) \/ Send(g) \/ Drop(g)

PutStep(g) ==
    \/ PutDatum(g) \/ AddTotal(g) \/ CheckGrow(g) \/ Lock(g) \/ Recheck(g)
    \/ RecheckOpen(g) \/ Grow(g) \/ CountBuffer(g) \/ CountDatum(g)

GetStep(g) ==
    GetDatum(g) \/ SubtractTotal(g) \/ CheckShrink(g) \/ Discard(g)

Next ==
    \/ \E g \in Putters \cup Getters : Attempt(g)
    \/ \E g \in Putters : PutStep(g)
    \/ \E g \in Getters : GetStep(g)
    \/ \E g \in Closers : Close(g) \/ CloseChannel(g) \/ Drain(g)

Spec == Init /\ [][Next]_vars

-----------------------------------------------------------------------------
Lines == {"idle", "limit", "range", "entry", "put", "add", "full", "lock",
          "recheck", "reopen", "grow", "countBuffer", "countDatum", "get",
          "subtract", "shrink", "discard", "defer", "giveBack", "send", "drop",
          "closeLock", "drain"}
Data == (Putters \X (1..MaxCalls))
Buffers == UNION {[1..n -> Data] : n \in 0..BufferCap}

(* Types: bufferNumber stays within 0 and the maximum, it never wraps. *)
TypeOK ==
    /\ buffCh \in Seq(Buffers) /\ Len(buffCh) <= MaxBufferNumber
    /\ chClosed \in BOOLEAN /\ closed \in BOOLEAN
    /\ bufferNumber \in 0..MaxBufferNumber
    /\ total \in 0..(TotalMod - 1)
    /\ readers \subseteq Goroutines /\ writer \subseteq Goroutines
    /\ pc \in [Goroutines -> Lines]
    /\ buf \in [Goroutines -> Buffers]
    /\ count \in [Goroutines -> Nat] /\ maxCount \in [Goroutines -> Nat]
    /\ ok \in [Goroutines -> BOOLEAN]
    /\ calls \in [Goroutines -> 0..MaxCalls]
    /\ accepted \subseteq Data /\ taken \subseteq Data /\ nilPuts \subseteq Data

Sending(g) == At(g, "send") \/ At(g, "grow")

(* A goroutine that is about to send a buffer never finds the channel      *)
(* closed, which would panic: closed is set before the lock is taken and   *)
(* read again under it.                                                    *)
NeverSendsOnClosed ==
    \A g \in Putters \cup Getters : Sending(g) => ~chClosed

(* A send under the lock never blocks: there is always room for every      *)
(* buffer, or Put, Get and Close would wait for each other for ever.       *)
SendHasRoom ==
    \A g \in Putters \cup Getters : Sending(g) => Len(buffCh) < MaxBufferNumber

Contents(b) == {b[i] : i \in DOMAIN b}
Stored ==
    (UNION {Contents(buffCh[i]) : i \in DOMAIN buffCh})
      \cup (UNION {Contents(buf[g]) : g \in Goroutines})

(* Until the pool is closed a datum that was put is in a buffer or was     *)
(* got, and never both: growing and shrinking the pool loses nothing.      *)
NothingLost == ~closed => Stored = accepted \ taken

(* When nobody is at work on an open pool the counters are exact: Total()  *)
(* is the number of data, BufferNumer() that of the buffers.               *)
QuiescentCounts ==
    (~closed /\ \A g \in Goroutines : At(g, "idle"))
        => total = Cardinality(Stored) /\ bufferNumber = Len(buffCh)

(* An open pool keeps a buffer: getData only gives one up when "the pool   *)
(* has more than one", as its comment says.  Without any, every Put and    *)
(* Get waits for ever.                                                     *)
KeepsABuffer == closed \/ bufferNumber >= 1

(* The comment on Put promises an error when the pool is closed: a Put     *)
(* that returns none has stored its datum.                                 *)
PutWithoutErrorStores == nilPuts \subseteq accepted

(* Total(), "the number of data in the pool", is never more than fit, so   *)
(* it does not wrap below 0 either: a new buffer can be emptied before its *)
(* datum is counted, but Put then still holds a full buffer.               *)
TotalWithinCapacity == total <= BufferCap * MaxBufferNumber

=============================================================================
