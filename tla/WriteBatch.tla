----------------------------- MODULE WriteBatch -----------------------------
(***************************************************************************)
(* WriteBatch (leveldb/db/write_batch.cc): a header with a sequence number *)
(* and a count, then a tagged record per update.  A batch is filled, other *)
(* batches are appended to it, it is stored, perhaps cut off, and inserted *)
(* into a memtable.                                                        *)
(***************************************************************************)
EXTENDS Coding, SequencesExt

CONSTANTS
    SequenceLen,  \* 8: bytes of the sequence number in the header
    CountLen,     \* 4: bytes of the count
    Strings,      \* keys and values
    Sequences,    \* sequence numbers the writer gives out
    MaxOps        \* bound: updates in a batch

VARIABLES
    rep,      \* rep_
    other,    \* rep_ of the batch that Append appends
    ops,      \* the updates asked for so far, in order
    otherOps, \* those of the other batch
    stored,   \* what is read back: rep, or a part of it
    mem,      \* the entries that InsertInto added to the memtable
    status    \* its result

batchVars == <<rep, other, ops, otherOps, stored, mem, status>>

kHeader == SequenceLen + CountLen
kTypeDeletion == 0
kTypeValue == 1

Sequence(b) == DecodeFixed(SubSeq(b, 1, SequenceLen))
Count(b) == DecodeFixed(SubSeq(b, SequenceLen + 1, kHeader))
Body(b) == SubSeq(b, kHeader + 1, Len(b))
SetSequence(b, s) == Fixed(s, SequenceLen) \o SubSeq(b, SequenceLen + 1, Len(b))
SetCount(b, n) == SubSeq(b, 1, SequenceLen) \o Fixed(n, CountLen) \o Body(b)

Cleared == [i \in 1..kHeader |-> 0]

PutRecord(k, v) == <<kTypeValue>> \o LengthPrefixed(k) \o LengthPrefixed(v)
DeleteRecord(k) == <<kTypeDeletion>> \o LengthPrefixed(k)

Appended(dst, src) == SetCount(dst, Count(dst) + Count(src)) \o Body(src)

(***************************************************************************)
(* Iterate, with the handler of InsertInto: the entries handed over before *)
(* an error stay in the memtable.                                          *)
(***************************************************************************)
Outcome(entries, s) == [entries |-> entries, status |-> s]

\* One record of the input: its update and the rest.
NextRecord(in) ==
    LET key == GetLengthPrefixed(Tail(in))
        value == GetLengthPrefixed(key.rest)
    IN CASE in[1] = kTypeValue /\ key.ok /\ value.ok ->
              [ok |-> TRUE, op |-> <<kTypeValue, key.value, value.value>>, rest |-> value.rest]
         [] in[1] = kTypeDeletion /\ key.ok ->
              [ok |-> TRUE, op |-> <<kTypeDeletion, key.value, <<>>>>, rest |-> key.rest]
         [] OTHER -> [ok |-> FALSE, op |-> <<>>, rest |-> <<>>]

CountsAny(found, count) == TRUE                        \* a defect: the count is not compared
Counts(found, count) == found = count

Behind(entry, more) == Outcome(<<entry>> \o more.entries, more.status)
RECURSIVE Iterate(_, _, _, _)
Iterate(in, found, count, seq) ==
    IF in = <<>> THEN Outcome(<<>>, IF Counts(found, count) THEN "ok" ELSE "wrong count")
    ELSE LET r == NextRecord(in)
         IN IF ~r.ok THEN Outcome(<<>>, "bad record")
            ELSE Behind(<<seq + found, r.op>>, Iterate(r.rest, found + 1, count, seq))

SameSequence(b) == Sequence(b) - 1                     \* a defect: numbers one too low
FirstSequence(b) == Sequence(b)

InsertInto(b) ==
    IF Len(b) < kHeader THEN Outcome(<<>>, "too small")
    ELSE Iterate(Body(b), 0, Count(b), FirstSequence(b))

(***************************************************************************)
(* The actions.                                                            *)
(***************************************************************************)
Idle == stored = <<>> /\ mem = <<>> /\ status = "none"

BatchInit ==
    /\ rep = Cleared /\ other = Cleared
    /\ ops = <<>> /\ otherOps = <<>>
    /\ Idle

Filling == status = "none" /\ stored = <<>> /\ Len(ops) + Len(otherOps) < MaxOps

Put(k, v) ==
    /\ Filling
    /\ rep' = SetCount(rep, Count(rep) + 1) \o PutRecord(k, v)
    /\ ops' = Append(ops, <<kTypeValue, k, v>>)
    /\ UNCHANGED <<other, otherOps, stored, mem, status>>

Delete(k) ==
    /\ Filling
    /\ rep' = SetCount(rep, Count(rep) + 1) \o DeleteRecord(k)
    /\ ops' = Append(ops, <<kTypeDeletion, k, <<>>>>)
    /\ UNCHANGED <<other, otherOps, stored, mem, status>>

\* The batch of another writer, which BuildBatchGroup will append.
SwapBatches ==
    /\ status = "none" /\ stored = <<>> /\ ops # <<>> /\ otherOps = <<>>
    /\ other' = rep /\ otherOps' = ops
    /\ rep' = Cleared /\ ops' = <<>>
    /\ UNCHANGED <<stored, mem, status>>

AppendBatch ==
    /\ status = "none" /\ stored = <<>> /\ otherOps # <<>>
    /\ rep' = Appended(rep, other)
    /\ ops' = ops \o otherOps
    /\ other' = Cleared /\ otherOps' = <<>>
    /\ UNCHANGED <<stored, mem, status>>

\* The batch gets its sequence number, is logged and read back, perhaps in part.
Store(seq, n) ==
    /\ status = "none" /\ stored = <<>>
    /\ rep' = SetSequence(rep, seq)
    /\ stored' = SubSeq(rep', 1, n)
    /\ status' = "stored"
    /\ UNCHANGED <<other, ops, otherOps, mem>>

Insert ==
    /\ status = "stored"
    /\ mem' = InsertInto(stored).entries
    /\ status' = InsertInto(stored).status
    /\ UNCHANGED <<rep, other, ops, otherOps, stored>>

BatchNext ==
    \/ \E k, v \in Strings : Put(k, v)
    \/ \E k \in Strings : Delete(k)
    \/ SwapBatches
    \/ AppendBatch
    \/ \E seq \in Sequences, n \in 0..Len(rep) : Store(seq, n)
    \/ Insert

BatchSpec == BatchInit /\ [][BatchNext]_batchVars

-----------------------------------------------------------------------------
Entries(s, list) == [i \in DOMAIN list |-> <<s + i - 1, list[i]>>]
Inserted == status \notin {"none", "stored"}

(* Types: a batch is a string of bytes with its header, and the writes it  *)
(* stands for.                                                             *)
BatchTypeOK ==
    /\ \A b \in {rep, other, stored} : \A i \in DOMAIN b : b[i] \in Byte
    /\ Len(rep) >= kHeader /\ Len(other) >= kHeader
    /\ Count(rep) = Len(ops) /\ Count(other) = Len(otherOps)
    /\ status \in {"none", "stored", "ok", "too small", "bad record", "wrong count"}

(* A whole batch is inserted exactly: every update of it and of the        *)
(* batches appended to it, in order, with consecutive sequence numbers     *)
(* from the batch's own on, and the status is OK.                          *)
BatchReadsBack ==
    Inserted /\ stored = rep => status = "ok" /\ mem = Entries(Sequence(rep), ops)

(* A batch that was cut off anywhere is never taken for a whole one, and   *)
(* what it leaves in the memtable is a first part of its updates with      *)
(* their own sequence numbers.                                             *)
CutBatchIsNoticed ==
    Inserted /\ Len(stored) < Len(rep) =>
        /\ status # "ok"
        /\ IsPrefix(mem, Entries(Sequence(rep), ops))
=============================================================================
