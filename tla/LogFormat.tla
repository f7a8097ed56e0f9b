------------------------------ MODULE LogFormat ------------------------------
(***************************************************************************)
(* The format of LevelDB's logs and MANIFESTs: log::Writer splits records  *)
(* into fragments that fit in blocks, a crash leaves a prefix of the file, *)
(* log::Reader puts the records together again (db/log_writer.cc,          *)
(* db/log_reader.cc), and with reuse_logs a new writer appends to the file *)
(* that was just read.                                                     *)
(*                                                                         *)
(* A byte is a pair: <<f, i>> is the i-th byte of fragment number f, header *)
(* first, and <<0, 0>> is a zero byte of a block trailer.  What a fragment *)
(* says, its type, its length and its record, is in frags.  The checksum   *)
(* detects every fragment whose bytes are not all its own.  The readers of *)
(* the database start at offset 0, so initial_offset_ is left out.         *)
(***************************************************************************)
EXTENDS Naturals, Sequences, FiniteSets

CONSTANTS
    BlockSize, HeaderSize,   \* 32768 and 7 in log_format.h
    MaxLength,               \* bound on the length of a record
    MaxRecords,              \* bound on the number of records
    MaxFailures,             \* bound on the number of failed writes and reads
    MaxReuse                 \* bound on the times the file is reopened

ASSUME FormatAssumption ==
    /\ HeaderSize \in Nat \ {0} /\ BlockSize \in Nat
    /\ HeaderSize < BlockSize
    /\ {MaxLength, MaxRecords, MaxFailures, MaxReuse} \subseteq Nat

VARIABLES
    file,                    \* the bytes of the file
    blockOffset,             \* block_offset_ of the writer
    frags,                   \* the fragments that were emitted
    records,                 \* per record: length, fragments, acknowledged
    phase,                   \* "write", "read" or "done"
    failures,                \* writes and reads of the file that failed
    reuses,                  \* writers that appended to a file that was read
    position, buffer, eof, scratch, inFragmented, results, reports
                             \* the reader

writerVars == <<file, blockOffset, frags, records, failures, reuses>>
readerVars == <<position, buffer, eof, scratch, inFragmented, results, reports>>
vars == <<writerVars, phase, readerVars>>

ReaderInit ==
    /\ position = 0 /\ buffer = <<>> /\ eof = FALSE
    /\ scratch = <<>> /\ inFragmented = FALSE
    /\ results = <<>> /\ reports = FALSE

Init ==
    /\ file = <<>> /\ blockOffset = 0 /\ frags = <<>> /\ records = <<>>
    /\ phase = "write" /\ failures = 0 /\ reuses = 0
    /\ ReaderInit

-----------------------------------------------------------------------------
(* AddRecord.  A step of its loop is a state w: the bytes appended to the  *)
(* file, the fragments, block_offset_ and what is left of the record.      *)
Zeros(n) == [i \in 1..n |-> <<0, 0>>]
FragmentBytes(f, length) == [i \in 1..(HeaderSize + length) |-> <<f, i>>]
Smaller(a, b) == IF a < b THEN a ELSE b

(* A defect: a header is started where it does not fit. *)
FitsAlways(offset) == TRUE
(* Whether another header fits in the block. *)
Fits(offset) == BlockSize - offset >= HeaderSize

(* A defect: the trailer is not filled. *)
FillNothing(offset) == <<>>
(* The trailer of a block in which no header fits. *)
Fill(offset) == IF Fits(offset) THEN <<>> ELSE Zeros(BlockSize - offset)

(* A defect: the end of the record is looked at before its beginning. *)
TypeOfEndFirst(begin, end) ==
    IF end THEN "full" ELSE IF begin THEN "first" ELSE "middle"
(* The type of a fragment: whether it begins and whether it ends a record. *)
TypeOf(begin, end) ==
    CASE begin /\ end -> "full" [] begin /\ ~end -> "first"
      [] ~begin /\ end -> "last" [] OTHER -> "middle"

EmitFragment(w, begin) ==
    LET offset == IF Fits(w.offset) THEN w.offset ELSE 0
        length == Smaller(w.left, BlockSize - offset - HeaderSize)
        f == Len(w.frags) + 1
    IN  [bytes |-> w.bytes \o Fill(w.offset) \o FragmentBytes(f, length),
         frags |-> Append(w.frags,
                     [type |-> TypeOf(begin, length = w.left),
                      length |-> length]),
         offset |-> offset + HeaderSize + length,
         left |-> w.left - length]

(* The loop: the state after n + 1 fragments, at least one and until       *)
(* nothing is left.                                                        *)
Emitted(length, n) ==
    LET start == [bytes |-> <<>>, frags |-> frags, offset |-> blockOffset,
                  left |-> length]
        loop[i \in 0..n] ==
            IF i = 0 THEN EmitFragment(start, TRUE)
            ELSE IF loop[i - 1].left = 0 THEN loop[i - 1]
            ELSE EmitFragment(loop[i - 1], FALSE)
    IN  loop[n]

(* What a record becomes: its fragments, whether all of it was emitted,    *)
(* whether AddRecord returned OK, and the size of the file after it.       *)
NewRecord(w, ok, size) ==
    [fragments |-> [i \in 1..(Len(w.frags) - Len(frags)) |-> Len(frags) + i],
     whole |-> w.left = 0, ok |-> ok, end |-> size]

AddRecord(length) ==
    /\ phase = "write" /\ Len(records) < MaxRecords
    /\ LET w == Emitted(length, length + 1)
       IN  /\ file' = file \o w.bytes
           /\ blockOffset' = w.offset
           /\ frags' = w.frags
           /\ records' = Append(records, NewRecord(w, TRUE, Len(file')))
    /\ UNCHANGED <<phase, failures, reuses, readerVars>>

(* EmitPhysicalRecord fails for the fragment n + 1: a part of its bytes    *)
(* may be in the file, block_offset_ counts all of them, and AddRecord     *)
(* returns the error.  DBImpl::Write goes on using the writer.             *)
AddRecordFails(length, n) ==
    /\ phase = "write" /\ Len(records) < MaxRecords /\ failures < MaxFailures
    /\ n > 0 => Emitted(length, n - 1).left > 0
    /\ LET w == Emitted(length, n)
           before == IF n = 0 THEN 0 ELSE Len(Emitted(length, n - 1).bytes)
       IN  \E k \in before..Len(w.bytes) :
             /\ file' = file \o SubSeq(w.bytes, 1, k)
             /\ blockOffset' = w.offset
             /\ frags' = w.frags
             /\ records' = Append(records,
                    [NewRecord(w, FALSE, Len(file')) EXCEPT
                       !.whole = @ /\ k = Len(w.bytes)])
    /\ failures' = failures + 1
    /\ UNCHANGED <<phase, reuses, readerVars>>

(* The process or the machine dies, the first n bytes are still there, and *)
(* the file is read.                                                       *)
Crash(n) ==
    /\ phase = "write" /\ phase' = "read"
    /\ file' = SubSeq(file, 1, n)
    /\ records' = SelectSeq(records, LAMBDA r : r.end <= n)
    /\ UNCHANGED <<blockOffset, frags, failures, reuses, readerVars>>

(* The end of RecoverLogFile with reuse_logs: a writer for the same file. *)
Reuse ==
    /\ phase = "done" /\ reuses < MaxReuse
    /\ reuses' = reuses + 1
    /\ blockOffset' = Len(file) % BlockSize
    /\ phase' = "write"
    /\ position' = 0 /\ buffer' = <<>> /\ eof' = FALSE
    /\ scratch' = <<>> /\ inFragmented' = FALSE
    /\ results' = <<>> /\ reports' = FALSE
    /\ UNCHANGED <<file, frags, records, failures>>

-----------------------------------------------------------------------------
(* ReadPhysicalRecord: the next block.  A short one is the last. *)
ReadBlock ==
    /\ phase = "read" /\ Len(buffer) < HeaderSize /\ ~eof
    /\ buffer' = SubSeq(file, position + 1,
                        Smaller(position + BlockSize, Len(file)))
    /\ position' = position + Len(buffer')
    /\ eof' = (Len(buffer') < BlockSize)
    /\ UNCHANGED <<writerVars, phase, scratch, inFragmented, results, reports>>

(* kEof in ReadRecord: what is in scratch is dropped without a report. *)
Eof ==
    /\ phase' = "done"
    /\ buffer' = <<>> /\ scratch' = <<>> /\ inFragmented' = FALSE
    /\ UNCHANGED <<results, reports>>

(* The same when Read fails: the block is reported as dropped. *)
ReadBlockFails ==
    /\ phase = "read" /\ Len(buffer) < HeaderSize /\ ~eof
    /\ failures < MaxFailures
    /\ failures' = failures + 1
    /\ eof' = TRUE /\ reports' = TRUE
    /\ phase' = "done"
    /\ buffer' = <<>> /\ scratch' = <<>> /\ inFragmented' = FALSE
    /\ UNCHANGED <<file, blockOffset, frags, records, reuses, position, results>>

(* A defect: the bytes are not dropped. *)
BadRecordKept(reported) ==
    /\ reports' = (reports \/ reported \/ inFragmented)
    /\ scratch' = <<>> /\ inFragmented' = FALSE
    /\ UNCHANGED <<buffer, phase, results>>

(* kBadRecord in ReadRecord, with the rest of the block dropped. *)
BadRecord(reported) ==
    /\ buffer' = <<>> /\ scratch' = <<>> /\ inFragmented' = FALSE
    /\ reports' = (reports \/ reported \/ inFragmented)
    /\ UNCHANGED <<phase, results>>

(* Less than a header is left after the last block. *)
ReadEnd ==
    /\ phase = "read" /\ Len(buffer) < HeaderSize /\ eof
    /\ Eof
    /\ UNCHANGED <<writerVars, position, eof>>

(* The fragment whose header is at the start of the buffer, 0 if the bytes *)
(* there are no header.                                                    *)
HeaderAt(b) ==
    IF \A i \in 1..HeaderSize : b[i] = <<b[1][1], i>> THEN b[1][1] ELSE 0
Length(f) == frags[f].length
Intact(b, f) == SubSeq(b, 1, HeaderSize + Length(f)) = FragmentBytes(f, Length(f))

HasBytes(fs) == \E i \in DOMAIN fs : Length(fs[i]) > 0

(* A defect: fragments of a record that was given up are kept. *)
KeepScratch(f) == Append(scratch, f)
StartScratch(f) == <<f>>

(* ReadRecord with a good fragment f. *)
Fragment(f) ==
    LET type == frags[f].type
        unfinished == inFragmented /\ HasBytes(scratch)
        complete == type = "full" \/ (type = "last" /\ inFragmented)
        record == IF type = "full" THEN <<f>> ELSE Append(scratch, f)
        goesOn == type = "first" \/ (type = "middle" /\ inFragmented)
    IN  /\ results' = IF complete THEN Append(results, record) ELSE results
        /\ inFragmented' = goesOn
        /\ scratch' = CASE type = "first" -> StartScratch(f)
                        [] type = "middle" /\ inFragmented -> Append(scratch, f)
                        [] OTHER -> <<>>
        /\ reports' = (\/ reports
                       \/ type \in {"full", "first"} /\ unfinished
                       \/ type \in {"middle", "last"} /\ ~inFragmented)

(* ReadPhysicalRecord and ReadRecord with a header: a fragment that goes   *)
(* beyond the buffer is the end of the file or a bad length, one that is   *)
(* damaged fails the checksum.                                             *)
ReadFragment ==
    /\ phase = "read" /\ Len(buffer) >= HeaderSize /\ HeaderAt(buffer) # 0
    /\ LET f == HeaderAt(buffer)
       IN  \/ /\ HeaderSize + Length(f) > Len(buffer)
              /\ IF eof THEN Eof ELSE BadRecord(TRUE)
           \/ /\ HeaderSize + Length(f) <= Len(buffer)
              /\ IF Intact(buffer, f)
                 THEN /\ Fragment(f)
                      /\ buffer' = SubSeq(buffer, HeaderSize + Length(f) + 1,
                                          Len(buffer))
                      /\ UNCHANGED phase
                 ELSE BadRecord(TRUE)
    /\ UNCHANGED <<writerVars, position, eof>>

(* The same where no fragment starts.  Zeros are skipped silently; other   *)
(* bytes give any length, and a type and checksum that do not match.       *)
ReadGarbage ==
    /\ phase = "read" /\ Len(buffer) >= HeaderSize /\ HeaderAt(buffer) = 0
    /\ IF \A i \in 1..HeaderSize : buffer[i] = <<0, 0>>
       THEN BadRecord(FALSE)
       ELSE BadRecord(TRUE) \/ BadRecord(FALSE) \/ (eof /\ Eof)
    /\ UNCHANGED <<writerVars, position, eof>>

Next ==
    \/ \E length \in 0..MaxLength : AddRecord(length)
    \/ \E length \in 0..MaxLength : \E n \in 0..length : AddRecordFails(length, n)
    \/ \E n \in 0..Len(file) : Crash(n)
    \/ ReadBlock \/ ReadBlockFails \/ ReadEnd \/ ReadFragment \/ ReadGarbage
    \/ Reuse

Spec == Init /\ [][Next]_vars

(* A reader that was started goes on: recovery is a plain loop. *)
FairSpec == Spec /\ WF_vars(ReadBlock \/ ReadEnd \/ ReadFragment \/ ReadGarbage)

-----------------------------------------------------------------------------
Whole == SelectSeq(records, LAMBDA r : r.whole)
Read(rs) == [i \in DOMAIN rs |-> rs[i].fragments]

(* The reader returns all the records that are complete in what a crash    *)
(* left of the file, in order, and nothing of the one it cut off: the      *)
(* fragments of a record are joined across blocks and trailers.            *)
ReadsBack ==
    phase = "done" /\ failures = 0 /\ reuses = 0 => results = Read(Whole)

(* "Assume the writer died in the middle of writing the record.  Don't     *)
(* report a corruption": the end of a file that a crash cut off anywhere   *)
(* is never reported.                                                      *)
NoFalseAlarm == failures = 0 /\ reuses = 0 => ~reports

(* The same must hold when reuse_logs goes on with such a file: nothing    *)
(* was damaged, so nothing is reported.                                    *)
ReusedLogIsClean == failures = 0 => ~reports

(* Whatever was cut off, failed or appended later, the reader returns only *)
(* records that were written, whole and in their order: fragments of two   *)
(* records are never joined.                                               *)
OnlyWholeRecords ==
    \A i \in DOMAIN results :
        /\ \E j \in DOMAIN records :
             records[j].whole /\ results[i] = records[j].fragments
        /\ i > 1 => results[i - 1][1] < results[i][1]

(* Whatever the file holds, reading it comes to an end. *)
ReaderFinishes == phase = "read" ~> phase = "done"

=============================================================================
