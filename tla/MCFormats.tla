----------------------------- MODULE MCFormats ------------------------------
(***************************************************************************)
(* Everything the database reads back: log records (LogFormat), write      *)
(* batches, version edits, table files, file names, checksums, and a whole *)
(* directory in a repair. Sizes and radixes are scaled down: a byte holds  *)
(* 3 values, a varint has at most 3 bytes, a decimal digit 3 values.       *)
(***************************************************************************)
EXTENDS LogFormat, TLC

(* `part` says which component a behaviour is about and never changes;     *)
(* the state of that component is in x1, x2, ..., and the rest is 0.       *)
VARIABLES part,
          x1, x2, x3, x4, x5, x6, x7, x8, x9, x10, x11, x12, x13

slots == <<part,
           x1, x2, x3, x4, x5, x6, x7, x8, x9, x10, x11, x12, x13>>

(* The slots after the first n are unused, and stay so. *)
Unused(n) ==
    /\ (n < 1 => x1 = 0) /\ (n < 2 => x2 = 0) /\ (n < 3 => x3 = 0)
    /\ (n < 4 => x4 = 0) /\ (n < 5 => x5 = 0) /\ (n < 6 => x6 = 0)
    /\ (n < 7 => x7 = 0) /\ (n < 8 => x8 = 0) /\ (n < 9 => x9 = 0)
    /\ (n < 10 => x10 = 0) /\ (n < 11 => x11 = 0) /\ (n < 12 => x12 = 0)
    /\ (n < 13 => x13 = 0)
Kept(n) ==
    /\ (n < 1 => x1' = x1) /\ (n < 2 => x2' = x2) /\ (n < 3 => x3' = x3)
    /\ (n < 4 => x4' = x4) /\ (n < 5 => x5' = x5) /\ (n < 6 => x6' = x6)
    /\ (n < 7 => x7' = x7) /\ (n < 8 => x8' = x8) /\ (n < 9 => x9' = x9)
    /\ (n < 10 => x10' = x10) /\ (n < 11 => x11' = x11) /\ (n < 12 => x12' = x12)
    /\ (n < 13 => x13' = x13)

TableKeys == {<<1, 4>>, <<1, 3>>, <<1, 1, 2>>, <<1, 3, 5>>, <<1, 3, 1>>, <<3, 1>>, <<3, 3, 6>>}
KeyHash == [u \in {<<1>>, <<1, 1>>, <<1, 3>>, <<3>>, <<3, 3>>} |->
              CASE u = <<1>> -> 3 [] u = <<1, 1>> -> 14 [] u = <<1, 3>> -> 9
                [] u = <<3>> -> 3 [] OTHER -> 6]

(* A table, a table under the older name, the logs of imm_ and mem_, and a *)
(* manifest; one of the tables may be damaged.                             *)
Contents(writes, whole, bad) == [writes |-> writes, whole |-> whole, bad |-> bad]
RepairDirs ==
    {[n \in {<<"ldb", 3>>, <<"sst", 4>>, <<"log", 5>>, <<"log", 6>>, <<"manifest", 2>>} |->
        CASE n[1] = "manifest" -> [tables |-> {}, next |-> 7, last |-> 0]
          [] n[2] = 6 -> Contents({4}, TRUE, {9})
          [] n[2] = 5 -> Contents({3}, TRUE, {})
          [] OTHER -> Contents({n[2] - 2}, n[2] \notin damaged, {})] :
      damaged \in {{3}, {4}}}

Bat == INSTANCE WriteBatch
    WITH B <- 3, MaxVarint <- 3, Values <- 14, SequenceLen <- 2, CountLen <- 1,
         Strings <- {<<>>, <<1>>, <<0, 1, 1>>}, Sequences <- {0, 7},
         MaxOps <- 2, rep <- x1, other <- x2, ops <- x3, otherOps <- x4,
         stored <- x5, mem <- x6, status <- x7
Edit == INSTANCE VersionEdit
    WITH B <- 3, MaxVarint <- 3, Values <- 14, Numbers <- {0, 10},
         Levels <- {1, 3}, NumLevels <- 3, Keys <- {<<1>>, <<0, 2, 4, 1>>},
         Comparator <- <<3>>, MaxFields <- 2, edit <- x1, fields <- x2,
         record <- x3, state <- x4, decoded <- x5, status <- x6
Names == INSTANCE FileNames
    WITH Ten <- 3, MaxNumber <- 31, Width <- 2, MaxDigits <- 4, name <- x1
Crc == INSTANCE Crc32c
    WITH Lengths <- {0, 1, 2, 5, 16, 19, 20, 23, 37}, Earlier <- {0, 3},
         Byte <- {0, 3, 4, 7}, address <- x1, n <- x2, skip <- x3, at <- x4,
         p <- x5, phase <- x6, l <- x7, crcs <- x8, register <- x9
TF == INSTANCE TableFile
    WITH MaxByte <- 3, MaxTag <- 9, RestartInterval <- 2, BloomHash <- KeyHash,
         WordSize <- 16,
         Rotated <- [h \in 0..15 |-> ((h * 4) % 16) + (h \div 4)], Probes <- 2,
         BitsPerKey <- 3, MinBits <- 8, kFilterBase <- 40,
         InternalKeys <- TableKeys, BlockSize <- 54, TrailerSize <- 5,
         GoodAppends <- (0..9) \cup {30}, phase <- x1, builder <- x2,
         added <- x3, bad <- x4, rep <- x5, iter <- x6
Rep == INSTANCE Repair
    WITH InitialDirs <- RepairDirs, BadWrite <- 9, MaxErrors <- 1,
         MaxCrashes <- 1, dir <- x1, lost <- x2, current <- x3, phase <- x4,
         logs <- x5, table_numbers <- x6, tables <- x7, manifests <- x8,
         next <- x9, copy <- x10, errors <- x11, crashes <- x12, initial <- x13

FormatsInit ==
    /\ Init
    /\ \/ part = "log" /\ Unused(0)
       \/ part = "batch" /\ Bat!BatchInit /\ Unused(7)
       \/ part = "edit" /\ Edit!EditInit /\ Unused(6)
       \/ part = "names" /\ Names!NamesInit /\ Unused(1)
       \/ part = "crc" /\ Crc!ExtendInit /\ Unused(9)
       \/ part = "table" /\ TF!TableInit /\ Unused(6)
       \/ part = "repair" /\ Rep!RepairInit /\ Unused(13)

LogPart ==
    part = "log" /\ Next /\ UNCHANGED slots
BatPart ==
    /\ part = "batch" /\ Bat!BatchNext
    /\ Kept(7) /\ UNCHANGED <<part, vars>>
EditPart ==
    /\ part = "edit" /\ Edit!EditNext
    /\ Kept(6) /\ UNCHANGED <<part, vars>>
NamesPart ==
    /\ part = "names" /\ Names!NamesNext
    /\ Kept(1) /\ UNCHANGED <<part, vars>>
CrcPart ==
    /\ part = "crc" /\ Crc!CrcNext
    /\ Kept(9) /\ UNCHANGED <<part, vars>>
TFPart ==
    /\ part = "table" /\ TF!TableNext
    /\ Kept(6) /\ UNCHANGED <<part, vars>>
RepPart ==
    /\ part = "repair" /\ Rep!RepairNext
    /\ Kept(13) /\ UNCHANGED <<part, vars>>

FormatsNext ==
    \/ LogPart
    \/ BatPart
    \/ EditPart
    \/ NamesPart
    \/ CrcPart
    \/ TFPart
    \/ RepPart

(* A reader of a log that was started goes on: a plain loop of one thread. *)
FormatsFairness ==
    WF_vars(ReadBlock \/ ReadEnd \/ ReadFragment \/ ReadGarbage)

FormatsSpec == FormatsInit /\ [][FormatsNext]_<<vars, slots>> /\ FormatsFairness

-----------------------------------------------------------------------------

(* The two-level iterator over a table is a cursor over the keys that were *)
(* added: every call moves to the key that the same call on a sorted list  *)
(* moves to, across restart points and blocks, none left out or repeated.  *)
IteratesTable ==
    [][ /\ part = "table" => TF!MovesLikeCursor ]_slots
=============================================================================
