------------------------------ MODULE FileNames ------------------------------
(***************************************************************************)
(* The names of the database's files: made and parsed by                   *)
(* leveldb/db/filename.cc, with ConsumeDecimalNumber of util/logging.cc.   *)
(* A name is a word, digits and a suffix; digits are to the base Ten, and  *)
(* a number is at most MaxNumber.  The directory holds any names, which    *)
(* grow here digit by digit.                                               *)
(***************************************************************************)
EXTENDS Integers, Sequences, SequencesExt

CONSTANTS
    Ten,        \* the base of the digits
    MaxNumber,  \* 2^64 - 1
    Width,      \* 6: the least number of digits that %06llu writes
    MaxDigits   \* bound: digits in a name

VARIABLE name

Words == {"CURRENT", "LOCK", "LOG", "LOG.old", "MANIFEST-", ""}
Endings == {".log", ".sst", ".ldb", ".dbtmp", ".other", ""}
\* The overflow check before a digit is taken in.
OverflowsLate(v, d) == v > MaxNumber \div Ten          \* a defect: the last digit is not compared
Overflows(v, d) == v > MaxNumber \div Ten \/ (v = MaxNumber \div Ten /\ d > MaxNumber % Ten)

Name(w, d, s) == [word |-> w, digits |-> d, suffix |-> s]

\* ConsumeDecimalNumber over the digits: the value, or -1 after an overflow.
Consumed(digits) ==
    FoldLeft(LAMBDA v, d : IF v < 0 \/ Overflows(v, d) THEN -1 ELSE v * Ten + d, 0, digits)

ConsumeDecimalNumber(d) == [ok |-> d # <<>> /\ Consumed(d) >= 0, value |-> Consumed(d)]

NoFile == [ok |-> FALSE, number |-> 0, type |-> "none"]
File(t, n) == [ok |-> TRUE, number |-> n, type |-> t]

TypeOf(suffix) == CASE suffix = ".log" -> "log"
                    [] suffix \in {".sst", ".ldb"} -> "table"
                    [] suffix = ".dbtmp" -> "temp"
                    [] OTHER -> "none"

\* Whether the whole of the name was understood.
NothingBehind(f) == f.suffix = ""

ParseFileName(f) ==
    LET n == ConsumeDecimalNumber(f.digits)
        bare == f.digits = <<>> /\ f.suffix = ""
    IN CASE f.word = "CURRENT" /\ bare -> File("current", 0)
         [] f.word = "LOCK" /\ bare -> File("lock", 0)
         [] f.word \in {"LOG", "LOG.old"} /\ bare -> File("info", 0)
         [] f.word = "MANIFEST-" /\ n.ok /\ NothingBehind(f) -> File("descriptor", n.value)
         [] f.word = "" /\ n.ok /\ TypeOf(f.suffix) # "none" -> File(TypeOf(f.suffix), n.value)
         [] OTHER -> NoFile

\* snprintf of a number: its digits, filled up with zeros.
Decimal(n) ==
    LET k == Min({i \in 1..MaxDigits : n < Ten^i})
    IN [i \in 1..k |-> (n \div Ten^(k - i)) % Ten]
PaddedShort(n) == Decimal(n % Ten^Width)               \* a defect: cut to the width
Padded(n) == [i \in 1..(Width - Len(Decimal(n))) |-> 0] \o Decimal(n)

LogFileName(n) == Name("", Padded(n), ".log")
TableFileName(n) == Name("", Padded(n), ".ldb")
SSTTableFileName(n) == Name("", Padded(n), ".sst")
DescriptorFileName(n) == Name("MANIFEST-", Padded(n), "")
TempFileName(n) == Name("", Padded(n), ".dbtmp")

NamesInit == name \in {Name(w, <<>>, s) : w \in Words, s \in Endings}
Grow(d) == Len(name.digits) < MaxDigits /\ name' = [name EXCEPT !.digits = Append(@, d)]
NamesNext == \E d \in 0..(Ten - 1) : Grow(d)
NamesSpec == NamesInit /\ [][NamesNext]_name

-----------------------------------------------------------------------------
\* The number that digits denote.
Denotes(digits) == FoldLeft(LAMBDA v, d : v * Ten + d, 0, digits)

(* Names in the directory are told apart exactly: a name is accepted just  *)
(* when it has one of the documented forms and its number fits, and then   *)
(* it is given that number; none that overflows is taken for another.      *)
ParsesExactly ==
    LET r == ParseFileName(name)
        n == Denotes(name.digits)
        numbered == name.digits # <<>> /\ n <= MaxNumber
    IN IF name.word \in {"MANIFEST-", ""}
       THEN /\ r.ok <=> numbered /\ IF name.word = "" THEN TypeOf(name.suffix) # "none"
                                    ELSE name.suffix = ""
            /\ r.ok => r.number = n
       ELSE r.ok <=> name.digits = <<>> /\ name.suffix = ""

(* The names that the database makes for a number parse back to it and to  *)
(* their type, however many digits the number has, so that no two files of *)
(* the database share a name.                                              *)
NamesParseBack ==
    LET n == Denotes(name.digits)
    IN n <= MaxNumber =>
        /\ ParseFileName(LogFileName(n)) = File("log", n)
        /\ ParseFileName(TableFileName(n)) = File("table", n)
        /\ ParseFileName(SSTTableFileName(n)) = File("table", n)
        /\ ParseFileName(DescriptorFileName(n)) = File("descriptor", n)
        /\ ParseFileName(TempFileName(n)) = File("temp", n)
=============================================================================
