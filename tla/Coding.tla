------------------------------- MODULE Coding -------------------------------
(***************************************************************************)
(* Varints, fixed-width integers and length-prefixed strings, as           *)
(* leveldb/util/coding.cc writes and reads them.  A byte is a number below *)
(* 2 * B, of which B is the bit that says more bytes follow; the code has  *)
(* B = 128, and integers of 2^32 and 2^64 values.                          *)
(***************************************************************************)
EXTENDS Integers, Sequences, FiniteSets, FiniteSetsExt

CONSTANTS
    B,          \* 128: a byte of a varint carries a digit to this base
    MaxVarint,  \* 5 or 10: the bytes of the longest varint
    Values      \* 2^32 or 2^64: how many values the integer type has

Byte == 0..(2 * B - 1)

\* EncodeVarint32 and EncodeVarint64: low digits first, each but the last with
\* the continuation bit.
Varint(v) ==
    LET n == Min({k \in 1..MaxVarint : v < B^k})
    IN [i \in 1..n |-> ((v \div B^(i - 1)) % B) + (IF i < n THEN B ELSE 0)]

\* A read gives the value and the rest of the input, or fails.
Failed == [ok |-> FALSE, value |-> 0, rest |-> <<>>]
Read(v, in, n) == [ok |-> TRUE, value |-> v, rest |-> SubSeq(in, n + 1, Len(in))]

LastByteShort(in) == {i \in 1..Min({MaxVarint - 1, Len(in)}) : in[i] < B}   \* a defect: shift < 28
LastByte(in) == {i \in 1..Min({MaxVarint, Len(in)}) : in[i] < B}

\* GetVarint32Ptr and GetVarint64Ptr: shifts past the width are lost.
GetVarint(in) ==
    IF LastByte(in) = {} THEN Failed
    ELSE LET n == Min(LastByte(in))
         IN Read(MapThenSumSet(LAMBDA i : (in[i] % B) * B^(i - 1), 1..n) % Values, in, n)

\* PutFixed32 and PutFixed64, in n bytes.
Fixed(v, n) == [i \in 1..n |-> (v \div (2 * B)^(i - 1)) % (2 * B)]
DecodeFixed(bytes) == MapThenSumSet(LAMBDA i : bytes[i] * (2 * B)^(i - 1), DOMAIN bytes)

\* PutLengthPrefixedSlice and GetLengthPrefixedSlice.
LengthPrefixed(s) == Varint(Len(s)) \o s

GetLengthPrefixed(in) ==
    LET len == GetVarint(in)
    IN IF ~len.ok \/ Len(len.rest) < len.value THEN Failed
       ELSE Read(SubSeq(len.rest, 1, len.value), len.rest, len.value)
=============================================================================
