------------------------------- MODULE Crc32c -------------------------------
(***************************************************************************)
(* The portable CRC of leveldb/util/crc32c.cc, checked against the         *)
(* definition of the code: a shift register over the bits of the data.     *)
(* A 32-bit word is the set of the positions of its one bits, so that xor  *)
(* is the symmetric difference.  Extend is a run: bytes up to an aligned   *)
(* address, then four interleaved strides of words, then their             *)
(* combination and the last bytes.                                         *)
(***************************************************************************)
EXTENDS Integers, Sequences, FiniteSets, FiniteSetsExt

CONSTANTS
    Lengths,        \* of the data
    Earlier,        \* bytes that the initial crc already covers
    Byte            \* the one byte of the data that is not zero, a set of bits

VARIABLES
    address, n,     \* of the data, the address modulo 4
    skip, at,       \* bytes behind crc; which byte of all is not zero
    p,              \* bytes consumed, also of those behind crc
    phase,          \* where Extend is
    l, crcs,        \* the register; the four partial results
    register        \* the shift register, fed with the bytes consumed

crcVars == <<address, n, skip, at, p, phase, l, crcs, register>>

Xor(a, b) == (a \cup b) \ (a \cap b)
ShiftRight(w, k) == {b - k : b \in {c \in w : c >= k}}
Bits(w, first) == {b - first : b \in {c \in w : c \in first..(first + 7)}}
Low(w) == Bits(w, 0)
Words == SUBSET (0..31)
Bytes == SUBSET (0..7)
AllOnes == 0..31            \* kCRC32Xor

(* The code: the reflected polynomial 0x82f63b78, a bit at a time. *)
Polynomial == {3, 4, 5, 6, 8, 9, 11, 12, 13, 17, 18, 20, 21, 22, 23, 25, 31}
ShiftBits[w \in Words, k \in Nat] ==
    IF k = 0 THEN w
    ELSE ShiftBits[IF 0 \in w THEN Xor(ShiftRight(w, 1), Polynomial) ELSE ShiftRight(w, 1), k - 1]
Feed(w, byte) == ShiftBits[Xor(w, byte), 8]

(* The tables: byte b of the register after 1 byte, and after 13 to 16     *)
(* bytes, of zeros.  The 5 * 256 entries of the source are these values.   *)
kByteExtensionTable == [b \in Bytes |-> ShiftBits[b, 8]]
ZeroByte(w) == Xor(ShiftRight(w, 8), kByteExtensionTable[Low(w)])
ZeroBytes[w \in Words, k \in Nat] == IF k = 0 THEN w ELSE ZeroBytes[ZeroByte(w), k - 1]
kStrideExtensionTable0 == [b \in Bytes |-> ZeroBytes[b, 13]]
kStrideExtensionTable1 == [b \in Bytes |-> ZeroBytes[b, 14]]
kStrideExtensionTable2 == [b \in Bytes |-> ZeroBytes[b, 15]]
kStrideExtensionTable3 == [b \in Bytes |-> ZeroBytes[b, 16]]

-----------------------------------------------------------------------------
Data(i) == IF i = at THEN Byte ELSE {}
ReadUint32LE(i) == UNION {{b + 8 * k : b \in Data(i + k)} : k \in 0..3}
Fed[w \in Words, first \in Nat, k \in Nat] ==
    IF k = 0 THEN w ELSE Fed[Feed(w, Data(first)), first + 1, k - 1]

e == skip + n
RoundUp == p + ((4 - ((address + p - skip) % 4)) % 4)
Left == e - p

ExtendInit ==
    /\ address \in 0..3 /\ n \in Lengths /\ skip \in Earlier
    /\ at \in 1..(n + skip + 1)
    /\ p = skip /\ phase = "align"
    /\ l = Fed[AllOnes, 1, skip]
    /\ register = l
    /\ crcs = <<{}, {}, {}, {}>>

Consume(k) == p' = p + k /\ register' = Fed[register, p + 1, k]
Keep == UNCHANGED <<address, n, skip, at>>

STEP1 ==
    /\ l' = Xor(kByteExtensionTable[Xor(Low(l), Data(p + 1))], ShiftRight(l, 8))
    /\ Consume(1)
    /\ UNCHANGED crcs
STEP4(s, i) ==
    LET c == crcs[s + 1]
    IN  Xor(ReadUint32LE(i),
          Xor(Xor(kStrideExtensionTable3[Low(c)], kStrideExtensionTable2[Bits(c, 8)]),
              Xor(kStrideExtensionTable1[Bits(c, 16)], kStrideExtensionTable0[Bits(c, 24)])))
STEP4W(w, reg) == ZeroBytes[Xor(w, reg), 4]
Combined[ws \in Seq(Words), reg \in Words] ==
    IF ws = <<>> THEN reg ELSE Combined[Tail(ws), STEP4W(Head(ws), reg)]

(* while (p != x), if x <= e *)
Aligns == p # RoundUp /\ RoundUp <= e
AlignStep ==
    /\ phase = "align" /\ Aligns
    /\ STEP1
    /\ UNCHANGED phase /\ Keep

HasSwath == Left >= 16
LoadSwath ==
    /\ phase = "align" /\ ~Aligns /\ HasSwath
    /\ crcs' = <<Xor(ReadUint32LE(p + 1), l), ReadUint32LE(p + 5),
                 ReadUint32LE(p + 9), ReadUint32LE(p + 13)>>
    /\ Consume(16)
    /\ phase' = "strides"
    /\ UNCHANGED l /\ Keep
STEP16 ==
    /\ phase = "strides" /\ HasSwath
    /\ crcs' = [s \in 1..4 |-> STEP4(s - 1, p + 1 + 4 * (s - 1))]
    /\ Consume(16)
    /\ UNCHANGED <<l, phase>> /\ Keep

NotRotated(c) == <<c, crcs[2], crcs[3], crcs[4]>>  \* a defect: no rotation
Rotated(c) == <<crcs[2], crcs[3], crcs[4], c>>
StepWord ==
    /\ phase = "strides" /\ ~HasSwath /\ Left >= 4
    /\ crcs' = Rotated(STEP4(0, p + 1))
    /\ Consume(4)
    /\ UNCHANGED <<l, phase>> /\ Keep

CombineFromRegister == Combined[crcs, l]          \* a defect: l is not cleared
Combine == Combined[crcs, {}]
CombineStrides ==
    /\ phase = "strides" /\ Left < 4
    /\ l' = Combine
    /\ phase' = "tail"
    /\ UNCHANGED <<p, crcs, register>> /\ Keep
NoStrides ==
    /\ phase = "align" /\ ~Aligns /\ ~HasSwath
    /\ phase' = "tail"
    /\ UNCHANGED <<p, l, crcs, register>> /\ Keep

TailStep ==
    /\ phase = "tail" /\ p # e
    /\ STEP1
    /\ UNCHANGED phase /\ Keep
Return ==
    /\ phase = "tail" /\ p = e
    /\ phase' = "done" /\ l' = Xor(l, AllOnes)
    /\ UNCHANGED <<p, crcs, register>> /\ Keep

CrcNext == \/ AlignStep \/ LoadSwath \/ STEP16 \/ StepWord \/ CombineStrides
           \/ NoStrides \/ TailStep \/ Return
CrcSpec == ExtendInit /\ [][CrcNext]_crcVars

-----------------------------------------------------------------------------
(* crc32c.h: rotate right by 15 bits and add kMaskDelta, and back; numbers *)
(* are two halves of 16 bits.                                              *)
Half(w, first) == MapThenSumSet(LAMBDA b : 2^(b - first), {b \in w : b \in first..(first + 15)})
BitsOf(x, first) == {b + first : b \in {c \in 0..15 : (x \div 2^c) % 2 = 1}}
Add(w, hi, lo) ==
    LET low == Half(w, 0) + lo
        high == Half(w, 16) + hi + (low \div 65536)
    IN  BitsOf(low % 65536, 0) \cup BitsOf(high % 65536, 16)
DeltaHi == 41602            \* 0xa282
DeltaLo == 60120            \* 0xead8
RotateRight(w, k) == {(b + 32 - k) % 32 : b \in w}
Mask(crc) == Add(RotateRight(crc, 15), DeltaHi, DeltaLo)
Unmask(masked) == RotateRight(Add(masked, 65535 - DeltaHi, 65536 - DeltaLo), 17)

-----------------------------------------------------------------------------
(* Extend reads no byte behind the data, and words only at addresses that  *)
(* are a multiple of four.                                                 *)
CrcTypeOK ==
    /\ p \in skip..e /\ l \in Words /\ register \in Words
    /\ phase = "strides" => (address + p - skip) % 4 = 0

(* What the loops carry is always the code of the bytes consumed so far:   *)
(* in the register, or spread over the four strides, of which combining    *)
(* them now would give it.                                                 *)
StridesHoldPrefix ==
    /\ phase \in {"align", "tail"} => l = register
    /\ phase = "strides" => Combined[crcs, {}] = register

(* Extend returns the crc of all bytes, those that the initial crc covered *)
(* and its own, at every address and for every length and position.        *)
ExtendIsExact == phase = "done" => l = Xor(register, AllOnes) /\ p = e

(* Unmask undoes Mask, and a masked crc differs from the crc itself. *)
MaskRoundTrips == phase = "done" => Unmask(Mask(l)) = l /\ Mask(l) # l
=============================================================================
