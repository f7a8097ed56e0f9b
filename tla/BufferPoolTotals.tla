-------------------------- MODULE BufferPoolTotals --------------------------
(***************************************************************************)
(* The counter total of the buffer pool, and the theorems: the data in the *)
(* buffers are at most what fits in them, so total does not wrap, and the  *)
(* parts of the invariant together are kept by every step.                 *)
(***************************************************************************)
EXTENDS BufferPoolPlaces

USE DEF Lines, Unlocked, Reading, Writing, PutLines, GetLines, BackLines,
        HeldLines, FullLines, EarlyLines

(* The data in the buffers of the channel, and in those that goroutines    *)
(* have in their hands.                                                    *)
InChannel == UNION {Contents(buffCh[i]) : i \in DOMAIN buffCh}
InHands == UNION {Contents(buf[g]) : g \in Goroutines}

(* A datum of the channel has a buffer and a place there. *)
LEMMA InChannelIs ==
    \A d : d \in InChannel <=>
      \E i \in DOMAIN buffCh : \E k \in DOMAIN buffCh[i] : d = buffCh[i][k]
<1>1. \A d : d \in InChannel <=> \E i \in DOMAIN buffCh : d \in Contents(buffCh[i])
  BY Zenon DEF InChannel
<1>2. QED
  BY <1>1, ContentsIs

(* A datum in hands has a goroutine and a place. *)
LEMMA InHandsIs ==
    \A d : d \in InHands <=>
      \E h \in Goroutines : \E k \in DOMAIN buf[h] : d = buf[h][k]
<1>1. \A d : d \in InHands <=> \E h \in Goroutines : d \in Contents(buf[h])
  BY Zenon DEF InHands
<1>2. QED
  BY <1>1, ContentsIs

(* Every position of a buffer is one of 1..BufferCap. *)
LEMMA Positions ==
    ASSUME NEW b \in Buffers
    PROVE  DOMAIN b \subseteq 1..BufferCap /\ DOMAIN b = 1..Len(b) /\ Len(b) \in Nat
<1>1. b \in Seq(Data) /\ Len(b) <= BufferCap
  BY BuffersAreSequences, Zenon
<1>2. QED
  BY <1>1, PoolAssumption

(* The number of positions of a buffer. *)
LEMMA CapInterval ==
    IsFiniteSet(1..BufferCap) /\ Cardinality(1..BufferCap) = BufferCap
<1>1. 1 \in Int /\ BufferCap \in Int /\ BufferCap >= 1
  BY PoolAssumption
<1>2. /\ IsFiniteSet(1..BufferCap)
      /\ Cardinality(1..BufferCap) = IF 1 > BufferCap THEN 0 ELSE BufferCap - 1 + 1
  BY <1>1, FS_Interval, Zenon
<1>3. QED
  BY <1>1, <1>2

(* The data of the channel. *)
LEMMA ChannelSize ==
    ASSUME TypeOK
    PROVE  /\ IsFiniteSet(InChannel) /\ Cardinality(InChannel) \in Nat
           /\ Cardinality(InChannel) <= BufferCap * Len(buffCh)
<1> DEFINE All == (1..Len(buffCh)) \X (1..BufferCap)
           Used == {p \in All : p[2] \in DOMAIN buffCh[p[1]]}
           f == [p \in Used |-> buffCh[p[1]][p[2]]]
<1>1. Len(buffCh) \in Nat /\ DOMAIN buffCh = 1..Len(buffCh)
  BY DEF TypeOK
<1>2. IsFiniteSet(1..Len(buffCh)) /\ Cardinality(1..Len(buffCh)) = Len(buffCh)
  <2>1. /\ IsFiniteSet(1..Len(buffCh))
        /\ Cardinality(1..Len(buffCh)) =
             IF 1 > Len(buffCh) THEN 0 ELSE Len(buffCh) - 1 + 1
    <3>1. 1 \in Int /\ Len(buffCh) \in Int
      BY <1>1
    <3>2. QED
      BY <3>1, FS_Interval, Zenon
  <2>2. QED
    BY <1>1, <2>1
<1>3. /\ IsFiniteSet(All)
      /\ Cardinality(All) = Cardinality(1..Len(buffCh)) * Cardinality(1..BufferCap)
  BY <1>2, CapInterval, FS_Product, Zenon
<1>4. Cardinality(All) = BufferCap * Len(buffCh)
  <2>1. Cardinality(All) = Len(buffCh) * BufferCap
    BY <1>2, <1>3, CapInterval, Zenon
  <2>2. BufferCap \in Nat
    BY PoolAssumption, Zenon
  <2>3. QED
    BY <1>1, <2>1, <2>2
<1>5. IsFiniteSet(Used) /\ Cardinality(Used) <= Cardinality(All)
  BY <1>3, FS_Subset, Zenon
<1>6. ASSUME NEW p \in Used
      PROVE  f[p] \in InChannel
  BY <1>1, InChannelIs, Zenon
<1>7. ASSUME NEW d \in InChannel
      PROVE  \E p \in Used : f[p] = d
  <2>1. PICK i \in DOMAIN buffCh : \E k \in DOMAIN buffCh[i] : d = buffCh[i][k]
    BY InChannelIs, Zenon
  <2>2. PICK k \in DOMAIN buffCh[i] : d = buffCh[i][k]
    BY <2>1, Zenon
  <2>3. k \in 1..BufferCap
    BY <1>1, Positions DEF TypeOK
  <2>4. <<i, k>> \in Used /\ f[<<i, k>>] = d
    BY <1>1, <2>2, <2>3, Zenon
  <2>5. QED
    BY <2>4, Zenon
<1>8. f \in Surjection(Used, InChannel)
  BY <1>6, <1>7, Zenon DEF Surjection
<1> HIDE DEF All, Used, f
<1>9. IsFiniteSet(InChannel) /\ Cardinality(InChannel) <= Cardinality(Used)
  BY <1>5, <1>8, FS_Surjection, Zenon
<1>10. /\ Cardinality(InChannel) \in Nat /\ Cardinality(Used) \in Nat
       /\ Cardinality(All) \in Nat
  BY <1>3, <1>5, <1>9, FS_CardinalityType, Zenon
<1>11. Cardinality(InChannel) <= Cardinality(All)
  BY <1>5, <1>9, <1>10
<1>12. QED
  BY <1>4, <1>9, <1>10, <1>11, Zenon

(* The data in hands: a goroutine that has taken one has room for it. *)
LEMMA HandsSize ==
    ASSUME TypeOK, LocalInv, CountInv
    PROVE  /\ IsFiniteSet(InHands) /\ Cardinality(InHands) \in Nat
           /\ IsFiniteSet(Subtracting) /\ Cardinality(Subtracting) \in Nat
           /\ Cardinality(InHands) + Cardinality(Subtracting)
                <= BufferCap * Cardinality(Holders)
<1> DEFINE All == Holders \X (1..BufferCap)
           Used == {p \in All : p[2] \in DOMAIN buf[p[1]]}
           Free == {<<g, BufferCap>> : g \in Subtracting}
           f == [p \in Used |-> buf[p[1]][p[2]]]
           t == [g \in Subtracting |-> <<g, BufferCap>>]
<1>1. IsFiniteSet(Holders) /\ Cardinality(Holders) \in Nat
  BY FS_CardinalityType, Zenon DEF CountInv
<1>2. Subtracting \subseteq Holders
  BY Zenon DEF Subtracting, Holders
<1>3. IsFiniteSet(Subtracting) /\ Cardinality(Subtracting) \in Nat
  BY <1>1, <1>2, FS_Subset, FS_CardinalityType, Zenon
<1>4. /\ IsFiniteSet(All)
      /\ Cardinality(All) = Cardinality(Holders) * Cardinality(1..BufferCap)
  BY <1>1, CapInterval, FS_Product, Zenon
<1>5. Cardinality(All) = BufferCap * Cardinality(Holders)
  <2>1. Cardinality(All) = Cardinality(Holders) * BufferCap
    BY <1>4, CapInterval, Zenon
  <2>2. BufferCap \in Nat
    BY PoolAssumption, Zenon
  <2>3. QED
    BY <1>1, <2>1, <2>2
<1>6. IsFiniteSet(Used)
  BY <1>4, FS_Subset, Zenon
<1>7. BufferCap \in 1..BufferCap /\ BufferCap \in Nat
  BY PoolAssumption
<1>8. Free \subseteq All
  BY <1>2, <1>7
<1>9. Used \cap Free = {}
  <2>1. ASSUME NEW g \in Subtracting PROVE BufferCap \notin DOMAIN buf[g]
    <3>1. g \in Goroutines /\ Len(buf[g]) < BufferCap
      BY Zenon DEF Subtracting, LocalInv
    <3>2. DOMAIN buf[g] = 1..Len(buf[g]) /\ Len(buf[g]) \in Nat
      BY <3>1, Positions, Zenon DEF TypeOK
    <3>3. QED
      BY <1>7, <3>1, <3>2
  <2>2. QED
    BY <2>1
<1>10. t \in Bijection(Subtracting, Free)
  <2>1. t \in [Subtracting -> Free]
    BY Zenon
  <2>2. \A g, h \in Subtracting : t[g] = t[h] => g = h
    BY Zenon
  <2>3. \A p \in Free : \E g \in Subtracting : t[g] = p
    BY Zenon
  <2> HIDE DEF Free, t
  <2>4. QED
    BY <2>1, <2>2, <2>3, Zenon DEF Bijection, Injection, IsInjective, Surjection
<1>11. IsFiniteSet(Free) /\ Cardinality(Free) = Cardinality(Subtracting)
  BY <1>3, <1>10, FS_Bijection, Zenon DEF ExistsBijection
<1>12. ASSUME NEW p \in Used
      PROVE  f[p] \in InHands
  BY InHandsIs, Zenon DEF Holders
<1>13. ASSUME NEW d \in InHands
      PROVE  \E p \in Used : f[p] = d
  <2>1. PICK h \in Goroutines : \E k \in DOMAIN buf[h] : d = buf[h][k]
    BY InHandsIs, Zenon
  <2>2. PICK k \in DOMAIN buf[h] : d = buf[h][k]
    BY <2>1, Zenon
  <2>3. k \in 1..BufferCap
    BY Positions, Zenon DEF TypeOK
  <2>4. h \in Holders
    <3>1. buf[h] # Empty
      BY <2>2 DEF Empty
    <3>2. QED
      BY <3>1, Zenon DEF LocalInv, Holders
  <2>5. <<h, k>> \in Used /\ f[<<h, k>>] = d
    BY <2>2, <2>3, <2>4, Zenon
  <2>6. QED
    BY <2>5, Zenon
<1>14. f \in Surjection(Used, InHands)
  BY <1>12, <1>13, Zenon DEF Surjection
<1>15. Used \cup Free \subseteq All
  BY <1>8, Zenon
<1> HIDE DEF All, Used, Free, f, t
<1>16. IsFiniteSet(InHands) /\ Cardinality(InHands) <= Cardinality(Used)
  BY <1>6, <1>14, FS_Surjection, Zenon
<1>17. /\ IsFiniteSet(Used \cup Free)
       /\ Cardinality(Used \cup Free) =
            Cardinality(Used) + Cardinality(Free) - Cardinality(Used \cap Free)
  BY <1>6, <1>11, FS_Union, Zenon
<1>18. Cardinality(Used \cap Free) = 0
  BY <1>9, FS_EmptySet, Zenon
<1>19. Cardinality(Used \cup Free) <= Cardinality(All)
  BY <1>4, <1>15, FS_Subset, Zenon
<1>20. /\ Cardinality(InHands) \in Nat /\ Cardinality(Used) \in Nat
       /\ Cardinality(All) \in Nat
  BY <1>4, <1>6, <1>16, FS_CardinalityType, Zenon
<1>21. Cardinality(InHands) + Cardinality(Subtracting) <= Cardinality(All)
  BY <1>3, <1>11, <1>16, <1>17, <1>18, <1>19, <1>20
<1>22. QED
  BY <1>3, <1>5, <1>16, <1>20, <1>21, Zenon

(* What is added and not yet counted is stored, and what is stored or just *)
(* taken fits in the buffers.                                              *)
LEMMA TotalBounds ==
    ASSUME TypeOK, LocalInv, CountInv, PlaceInv, LostInv
    PROVE  /\ IsFiniteSet(accepted \ taken) /\ IsFiniteSet(Adding)
           /\ IsFiniteSet(Subtracting)
           /\ Cardinality(accepted \ taken) \in Nat /\ Cardinality(Adding) \in Nat
           /\ Cardinality(Subtracting) \in Nat
           /\ Cardinality(Adding) <= Cardinality(accepted \ taken)
           /\ Cardinality(accepted \ taken) + Cardinality(Subtracting)
                <= BufferCap * MaxBufferNumber
<1> DEFINE f == [g \in Adding |-> buf[g][1]]
<1>1. /\ IsFiniteSet(accepted \ taken) /\ IsFiniteSet(Stored)
      /\ Stored \subseteq accepted \ taken
  <2>1. /\ IsFiniteSet(accepted) /\ accepted \ taken \in SUBSET accepted
        /\ Stored \in SUBSET accepted /\ Stored \subseteq accepted \ taken
    BY Zenon DEF PlaceInv
  <2>2. QED
    BY <2>1, FS_Subset, Zenon
<1>2. Cardinality(accepted \ taken) \in Nat /\ Cardinality(Stored) \in Nat
  BY <1>1, FS_CardinalityType, Zenon
<1>3. ASSUME NEW g \in Adding
      PROVE  g \in Goroutines /\ 1 \in DOMAIN buf[g]
  <2>1. g \in Goroutines /\ buf[g] \in Buffers
    BY Zenon DEF Adding, TypeOK
  <2>2. DOMAIN buf[g] = 1..Len(buf[g]) /\ Len(buf[g]) \in Nat
    BY <2>1, Positions, Zenon
  <2>3. Len(buf[g]) # 0
    <3>1. CASE pc[g] = "add"
      <4>1. buf[g] # <<>> /\ buf[g] \in Seq(Data)
        BY <2>1, <3>1, BuffersAreSequences, Zenon DEF LocalInv, Empty
      <4>2. QED
        BY <4>1
    <3>2. CASE pc[g] \in FullLines
      BY <2>1, <3>2, PoolAssumption, Zenon DEF LocalInv
    <3>3. QED
      BY <3>1, <3>2, Zenon DEF Adding
  <2>4. QED
    BY <2>1, <2>2, <2>3
<1>4. f \in Injection(Adding, Stored)
  <2>1. f \in [Adding -> Stored]
    BY <1>3, StoredIs, Zenon
  <2>2. \A g, h \in Adding : f[g] = f[h] => g = h
    BY <1>3, Zenon DEF PlaceInv
  <2> HIDE DEF f
  <2>3. QED
    BY <2>1, <2>2, Zenon DEF Injection, IsInjective
<1>5. IsFiniteSet(Adding) /\ Cardinality(Adding) <= Cardinality(Stored)
  BY <1>1, <1>4, FS_Injection, Zenon
<1>6. Cardinality(Adding) \in Nat
  BY <1>5, FS_CardinalityType, Zenon
<1>7. Cardinality(Stored) <= Cardinality(accepted \ taken)
  BY <1>1, FS_Subset, Zenon
<1>8. /\ IsFiniteSet(Lost) /\ Cardinality(Lost) \in Nat
      /\ accepted \ taken = Stored \cup Lost /\ Stored \cap Lost = {}
  BY <1>1, LostFinite, Zenon DEF Lost
<1>9. Cardinality(accepted \ taken) = Cardinality(Stored) + Cardinality(Lost)
  <2>1. Cardinality(Stored \cup Lost) =
          Cardinality(Stored) + Cardinality(Lost) - Cardinality(Stored \cap Lost)
    BY <1>1, <1>8, FS_Union, Zenon
  <2>2. Cardinality(Stored \cap Lost) = 0
    BY <1>8, FS_EmptySet, Zenon
  <2>3. Cardinality(accepted \ taken) = Cardinality(Stored \cup Lost)
    BY <1>8, Zenon
  <2>4. Cardinality(Stored) \in Nat /\ Cardinality(Lost) \in Nat
    BY <1>2, <1>8, Zenon
  <2>5. QED
    BY <2>1, <2>2, <2>3, <2>4
<1>10. /\ IsFiniteSet(InChannel) /\ Cardinality(InChannel) \in Nat
       /\ Cardinality(InChannel) <= BufferCap * Len(buffCh)
  BY ChannelSize, Zenon
<1>11. /\ IsFiniteSet(InHands) /\ Cardinality(InHands) \in Nat
       /\ IsFiniteSet(Subtracting) /\ Cardinality(Subtracting) \in Nat
       /\ Cardinality(InHands) + Cardinality(Subtracting)
            <= BufferCap * Cardinality(Holders)
  BY HandsSize, Zenon
<1>12. Cardinality(Stored) <= Cardinality(InChannel) + Cardinality(InHands)
  <2>1. Stored = InChannel \cup InHands
    BY Zenon DEF Stored, InChannel, InHands
  <2>2. Cardinality(Stored) =
          Cardinality(InChannel) + Cardinality(InHands) - Cardinality(InChannel \cap InHands)
    BY <1>10, <1>11, <2>1, FS_Union, Zenon
  <2>3. Cardinality(InChannel \cap InHands) \in Nat
    BY <1>10, FS_Intersection, FS_CardinalityType, Zenon
  <2>4. QED
    BY <1>2, <1>10, <1>11, <2>2, <2>3
<1>13. /\ Len(buffCh) \in Nat /\ Cardinality(Holders) \in Nat
       /\ BuffersOut = Len(buffCh) + Cardinality(Holders)
  BY FS_CardinalityType DEF TypeOK, CountInv, BuffersOut
<1>14. BufferCap * MaxBufferNumber =
         BufferCap * (MaxBufferNumber - BuffersOut)
           + (BufferCap * Len(buffCh) + BufferCap * Cardinality(Holders))
  <2>1. BufferCap \in Nat /\ MaxBufferNumber \in Nat
    BY PoolAssumption, Zenon
  <2>2. \A c, m, a, b \in Int : c * m = c * (m - (a + b)) + (c * a + c * b)
    OBVIOUS
  <2>3. BufferCap * MaxBufferNumber =
          BufferCap * (MaxBufferNumber - (Len(buffCh) + Cardinality(Holders)))
            + (BufferCap * Len(buffCh) + BufferCap * Cardinality(Holders))
    <3>1. /\ BufferCap \in Int /\ MaxBufferNumber \in Int
          /\ Len(buffCh) \in Int /\ Cardinality(Holders) \in Int
      BY <1>13, <2>1
    <3>2. QED
      BY <2>2, <3>1, SMTT(30)
  <2>4. QED
    BY <1>13, <2>3, Zenon
<1>15. /\ BufferCap * MaxBufferNumber \in Int
       /\ BufferCap * (MaxBufferNumber - BuffersOut) \in Int
       /\ BufferCap * Len(buffCh) \in Int
       /\ BufferCap * Cardinality(Holders) \in Int
  <2>1. MaxBufferNumber \in Int /\ MaxBufferNumber - BuffersOut \in Int
    BY <1>13, PoolAssumption
  <2>2. QED
    BY <1>13, <2>1, Room
<1>16. Cardinality(Lost) <= BufferCap * (MaxBufferNumber - BuffersOut)
  BY Zenon DEF LostInv
<1>17. Cardinality(accepted \ taken) + Cardinality(Subtracting)
                <= BufferCap * MaxBufferNumber
  <2> DEFINE a == BufferCap * MaxBufferNumber
             b == BufferCap * (MaxBufferNumber - BuffersOut)
             c == BufferCap * Len(buffCh)
             d == BufferCap * Cardinality(Holders)
  <2>1. a = b + (c + d) /\ a \in Int /\ b \in Int /\ c \in Int /\ d \in Int
    BY <1>14, <1>15, Zenon
  <2>2. /\ Cardinality(Lost) <= b /\ Cardinality(InChannel) <= c
        /\ Cardinality(InHands) + Cardinality(Subtracting) <= d
    BY <1>10, <1>11, <1>16, Zenon
  <2> HIDE DEF a, b, c, d
  <2>3. Cardinality(accepted \ taken) + Cardinality(Subtracting) <= a
    BY <1>2, <1>8, <1>9, <1>10, <1>11, <1>12, <2>1, <2>2
  <2>4. QED
    BY <2>3, Zenon DEF a
<1>18. Cardinality(Adding) <= Cardinality(accepted \ taken)
  BY <1>2, <1>5, <1>6, <1>7
<1>19. QED
  BY <1>1, <1>2, <1>5, <1>6, <1>11, <1>17, <1>18, Zenon

(* The number of data as counted. *)
Counted ==
    Cardinality(accepted \ taken) - Cardinality(Adding) + Cardinality(Subtracting)

(* It is one that total can be. *)
LEMMA CountedInRange ==
    TypeOK /\ LocalInv /\ CountInv /\ PlaceInv /\ LostInv
      => /\ Counted \in 0..(TotalMod - 1)
         /\ Counted <= BufferCap * MaxBufferNumber
<1> SUFFICES ASSUME TypeOK, LocalInv, CountInv, PlaceInv, LostInv
             PROVE  /\ Counted \in 0..(TotalMod - 1)
                    /\ Counted <= BufferCap * MaxBufferNumber
  BY Zenon
<1> DEFINE max == BufferCap * MaxBufferNumber
<1>1. max \in Nat /\ TotalMod \in Nat /\ max < TotalMod
  BY Modulo, PoolAssumption, Zenon
<1>2. /\ Cardinality(accepted \ taken) \in Nat /\ Cardinality(Adding) \in Nat
      /\ Cardinality(Subtracting) \in Nat
      /\ Cardinality(Adding) <= Cardinality(accepted \ taken)
      /\ Cardinality(accepted \ taken) + Cardinality(Subtracting) <= max
  BY TotalBounds, Zenon
<1> HIDE DEF max
<1>3. Counted \in 0..(TotalMod - 1) /\ Counted <= max
  BY <1>1, <1>2 DEF Counted
<1>4. QED
  BY <1>3, Zenon DEF max

(* A goroutine that goes from line to line joins or leaves those at some. *)
AtLines(S) == {g \in Goroutines : pc[g] \in S}
AddLines == {"add", "countBuffer", "countDatum"}

(* A goroutine that stays within some lines, or outside of them, ... *)
LEMMA AtLinesStay ==
    ASSUME LockInv, NEW CONSTANT S, NEW g \in Goroutines, NEW l, Goto(g, l),
           pc[g] \in S <=> l \in S
    PROVE  AtLines(S)' = AtLines(S)
BY Zenon DEF AtLines, LockInv, Goto

(* ... one that gets there, ... *)
LEMMA AtLinesEnter ==
    ASSUME LockInv, NEW CONSTANT S, NEW g \in Goroutines, NEW l \in S, Goto(g, l),
           pc[g] \notin S, IsFiniteSet(AtLines(S))
    PROVE  Cardinality(AtLines(S)') = Cardinality(AtLines(S)) + 1
<1>1. AtLines(S)' = AtLines(S) \cup {g} /\ g \notin AtLines(S)
  BY DEF AtLines, LockInv, Goto
<1>2. QED
  BY <1>1, FS_AddElement, Zenon

(* ... and one that leaves. *)
LEMMA AtLinesLeave ==
    ASSUME LockInv, NEW CONSTANT S, NEW g \in Goroutines, NEW l, l \notin S,
           Goto(g, l), pc[g] \in S, IsFiniteSet(AtLines(S))
    PROVE  Cardinality(AtLines(S)') = Cardinality(AtLines(S)) - 1
<1>1. AtLines(S)' = AtLines(S) \ {g} /\ g \in AtLines(S)
  BY Zenon DEF AtLines, LockInv, Goto
<1>2. QED
  BY <1>1, FS_RemoveElement, Zenon

(* Those that have still to count are at some lines. *)
LEMMA AddingIs ==
    /\ Adding = AtLines(AddLines) /\ Subtracting = AtLines({"subtract"})
    /\ Adding' = AtLines(AddLines)' /\ Subtracting' = AtLines({"subtract"})'
BY Zenon DEF Adding, Subtracting, AtLines, AddLines

(* Steps that put, get and count no datum. *)
LEMMA QuietTotal ==
    ASSUME LockInv, TotalInv, NEW g \in Goroutines, NEW l \in Lines, Goto(g, l),
           pc[g] \in AddLines <=> l \in AddLines,
           pc[g] = "subtract" <=> l = "subtract",
           UNCHANGED <<accepted, taken, total>>
    PROVE  TotalInv'
<1>1. Adding' = Adding
  BY AtLinesStay, AddingIs, Zenon DEF AddLines
<1>2. Subtracting' = Subtracting
  BY AtLinesStay, AddingIs, Zenon
<1>3. QED
  BY <1>1, <1>2, Zenon DEF TotalInv

(* A datum that is put, and counted later. *)
LEMMA PutTotal ==
    ASSUME TypeOK, LockInv, LocalInv, CountInv, PlaceInv, LostInv, TotalInv,
           NEW g \in Putters, pc[g] \in {"put", "grow"},
           Goto(g, "add") \/ Goto(g, "countBuffer"),
           accepted' = accepted \cup {Datum(g)}, UNCHANGED <<taken, total>>
    PROVE  TotalInv'
<1>0. g \in Goroutines
  BY Zenon DEF Goroutines
<1>1. /\ IsFiniteSet(accepted \ taken) /\ IsFiniteSet(Adding)
      /\ Cardinality(accepted \ taken) \in Nat /\ Cardinality(Adding) \in Nat
      /\ Cardinality(Subtracting) \in Nat
  BY TotalBounds, Zenon
<1>2. Datum(g) \notin accepted /\ Datum(g) \notin taken
  <2>1. Datum(g) \notin accepted
    BY Zenon DEF LocalInv, Fresh
  <2>2. QED
    BY <2>1, Zenon DEF PlaceInv
<1>3. accepted' \ taken' = (accepted \ taken) \cup {Datum(g)}
  BY <1>2, Zenon
<1>4. Cardinality((accepted \ taken) \cup {Datum(g)}) = Cardinality(accepted \ taken) + 1
  BY <1>1, <1>2, FS_AddElement, Zenon
<1>5. Cardinality(Adding') = Cardinality(Adding) + 1
  BY <1>0, <1>1, AtLinesEnter, AddingIs, Zenon DEF AddLines
<1>6. Subtracting' = Subtracting
  BY <1>0, AtLinesStay, AddingIs, Zenon
<1>7. Cardinality(accepted' \ taken') = Cardinality(accepted \ taken) + 1
  BY <1>3, <1>4, Zenon
<1>8. QED
  BY <1>1, <1>5, <1>6, <1>7 DEF TotalInv

(* A datum that is got, and subtracted later. *)
LEMMA GetTotal ==
    ASSUME TypeOK, LockInv, LocalInv, CountInv, PlaceInv, LostInv, TotalInv,
           NEW g \in Goroutines, pc[g] = "get", Goto(g, "subtract"), buf[g] # Empty,
           taken' = taken \cup {Head(buf[g])}, UNCHANGED <<accepted, total>>
    PROVE  TotalInv'
<1>1. /\ IsFiniteSet(accepted \ taken) /\ IsFiniteSet(Subtracting)
      /\ Cardinality(accepted \ taken) \in Nat /\ Cardinality(Adding) \in Nat
      /\ Cardinality(Subtracting) \in Nat
  BY TotalBounds, Zenon
<1>2. Head(buf[g]) \in accepted \ taken
  <2>1. buf[g] \in Seq(Data) /\ buf[g] # <<>>
    BY BuffersAreSequences, Zenon DEF TypeOK, Empty
  <2>2. Head(buf[g]) = buf[g][1] /\ 1 \in DOMAIN buf[g]
    <3>1. Len(buf[g]) \in Nat \ {0} /\ DOMAIN buf[g] = 1..Len(buf[g])
      BY <2>1
    <3>2. QED
      BY <2>1, <3>1
  <2>3. Head(buf[g]) \in Stored
    BY <2>2, StoredIs, Zenon
  <2>4. QED
    BY <2>3, Zenon DEF PlaceInv
<1>3. accepted' \ taken' = (accepted \ taken) \ {Head(buf[g])}
  BY Zenon
<1>4. Cardinality((accepted \ taken) \ {Head(buf[g])}) = Cardinality(accepted \ taken) - 1
  BY <1>1, <1>2, FS_RemoveElement, Zenon
<1>5. Cardinality(Subtracting') = Cardinality(Subtracting) + 1
  BY <1>1, AtLinesEnter, AddingIs, Zenon
<1>6. Adding' = Adding
  BY AtLinesStay, AddingIs, Zenon DEF AddLines
<1>7. Cardinality(accepted' \ taken') = Cardinality(accepted \ taken) - 1
  BY <1>3, <1>4, Zenon
<1>8. QED
  BY <1>1, <1>5, <1>6, <1>7 DEF TotalInv

(* The same of the next state. *)
LEMMA CountedInRangeNext ==
    ASSUME TypeOK', LocalInv', CountInv', PlaceInv', LostInv'
    PROVE  Counted' \in 0..(TotalMod - 1)
<1>1. (TypeOK /\ LocalInv /\ CountInv /\ PlaceInv /\ LostInv
         => /\ Counted \in 0..(TotalMod - 1)
            /\ Counted <= BufferCap * MaxBufferNumber)'
  BY CountedInRange, PTL
<1>2. QED
  BY <1>1, Zenon

(* total is counted up or down: it does not wrap. *)
LEMMA CountTotal ==
    ASSUME TypeOK, LockInv, LocalInv, CountInv, PlaceInv, LostInv, TotalInv,
           TypeOK', LocalInv', CountInv', PlaceInv', LostInv',
           NEW g \in Goroutines, UNCHANGED <<accepted, taken>>,
           \/ /\ pc[g] \in {"add", "countDatum"} /\ Goto(g, "defer")
              /\ total' = (total + 1) % TotalMod
           \/ /\ pc[g] = "subtract" /\ Goto(g, "shrink")
              /\ total' = (total - 1) % TotalMod
    PROVE  TotalInv'
<1>1. /\ IsFiniteSet(Adding) /\ IsFiniteSet(Subtracting)
      /\ Cardinality(accepted \ taken) \in Nat /\ Cardinality(Adding) \in Nat
      /\ Cardinality(Subtracting) \in Nat
  BY TotalBounds, Zenon
<1>2. Counted' \in 0..(TotalMod - 1)
  BY CountedInRangeNext, Zenon
<1>3. total = Counted
  BY Zenon DEF TotalInv, Counted
<1>4. CASE /\ pc[g] \in {"add", "countDatum"} /\ Goto(g, "defer")
           /\ total' = (total + 1) % TotalMod
  <2>1. Cardinality(Adding') = Cardinality(Adding) - 1
    BY <1>1, <1>4, AtLinesLeave, AddingIs, Zenon DEF AddLines
  <2>2. Subtracting' = Subtracting
    BY <1>4, AtLinesStay, AddingIs, Zenon
  <2>3. Counted' = Counted + 1
    BY <1>1, <2>1, <2>2 DEF Counted
  <2>4. total' = Counted' % TotalMod
    BY <1>3, <1>4, <2>3, Zenon
  <2>5. total' = Counted'
    BY <1>2, <2>4, Modulo, Zenon
  <2>6. QED
    BY <2>5, Zenon DEF TotalInv, Counted
<1>5. CASE /\ pc[g] = "subtract" /\ Goto(g, "shrink")
           /\ total' = (total - 1) % TotalMod
  <2>1. Cardinality(Subtracting') = Cardinality(Subtracting) - 1
    BY <1>1, <1>5, AtLinesLeave, AddingIs, Zenon
  <2>2. Adding' = Adding
    BY <1>5, AtLinesStay, AddingIs, Zenon DEF AddLines
  <2>3. Counted' = Counted - 1
    BY <1>1, <2>1, <2>2 DEF Counted
  <2>4. total' = Counted' % TotalMod
    BY <1>3, <1>5, <2>3, Zenon
  <2>5. total' = Counted'
    BY <1>2, <2>4, Modulo, Zenon
  <2>6. QED
    BY <2>5, Zenon DEF TotalInv, Counted
<1>6. QED
  BY <1>4, <1>5, Zenon

(* Every step keeps the count of the data. *)
LEMMA TotalStep ==
    ASSUME TypeOK, LockInv, LocalInv, CountInv, PlaceInv, LostInv, TotalInv,
           TypeOK', LocalInv', CountInv', PlaceInv', LostInv', Next
    PROVE  TotalInv'
<1> USE DEF AddLines
<1>1. ASSUME NEW g \in Putters \cup Getters, Attempt(g) PROVE TotalInv'
  <2>0. g \in Goroutines
    BY Zenon DEF Goroutines
  <2>1. CASE Call(g) \/ ReadLimit(g) \/ ReadLock(g) \/ CheckGiveBack(g)
    <3>1. PICK l \in Lines : Goto(g, l) /\ l \notin AddLines /\ l # "subtract"
      BY <2>1, Zenon DEF Call, ReadLimit, ReadLock, CheckGiveBack
    <3>2. /\ UNCHANGED <<accepted, taken, total>>
          /\ pc[g] \notin AddLines /\ pc[g] # "subtract"
      BY <2>1, Zenon DEF Call, ReadLimit, ReadLock, CheckGiveBack, At, fieldVars, histVars
    <3>3. QED
      BY <2>0, <3>1, <3>2, QuietTotal, Zenon
  <2>2. CASE RangeCh(g) \/ Entry(g) \/ Send(g) \/ Drop(g)
    <3>1. PICK l \in {"entry", "idle", "put", "get", "range"} : Goto(g, l)
      <4>1. CASE RangeCh(g)
        BY <4>1, Zenon DEF RangeCh, Return
      <4>2. CASE Entry(g)
        BY <4>2, Zenon DEF Entry, Return
      <4>3. CASE Send(g) \/ Drop(g)
        BY <4>3, Zenon DEF Send, Drop, EndAttempt, Return
      <4>4. QED
        BY <2>2, <4>1, <4>2, <4>3, Zenon
    <3>2. UNCHANGED <<accepted, taken>>
      <4>1. CASE RangeCh(g)
        BY <4>1, Zenon DEF RangeCh, Return, histVars
      <4>2. CASE Entry(g)
        BY <4>2, Zenon DEF Entry, Return, histVars
      <4>3. CASE Send(g) \/ Drop(g)
        BY <4>3, Zenon DEF Send, Drop, EndAttempt, Return, histVars
      <4>4. QED
        BY <2>2, <4>1, <4>2, <4>3, Zenon
    <3>3. total' = total /\ pc[g] \in {"range", "entry", "send", "drop"}
      BY <2>2, Zenon DEF RangeCh, Entry, Send, Drop, At, fieldVars
    <3>4. QED
      BY <2>0, <3>1, <3>2, <3>3, QuietTotal, Zenon
  <2>3. QED
    BY <1>1, <2>1, <2>2, Zenon DEF Attempt
<1>2. ASSUME NEW g \in Putters, PutStep(g) PROVE TotalInv'
  <2>0. g \in Goroutines
    BY Zenon DEF Goroutines
  <2>1. CASE PutDatum(g)
    <3>1. UNCHANGED <<taken, total>> /\ pc[g] = "put"
      BY <2>1, Zenon DEF PutDatum, At, fieldVars
    <3>2. CASE accepted' = accepted \cup {Datum(g)} /\ Goto(g, "add")
      BY <3>1, <3>2, PutTotal, Zenon
    <3>3. CASE UNCHANGED accepted /\ Goto(g, "full")
      BY <2>0, <3>1, <3>3, QuietTotal, Zenon
    <3>4. QED
      BY <2>1, <3>2, <3>3, Zenon DEF PutDatum
  <2>2. CASE Grow(g)
    BY <2>2, PutTotal, Zenon DEF Grow, At, fieldVars
  <2>3. CASE AddTotal(g) \/ CountDatum(g)
    <3>1. /\ UNCHANGED <<accepted, taken>> /\ total' = (total + 1) % TotalMod
          /\ pc[g] \in {"add", "countDatum"} /\ Goto(g, "defer")
      BY <2>3, Zenon DEF AddTotal, CountDatum, At, histVars
    <3>2. QED
      BY <2>0, <3>1, CountTotal, Zenon
  <2>4. CASE CheckGrow(g) \/ Lock(g) \/ Recheck(g) \/ RecheckOpen(g)
    <3>1. PICK l \in {"defer", "lock", "recheck", "reopen", "grow"} : Goto(g, l)
      BY <2>4, Zenon DEF CheckGrow, Lock, Recheck, RecheckOpen
    <3>2. /\ UNCHANGED <<accepted, taken, total>>
          /\ pc[g] \in {"full", "lock", "recheck", "reopen"}
      BY <2>4, Zenon DEF CheckGrow, Lock, Recheck, RecheckOpen, At, fieldVars, histVars
    <3>3. QED
      BY <2>0, <3>1, <3>2, QuietTotal, Zenon
  <2>5. CASE CountBuffer(g)
    BY <2>0, <2>5, QuietTotal, Zenon DEF CountBuffer, At, histVars
  <2>6. QED
    BY <1>2, <2>1, <2>2, <2>3, <2>4, <2>5, Zenon DEF PutStep
<1>3. ASSUME NEW g \in Getters, GetStep(g) PROVE TotalInv'
  <2>0. g \in Goroutines
    BY Zenon DEF Goroutines
  <2>1. CASE GetDatum(g)
    <3>1. UNCHANGED <<accepted, total>> /\ pc[g] = "get"
      BY <2>1, Zenon DEF GetDatum, At, fieldVars
    <3>2. CASE /\ buf[g] # Empty /\ taken' = taken \cup {Head(buf[g])}
               /\ Goto(g, "subtract")
      BY <2>0, <3>1, <3>2, GetTotal, Zenon
    <3>3. CASE UNCHANGED taken /\ Goto(g, "shrink")
      BY <2>0, <3>1, <3>3, QuietTotal, Zenon
    <3>4. QED
      BY <2>1, <3>2, <3>3, Zenon DEF GetDatum
  <2>2. CASE SubtractTotal(g)
    BY <2>0, <2>2, CountTotal, Zenon DEF SubtractTotal, At, histVars
  <2>3. CASE CheckShrink(g)
    BY <2>0, <2>3, QuietTotal, Zenon DEF CheckShrink, At, fieldVars, histVars
  <2>4. CASE Discard(g)
    <3>1. PICK l \in {"idle", "range"} : Goto(g, l)
      BY <2>4, Zenon DEF Discard, EndAttempt, Return
    <3>2. UNCHANGED <<accepted, taken>>
      BY <2>4, Zenon DEF Discard, EndAttempt, Return, histVars
    <3>3. total' = total /\ pc[g] = "discard"
      BY <2>4, Zenon DEF Discard, At
    <3>4. QED
      BY <2>0, <3>1, <3>2, <3>3, QuietTotal, Zenon
  <2>5. QED
    BY <1>3, <2>1, <2>2, <2>3, <2>4, Zenon DEF GetStep
<1>4. ASSUME NEW g \in Closers, Close(g) \/ CloseChannel(g) \/ Drain(g)
      PROVE  TotalInv'
  <2>0. g \in Goroutines
    BY Zenon DEF Goroutines
  <2>1. UNCHANGED <<accepted, taken, total>>
    BY <1>4, Zenon DEF Close, CloseChannel, Drain, fieldVars, histVars
  <2>2. pc[g] \in {"idle", "closeLock", "drain"}
    BY <1>4, Zenon DEF Close, CloseChannel, Drain, At
  <2>3. CASE UNCHANGED pc
    BY <2>1, <2>3, Zenon DEF TotalInv, Adding, Subtracting
  <2>4. CASE \E l \in {"idle", "closeLock", "drain"} : Goto(g, l)
    BY <2>0, <2>1, <2>2, <2>4, QuietTotal, Zenon
  <2>5. QED
    BY <1>4, <2>3, <2>4, Zenon DEF Close, CloseChannel, Drain
<1>5. QED
  BY <1>1, <1>2, <1>3, <1>4, Zenon DEF Next

(* NewPool. *)
LEMMA PoolInit == Init => PoolInv
<1> SUFFICES ASSUME Init PROVE PoolInv
  BY Zenon
<1>1. /\ buffCh = <<Empty>> /\ accepted = {} /\ taken = {} /\ nilPuts = {}
      /\ buf = [g \in Goroutines |-> Empty] /\ pc = [g \in Goroutines |-> "idle"]
      /\ bufferNumber = 1 /\ total = 0 /\ ~closed
  BY Zenon DEF Init
<1>2. Len(buffCh) = 1 /\ DOMAIN buffCh = {1} /\ buffCh[1] = Empty
  BY <1>1
<1>3. DOMAIN Empty = {}
  BY DEF Empty
<1>4. Stored = {}
  BY <1>1, <1>2, <1>3, StoredIs
<1>5. TypeOK
  <2>1. buffCh \in Seq(Buffers)
    BY <1>1, SmallBuffers
  <2>2. total \in 0..(TotalMod - 1)
    BY <1>1, Modulo
  <2>3. Len(buffCh) <= MaxBufferNumber /\ bufferNumber \in 0..MaxBufferNumber
    BY <1>1, <1>2, PoolAssumption
  <2>4. 0 \in Nat /\ 0 \in 0..MaxCalls
    BY PoolAssumption
  <2>5. /\ buf \in [Goroutines -> Buffers] /\ pc \in [Goroutines -> Lines]
        /\ calls \in [Goroutines -> 0..MaxCalls]
    BY <1>1, <2>4, SmallBuffers, Zenon DEF Init
  <2>6. /\ count \in [Goroutines -> Nat] /\ maxCount \in [Goroutines -> Nat]
        /\ ok \in [Goroutines -> BOOLEAN]
    BY <2>4, Zenon DEF Init
  <2>7. /\ chClosed \in BOOLEAN /\ closed \in BOOLEAN
        /\ readers \subseteq Goroutines /\ writer \subseteq Goroutines
    BY Zenon DEF Init
  <2>8. QED
    BY <1>1, <2>1, <2>2, <2>3, <2>5, <2>6, <2>7, Zenon DEF TypeOK
<1>6. LockInv
  BY LockInit, Zenon
<1>7. Holders = {} /\ Adding = {} /\ Subtracting = {} /\ Uncounted = 0
  BY <1>1, Zenon DEF Holders, Adding, Subtracting, Uncounted
<1>8. LocalInv
  <2>1. \A g \in Goroutines : pc[g] = "idle" /\ buf[g] = Empty
    BY <1>1, Zenon
  <2>2. Putters \subseteq Goroutines
    BY Zenon DEF Goroutines
  <2>3. QED
    BY <1>1, <2>1, <2>2, Zenon DEF LocalInv
<1>9. CountInv
  <2>1. IsFiniteSet(Holders) /\ Cardinality(Holders) = 0
    BY <1>7, FS_EmptySet, Zenon
  <2>2. BuffersOut = 1
    BY <1>2, <2>1 DEF BuffersOut
  <2>3. QED
    BY <1>1, <1>7, <2>1, <2>2, PoolAssumption DEF CountInv
<1>10. PlaceInv
  BY <1>1, <1>2, <1>3, <1>4, FS_EmptySet, Zenon DEF PlaceInv, NothingLost
<1>11. LostInv
  BY <1>1, <1>5, <1>6, <1>9, <1>10, OpenLost, Zenon
<1>12. TotalInv
  <2>1. accepted \ taken = {}
    BY <1>1, Zenon
  <2>2. QED
    BY <1>1, <1>7, <2>1, FS_EmptySet DEF TotalInv
<1>13. QED
  BY <1>5, <1>6, <1>8, <1>9, <1>10, <1>11, <1>12, Zenon DEF PoolInv

(* Every step of every goroutine. *)
LEMMA PoolStep ==
    ASSUME PoolInv, [Next]_vars
    PROVE  PoolInv'
<1> USE DEF PoolInv
<1>1. CASE Next
  <2>1. LockInv'
    BY <1>1, AttemptStep, PutStepStep, GetStepStep, CloseStep, Zenon DEF Next
  <2>2. LocalInv'
    BY <1>1, LocalInvStep, Zenon
  <2>3. CountInv'
    BY <1>1, CountStep, Zenon
  <2>4. TypeOK'
    BY <1>1, <2>1, <2>3, TypeStep, Zenon
  <2>5. PlaceInv'
    BY <1>1, PlaceStep, Zenon
  <2>6. LostInv'
    BY <1>1, <2>1, <2>3, <2>4, <2>5, LostStep, Zenon
  <2>7. TotalInv'
    BY <1>1, <2>2, <2>3, <2>4, <2>5, <2>6, TotalStep, Zenon
  <2>8. QED
    BY <2>1, <2>2, <2>3, <2>4, <2>5, <2>6, <2>7, Zenon
<1>2. CASE UNCHANGED vars
  <2>1. UNCHANGED <<buffCh, chClosed, closed, bufferNumber, total, readers, writer,
                    pc, buf, count, maxCount, ok, calls, accepted, taken, nilPuts>>
    BY <1>2, Zenon DEF vars, chanVars, fieldVars, lockVars, loopVars, histVars
  <2>2. LockInv'
    BY <2>1, Zenon DEF LockInv
  <2>3. LocalInv'
    BY <2>1, Zenon DEF LocalInv, Fresh, Datum
  <2>4. CountInv'
    BY <2>1, Zenon DEF CountInv, Holders, Uncounted, BuffersOut
  <2>5. TypeOK'
    BY <2>1, Zenon DEF TypeOK
  <2>6. PlaceInv' /\ Lost' = Lost
    BY <2>1, StillPlace, Zenon
  <2>7. LostInv'
    BY <2>1, <2>6, Zenon DEF LostInv, BuffersOut, Holders
  <2>8. TotalInv'
    BY <2>1, Zenon DEF TotalInv, Adding, Subtracting
  <2>9. QED
    BY <2>2, <2>3, <2>4, <2>5, <2>6, <2>7, <2>8, Zenon
<1>3. QED
  BY <1>1, <1>2, Zenon

(* The invariant of the pool holds always, however many goroutines put,    *)
(* get and close: in particular bufferNumber stays within the maximum of   *)
(* NewPool and counts the buffers, and a datum is in one place only.       *)
THEOREM PoolInvHolds == Spec => []PoolInv
BY PoolInit, PoolStep, PTL DEF Spec

(* A goroutine that is about to send a buffer finds room in the channel,   *)
(* so no send under the lock of putData, getData ever blocks.              *)
THEOREM SendNeverBlocks == Spec => []SendHasRoom
<1>1. PoolInv => SendHasRoom
  <2>1. SUFFICES ASSUME PoolInv, NEW g \in Putters \cup Getters, Sending(g)
                 PROVE  Len(buffCh) < MaxBufferNumber
    BY Zenon DEF SendHasRoom
  <2>2. TypeOK /\ LockInv /\ CountInv
    BY <2>1, Zenon DEF PoolInv
  <2>3. g \in Holders
    BY <2>1, Zenon DEF Holders, Sending, At, Goroutines
  <2>4. Cardinality(Holders) \in Nat \ {0} /\ Len(buffCh) \in Nat
    BY <2>2, <2>3, FS_CardinalityType, FS_EmptySet DEF CountInv, TypeOK
  <2>5. BuffersOut <= MaxBufferNumber
    BY <2>2, BuffersOutType, Zenon
  <2>6. QED
    BY <2>4, <2>5, PoolAssumption DEF BuffersOut
<1>2. QED
  BY <1>1, PoolInvHolds, PTL

(* Until Close, the data in the buffers are those that were put and not    *)
(* yet got: putData that grows the pool and getData that shrinks it lose   *)
(* none and none is got twice.                                             *)
THEOREM OpenPoolLosesNothing == Spec => []NothingLost
<1>1. PoolInv => NothingLost
  BY Zenon DEF PoolInv, PlaceInv
<1>2. QED
  BY <1>1, PoolInvHolds, PTL

(* When all calls have returned, Total() and BufferNumer() of an open pool *)
(* are the numbers of its data and of its buffers.                         *)
THEOREM QuiescentCountsHold == Spec => []QuiescentCounts
<1>1. PoolInv => QuiescentCounts
  <2>1. SUFFICES ASSUME PoolInv, ~closed, \A g \in Goroutines : At(g, "idle")
                 PROVE  total = Cardinality(Stored) /\ bufferNumber = Len(buffCh)
    BY Zenon DEF QuiescentCounts
  <2>2. Holders = {} /\ Adding = {} /\ Subtracting = {} /\ Uncounted = 0
    BY <2>1, Zenon DEF Holders, Adding, Subtracting, Uncounted, At
  <2>3. /\ Cardinality(Holders) = 0 /\ Cardinality(Adding) = 0
        /\ Cardinality(Subtracting) = 0
    BY <2>2, FS_EmptySet, Zenon
  <2>4. bufferNumber = Len(buffCh)
    <3>1. BuffersOut = bufferNumber + Uncounted /\ bufferNumber \in Nat
          /\ Len(buffCh) \in Nat
      BY <2>1 DEF PoolInv, CountInv, TypeOK
    <3>2. QED
      BY <2>2, <2>3, <3>1 DEF BuffersOut
  <2>5. Stored = accepted \ taken
    BY <2>1, Zenon DEF PoolInv, PlaceInv, NothingLost
  <2>6. Cardinality(Stored) \in Nat
    BY <2>1, <2>5, TotalBounds, Zenon DEF PoolInv
  <2>7. total = Cardinality(accepted \ taken) - Cardinality(Adding)
                  + Cardinality(Subtracting)
    BY <2>1, Zenon DEF PoolInv, TotalInv
  <2>8. Cardinality(accepted \ taken) = Cardinality(Stored)
    BY <2>5, Zenon
  <2>9. QED
    BY <2>3, <2>4, <2>6, <2>7, <2>8
<1>2. QED
  BY <1>1, PoolInvHolds, PTL

(* Total() is never more than the buffers hold, during the calls and after *)
(* Close as well: the atomic additions and subtractions never wrap.        *)
THEOREM TotalNeverWraps == Spec => []TotalWithinCapacity
<1>1. PoolInv => TotalWithinCapacity
  <2>1. SUFFICES ASSUME PoolInv PROVE total <= BufferCap * MaxBufferNumber
    BY Zenon DEF TotalWithinCapacity
  <2>2. Counted <= BufferCap * MaxBufferNumber
    BY <2>1, CountedInRange, Zenon DEF PoolInv
  <2>3. total = Counted
    BY <2>1, Zenon DEF PoolInv, TotalInv, Counted
  <2>4. QED
    BY <2>2, <2>3, Zenon
<1>2. QED
  BY <1>1, PoolInvHolds, PTL

=============================================================================
