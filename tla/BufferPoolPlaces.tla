-------------------------- MODULE BufferPoolPlaces --------------------------
(***************************************************************************)
(* Where the data of the buffer pool are: every step keeps a datum in one  *)
(* place, and what a closed pool drops stays within its buffers.           *)
(***************************************************************************)
EXTENDS BufferPoolProofs

USE DEF Lines, Unlocked, Reading, Writing, PutLines, GetLines, BackLines,
        HeldLines, FullLines, EarlyLines

(* The contents of a buffer are the elements of the sequence. *)
LEMMA ContentsIs == \A b, d : d \in Contents(b) <=> \E k \in DOMAIN b : d = b[k]
BY Zenon DEF Contents

(* A stored datum is in a buffer of the channel or of a goroutine. *)
LEMMA StoredIs ==
    \A d : d \in Stored <=>
      \/ \E i \in DOMAIN buffCh : \E k \in DOMAIN buffCh[i] : d = buffCh[i][k]
      \/ \E h \in Goroutines : \E k \in DOMAIN buf[h] : d = buf[h][k]
<1> DEFINE InChannel == UNION {Contents(buffCh[i]) : i \in DOMAIN buffCh}
           InHands == UNION {Contents(buf[h]) : h \in Goroutines}
<1>1. \A d : d \in InChannel <=> \E i \in DOMAIN buffCh : d \in Contents(buffCh[i])
  BY Zenon
<1>2. \A d : d \in InHands <=> \E h \in Goroutines : d \in Contents(buf[h])
  BY Zenon
<1>3. Stored = InChannel \cup InHands
  BY Zenon DEF Stored
<1> HIDE DEF InChannel, InHands
<1>4. QED
  BY <1>1, <1>2, <1>3, ContentsIs

(* The same of the next state. *)
LEMMA StoredIsNext ==
    \A d : d \in Stored' <=>
      \/ \E i \in DOMAIN buffCh' : \E k \in DOMAIN buffCh'[i] : d = buffCh'[i][k]
      \/ \E h \in Goroutines : \E k \in DOMAIN buf'[h] : d = buf'[h][k]
<1> DEFINE InChannel == UNION {Contents(buffCh'[i]) : i \in DOMAIN buffCh'}
           InHands == UNION {Contents(buf'[h]) : h \in Goroutines}
<1>1. \A d : d \in InChannel <=> \E i \in DOMAIN buffCh' : d \in Contents(buffCh'[i])
  BY Zenon
<1>2. \A d : d \in InHands <=> \E h \in Goroutines : d \in Contents(buf'[h])
  BY Zenon
<1>3. Stored' = InChannel \cup InHands
  BY Zenon DEF Stored
<1> HIDE DEF InChannel, InHands
<1>4. QED
  BY <1>1, <1>2, <1>3, ContentsIs

(* Steps that move no data. *)
LEMMA StillPlace ==
    ASSUME PlaceInv, UNCHANGED <<buffCh, buf, accepted, taken>>, closed => closed'
    PROVE  PlaceInv' /\ Lost' = Lost
<1>1. Stored' = Stored
  BY Zenon DEF Stored
<1>2. NothingLost'
  BY <1>1, Zenon DEF PlaceInv, NothingLost
<1>3. PlaceInv'
  BY <1>1, <1>2 DEF PlaceInv
<1>4. Lost' = Lost
  BY <1>1, Zenon DEF Lost
<1>5. QED
  BY <1>3, <1>4, Zenon

(* A goroutine drops the buffer that it got from a closed pool. *)
LEMMA DropPlace ==
    ASSUME TypeOK, PlaceInv, NEW g \in Goroutines, buf' = Set(buf, g, Empty),
           UNCHANGED <<buffCh, accepted, taken>>, closed'
    PROVE  PlaceInv' /\ Lost' \subseteq Lost \cup Contents(buf[g])
<1>1. \A h \in Goroutines : h # g => buf'[h] = buf[h]
  BY Zenon DEF Set, TypeOK
<1>2. DOMAIN buf'[g] = {}
  BY DEF Set, TypeOK, Empty
<1>3. Stored' \subseteq Stored
  BY <1>1, <1>2, StoredIs, StoredIsNext
<1>4. \A h, j \in Goroutines : \A k \in DOMAIN buf'[h], l \in DOMAIN buf'[j] :
        buf'[h][k] = buf'[j][l] => h = j /\ k = l
  BY <1>1, <1>2 DEF PlaceInv
<1>5. \A i \in DOMAIN buffCh', h \in Goroutines :
        \A k \in DOMAIN buffCh'[i], l \in DOMAIN buf'[h] :
          buffCh'[i][k] # buf'[h][l]
  BY <1>1, <1>2 DEF PlaceInv
<1>6. PlaceInv'
  <2>1. NothingLost' /\ Stored' \subseteq accepted' \ taken'
    BY <1>3, Zenon DEF PlaceInv, NothingLost
  <2>2. QED
    BY <1>4, <1>5, <2>1 DEF PlaceInv
<1>7. Lost' \subseteq Lost \cup Contents(buf[g])
  <2>1. \A d \in Stored : d \in Stored' \/ d \in Contents(buf[g])
    BY <1>1, StoredIs, StoredIsNext, ContentsIs
  <2>2. QED
    BY <2>1, Zenon DEF Lost
<1>8. QED
  BY <1>6, <1>7, Zenon

(* Close drains the channel: the first buffer is gone. *)
LEMMA DrainPlace ==
    ASSUME TypeOK, PlaceInv, buffCh # <<>>, buffCh' = Tail(buffCh),
           UNCHANGED <<buf, accepted, taken>>, closed'
    PROVE  PlaceInv' /\ Lost' \subseteq Lost \cup Contents(Head(buffCh))
<1>1. /\ DOMAIN buffCh' = 1..(Len(buffCh) - 1) /\ Len(buffCh) \in Nat
      /\ DOMAIN buffCh = 1..Len(buffCh)
      /\ \A i \in DOMAIN buffCh' : buffCh'[i] = buffCh[i + 1]
  BY DEF TypeOK
<1>2. \A i \in DOMAIN buffCh' : i + 1 \in DOMAIN buffCh /\ i \in Int
  BY <1>1
<1>3. Stored' \subseteq Stored
  BY <1>1, <1>2, StoredIs, StoredIsNext
<1>4. \A i, j \in DOMAIN buffCh' :
        \A k \in DOMAIN buffCh'[i], l \in DOMAIN buffCh'[j] :
          buffCh'[i][k] = buffCh'[j][l] => i = j /\ k = l
  BY <1>1, <1>2 DEF PlaceInv
<1>5. \A i \in DOMAIN buffCh', h \in Goroutines :
        \A k \in DOMAIN buffCh'[i], l \in DOMAIN buf'[h] :
          buffCh'[i][k] # buf'[h][l]
  BY <1>1, <1>2 DEF PlaceInv
<1>6. PlaceInv'
  <2>1. NothingLost' /\ Stored' \subseteq accepted' \ taken'
    BY <1>3, Zenon DEF PlaceInv, NothingLost
  <2>2. QED
    BY <1>4, <1>5, <2>1 DEF PlaceInv
<1>7. Lost' \subseteq Lost \cup Contents(Head(buffCh))
  <2>1. Head(buffCh) = buffCh[1]
    BY DEF TypeOK
  <2>2. \A i \in DOMAIN buffCh : i = 1 \/ (i - 1 \in DOMAIN buffCh' /\ buffCh[i] = buffCh'[i - 1])
    BY <1>1
  <2>3. ASSUME NEW i \in DOMAIN buffCh, NEW k \in DOMAIN buffCh[i]
        PROVE  buffCh[i][k] \in Stored' \/ buffCh[i][k] \in Contents(Head(buffCh))
    <3>1. CASE i = 1
      BY <2>1, <3>1, ContentsIs, Zenon
    <3>2. CASE i - 1 \in DOMAIN buffCh' /\ buffCh[i] = buffCh'[i - 1]
      BY <3>2, StoredIsNext, Zenon
    <3>3. QED
      BY <2>2, <3>1, <3>2, Zenon
  <2>4. ASSUME NEW h \in Goroutines, NEW k \in DOMAIN buf[h]
        PROVE  buf[h][k] \in Stored'
    BY StoredIsNext, Zenon
  <2>5. \A d \in Stored : d \in Stored' \/ d \in Contents(Head(buffCh))
    BY <2>3, <2>4, StoredIs
  <2>6. QED
    BY <2>5, Zenon DEF Lost
<1>8. QED
  BY <1>6, <1>7, Zenon

(* RangeCh: the first buffer of the channel is in the hands of a goroutine. *)
LEMMA RangePlace ==
    ASSUME TypeOK, PlaceInv, NEW g \in Goroutines, buf[g] = Empty,
           buffCh # <<>>, buffCh' = Tail(buffCh), buf' = Set(buf, g, Head(buffCh)),
           UNCHANGED <<accepted, taken, closed>>
    PROVE  PlaceInv' /\ Lost' = Lost
<1>1. /\ DOMAIN buffCh' = 1..(Len(buffCh) - 1) /\ Len(buffCh) \in Nat
      /\ DOMAIN buffCh = 1..Len(buffCh) /\ 1 \in DOMAIN buffCh
      /\ \A i \in DOMAIN buffCh' : buffCh'[i] = buffCh[i + 1]
  BY DEF TypeOK
<1>2. \A i \in DOMAIN buffCh' : i + 1 \in DOMAIN buffCh /\ i + 1 # 1 /\ i \in Int
  BY <1>1
<1>3. /\ \A h \in Goroutines : h # g => buf'[h] = buf[h]
      /\ buf'[g] = buffCh[1] /\ DOMAIN buf[g] = {}
  BY DEF Set, TypeOK, Empty
<1>4. \A i \in DOMAIN buffCh : i = 1 \/ (i - 1 \in DOMAIN buffCh' /\ buffCh[i] = buffCh'[i - 1])
  BY <1>1
<1>5. Stored' \subseteq Stored
  BY <1>1, <1>2, <1>3, StoredIs, StoredIsNext
<1>6. Stored \subseteq Stored'
  <2>1. ASSUME NEW i \in DOMAIN buffCh, NEW k \in DOMAIN buffCh[i]
        PROVE  buffCh[i][k] \in Stored'
    <3>1. CASE i = 1
      BY <1>3, <2>1, <3>1, StoredIsNext, Zenon
    <3>2. CASE i - 1 \in DOMAIN buffCh' /\ buffCh[i] = buffCh'[i - 1]
      BY <2>1, <3>2, StoredIsNext, Zenon
    <3>3. QED
      BY <1>4, <2>1, <3>1, <3>2, Zenon
  <2>2. ASSUME NEW h \in Goroutines, NEW k \in DOMAIN buf[h]
        PROVE  buf[h][k] \in Stored'
    BY <1>3, StoredIsNext, Zenon
  <2>3. QED
    BY <2>1, <2>2, StoredIs
<1>7. \A i, j \in DOMAIN buffCh' :
        \A k \in DOMAIN buffCh'[i], l \in DOMAIN buffCh'[j] :
          buffCh'[i][k] = buffCh'[j][l] => i = j /\ k = l
  BY <1>1, <1>2 DEF PlaceInv
<1>8. \A i \in DOMAIN buffCh', h \in Goroutines :
        \A k \in DOMAIN buffCh'[i], l \in DOMAIN buf'[h] :
          buffCh'[i][k] # buf'[h][l]
  BY <1>1, <1>2, <1>3 DEF PlaceInv
<1>9. \A h, j \in Goroutines : \A k \in DOMAIN buf'[h], l \in DOMAIN buf'[j] :
        buf'[h][k] = buf'[j][l] => h = j /\ k = l
  BY <1>1, <1>3 DEF PlaceInv
<1>10. PlaceInv'
  BY <1>5, <1>6, <1>7, <1>8, <1>9, Zenon DEF PlaceInv, NothingLost
<1>11. Lost' = Lost
  BY <1>5, <1>6, Zenon DEF Lost
<1>12. QED
  BY <1>10, <1>11, Zenon

(* Send: the buffer of a goroutine is the last one of the channel. *)
LEMMA SendPlace ==
    ASSUME TypeOK, PlaceInv, NEW g \in Goroutines,
           buffCh' = Append(buffCh, buf[g]), buf' = Set(buf, g, Empty),
           UNCHANGED <<accepted, taken, closed>>
    PROVE  PlaceInv' /\ Lost' = Lost
<1>0. DEFINE n == Len(buffCh) + 1
<1>1. /\ DOMAIN buffCh' = 1..n /\ Len(buffCh) \in Nat
      /\ DOMAIN buffCh = 1..Len(buffCh) /\ n \notin DOMAIN buffCh
      /\ \A i \in DOMAIN buffCh : buffCh'[i] = buffCh[i]
      /\ buffCh'[n] = buf[g]
  BY DEF TypeOK
<1>2. \A i \in DOMAIN buffCh' : i = n \/ i \in DOMAIN buffCh
  BY <1>1
<1>3. n \in DOMAIN buffCh' /\ DOMAIN buffCh \subseteq DOMAIN buffCh'
  BY <1>1
<1>4. /\ \A h \in Goroutines : h # g => buf'[h] = buf[h]
      /\ DOMAIN buf'[g] = {}
  BY DEF Set, TypeOK, Empty
<1> HIDE DEF n
<1>5. Stored' \subseteq Stored
  BY <1>1, <1>2, <1>4, StoredIs, StoredIsNext
<1>6. Stored \subseteq Stored'
  <2>1. ASSUME NEW i \in DOMAIN buffCh, NEW k \in DOMAIN buffCh[i]
        PROVE  buffCh[i][k] \in Stored'
    BY <1>1, <1>3, StoredIsNext, Zenon
  <2>2. ASSUME NEW h \in Goroutines, NEW k \in DOMAIN buf[h]
        PROVE  buf[h][k] \in Stored'
    BY <1>1, <1>3, <1>4, StoredIsNext
  <2>3. QED
    BY <2>1, <2>2, StoredIs
<1>7. \A i, j \in DOMAIN buffCh' :
        \A k \in DOMAIN buffCh'[i], l \in DOMAIN buffCh'[j] :
          buffCh'[i][k] = buffCh'[j][l] => i = j /\ k = l
  BY <1>1, <1>2 DEF PlaceInv
<1>8. \A i \in DOMAIN buffCh', h \in Goroutines :
        \A k \in DOMAIN buffCh'[i], l \in DOMAIN buf'[h] :
          buffCh'[i][k] # buf'[h][l]
  BY <1>1, <1>2, <1>4 DEF PlaceInv
<1>9. \A h, j \in Goroutines : \A k \in DOMAIN buf'[h], l \in DOMAIN buf'[j] :
        buf'[h][k] = buf'[j][l] => h = j /\ k = l
  BY <1>4 DEF PlaceInv
<1>10. PlaceInv'
  BY <1>5, <1>6, <1>7, <1>8, <1>9, Zenon DEF PlaceInv, NothingLost
<1>11. Lost' = Lost
  BY <1>5, <1>6, Zenon DEF Lost
<1>12. QED
  BY <1>10, <1>11, Zenon

(* PutDatum: the datum of the call is at the end of the buffer. *)
LEMMA PutPlace ==
    ASSUME TypeOK, LocalInv, PlaceInv, NEW g \in Putters, pc[g] = "put",
           buf' = Set(buf, g, Append(buf[g], Datum(g))),
           accepted' = accepted \cup {Datum(g)},
           UNCHANGED <<buffCh, taken, closed>>
    PROVE  PlaceInv' /\ Lost' = Lost
<1>0. DEFINE n == Len(buf[g]) + 1
             new == Datum(g)
<1>1. g \in Goroutines /\ new \notin accepted /\ new \notin Stored
  <2>1. g \in Goroutines /\ new \notin accepted
    BY Zenon DEF LocalInv, Fresh, Goroutines
  <2>2. QED
    BY <2>1, Zenon DEF PlaceInv
<1>2. buf[g] \in Seq(Data)
  BY <1>1, BuffersAreSequences, Zenon DEF TypeOK
<1>3. buf'[g] = Append(buf[g], new) /\ \A h \in Goroutines : h # g => buf'[h] = buf[h]
  BY <1>1, Zenon DEF Set, TypeOK
<1>4. /\ DOMAIN buf'[g] = 1..n /\ Len(buf[g]) \in Nat
      /\ DOMAIN buf[g] = 1..Len(buf[g]) /\ n \notin DOMAIN buf[g]
      /\ \A k \in DOMAIN buf[g] : buf'[g][k] = buf[g][k]
      /\ buf'[g][n] = new
  BY <1>2, <1>3
<1>5. \A k \in DOMAIN buf'[g] : k = n \/ k \in DOMAIN buf[g]
  BY <1>4
<1>6. n \in DOMAIN buf'[g] /\ DOMAIN buf[g] \subseteq DOMAIN buf'[g]
  BY <1>4
<1> HIDE DEF n, new
<1>7. Stored' \subseteq Stored \cup {new}
  BY <1>1, <1>3, <1>4, <1>5, StoredIs, StoredIsNext
<1>8. Stored \cup {new} \subseteq Stored'
  <2>1. ASSUME NEW h \in Goroutines, NEW k \in DOMAIN buf[h]
        PROVE  buf[h][k] \in Stored'
    BY <1>3, <1>4, <1>6, StoredIsNext
  <2>2. new \in Stored'
    BY <1>1, <1>4, <1>6, StoredIsNext, Zenon
  <2>3. QED
    BY <2>1, <2>2, StoredIs, StoredIsNext
<1>9. \A i \in DOMAIN buffCh', h \in Goroutines :
        \A k \in DOMAIN buffCh'[i], l \in DOMAIN buf'[h] :
          buffCh'[i][k] # buf'[h][l]
  <2>1. \A i \in DOMAIN buffCh : \A k \in DOMAIN buffCh[i] : buffCh[i][k] # new
    BY <1>1, StoredIs, Zenon
  <2>2. QED
    BY <1>3, <1>4, <1>5, <2>1 DEF PlaceInv
<1>10. \A h, j \in Goroutines : \A k \in DOMAIN buf'[h], l \in DOMAIN buf'[j] :
        buf'[h][k] = buf'[j][l] => h = j /\ k = l
  <2>1. \A h \in Goroutines : \A k \in DOMAIN buf[h] : buf[h][k] # new
    BY <1>1, StoredIs, Zenon
  <2>2. QED
    BY <1>3, <1>4, <1>5, <2>1 DEF PlaceInv
<1>11. IsFiniteSet(accepted') /\ accepted' = accepted \cup {new}
  BY FS_AddElement, Zenon DEF PlaceInv, new
<1>12. new \notin taken
  BY <1>1, Zenon DEF PlaceInv
<1>13. PlaceInv'
  <2>1. Stored' = Stored \cup {new}
    BY <1>7, <1>8, Zenon
  <2>2. Stored' \subseteq accepted' \ taken' /\ taken' \subseteq accepted'
    BY <1>11, <1>12, <2>1, Zenon DEF PlaceInv
  <2>3. NothingLost'
    BY <1>11, <1>12, <2>1 DEF PlaceInv, NothingLost
  <2>4. QED
    BY <1>9, <1>10, <1>11, <2>2, <2>3 DEF PlaceInv
<1>14. Lost' = Lost
  BY <1>1, <1>7, <1>8, <1>11, <1>12, Zenon DEF Lost
<1>15. QED
  BY <1>13, <1>14, Zenon

(* Grow: the datum of the call is in a buffer of its own. *)
LEMMA GrowPlace ==
    ASSUME TypeOK, LocalInv, PlaceInv, NEW g \in Putters, pc[g] = "grow",
           buffCh' = Append(buffCh, <<Datum(g)>>),
           accepted' = accepted \cup {Datum(g)},
           UNCHANGED <<buf, taken, closed>>
    PROVE  PlaceInv' /\ Lost' = Lost
<1>0. DEFINE n == Len(buffCh) + 1
             new == Datum(g)
<1>1. g \in Goroutines /\ new \notin accepted /\ new \notin Stored
  <2>1. g \in Goroutines /\ new \notin accepted
    BY Zenon DEF LocalInv, Fresh, Goroutines
  <2>2. QED
    BY <2>1, Zenon DEF PlaceInv
<1>2. /\ DOMAIN buffCh' = 1..n /\ Len(buffCh) \in Nat
      /\ DOMAIN buffCh = 1..Len(buffCh) /\ n \notin DOMAIN buffCh
      /\ \A i \in DOMAIN buffCh : buffCh'[i] = buffCh[i]
      /\ buffCh'[n] = <<new>>
  BY DEF TypeOK
<1>3. \A i \in DOMAIN buffCh' : i = n \/ i \in DOMAIN buffCh
  BY <1>2
<1>4. n \in DOMAIN buffCh' /\ DOMAIN buffCh \subseteq DOMAIN buffCh'
  BY <1>2
<1>5. DOMAIN buffCh'[n] = {1} /\ buffCh'[n][1] = new
  BY <1>2
<1> HIDE DEF n, new
<1>6. Stored' \subseteq Stored \cup {new}
  BY <1>2, <1>3, <1>5, StoredIs, StoredIsNext
<1>7. Stored \cup {new} \subseteq Stored'
  <2>1. ASSUME NEW i \in DOMAIN buffCh, NEW k \in DOMAIN buffCh[i]
        PROVE  buffCh[i][k] \in Stored'
    BY <1>2, <1>4, StoredIsNext, Zenon
  <2>2. new \in Stored'
    BY <1>4, <1>5, StoredIsNext, Zenon
  <2>3. QED
    BY <2>1, <2>2, StoredIs, StoredIsNext
<1>8. \A i \in DOMAIN buffCh : \A k \in DOMAIN buffCh[i] : buffCh[i][k] # new
  BY <1>1, StoredIs, Zenon
<1>9. \A i, j \in DOMAIN buffCh' :
        \A k \in DOMAIN buffCh'[i], l \in DOMAIN buffCh'[j] :
          buffCh'[i][k] = buffCh'[j][l] => i = j /\ k = l
  BY <1>2, <1>3, <1>5, <1>8 DEF PlaceInv
<1>10. \A i \in DOMAIN buffCh', h \in Goroutines :
        \A k \in DOMAIN buffCh'[i], l \in DOMAIN buf'[h] :
          buffCh'[i][k] # buf'[h][l]
  <2>1. \A h \in Goroutines : \A k \in DOMAIN buf[h] : buf[h][k] # new
    BY <1>1, StoredIs, Zenon
  <2>2. QED
    BY <1>2, <1>3, <1>5, <2>1 DEF PlaceInv
<1>11. IsFiniteSet(accepted') /\ accepted' = accepted \cup {new}
  BY FS_AddElement, Zenon DEF PlaceInv, new
<1>12. new \notin taken
  BY <1>1, Zenon DEF PlaceInv
<1>13. PlaceInv'
  <2>1. Stored' = Stored \cup {new}
    BY <1>6, <1>7, Zenon
  <2>2. Stored' \subseteq accepted' \ taken' /\ taken' \subseteq accepted'
    BY <1>11, <1>12, <2>1, Zenon DEF PlaceInv
  <2>3. NothingLost'
    BY <1>11, <1>12, <2>1 DEF PlaceInv, NothingLost
  <2>4. QED
    BY <1>9, <1>10, <1>11, <2>2, <2>3 DEF PlaceInv
<1>14. Lost' = Lost
  BY <1>1, <1>6, <1>7, <1>11, <1>12, Zenon DEF Lost
<1>15. QED
  BY <1>13, <1>14, Zenon

(* GetDatum: the first datum of the buffer leaves the pool. *)
LEMMA GetPlace ==
    ASSUME TypeOK, PlaceInv, NEW g \in Goroutines, buf[g] # Empty,
           buf' = Set(buf, g, Tail(buf[g])),
           taken' = taken \cup {Head(buf[g])},
           UNCHANGED <<buffCh, accepted, closed>>
    PROVE  PlaceInv' /\ Lost' = Lost
<1>0. DEFINE got == Head(buf[g])
<1>1. buf[g] \in Seq(Data)
  BY BuffersAreSequences, Zenon DEF TypeOK
<1>2. buf'[g] = Tail(buf[g]) /\ \A h \in Goroutines : h # g => buf'[h] = buf[h]
  BY Zenon DEF Set, TypeOK
<1>3. /\ DOMAIN buf'[g] = 1..(Len(buf[g]) - 1) /\ Len(buf[g]) \in Nat
      /\ DOMAIN buf[g] = 1..Len(buf[g]) /\ 1 \in DOMAIN buf[g]
      /\ \A k \in DOMAIN buf'[g] : buf'[g][k] = buf[g][k + 1]
      /\ got = buf[g][1]
  <2>1. buf[g] # <<>>
    BY Zenon DEF Empty
  <2>2. Len(buf[g]) \in Nat \ {0} /\ Len(Tail(buf[g])) = Len(buf[g]) - 1
    BY <1>1, <2>1
  <2>3. \A k \in 1..(Len(buf[g]) - 1) : Tail(buf[g])[k] = buf[g][k + 1]
    BY <1>1, <2>1
  <2>4. Tail(buf[g]) \in Seq(Data)
    BY <1>1, <2>1
  <2>5. DOMAIN Tail(buf[g]) = 1..(Len(buf[g]) - 1)
    BY <2>2, <2>4
  <2>6. DOMAIN buf[g] = 1..Len(buf[g]) /\ Head(buf[g]) = buf[g][1]
    BY <1>1, <2>1
  <2>7. 1 \in DOMAIN buf[g]
    BY <2>2, <2>6
  <2>8. QED
    BY <1>2, <2>2, <2>3, <2>5, <2>6, <2>7, Zenon
<1>4. \A k \in DOMAIN buf'[g] : k + 1 \in DOMAIN buf[g] /\ k + 1 # 1 /\ k \in Int
  BY <1>3
<1>5. \A k \in DOMAIN buf[g] :
        k = 1 \/ (k - 1 \in DOMAIN buf'[g] /\ buf[g][k] = buf'[g][k - 1])
  BY <1>3
<1> HIDE DEF got
<1>6. got \in Stored
  BY <1>3, StoredIs, Zenon
<1>7. Stored' \subseteq Stored \ {got}
  <2>1. Stored' \subseteq Stored
    BY <1>2, <1>3, <1>4, StoredIs, StoredIsNext
  <2>2. \A h \in Goroutines : \A k \in DOMAIN buf'[h] : buf'[h][k] # got
    BY <1>2, <1>3, <1>4 DEF PlaceInv
  <2>3. \A i \in DOMAIN buffCh : \A k \in DOMAIN buffCh[i] : buffCh[i][k] # got
    BY <1>3 DEF PlaceInv
  <2>4. QED
    BY <2>1, <2>2, <2>3, StoredIsNext
<1>8. Stored \ {got} \subseteq Stored'
  <2>1. ASSUME NEW h \in Goroutines, NEW k \in DOMAIN buf[h], buf[h][k] # got
        PROVE  buf[h][k] \in Stored'
    <3>1. CASE h # g
      BY <1>2, <3>1, StoredIsNext, Zenon
    <3>2. CASE h = g /\ k - 1 \in DOMAIN buf'[g] /\ buf[g][k] = buf'[g][k - 1]
      BY <3>2, StoredIsNext, Zenon
    <3>3. QED
      BY <1>3, <1>5, <2>1, <3>1, <3>2, Zenon
  <2>2. \A i \in DOMAIN buffCh : \A k \in DOMAIN buffCh[i] : buffCh[i][k] \in Stored'
    BY StoredIsNext, Zenon
  <2>3. QED
    BY <2>1, <2>2, StoredIs
<1>9. \A i \in DOMAIN buffCh', h \in Goroutines :
        \A k \in DOMAIN buffCh'[i], l \in DOMAIN buf'[h] :
          buffCh'[i][k] # buf'[h][l]
  BY <1>2, <1>3, <1>4 DEF PlaceInv
<1>10. \A h, j \in Goroutines : \A k \in DOMAIN buf'[h], l \in DOMAIN buf'[j] :
        buf'[h][k] = buf'[j][l] => h = j /\ k = l
  <2>1. ASSUME NEW h \in Goroutines, NEW k \in DOMAIN buf'[h]
        PROVE  \E m \in DOMAIN buf[h] :
                 buf'[h][k] = buf[h][m] /\ m = IF h = g THEN k + 1 ELSE k
    BY <1>2, <1>3, <1>4, Zenon
  <2>2. SUFFICES ASSUME NEW h \in Goroutines, NEW j \in Goroutines,
                        NEW k \in DOMAIN buf'[h], NEW l \in DOMAIN buf'[j],
                        buf'[h][k] = buf'[j][l]
                 PROVE  h = j /\ k = l
    BY Zenon
  <2>3. PICK m \in DOMAIN buf[h] :
          buf'[h][k] = buf[h][m] /\ m = IF h = g THEN k + 1 ELSE k
    BY <2>1, Zenon
  <2>4. PICK p \in DOMAIN buf[j] :
          buf'[j][l] = buf[j][p] /\ p = IF j = g THEN l + 1 ELSE l
    BY <2>1, Zenon
  <2>5. h = j /\ m = p
    BY <2>2, <2>3, <2>4 DEF PlaceInv
  <2>6. QED
    BY <1>4, <2>3, <2>4, <2>5
<1>11. taken' = taken \cup {got} /\ taken' \subseteq accepted
  BY <1>6, Zenon DEF PlaceInv, got
<1>12. PlaceInv'
  BY <1>7, <1>8, <1>9, <1>10, <1>11 DEF PlaceInv, NothingLost
<1>13. Lost' = Lost
  BY <1>6, <1>7, <1>8, Zenon DEF Lost, got
<1>14. QED
  BY <1>12, <1>13, Zenon

(* Every step keeps the data in their places. *)
LEMMA PlaceStep ==
    ASSUME TypeOK, LockInv, LocalInv, PlaceInv, Next
    PROVE  PlaceInv'
<1>1. ASSUME NEW g \in Putters \cup Getters, Attempt(g) PROVE PlaceInv'
  <2>0. g \in Goroutines
    BY Zenon DEF Goroutines
  <2>1. CASE Call(g) \/ ReadLimit(g) \/ ReadLock(g) \/ CheckGiveBack(g)
    BY <2>1, StillPlace DEF Call, ReadLimit, ReadLock, CheckGiveBack, chanVars,
       fieldVars, histVars
  <2>2. CASE RangeCh(g)
    <3>1. buf[g] = Empty
      BY <2>0, <2>2, Zenon DEF RangeCh, At, LocalInv
    <3>2. UNCHANGED closed
      BY <2>2, Zenon DEF RangeCh, fieldVars
    <3>3. CASE /\ buffCh # <<>> /\ buffCh' = Tail(buffCh)
               /\ buf' = Set(buf, g, Head(buffCh)) /\ UNCHANGED <<loopVars, histVars>>
      BY <2>0, <3>1, <3>2, <3>3, RangePlace, Zenon DEF histVars
    <3>4. CASE Return(g, FALSE) /\ UNCHANGED buffCh
      <4>1. buf' = buf
        BY <2>0, <3>1, <3>4, Zenon DEF Return, Set, TypeOK
      <4>2. QED
        BY <3>2, <3>4, <4>1, StillPlace, Zenon DEF Return
    <3>5. QED
      BY <2>2, <3>3, <3>4, Zenon DEF RangeCh
  <2>3. CASE Entry(g)
    <3>1. UNCHANGED <<closed, buffCh>>
      BY <2>3, Zenon DEF Entry, fieldVars, chanVars
    <3>2. CASE closed /\ Return(g, TRUE)
      BY <2>0, <3>1, <3>2, DropPlace, Zenon DEF Return
    <3>3. CASE UNCHANGED <<buf, loopVars, histVars>>
      BY <3>1, <3>3, StillPlace, Zenon DEF histVars
    <3>4. QED
      BY <2>3, <3>2, <3>3, Zenon DEF Entry
  <2>4. CASE Send(g)
    <3>1. buf' = Set(buf, g, Empty) /\ UNCHANGED <<accepted, taken>>
      BY <2>4, Zenon DEF Send, EndAttempt, Return, histVars
    <3>2. QED
      BY <2>0, <2>4, <3>1, SendPlace, Zenon DEF Send, fieldVars
  <2>5. CASE Drop(g)
    <3>1. /\ buf' = Set(buf, g, Empty) /\ UNCHANGED <<buffCh, accepted, taken>>
          /\ UNCHANGED closed /\ pc[g] = "drop"
      BY <2>5, Zenon DEF Drop, At, Return, chanVars
    <3>2. CASE closed
      BY <2>0, <3>1, <3>2, DropPlace, Zenon
    <3>3. QED
      BY <2>0, <3>1, <3>2, Zenon DEF LockInv
  <2>6. QED
    BY <1>1, <2>1, <2>2, <2>3, <2>4, <2>5, Zenon DEF Attempt
<1>2. ASSUME NEW g \in Putters, PutStep(g) PROVE PlaceInv'
  <2>0. g \in Goroutines
    BY Zenon DEF Goroutines
  <2>1. CASE PutDatum(g)
    <3>1. UNCHANGED <<buffCh, taken, closed>> /\ pc[g] = "put"
      BY <2>1, Zenon DEF PutDatum, At, chanVars, fieldVars
    <3>2. CASE /\ buf' = Set(buf, g, Append(buf[g], Datum(g)))
               /\ accepted' = accepted \cup {Datum(g)}
      BY <3>1, <3>2, PutPlace, Zenon
    <3>3. CASE UNCHANGED <<buf, accepted>>
      BY <3>1, <3>3, StillPlace, Zenon
    <3>4. QED
      BY <2>1, <3>2, <3>3, Zenon DEF PutDatum
  <2>2. CASE Grow(g)
    BY <2>2, GrowPlace, Zenon DEF Grow, At, fieldVars
  <2>3. CASE AddTotal(g) \/ CountBuffer(g) \/ CountDatum(g)
    <3>1. UNCHANGED <<buffCh, buf, accepted, taken, closed>>
      BY <2>3, Zenon DEF AddTotal, CountBuffer, CountDatum, chanVars, histVars
    <3>2. QED
      BY <3>1, StillPlace, Zenon
  <2>4. CASE CheckGrow(g) \/ Lock(g) \/ Recheck(g) \/ RecheckOpen(g)
    BY <2>4, StillPlace DEF CheckGrow, Lock, Recheck, RecheckOpen, chanVars,
       fieldVars, histVars
  <2>5. QED
    BY <1>2, <2>1, <2>2, <2>3, <2>4, Zenon DEF PutStep
<1>3. ASSUME NEW g \in Getters, GetStep(g) PROVE PlaceInv'
  <2>0. g \in Goroutines
    BY Zenon DEF Goroutines
  <2>1. CASE GetDatum(g)
    <3>1. UNCHANGED <<buffCh, accepted, closed>>
      BY <2>1, Zenon DEF GetDatum, chanVars, fieldVars
    <3>2. CASE /\ buf[g] # Empty /\ taken' = taken \cup {Head(buf[g])}
               /\ buf' = Set(buf, g, Tail(buf[g]))
      BY <2>0, <3>1, <3>2, GetPlace, Zenon
    <3>3. CASE UNCHANGED <<buf, taken>>
      BY <3>1, <3>3, StillPlace, Zenon
    <3>4. QED
      BY <2>1, <3>2, <3>3, Zenon DEF GetDatum
  <2>2. CASE SubtractTotal(g) \/ CheckShrink(g)
    BY <2>2, StillPlace DEF SubtractTotal, CheckShrink, chanVars, fieldVars, histVars
  <2>3. CASE Discard(g)
    <3>1. buf' = Set(buf, g, Empty) /\ UNCHANGED <<accepted, taken>>
      BY <2>3, Zenon DEF Discard, EndAttempt, Return, histVars
    <3>2. buf[g] = Empty
      BY <2>0, <2>3, Zenon DEF Discard, At, LocalInv
    <3>3. buf' = buf
      BY <2>0, <3>1, <3>2, Zenon DEF Set, TypeOK
    <3>4. QED
      BY <2>3, <3>1, <3>3, StillPlace, Zenon DEF Discard, chanVars
  <2>4. QED
    BY <1>3, <2>1, <2>2, <2>3, Zenon DEF GetStep
<1>4. ASSUME NEW g \in Closers, Close(g) \/ CloseChannel(g) \/ Drain(g)
      PROVE  PlaceInv'
  <2>0. g \in Goroutines
    BY Zenon DEF Goroutines
  <2>1. CASE Close(g)
    BY <2>1, StillPlace, Zenon DEF Close, chanVars, histVars
  <2>2. CASE CloseChannel(g)
    BY <2>2, StillPlace, Zenon DEF CloseChannel, fieldVars, histVars
  <2>3. CASE Drain(g)
    <3>1. closed /\ UNCHANGED <<buf, accepted, taken, closed>>
      BY <2>0, <2>3, Zenon DEF Drain, At, LockInv, fieldVars, histVars
    <3>2. CASE buffCh # <<>> /\ buffCh' = Tail(buffCh)
      BY <3>1, <3>2, DrainPlace, Zenon
    <3>3. CASE UNCHANGED buffCh
      BY <3>1, <3>3, StillPlace, Zenon
    <3>4. QED
      BY <2>3, <3>2, <3>3, Zenon DEF Drain
  <2>4. QED
    BY <1>4, <2>1, <2>2, <2>3, Zenon
<1>5. QED
  BY <1>1, <1>2, <1>3, <1>4, Zenon DEF Next

(* The data that fit in some buffers. *)
LEMMA Room ==
    /\ \A n \in Int : BufferCap * n \in Int
    /\ \A n \in Int : BufferCap * (n + 1) = BufferCap * n + BufferCap
    /\ \A n \in Nat : BufferCap * n >= 0
    /\ \A m, n \in Int : m <= n => BufferCap * m <= BufferCap * n
<1>1. BufferCap \in Nat
  BY PoolAssumption, Zenon
<1>2. \A n \in Int : BufferCap * n \in Int
  BY <1>1
<1>3. \A n \in Int : BufferCap * (n + 1) = BufferCap * n + BufferCap
  BY <1>1
<1>4. \A n \in Nat : BufferCap * n >= 0
  BY <1>1
<1>5. ASSUME NEW m \in Int, NEW n \in Int, m <= n
      PROVE  BufferCap * m <= BufferCap * n
  <2>1. n - m \in Nat
    BY <1>5
  <2>2. BufferCap * (n - m) >= 0
    BY <1>4, <2>1, Zenon
  <2>3. BufferCap * (n - m) = BufferCap * n - BufferCap * m
    BY <1>1
  <2>4. QED
    BY <1>2, <2>2, <2>3
<1>6. \A m, n \in Int : m <= n => BufferCap * m <= BufferCap * n
  BY <1>5, Zenon
<1>7. QED
  BY <1>2, <1>3, <1>4, <1>6, PTL

(* A buffer has at most BufferCap data. *)
LEMMA ContentsSize ==
    ASSUME NEW b \in Buffers
    PROVE  /\ IsFiniteSet(Contents(b)) /\ Cardinality(Contents(b)) \in Nat
           /\ Cardinality(Contents(b)) <= BufferCap
<1>1. b \in Seq(Data) /\ Len(b) <= BufferCap
  BY BuffersAreSequences, Zenon
<1>2. Len(b) \in Nat /\ DOMAIN b = 1..Len(b)
  BY <1>1
<1>3. b \in [1..Len(b) -> Contents(b)]
  BY <1>1, <1>2, ContentsIs
<1>4. \A d \in Contents(b) : \E k \in 1..Len(b) : b[k] = d
  BY <1>2, ContentsIs, Zenon
<1>5. b \in Surjection(1..Len(b), Contents(b))
  BY <1>3, <1>4, Zenon DEF Surjection
<1>6. IsFiniteSet(1..Len(b)) /\ Cardinality(1..Len(b)) = Len(b)
  <2>1. /\ IsFiniteSet(1..Len(b))
        /\ Cardinality(1..Len(b)) = IF 1 > Len(b) THEN 0 ELSE Len(b) - 1 + 1
    <3>1. 1 \in Int /\ Len(b) \in Int
      BY <1>2
    <3>2. QED
      BY <3>1, FS_Interval, Zenon
  <2>2. QED
    BY <1>2, <2>1
<1>7. IsFiniteSet(Contents(b)) /\ Cardinality(Contents(b)) <= Len(b)
  BY <1>5, <1>6, FS_Surjection
<1>8. Cardinality(Contents(b)) \in Nat
  BY <1>7, FS_CardinalityType, Zenon
<1>9. QED
  BY <1>1, <1>2, <1>7, <1>8, PoolAssumption

(* The lost data are finitely many. *)
LEMMA LostFinite ==
    ASSUME PlaceInv
    PROVE  IsFiniteSet(Lost) /\ Cardinality(Lost) \in Nat
<1>1. IsFiniteSet(accepted) /\ Lost \in SUBSET accepted
  BY Zenon DEF PlaceInv, Lost
<1>2. IsFiniteSet(Lost)
  BY <1>1, FS_Subset, Zenon
<1>3. QED
  BY <1>2, FS_CardinalityType, Zenon

(* The buffers are never more than the maximum. *)
LEMMA BuffersOutType ==
    ASSUME TypeOK, CountInv
    PROVE  /\ BuffersOut \in Nat /\ bufferNumber \in Nat
           /\ BuffersOut <= MaxBufferNumber /\ bufferNumber <= MaxBufferNumber
<1>1. Len(buffCh) \in Nat /\ Cardinality(Holders) \in Nat
  BY FS_CardinalityType DEF TypeOK, CountInv
<1>2. Uncounted \in {0, 1}
  BY Zenon DEF Uncounted
<1>3. BuffersOut \in Nat
  BY <1>1 DEF BuffersOut
<1>4. QED
  BY <1>2, <1>3, PoolAssumption DEF CountInv

(* An open pool has lost nothing. *)
LEMMA OpenLost ==
    ASSUME TypeOK, LockInv, CountInv, PlaceInv, ~closed
    PROVE  LostInv
<1>1. Lost = {}
  BY Zenon DEF PlaceInv, NothingLost, Lost
<1>2. Cardinality(Lost) = 0
  BY <1>1, FS_EmptySet, Zenon
<1>3. /\ BuffersOut \in Nat /\ bufferNumber \in Nat
      /\ BuffersOut <= MaxBufferNumber /\ bufferNumber <= MaxBufferNumber
  BY BuffersOutType, Zenon
<1>4. 0 <= BufferCap * (MaxBufferNumber - BuffersOut)
  <2>1. MaxBufferNumber - BuffersOut \in Nat
    BY <1>3, PoolAssumption
  <2>2. QED
    BY <2>1, Room, Zenon
<1>5. ASSUME NEW g \in Goroutines, pc[g] = "grow"
      PROVE  0 <= BufferCap * (bufferNumber - BuffersOut)
  <2>1. \A h \in Goroutines : pc[h] # "countBuffer"
    BY <1>5, WriterAlone, Zenon
  <2>2. Uncounted = 0
    BY <2>1, Zenon DEF Uncounted
  <2>3. bufferNumber - BuffersOut \in Nat
    BY <1>3, <2>2 DEF CountInv
  <2>4. QED
    BY <2>3, Room, Zenon
<1>6. QED
  BY <1>2, <1>4, <1>5, Zenon DEF LostInv

(* Steps that lose no datum and no buffer. *)
LEMMA NoneLost ==
    ASSUME PlaceInv, LostInv, Lost' = Lost, BuffersOut' = BuffersOut,
           bufferNumber' = bufferNumber,
           \A h \in Goroutines : pc'[h] = "grow" => pc[h] = "grow"
    PROVE  LostInv'
BY Zenon DEF LostInv

(* A step of a goroutine that keeps the buffer that it has. *)
LEMMA MoveLost ==
    ASSUME LockInv, PlaceInv, LostInv, NEW g \in Goroutines, NEW l \in Lines,
           Goto(g, l), pc[g] \in HeldLines <=> l \in HeldLines, l # "grow",
           Lost' = Lost, UNCHANGED <<buffCh, bufferNumber>>
    PROVE  LostInv'
<1>1. Holders' = Holders
  BY HoldersStay, Zenon
<1>2. BuffersOut' = BuffersOut
  BY <1>1, Zenon DEF BuffersOut
<1>3. \A h \in Goroutines : pc'[h] = "grow" => pc[h] = "grow"
  BY Zenon DEF Goto, LockInv
<1>4. QED
  BY <1>2, <1>3, NoneLost, Zenon

(* A buffer is gone with what is in it. *)
LEMMA BufferLost ==
    ASSUME TypeOK, CountInv, PlaceInv, PlaceInv', LostInv, NEW b \in Buffers,
           Lost' \subseteq Lost \cup Contents(b), BuffersOut' = BuffersOut - 1,
           \A h \in Goroutines :
             pc'[h] = "grow" => pc[h] = "grow" /\ bufferNumber' = bufferNumber
    PROVE  LostInv'
<1>1. IsFiniteSet(Lost) /\ Cardinality(Lost) \in Nat
  BY LostFinite, Zenon
<1>2. /\ IsFiniteSet(Contents(b)) /\ Cardinality(Contents(b)) \in Nat
      /\ Cardinality(Contents(b)) <= BufferCap
  BY ContentsSize, Zenon
<1>3. /\ IsFiniteSet(Lost \cup Contents(b)) /\ IsFiniteSet(Lost \cap Contents(b))
      /\ Cardinality(Lost \cup Contents(b)) =
           Cardinality(Lost) + Cardinality(Contents(b))
             - Cardinality(Lost \cap Contents(b))
  BY <1>1, <1>2, FS_Union, FS_Intersection, Zenon
<1>4. Cardinality(Lost \cap Contents(b)) \in Nat
  BY <1>3, FS_CardinalityType, Zenon
<1>5. IsFiniteSet(Lost') /\ Cardinality(Lost') <= Cardinality(Lost \cup Contents(b))
  BY <1>3, FS_Subset, Zenon
<1>6. Cardinality(Lost') \in Nat
  BY <1>5, FS_CardinalityType, Zenon
<1>7. Cardinality(Lost') <= Cardinality(Lost) + BufferCap
  BY <1>1, <1>2, <1>3, <1>4, <1>5, <1>6, PoolAssumption
<1>8. /\ BuffersOut \in Nat /\ bufferNumber \in Nat
  BY BuffersOutType, Zenon
<1>9. BufferCap * (MaxBufferNumber - BuffersOut') =
        BufferCap * (MaxBufferNumber - BuffersOut) + BufferCap
  <2>1. /\ MaxBufferNumber - BuffersOut \in Int
        /\ MaxBufferNumber - BuffersOut' = (MaxBufferNumber - BuffersOut) + 1
    BY <1>8, PoolAssumption
  <2>2. QED
    BY <2>1, Room, Zenon
<1>10. BufferCap * (bufferNumber - BuffersOut') =
         BufferCap * (bufferNumber - BuffersOut) + BufferCap
  <2>1. /\ bufferNumber - BuffersOut \in Int
        /\ bufferNumber - BuffersOut' = (bufferNumber - BuffersOut) + 1
    BY <1>8
  <2>2. QED
    BY <2>1, Room, Zenon
<1>11. /\ BufferCap * (MaxBufferNumber - BuffersOut) \in Int
       /\ BufferCap * (bufferNumber - BuffersOut) \in Int
  BY <1>8, Room, PoolAssumption
<1>12. Cardinality(Lost') <= BufferCap * (MaxBufferNumber - BuffersOut')
  BY <1>1, <1>6, <1>7, <1>9, <1>11, PoolAssumption DEF LostInv
<1>13. ASSUME NEW h \in Goroutines, pc'[h] = "grow"
       PROVE  Cardinality(Lost') <= BufferCap * (bufferNumber' - BuffersOut')
  BY <1>1, <1>6, <1>7, <1>10, <1>11, <1>13, PoolAssumption DEF LostInv
<1>14. QED
  BY <1>12, <1>13, Zenon DEF LostInv

(* The same as an implication. *)
LEMMA OpenLostImplied ==
    TypeOK /\ LockInv /\ CountInv /\ PlaceInv /\ ~closed => LostInv
BY OpenLost, Zenon

(* The same of the next state. *)
LEMMA OpenLostNext ==
    ASSUME TypeOK', LockInv', CountInv', PlaceInv', ~closed'
    PROVE  LostInv'
<1>1. (TypeOK /\ LockInv /\ CountInv /\ PlaceInv /\ ~closed => LostInv)'
  BY OpenLostImplied, PTL
<1>2. QED
  BY <1>1, Zenon

(* RangeCh and Send: the buffer goes from the channel to a goroutine and back. *)
LEMMA PassLost ==
    ASSUME TypeOK, LockInv, CountInv, PlaceInv, LostInv, NEW g \in Goroutines,
           \/ pc[g] \notin HeldLines /\ Goto(g, "entry") /\ Len(buffCh') = Len(buffCh) - 1
           \/ /\ pc[g] \in HeldLines /\ Len(buffCh') = Len(buffCh) + 1
              /\ Goto(g, "idle") \/ Goto(g, "range"),
           Lost' = Lost, bufferNumber' = bufferNumber
    PROVE  LostInv'
<1>1. \A h \in Goroutines : pc'[h] = "grow" => pc[h] = "grow"
  BY Zenon DEF Goto, LockInv
<1>2. Cardinality(Holders) \in Nat /\ Len(buffCh) \in Nat
  BY FS_CardinalityType DEF CountInv, TypeOK
<1>3. BuffersOut' = BuffersOut
  <2>1. CASE /\ pc[g] \notin HeldLines /\ Goto(g, "entry")
             /\ Len(buffCh') = Len(buffCh) - 1
    <3>1. Cardinality(Holders') = Cardinality(Holders) + 1
      BY <2>1, HoldersEnter, Zenon DEF CountInv
    <3>2. QED
      BY <1>2, <2>1, <3>1 DEF BuffersOut
  <2>2. CASE /\ pc[g] \in HeldLines /\ Len(buffCh') = Len(buffCh) + 1
             /\ Goto(g, "idle") \/ Goto(g, "range")
    <3>1. Cardinality(Holders') = Cardinality(Holders) - 1
      BY <2>2, HoldersLeave, Zenon DEF CountInv
    <3>2. QED
      BY <1>2, <2>2, <3>1 DEF BuffersOut
  <2>3. QED
    BY <2>1, <2>2, Zenon
<1>4. QED
  BY <1>1, <1>3, NoneLost, Zenon

(* A goroutine gives up the buffer that it has. *)
LEMMA DropLost ==
    ASSUME TypeOK, LockInv, CountInv, PlaceInv, PlaceInv', LostInv,
           NEW g \in Goroutines, pc[g] \in HeldLines, Goto(g, "idle"),
           Lost' \subseteq Lost \cup Contents(buf[g]), UNCHANGED buffCh,
           \A h \in Goroutines : pc[h] = "grow" => bufferNumber' = bufferNumber
    PROVE  LostInv'
<1>1. \A h \in Goroutines :
        pc'[h] = "grow" => pc[h] = "grow" /\ bufferNumber' = bufferNumber
  BY Zenon DEF Goto, LockInv
<1>2. Cardinality(Holders) \in Nat /\ Len(buffCh) \in Nat
  BY FS_CardinalityType DEF CountInv, TypeOK
<1>3. Cardinality(Holders') = Cardinality(Holders) - 1
  BY HoldersLeave, Zenon DEF CountInv
<1>4. BuffersOut' = BuffersOut - 1
  BY <1>2, <1>3 DEF BuffersOut
<1>5. buf[g] \in Buffers
  BY Zenon DEF TypeOK
<1>6. QED
  BY <1>1, <1>4, <1>5, BufferLost, Zenon

(* Grow: a buffer that is not counted yet. *)
LEMMA GrowLost ==
    ASSUME TypeOK, LockInv, LocalInv, CountInv, PlaceInv, LostInv, NEW g \in Putters,
           Grow(g)
    PROVE  LostInv'
<1>0. g \in Goroutines
  BY Zenon DEF Goroutines
<1>1. pc[g] = "grow" /\ Goto(g, "countBuffer")
  BY Zenon DEF Grow, At
<1>2. Lost' = Lost
  BY <1>1, GrowPlace, Zenon DEF Grow, fieldVars
<1>3. \A h \in Goroutines : pc'[h] # "grow"
  BY <1>0, <1>1, WriterAlone, Zenon DEF Goto, LockInv
<1>4. Len(buffCh') = Len(buffCh) + 1
  BY DEF Grow, TypeOK
<1>5. Holders' = Holders
  BY <1>0, <1>1, HoldersStay, Zenon
<1>6. Cardinality(Holders) \in Nat /\ Len(buffCh) \in Nat
  BY FS_CardinalityType DEF CountInv, TypeOK
<1>7. BuffersOut' = BuffersOut + 1
  BY <1>4, <1>5, <1>6 DEF BuffersOut
<1>8. BuffersOut \in Nat /\ bufferNumber \in Nat
  BY BuffersOutType, Zenon
<1>9. bufferNumber - BuffersOut <= MaxBufferNumber - BuffersOut'
  BY <1>0, <1>1, <1>7, <1>8, PoolAssumption DEF CountInv
<1>10. BufferCap * (bufferNumber - BuffersOut)
         <= BufferCap * (MaxBufferNumber - BuffersOut')
  <2>1. /\ bufferNumber - BuffersOut \in Int
        /\ MaxBufferNumber - BuffersOut' \in Int
    BY <1>7, <1>8, PoolAssumption
  <2>2. QED
    BY <1>9, <2>1, Room, Zenon
<1>11. /\ BufferCap * (bufferNumber - BuffersOut) \in Int
       /\ BufferCap * (MaxBufferNumber - BuffersOut') \in Int
       /\ Cardinality(Lost) \in Nat
  <2>1. /\ bufferNumber - BuffersOut \in Int
        /\ MaxBufferNumber - BuffersOut' \in Int
    BY <1>7, <1>8, PoolAssumption
  <2>2. QED
    BY <2>1, Room, LostFinite, Zenon
<1>12. Cardinality(Lost) <= BufferCap * (bufferNumber - BuffersOut)
  BY <1>0, <1>1, Zenon DEF LostInv
<1>13. Cardinality(Lost') <= BufferCap * (MaxBufferNumber - BuffersOut')
  BY <1>2, <1>10, <1>11, <1>12
<1>14. QED
  BY <1>3, <1>13, Zenon DEF LostInv

(* Discard: the empty buffer is gone and counted out. *)
LEMMA DiscardLost ==
    ASSUME TypeOK, LockInv, CountInv, PlaceInv, LostInv, NEW g \in Goroutines,
           Discard(g), Lost' = Lost
    PROVE  LostInv'
<1>1. PICK l \in {"idle", "range"} : Goto(g, l)
  BY Zenon DEF Discard, EndAttempt, Return
<1>2. \A h \in Goroutines : pc'[h] = "grow" => pc[h] = "grow"
  BY <1>1, Zenon DEF Goto, LockInv
<1>3. Cardinality(Holders) \in Nat /\ Len(buffCh) \in Nat
  BY FS_CardinalityType DEF CountInv, TypeOK
<1>4. Cardinality(Holders') = Cardinality(Holders) - 1
  BY <1>1, HoldersLeave, Zenon DEF CountInv, Discard, At
<1>5. UNCHANGED buffCh /\ bufferNumber' = bufferNumber - 1
  BY Zenon DEF Discard, chanVars
<1>6. BuffersOut' = BuffersOut - 1
  BY <1>3, <1>4, <1>5 DEF BuffersOut
<1>7. BuffersOut \in Nat /\ bufferNumber \in Nat
  BY BuffersOutType, Zenon
<1>8. bufferNumber' - BuffersOut' = bufferNumber - BuffersOut
  BY <1>5, <1>6, <1>7
<1>9. /\ BufferCap * (MaxBufferNumber - BuffersOut') =
           BufferCap * (MaxBufferNumber - BuffersOut) + BufferCap
      /\ BufferCap * (MaxBufferNumber - BuffersOut) \in Int
  <2>1. /\ MaxBufferNumber - BuffersOut \in Int
        /\ MaxBufferNumber - BuffersOut' = (MaxBufferNumber - BuffersOut) + 1
    BY <1>6, <1>7, PoolAssumption
  <2>2. QED
    BY <2>1, Room, Zenon
<1>10. Cardinality(Lost) \in Nat /\ BufferCap \in Nat
  BY LostFinite, PoolAssumption, Zenon
<1>11. Cardinality(Lost') <= BufferCap * (MaxBufferNumber - BuffersOut')
  BY <1>9, <1>10 DEF LostInv
<1>12. QED
  BY <1>2, <1>8, <1>11, Zenon DEF LostInv

(* Every step keeps the bound on what is lost. *)
LEMMA LostStep ==
    ASSUME TypeOK, LockInv, LocalInv, CountInv, PlaceInv, LostInv,
           TypeOK', LockInv', CountInv', PlaceInv', Next
    PROVE  LostInv'
<1>1. ASSUME NEW g \in Putters \cup Getters, Attempt(g) PROVE LostInv'
  <2>0. g \in Goroutines
    BY Zenon DEF Goroutines
  <2>1. CASE Call(g) \/ ReadLimit(g) \/ ReadLock(g) \/ CheckGiveBack(g)
    <3>1. PICK l \in Lines : /\ Goto(g, l) /\ l # "grow"
                             /\ pc[g] \in HeldLines <=> l \in HeldLines
      BY <2>1, Zenon DEF Call, ReadLimit, ReadLock, CheckGiveBack, At
    <3>2. UNCHANGED <<buffCh, buf, accepted, taken, closed, bufferNumber>>
      BY <2>1, Zenon DEF Call, ReadLimit, ReadLock, CheckGiveBack, chanVars, fieldVars, histVars
    <3>3. Lost' = Lost
      BY <3>2, StillPlace, Zenon
    <3>4. QED
      BY <2>0, <3>1, <3>2, <3>3, MoveLost, Zenon
  <2>2. CASE RangeCh(g)
    <3>1. buf[g] = Empty /\ pc[g] = "range" /\ UNCHANGED <<closed, bufferNumber>>
      BY <2>0, <2>2, Zenon DEF RangeCh, At, LocalInv, fieldVars
    <3>2. CASE /\ buffCh # <<>> /\ buffCh' = Tail(buffCh)
               /\ buf' = Set(buf, g, Head(buffCh)) /\ Goto(g, "entry")
               /\ UNCHANGED <<loopVars, histVars>>
      <4>1. Lost' = Lost
        BY <2>0, <3>1, <3>2, RangePlace, Zenon DEF histVars
      <4>2. Len(buffCh') = Len(buffCh) - 1
        BY <3>2 DEF TypeOK
      <4>3. QED
        BY <2>0, <3>1, <3>2, <4>1, <4>2, PassLost, Zenon
    <3>3. CASE Return(g, FALSE) /\ UNCHANGED buffCh
      <4>1. buf' = buf
        BY <2>0, <3>1, <3>3, Zenon DEF Return, Set, TypeOK
      <4>2. Lost' = Lost
        BY <3>1, <3>3, <4>1, StillPlace, Zenon DEF Return
      <4>3. Goto(g, "idle")
        BY <3>3, Zenon DEF Return
      <4>4. QED
        BY <2>0, <3>1, <3>3, <4>2, <4>3, MoveLost, Zenon
    <3>4. QED
      BY <2>2, <3>2, <3>3, Zenon DEF RangeCh
  <2>3. CASE Entry(g)
    <3>1. UNCHANGED <<closed, buffCh, bufferNumber>> /\ pc[g] = "entry"
      BY <2>3, Zenon DEF Entry, At, fieldVars, chanVars
    <3>2. CASE closed /\ Return(g, TRUE)
      <4>1. Lost' \subseteq Lost \cup Contents(buf[g])
        BY <2>0, <3>1, <3>2, DropPlace, Zenon DEF Return
      <4>2. QED
        BY <2>0, <3>1, <3>2, <4>1, DropLost, Zenon DEF Return
    <3>3. CASE /\ Goto(g, IF g \in Putters THEN "put" ELSE "get")
               /\ UNCHANGED <<buf, loopVars, histVars>>
      <4>1. Lost' = Lost
        BY <3>1, <3>3, StillPlace, Zenon DEF histVars
      <4>2. QED
        BY <2>0, <3>1, <3>3, <4>1, MoveLost, Zenon
    <3>4. QED
      BY <2>3, <3>2, <3>3, Zenon DEF Entry
  <2>4. CASE Send(g)
    <3>1. buf' = Set(buf, g, Empty) /\ UNCHANGED <<accepted, taken>>
      BY <2>4, Zenon DEF Send, EndAttempt, Return, histVars
    <3>2. Goto(g, "idle") \/ Goto(g, "range")
      BY <2>4, Zenon DEF Send, EndAttempt, Return
    <3>3. Lost' = Lost
      BY <2>0, <2>4, <3>1, SendPlace, Zenon DEF Send, fieldVars
    <3>4. Len(buffCh') = Len(buffCh) + 1 /\ pc[g] = "send" /\ bufferNumber' = bufferNumber
      BY <2>4 DEF Send, At, TypeOK, fieldVars
    <3>5. QED
      BY <2>0, <3>2, <3>3, <3>4, PassLost, Zenon
  <2>5. CASE Drop(g)
    <3>1. /\ buf' = Set(buf, g, Empty) /\ UNCHANGED <<buffCh, accepted, taken>>
          /\ UNCHANGED closed /\ pc[g] = "drop" /\ Goto(g, "idle")
      BY <2>5, Zenon DEF Drop, At, Return, chanVars
    <3>2. closed
      BY <2>0, <3>1, Zenon DEF LockInv
    <3>3. Lost' \subseteq Lost \cup Contents(buf[g])
      BY <2>0, <3>1, <3>2, DropPlace, Zenon
    <3>4. \A h \in Goroutines : pc[h] # "grow"
      BY <2>0, <3>1, WriterAlone, Zenon
    <3>5. QED
      BY <2>0, <3>1, <3>3, <3>4, DropLost, Zenon
  <2>6. QED
    BY <1>1, <2>1, <2>2, <2>3, <2>4, <2>5, Zenon DEF Attempt
<1>2. ASSUME NEW g \in Putters, PutStep(g) PROVE LostInv'
  <2>0. g \in Goroutines
    BY Zenon DEF Goroutines
  <2>1. CASE PutDatum(g)
    <3>1. /\ UNCHANGED <<buffCh, taken, closed, bufferNumber>> /\ pc[g] = "put"
      BY <2>1, Zenon DEF PutDatum, At, chanVars, fieldVars
    <3>2. Goto(g, "add") \/ Goto(g, "full")
      BY <2>1, Zenon DEF PutDatum
    <3>3. CASE /\ buf' = Set(buf, g, Append(buf[g], Datum(g)))
               /\ accepted' = accepted \cup {Datum(g)}
      <4>1. Lost' = Lost
        BY <3>1, <3>3, PutPlace, Zenon
      <4>2. QED
        BY <2>0, <3>1, <3>2, <4>1, MoveLost, Zenon
    <3>4. CASE UNCHANGED <<buf, accepted>>
      <4>1. Lost' = Lost
        BY <3>1, <3>4, StillPlace, Zenon
      <4>2. QED
        BY <2>0, <3>1, <3>2, <4>1, MoveLost, Zenon
    <3>5. QED
      BY <2>1, <3>3, <3>4, Zenon DEF PutDatum
  <2>2. CASE AddTotal(g) \/ CountDatum(g) \/ CheckGrow(g) \/ Lock(g)
    <3>1. PICK l \in {"defer", "lock", "recheck"} : Goto(g, l)
      BY <2>2, Zenon DEF AddTotal, CountDatum, CheckGrow, Lock
    <3>2. /\ UNCHANGED <<buffCh, buf, accepted, taken, closed, bufferNumber>>
          /\ pc[g] \in {"add", "countDatum", "full", "lock"}
      BY <2>2, Zenon DEF AddTotal, CountDatum, CheckGrow, Lock, At, chanVars, fieldVars, histVars
    <3>3. Lost' = Lost
      BY <3>2, StillPlace, Zenon
    <3>4. QED
      BY <2>0, <3>1, <3>2, <3>3, MoveLost, Zenon
  <2>3. CASE Recheck(g) \/ RecheckOpen(g)
    <3>1. /\ UNCHANGED <<buffCh, buf, accepted, taken, closed, bufferNumber>>
          /\ pc[g] \in {"recheck", "reopen"}
      BY <2>3, Zenon DEF Recheck, RecheckOpen, At, chanVars, fieldVars, histVars
    <3>2. Lost' = Lost
      BY <3>1, StillPlace, Zenon
    <3>3. CASE ~closed
      BY <3>1, <3>3, OpenLostNext, Zenon
    <3>4. CASE closed
      <4>1. Goto(g, "reopen") \/ Goto(g, "defer")
        BY <2>3, <3>4, Zenon DEF Recheck, RecheckOpen
      <4>2. QED
        BY <2>0, <3>1, <3>2, <4>1, MoveLost, Zenon
    <3>5. QED
      BY <3>3, <3>4, Zenon
  <2>4. CASE Grow(g)
    BY <2>4, GrowLost, Zenon
  <2>5. CASE CountBuffer(g)
    <3>1. /\ UNCHANGED <<buffCh, buf, accepted, taken, closed>>
          /\ pc[g] = "countBuffer" /\ Goto(g, "countDatum")
      BY <2>5, Zenon DEF CountBuffer, At, chanVars, histVars
    <3>2. Lost' = Lost
      BY <3>1, StillPlace, Zenon
    <3>3. Holders' = Holders
      BY <2>0, <3>1, HoldersStay, Zenon
    <3>4. BuffersOut' = BuffersOut
      BY <3>1, <3>3, Zenon DEF BuffersOut
    <3>5. \A h \in Goroutines : pc'[h] # "grow"
      BY <2>0, <3>1, WriterAlone, Zenon DEF Goto, LockInv
    <3>6. QED
      BY <3>2, <3>4, <3>5, Zenon DEF LostInv
  <2>6. QED
    BY <1>2, <2>1, <2>2, <2>3, <2>4, <2>5, Zenon DEF PutStep
<1>3. ASSUME NEW g \in Getters, GetStep(g) PROVE LostInv'
  <2>0. g \in Goroutines
    BY Zenon DEF Goroutines
  <2>1. CASE GetDatum(g)
    <3>1. UNCHANGED <<buffCh, accepted, closed, bufferNumber>> /\ pc[g] = "get"
      BY <2>1, Zenon DEF GetDatum, At, chanVars, fieldVars
    <3>2. Goto(g, "subtract") \/ Goto(g, "shrink")
      BY <2>1, Zenon DEF GetDatum
    <3>3. CASE /\ buf[g] # Empty /\ taken' = taken \cup {Head(buf[g])}
               /\ buf' = Set(buf, g, Tail(buf[g]))
      <4>1. Lost' = Lost
        BY <2>0, <3>1, <3>3, GetPlace, Zenon
      <4>2. QED
        BY <2>0, <3>1, <3>2, <4>1, MoveLost, Zenon
    <3>4. CASE UNCHANGED <<buf, taken>>
      <4>1. Lost' = Lost
        BY <3>1, <3>4, StillPlace, Zenon
      <4>2. QED
        BY <2>0, <3>1, <3>2, <4>1, MoveLost, Zenon
    <3>5. QED
      BY <2>1, <3>3, <3>4, Zenon DEF GetDatum
  <2>2. CASE SubtractTotal(g) \/ CheckShrink(g)
    <3>1. PICK l \in {"shrink", "discard", "defer"} : Goto(g, l)
      BY <2>2, Zenon DEF SubtractTotal, CheckShrink
    <3>2. /\ UNCHANGED <<buffCh, buf, accepted, taken, closed, bufferNumber>>
          /\ pc[g] \in {"subtract", "shrink"}
      BY <2>2, Zenon DEF SubtractTotal, CheckShrink, At, chanVars, fieldVars, histVars
    <3>3. Lost' = Lost
      BY <3>2, StillPlace, Zenon
    <3>4. QED
      BY <2>0, <3>1, <3>2, <3>3, MoveLost, Zenon
  <2>3. CASE Discard(g)
    <3>1. buf' = Set(buf, g, Empty) /\ UNCHANGED <<accepted, taken>>
      BY <2>3, Zenon DEF Discard, EndAttempt, Return, histVars
    <3>2. buf[g] = Empty
      BY <2>0, <2>3, Zenon DEF Discard, At, LocalInv
    <3>3. buf' = buf
      BY <2>0, <3>1, <3>2, Zenon DEF Set, TypeOK
    <3>4. Lost' = Lost
      BY <2>3, <3>1, <3>3, StillPlace, Zenon DEF Discard, chanVars
    <3>5. QED
      BY <2>0, <2>3, <3>4, DiscardLost, Zenon
  <2>4. QED
    BY <1>3, <2>1, <2>2, <2>3, Zenon DEF GetStep
<1>4. ASSUME NEW g \in Closers, Close(g) \/ CloseChannel(g) \/ Drain(g)
      PROVE  LostInv'
  <2>0. g \in Goroutines
    BY Zenon DEF Goroutines
  <2>1. CASE Close(g) \/ CloseChannel(g)
    <3>1. /\ UNCHANGED <<buffCh, buf, accepted, taken, bufferNumber>>
          /\ closed => closed'
      BY <2>1 DEF Close, CloseChannel, chanVars, fieldVars, histVars
    <3>2. Lost' = Lost
      BY <3>1, StillPlace, Zenon
    <3>3. PICK l \in {"idle", "closeLock", "drain"} : Goto(g, l)
      BY <2>1, Zenon DEF Close, CloseChannel
    <3>4. pc[g] \notin HeldLines
      BY <2>1, Zenon DEF Close, CloseChannel, At
    <3>5. QED
      BY <2>0, <3>1, <3>2, <3>3, <3>4, MoveLost, Zenon
  <2>2. CASE Drain(g)
    <3>1. closed /\ UNCHANGED <<buf, accepted, taken, closed, bufferNumber>>
      BY <2>0, <2>2, Zenon DEF Drain, At, LockInv, fieldVars, histVars
    <3>2. CASE buffCh # <<>> /\ buffCh' = Tail(buffCh) /\ UNCHANGED pc
      <4>1. Lost' \subseteq Lost \cup Contents(Head(buffCh))
        BY <3>1, <3>2, DrainPlace, Zenon
      <4>2. Len(buffCh') = Len(buffCh) - 1 /\ Head(buffCh) \in Buffers
        BY <3>2 DEF TypeOK
      <4>3. Cardinality(Holders) \in Nat /\ Len(buffCh) \in Nat
        BY FS_CardinalityType DEF CountInv, TypeOK
      <4>4. Holders' = Holders
        BY <3>2, Zenon DEF Holders
      <4>5. BuffersOut' = BuffersOut - 1
        BY <4>2, <4>3, <4>4 DEF BuffersOut
      <4>6. QED
        BY <3>1, <3>2, <4>1, <4>2, <4>5, BufferLost, Zenon
    <3>3. CASE UNCHANGED buffCh /\ Goto(g, "idle")
      <4>1. Lost' = Lost
        BY <3>1, <3>3, StillPlace, Zenon
      <4>2. pc[g] = "drain"
        BY <2>2, Zenon DEF Drain, At
      <4>3. QED
        BY <2>0, <3>1, <3>3, <4>1, <4>2, MoveLost, Zenon
    <3>4. QED
      BY <2>2, <3>2, <3>3, Zenon DEF Drain
  <2>3. QED
    BY <1>4, <2>1, <2>2, Zenon
<1>5. QED
  BY <1>1, <1>2, <1>3, <1>4, Zenon DEF Next

=============================================================================
