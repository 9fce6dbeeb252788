------------------------- MODULE SourceCachesProofs -------------------------
(***************************************************************************)
(* Proofs about the scene and raster caches of an SVG source.              *)
(***************************************************************************)
EXTENDS SourceCaches, FiniteSums, SequenceTheorems

----------------------------------------------------------------------------
(* Bytes, the sum of what is kept. *)

LEMMA BytesAreSum ==
  ASSUME NEW B \in SUBSET Nat, NEW kept \in Seq(Entries(B))
  PROVE  /\ IsFiniteSet(DOMAIN kept) /\ Weights(Weight(kept), DOMAIN kept)
         /\ Bytes(kept) = SumFunctionOnSet(Weight(kept), DOMAIN kept)
         /\ Bytes(kept) \in Nat /\ Sized(kept) /\ Bytes(kept) = Total(kept)
PROOF
  <1>1. Sized(kept)
    <2>1. ASSUME NEW i \in DOMAIN kept
          PROVE  kept[i] \in Entries(B)
      BY LenProperties, ElementOfSeq
    <2>2. QED
      BY <2>1 DEF Sized, Entries
  <1>2. Bytes(kept) = Total(kept)
    BY DEF Bytes, Total
  <1>3. QED
    BY <1>1, <1>2, TotalAddsUp

LEMMA BytesOfNone == Bytes(<<>>) = 0
  BY TotalOfNone DEF Bytes, Total

LEMMA BytesConcat ==
  ASSUME NEW B \in SUBSET Nat, NEW a \in Seq(Entries(B)), NEW b \in Seq(Entries(B))
  PROVE  Bytes(a \o b) = Bytes(a) + Bytes(b)
PROOF
  <1>1. /\ Sized(a) /\ Sized(b)
        /\ Bytes(a) = Total(a) /\ Bytes(b) = Total(b)
    BY BytesAreSum
  <1>2. a \o b \in Seq(Entries(B))
    OBVIOUS
  <1>3. Bytes(a \o b) = Total(a \o b)
    BY <1>2, BytesAreSum
  <1>4. QED
    BY <1>1, <1>3, TotalOfConcat

----------------------------------------------------------------------------
(* What the operators on kept sizes return. *)

LEMMA MinIsLeast ==
  ASSUME NEW S \in SUBSET Nat, S # {}
  PROVE  Min(S) \in S /\ \A n \in S : Min(S) <= n
  BY LeastNatural DEF Min

LEMMA IndexFinds ==
  ASSUME NEW B, NEW kept \in Seq(Entries(B)), NEW size
  PROVE  /\ Index(kept, size) \in 0..Len(kept)
         /\ Index(kept, size) = 0 <=>
              ~ \E i \in 1..Len(kept) : SameSize(kept[i].size, size)
PROOF
  <1> DEFINE I == {i \in 1..Len(kept) : SameSize(kept[i].size, size)}
  <1>1. Index(kept, size) = IF I # {} THEN Min(I) ELSE 0
    BY Zenon DEF Index, SelectInSeq
  <1>2. Len(kept) \in Nat /\ I \in SUBSET Nat
    BY LenProperties
  <1>3. CASE I = {}
    <2>1. Index(kept, size) = 0
      BY <1>1, <1>3
    <2>2. QED
      BY <1>2, <1>3, <2>1
  <1>4. CASE I # {}
    <2>1. Index(kept, size) \in I
      BY <1>1, <1>2, <1>4, MinIsLeast
    <2>2. QED
      BY <1>2, <2>1
  <1>5. QED
    BY <1>3, <1>4

Distinct(kept) ==
  \A i, j \in 1..Len(kept) : SameSize(kept[i].size, kept[j].size) => i = j

\* Touch moves one entry to the end.
LEMMA TouchMoves ==
  ASSUME NEW B \in SUBSET Nat, NEW kept \in Seq(Entries(B)), NEW size,
         Index(kept, size) # 0
  PROVE  LET touched == Touch(kept, size) IN
         /\ touched \in Seq(Entries(B)) /\ Len(touched) = Len(kept)
         /\ Bytes(touched) = Bytes(kept)
         /\ \A j \in 1..Len(kept) : \E i \in 1..Len(kept) : touched[j] = kept[i]
         /\ Distinct(kept) => Distinct(touched)
PROOF
  <1> DEFINE i == Index(kept, size)
             n == Len(kept)
             front == SubSeq(kept, 1, i - 1)
             back == SubSeq(kept, i + 1, n)
             touched == Touch(kept, size)
  <1>1. n \in Nat /\ i \in 1..n
    BY IndexFinds, LenProperties
  <1>2. \A j \in 1..n : kept[j] \in Entries(B)
    BY <1>1, ElementOfSeq
  <1> HIDE DEF i
  <1>3. /\ front \in Seq(Entries(B)) /\ Len(front) = i - 1
        /\ \A j \in 1..(i - 1) : front[j] = kept[j]
    <2>1. \A j \in 1..(i - 1) : kept[j] \in Entries(B)
      BY <1>1, <1>2
    <2>2. 1 \in Int /\ i - 1 \in Int /\ (IF 1 <= i - 1 THEN (i - 1) - 1 + 1 ELSE 0) = i - 1
      BY <1>1
    <2>3. \A j \in 1..(i - 1) : j \in 1..((i - 1) - 1 + 1) /\ 1 + j - 1 = j
      BY <1>1
    <2>4. QED
      BY <2>1, <2>2, <2>3, SubSeqProperties
  <1>4. /\ back \in Seq(Entries(B)) /\ Len(back) = n - i
        /\ \A j \in 1..(n - i) : back[j] = kept[i + j]
    <2>1. \A j \in (i + 1)..n : kept[j] \in Entries(B)
      BY <1>1, <1>2
    <2>2. i + 1 \in Int /\ n \in Int /\ (IF i + 1 <= n THEN n - (i + 1) + 1 ELSE 0) = n - i
      BY <1>1
    <2>3. \A j \in 1..(n - i) : j \in 1..(n - (i + 1) + 1) /\ (i + 1) + j - 1 = i + j
      BY <1>1
    <2>4. QED
      BY <2>1, <2>2, <2>3, SubSeqProperties
  <1>5. <<kept[i]>> \in Seq(Entries(B))
    BY <1>1, <1>2
  <1>6. touched = (front \o back) \o <<kept[i]>>
    <2>1. touched = Append(front \o back, kept[i])
      BY Zenon DEF Touch, RemoveAt, i
    <2> HIDE DEF front, back
    <2>2. front \o back \in Seq(Entries(B))
      BY <1>3, <1>4, ConcatProperties
    <2>3. QED
      BY <1>1, <1>2, <2>1, <2>2, AppendIsConcat
  <1>7. kept = (front \o <<kept[i]>>) \o back
    <2>1. SubSeq(kept, 1, i) = front \o <<kept[i]>>
      BY <1>1, SubSeqRecursiveSecond
    <2>2. SubSeq(kept, 1, i) \o back = SubSeq(kept, 1, n)
      BY <1>1, ConcatAdjacentSubSeq
    <2>3. QED
      BY <2>1, <2>2, SubSeqFull
  <1> DEFINE from(j) == IF j < i THEN j ELSE IF j = n THEN i ELSE j + 1
  <1>8. /\ front \o back \in Seq(Entries(B)) /\ Len(front \o back) = n - 1
        /\ \A j \in 1..(n - 1) : (front \o back)[j] = kept[from(j)]
    <2>1. /\ front \o back \in Seq(Entries(B)) /\ Len(front \o back) = (i - 1) + (n - i)
          /\ \A j \in 1..((i - 1) + (n - i)) :
               (front \o back)[j] = IF j <= i - 1 THEN front[j] ELSE back[j - (i - 1)]
      <3> HIDE DEF front, back
      <3>1. /\ front \o back \in Seq(Entries(B)) /\ Len(front \o back) = Len(front) + Len(back)
            /\ \A j \in 1..(Len(front) + Len(back)) :
                 (front \o back)[j] = IF j <= Len(front) THEN front[j] ELSE back[j - Len(front)]
        BY <1>3, <1>4, ConcatProperties
      <3>2. QED
        BY <1>3, <1>4, <3>1
    <2> HIDE DEF front, back
    <2>2. (i - 1) + (n - i) = n - 1
      BY <1>1
    <2>3. ASSUME NEW j \in 1..(n - 1)
          PROVE  (front \o back)[j] = kept[from(j)]
      <3>1. CASE j < i
        <4>1. j \in 1..(i - 1) /\ j <= i - 1 /\ from(j) = j
          BY <1>1, <3>1
        <4>2. QED
          BY <1>3, <2>1, <2>2, <4>1
      <3>2. CASE ~(j < i)
        <4>1. /\ ~(j <= i - 1) /\ from(j) = j + 1
              /\ j - (i - 1) \in 1..(n - i) /\ i + (j - (i - 1)) = j + 1
          BY <1>1, <3>2
        <4>2. QED
          BY <1>4, <2>1, <2>2, <4>1
      <3>3. QED
        BY <3>1, <3>2
    <2>4. QED
      BY <2>1, <2>2, <2>3
  <1>9. /\ touched \in Seq(Entries(B)) /\ Len(touched) = n
        /\ \A j \in 1..n : touched[j] = kept[from(j)]
    <2> HIDE DEF front, back, touched
    <2> DEFINE most == front \o back
               last == <<kept[i]>>
    <2>1. Len(last) = 1 /\ last[1] = kept[i] /\ last \in Seq(Entries(B))
      BY <1>5
    <2>2. /\ most \in Seq(Entries(B)) /\ Len(most) = n - 1
          /\ \A j \in 1..(n - 1) : most[j] = kept[from(j)]
      BY <1>8
    <2>3. touched = most \o last
      BY <1>6
    <2> HIDE DEF most, last, from
    <2>4. /\ touched \in Seq(Entries(B)) /\ Len(touched) = (n - 1) + 1
          /\ \A j \in 1..((n - 1) + 1) :
               touched[j] = IF j <= n - 1 THEN most[j] ELSE last[j - (n - 1)]
      <3>1. /\ most \o last \in Seq(Entries(B)) /\ Len(most \o last) = Len(most) + Len(last)
            /\ \A j \in 1..(Len(most) + Len(last)) :
                 (most \o last)[j] = IF j <= Len(most) THEN most[j] ELSE last[j - Len(most)]
        BY <2>1, <2>2, ConcatProperties
      <3>2. QED
        BY <2>1, <2>2, <2>3, <3>1
    <2>5. n - 1 \in Nat /\ (n - 1) + 1 = n /\ n - (n - 1) = 1 /\ n \in 1..n
      BY <1>1
    <2>6. ASSUME NEW j \in 1..n
          PROVE  touched[j] = kept[from(j)]
      <3>1. CASE j = n
        <4>1. from(j) = i /\ ~(j <= n - 1)
          BY <1>1, <3>1 DEF from
        <4>2. QED
          BY <2>1, <2>4, <2>5, <3>1, <4>1
      <3>2. CASE j # n
        <4>1. j \in 1..(n - 1) /\ j <= n - 1
          BY <1>1, <3>2
        <4>2. QED
          BY <2>2, <2>4, <2>5, <4>1
      <3>3. QED
        BY <3>1, <3>2
    <2>7. QED
      BY <2>4, <2>5, <2>6
  <1>10. Bytes(touched) = Bytes(kept)
    <2> HIDE DEF front, back, touched
    <2>1. /\ Bytes(front) \in Nat /\ Bytes(back) \in Nat /\ Bytes(<<kept[i]>>) \in Nat
      BY <1>3, <1>4, <1>5, BytesAreSum
    <2>2. Bytes(touched) = (Bytes(front) + Bytes(back)) + Bytes(<<kept[i]>>)
      BY <1>3, <1>4, <1>5, <1>6, <1>8, BytesConcat
    <2>3. front \o <<kept[i]>> \in Seq(Entries(B))
      BY <1>3, <1>5, ConcatProperties
    <2>4. Bytes(kept) = (Bytes(front) + Bytes(<<kept[i]>>)) + Bytes(back)
      <3> DEFINE a == front \o <<kept[i]>>
      <3>1. Bytes(a) = Bytes(front) + Bytes(<<kept[i]>>)
        BY <1>3, <1>5, BytesConcat
      <3> HIDE DEF a
      <3>2. Bytes(a \o back) = Bytes(a) + Bytes(back)
        BY <1>4, <2>3, BytesConcat DEF a
      <3>3. QED
        BY <1>7, <3>1, <3>2 DEF a
    <2>5. QED
      BY <2>1, <2>2, <2>4
  <1> HIDE DEF touched
  <1>11. \A j \in 1..n : from(j) \in 1..n
    BY <1>1
  <1>12. \A j, k \in 1..n : from(j) = from(k) => j = k
    BY <1>1
  <1> HIDE DEF from
  <1>13. Distinct(kept) => Distinct(touched)
    BY <1>9, <1>11, <1>12 DEF Distinct
  <1>14. QED
    BY <1>9, <1>10, <1>11, <1>13 DEF touched

LEMMA VictimsSuffice ==
  ASSUME NEW B, NEW kept \in Seq(Entries(B)), NEW excess
  PROVE  LET k == Victims(kept, excess) IN
         /\ k \in 0..Len(kept)
         /\ k # Len(kept) => /\ Len(kept) - k < MaxRasterSizes
                             /\ Bytes(SubSeq(kept, 1, k)) >= excess
PROOF
  <1> DEFINE Enough(k) == Len(kept) - k < MaxRasterSizes
                            /\ Bytes(SubSeq(kept, 1, k)) >= excess
             K == {k \in 0..Len(kept) : k = Len(kept) \/ Enough(k)}
  <1>1. Len(kept) \in K /\ K \in SUBSET Nat
    <2> HIDE DEF Enough
    <2>1. QED
      BY LenProperties
  <1>2. Victims(kept, excess) \in K
    <2>1. Victims(kept, excess) = Min(K)
      BY Zenon DEF Victims
    <2> HIDE DEF K
    <2>2. QED
      BY <1>1, <2>1, MinIsLeast
  <1>3. QED
    BY <1>2, Zenon

Inserted(kept, size, bytes) ==
  Append(Kept(kept, bytes), [size |-> size, bytes |-> bytes])

\* An entry is kept after as many old ones were dropped as make room for it.
LEMMA InsertFits ==
  ASSUME NEW B \in SUBSET Nat, NEW kept \in Seq(Entries(B)),
         NEW size \in Sizes, NEW bytes \in B, used \in Nat
  PROVE  LET new == Inserted(kept, size, bytes) IN
         /\ new \in Seq(Entries(B)) /\ Charge(kept, bytes) \in Nat
         /\ Len(new) <= MaxRasterSizes
         /\ \A j \in 1..Len(new) :
              \/ new[j] = [size |-> size, bytes |-> bytes]
              \/ \E i \in 1..Len(kept) : new[j] = kept[i]
         /\ Distinct(kept) /\ Index(kept, size) = 0 => Distinct(new)
         /\ used <= Limit /\ Bytes(kept) <= used /\ bytes <= Remaining + Bytes(kept) =>
              /\ Charge(kept, bytes) <= Limit
              /\ Charge(kept, bytes) + Bytes(kept) = used + Bytes(new)
PROOF
  <1> DEFINE n == Len(kept)
             excess == Monus(bytes, Remaining)
             k == Victims(kept, excess)
             dropped == SubSeq(kept, 1, k)
             rest == SubSeq(kept, k + 1, n)
             entry == [size |-> size, bytes |-> bytes]
             new == Inserted(kept, size, bytes)
  <1>1. /\ Limit \in Nat /\ MaxRasterSizes \in Nat \ {0} /\ n \in Nat /\ bytes \in Nat
        /\ Remaining \in Nat
    BY CachesAssumption, LenProperties DEF Remaining, Monus
  <1>2. excess \in Nat /\ excess >= bytes - Remaining
    BY <1>1 DEF Monus
  <1> HIDE DEF excess
  <1>3. k \in 0..n /\ (k # n => n - k < MaxRasterSizes /\ Bytes(dropped) >= excess)
    BY VictimsSuffice
  <1> HIDE DEF k
  <1>4. \A j \in 1..n : kept[j] \in Entries(B)
    BY <1>1, ElementOfSeq
  <1>5. /\ dropped \in Seq(Entries(B)) /\ Len(dropped) = k
    <2>1. 1 \in Int /\ k \in Int /\ (IF 1 <= k THEN k - 1 + 1 ELSE 0) = k
      BY <1>1, <1>3
    <2>2. \A j \in 1..k : kept[j] \in Entries(B)
      BY <1>1, <1>3, <1>4
    <2>3. QED
      BY <2>1, <2>2, SubSeqProperties
  <1>6. /\ rest \in Seq(Entries(B)) /\ Len(rest) = n - k
        /\ \A j \in 1..(n - k) : rest[j] = kept[k + j]
    <2>1. k + 1 \in Int /\ n \in Int /\ (IF k + 1 <= n THEN n - (k + 1) + 1 ELSE 0) = n - k
      BY <1>1, <1>3
    <2>2. \A j \in (k + 1)..n : kept[j] \in Entries(B)
      BY <1>1, <1>3, <1>4
    <2>3. \A j \in 1..(n - k) : j \in 1..(n - (k + 1) + 1) /\ (k + 1) + j - 1 = k + j
      BY <1>1, <1>3
    <2>4. QED
      BY <2>1, <2>2, <2>3, SubSeqProperties
  <1>7. entry \in Entries(B) /\ <<entry>> \in Seq(Entries(B))
    BY DEF Entries
  <1>8. /\ Dropped(kept, bytes) = dropped /\ Kept(kept, bytes) = rest
        /\ new = Append(rest, entry)
    BY Zenon DEF Dropped, Kept, Inserted, k, excess
  <1> HIDE DEF dropped, rest, entry, new
  <1>9. /\ new \in Seq(Entries(B)) /\ Len(new) = n - k + 1
        /\ \A j \in 1..(n - k) : new[j] = kept[k + j]
        /\ new[n - k + 1] = entry
    <2>1. /\ new \in Seq(Entries(B)) /\ Len(new) = Len(rest) + 1
          /\ \A j \in 1..Len(rest) : new[j] = rest[j]
          /\ new[Len(rest) + 1] = entry
      BY <1>6, <1>7, <1>8, AppendProperties
    <2>2. QED
      BY <1>6, <2>1
  <1>10. Bytes(kept) = Bytes(dropped) + Bytes(rest)
    <2>1. dropped \o rest = SubSeq(kept, 1, n)
      <3>1. 1 \in 1..(n + 1) /\ k \in (1 - 1)..n /\ n \in k..n
        BY <1>1, <1>3
      <3>2. QED
        BY <3>1, ConcatAdjacentSubSeq DEF dropped, rest
    <2>2. dropped \o rest = kept
      BY <2>1, SubSeqFull
    <2>3. QED
      BY <1>5, <1>6, <2>2, BytesConcat
  <1>11. Bytes(new) = Bytes(rest) + bytes
    <2>1. new = rest \o <<entry>>
      BY <1>6, <1>7, <1>8, AppendIsConcat
    <2>2. Bytes(new) = Bytes(rest) + Bytes(<<entry>>)
      BY <1>6, <1>7, <2>1, BytesConcat
    <2>3. Bytes(<<entry>>) = bytes
      <3>1. Bytes(<<entry>>) = SumFunctionOnSet(Weight(<<entry>>), DOMAIN <<entry>>)
        BY <1>7, BytesAreSum
      <3>2. DOMAIN <<entry>> = {} \cup {1} /\ Weight(<<entry>>)[1] = bytes
        BY DEF Weight, entry
      <3>3. Weights(Weight(<<entry>>), {} \cup {1}) /\ IsFiniteSet({}) /\ 1 \notin {}
        BY <1>7, <3>2, BytesAreSum, FS_EmptySet
      <3>4. SumFunctionOnSet(Weight(<<entry>>), {} \cup {1})
              = Weight(<<entry>>)[1] + SumFunctionOnSet(Weight(<<entry>>), {})
        BY <3>3, SumAdd
      <3>5. QED
        BY <1>1, <3>1, <3>2, <3>4, SumEmpty
    <2>4. QED
      BY <2>2, <2>3
  <1>12. Bytes(dropped) \in Nat /\ Bytes(rest) \in Nat /\ Bytes(kept) \in Nat
    BY <1>5, <1>6, BytesAreSum
  <1>13. Charge(kept, bytes) = Monus(used, Bytes(dropped)) + bytes
    BY <1>8 DEF Charge
  <1>14. Charge(kept, bytes) \in Nat
    BY <1>1, <1>12, <1>13 DEF Monus
  <1>15. Len(new) <= MaxRasterSizes
    BY <1>1, <1>3, <1>9
  <1>old. \A j \in 1..Len(new) : j # n - k + 1 => j \in 1..(n - k) /\ k + j \in 1..n
    <2> HIDE DEF n
    <2>1. QED
      BY <1>1, <1>3, <1>9
  <1>16. ASSUME NEW j \in 1..Len(new)
         PROVE  \/ new[j] = [size |-> size, bytes |-> bytes]
                \/ \E i \in 1..n : new[j] = kept[i]
    <2>1. CASE j = n - k + 1
      BY <1>9, <2>1 DEF entry
    <2>2. CASE j # n - k + 1
      <3>1. j \in 1..(n - k) /\ k + j \in 1..n
        BY <1>old, <2>2
      <3>2. QED
        BY <1>9, <3>1
    <2>3. QED
      BY <2>1, <2>2
  <1>17. ASSUME Distinct(kept), Index(kept, size) = 0,
                NEW i \in 1..Len(new), NEW j \in 1..Len(new),
                SameSize(new[i].size, new[j].size)
         PROVE  i = j
    <2>1. ~ \E h \in 1..n : SameSize(kept[h].size, size)
      BY <1>17, IndexFinds
    <2>2. entry.size = size
      BY DEF entry
    <2>3. CASE i = n - k + 1 /\ j # n - k + 1
      <3>1. j \in 1..(n - k) /\ k + j \in 1..n
        BY <1>old, <2>3
      <3>2. SameSize(kept[k + j].size, size)
        BY <1>9, <1>17, <2>2, <2>3, <3>1 DEF SameSize
      <3>3. QED
        BY <2>1, <3>1, <3>2
    <2>4. CASE j = n - k + 1 /\ i # n - k + 1
      <3>1. i \in 1..(n - k) /\ k + i \in 1..n
        BY <1>old, <2>4
      <3>2. SameSize(kept[k + i].size, size)
        BY <1>9, <1>17, <2>2, <2>4, <3>1 DEF SameSize
      <3>3. QED
        BY <2>1, <3>1, <3>2
    <2>5. CASE i # n - k + 1 /\ j # n - k + 1
      <3>1. /\ i \in 1..(n - k) /\ k + i \in 1..n
            /\ j \in 1..(n - k) /\ k + j \in 1..n
        BY <1>old, <2>5
      <3>2. k + i = k + j
        BY <1>9, <1>17, <3>1 DEF Distinct
      <3>3. QED
        BY <1>3, <3>1, <3>2
    <2>6. QED
      BY <2>3, <2>4, <2>5
  <1>18. ASSUME used <= Limit, Bytes(kept) <= used, bytes <= Remaining + Bytes(kept)
         PROVE  /\ Charge(kept, bytes) <= Limit
                /\ Charge(kept, bytes) + Bytes(kept) = used + Bytes(new)
    <2>1. Remaining = Limit - used
      BY <1>1, <1>18 DEF Remaining, Monus
    <2>2. Charge(kept, bytes) = used - Bytes(dropped) + bytes
      BY <1>10, <1>12, <1>13, <1>18 DEF Monus
    <2>3. Charge(kept, bytes) <= Limit
      <3>1. CASE k = n
        <4>1. rest = <<>>
          BY <1>1, <3>1, SubSeqEmpty DEF rest
        <4>2. Bytes(dropped) = Bytes(kept)
          BY <1>10, <1>12, <4>1, BytesOfNone
        <4>3. QED
          BY <1>1, <1>12, <1>18, <2>1, <2>2, <4>2
      <3>2. CASE k # n
        <4>1. Bytes(dropped) >= bytes - Remaining
          BY <1>1, <1>2, <1>3, <1>12, <3>2
        <4>2. QED
          BY <1>1, <1>12, <1>18, <2>1, <2>2, <4>1
      <3>3. QED
        BY <3>1, <3>2
    <2>4. Charge(kept, bytes) + Bytes(kept) = used + Bytes(new)
      BY <1>1, <1>10, <1>11, <1>12, <2>2
    <2>5. QED
      BY <2>3, <2>4
  <1>19. Distinct(kept) /\ Index(kept, size) = 0 => Distinct(new)
    BY <1>17 DEF Distinct
  <1>20. QED
    BY <1>9, <1>14, <1>15, <1>16, <1>18, <1>19 DEF new

----------------------------------------------------------------------------
(* The inductive invariant. *)

Requests == [svg : Svgs, size : Sizes]

\* What a thread has in hand: a request during a call, its own flight while it
\* builds, another's while it waits, and a scene when it has built one.
InHand(t) ==
  /\ pc[t] # "idle" => req[t] \in Requests
  /\ pc[t] \in {"join", "wait", "build", "retain", "complete"} => mine[t] \in 1..Len(flights)
  /\ pc[t] = "retain" => built[t] \in SceneBytes
  /\ Building(t) =>
       /\ flights[mine[t]].owner = t
       /\ flights[mine[t]].svg = req[t].svg /\ flights[mine[t]].size = req[t].size

\* OneBuilderPerSize without the types.
FlightsOfBuilders ==
  \A s \in Svgs :
    sceneLoading[s] = {mine[t] : t \in {u \in Threads : Building(u) /\ req[u].svg = s}}

OneFlightPerSize ==
  \A s \in Svgs : \A f, g \in sceneLoading[s] :
    SameSize(flights[f].size, flights[g].size) => f = g

IInv ==
  /\ TypeOK /\ \A t \in Threads : InHand(t)
  /\ FlightsOfBuilders /\ OneFlightPerSize

\* While a scene is built, none of its size is kept.
NotKeptYet ==
  \A t \in Threads : pc[t] \in {"build", "retain"} =>
    Index(scenes[req[t].svg], req[t].size) = 0

\* What each source keeps, in bytes.
KeptBytes(drawn, painted) == [s \in Svgs |-> Bytes(drawn[s]) + Bytes(painted[s])]

Balanced ==
  /\ used = other + SumFunctionOnSet(KeptBytes(scenes, rasters), Svgs)
  /\ used <= Limit

Accounts == NotKeptYet /\ SizesKeptOnce /\ Balanced

----------------------------------------------------------------------------
(* The steps. *)

\* Steps that leave the flights alone, and every builder its flight.
LEMMA BuildersKept ==
  ASSUME IInv, UNCHANGED flightVars,
         \A u \in Threads : /\ Building(u)' <=> Building(u)
                            /\ Building(u) => mine'[u] = mine[u] /\ req'[u] = req[u]
  PROVE  FlightsOfBuilders' /\ OneFlightPerSize'
PROOF
  <1>1. ASSUME NEW s \in Svgs
        PROVE  {mine'[t] : t \in {u \in Threads : Building(u)' /\ req'[u].svg = s}}
               = {mine[t] : t \in {u \in Threads : Building(u) /\ req[u].svg = s}}
    <2>1. ASSUME NEW u \in Threads
          PROVE  Building(u)' /\ req'[u].svg = s <=> Building(u) /\ req[u].svg = s
      BY DEF Building
    <2>2. {u \in Threads : Building(u)' /\ req'[u].svg = s}
          = {u \in Threads : Building(u) /\ req[u].svg = s}
      BY <2>1
    <2>3. ASSUME NEW u \in {v \in Threads : Building(v) /\ req[v].svg = s}
          PROVE  mine'[u] = mine[u]
      BY DEF Building
    <2>4. QED
      BY <2>2, <2>3
  <1>2. FlightsOfBuilders'
    BY <1>1 DEF IInv, FlightsOfBuilders, flightVars
  <1>3. OneFlightPerSize'
    BY DEF IInv, OneFlightPerSize, flightVars
  <1>4. QED
    BY <1>2, <1>3

Places == {"idle", "scene", "join", "wait", "build", "retain", "complete", "notify",
           "raster"}

\* Steps of a thread that leave the flights alone: what it has in hand is as
\* it should be afterwards, and it builds if it did, with the same flight.
Moves(t) ==
  /\ UNCHANGED flightVars
  /\ \E place \in Places :
       /\ pc' = [pc EXCEPT ![t] = place]
       /\ place \in {"build", "retain", "complete"} <=> Building(t)
  /\ \A u \in Threads \ {t} :
       req'[u] = req[u] /\ mine'[u] = mine[u] /\ built'[u] = built[u]
  /\ Building(t) => mine'[t] = mine[t] /\ req'[t] = req[t]
  /\ InHand(t)'

LEMMA MovesKept ==
  ASSUME IInv, NEW t \in Threads, Moves(t), TypeOK'
  PROVE  IInv'
PROOF
  <1>1. PICK place \in Places :
          /\ pc' = [pc EXCEPT ![t] = place]
          /\ place \in {"build", "retain", "complete"} <=> Building(t)
    BY DEF Moves
  <1>2. pc'[t] = place /\ \A u \in Threads \ {t} : pc'[u] = pc[u]
    BY <1>1 DEF IInv, TypeOK
  <1>3. \A u \in Threads : InHand(u)'
    <2>1. ASSUME NEW u \in Threads \ {t}
          PROVE  InHand(u)'
      <3>1. InHand(u)
        BY DEF IInv
      <3>2. QED
        BY <1>2, <3>1 DEF Moves, InHand, Building, flightVars
    <2>2. QED
      BY <2>1 DEF Moves
  <1>4. \A u \in Threads : /\ Building(u)' <=> Building(u)
                           /\ Building(u) => mine'[u] = mine[u] /\ req'[u] = req[u]
    BY <1>1, <1>2 DEF Moves, Building
  <1>5. FlightsOfBuilders' /\ OneFlightPerSize'
    BY <1>4, BuildersKept DEF Moves
  <1>6. QED
    BY <1>3, <1>5 DEF IInv

\* The types, for the steps that change what threads have in hand.
LEMMA HandTypes ==
  ASSUME TypeOK, UNCHANGED flightVars, UNCHANGED <<keptVars, flagVars>>,
         calls' \in Nat, pc' \in [Threads -> Places],
         req' \in [Threads -> Requests \cup {None}],
         mine' \in [Threads -> (1..Len(flights)) \cup {None}],
         built' \in [Threads -> SceneBytes \cup {None}]
  PROVE  TypeOK'
  BY DEF TypeOK, flightVars, keptVars, flagVars, Places, Requests

LEMMA CallKept ==
  ASSUME IInv, NEW t \in Threads, NEW svg \in Svgs, NEW size \in Sizes,
         NEW place \in {"scene", "raster"}, Call(t, svg, size, place)
  PROVE  IInv'
PROOF
  <1>1. TypeOK'
    BY HandTypes DEF IInv, TypeOK, Call, Goto, Places, Requests
  <1>2. Moves(t)
    BY DEF IInv, TypeOK, Call, Goto, Moves, Places, Requests, InHand, Building, flightVars
  <1>3. QED
    BY <1>1, <1>2, MovesKept

LEMMA ReturnTypes ==
  ASSUME IInv, NEW t \in Threads, Return(t), ~Building(t), UNCHANGED flightVars
  PROVE  /\ pc' \in [Threads -> Places] /\ req' \in [Threads -> Requests \cup {None}]
         /\ mine' \in [Threads -> (1..Len(flights)) \cup {None}]
         /\ built' \in [Threads -> SceneBytes \cup {None}]
         /\ Moves(t)
  BY DEF IInv, TypeOK, Return, Places, Requests, Moves, InHand, Building

LEMMA SceneAnsweredKept ==
  ASSUME IInv, NEW t \in Threads, SceneAnswered(t)
  PROVE  IInv'
PROOF
  <1>1. Return(t) /\ ~Building(t) /\ UNCHANGED flightVars
    BY DEF SceneAnswered, Building
  <1>2. scenes' \in [Svgs -> Seq(Entries(SceneBytes))]
    <2> DEFINE svg == req[t].svg
               size == req[t].size
    <2>1. svg \in Svgs /\ scenes[svg] \in Seq(Entries(SceneBytes))
      BY DEF IInv, TypeOK, InHand, SceneAnswered, Requests
    <2>2. CASE UNCHANGED scenes
      BY <2>2 DEF IInv, TypeOK
    <2>3. CASE Index(scenes[svg], size) # 0
               /\ scenes' = [scenes EXCEPT ![svg] = Touch(scenes[svg], size)]
      <3>1. SceneBytes \in SUBSET Nat
        BY CachesAssumption
      <3>2. Touch(scenes[svg], size) \in Seq(Entries(SceneBytes))
        BY <2>1, <2>3, <3>1, TouchMoves
      <3> HIDE DEF svg, size
      <3>3. QED
        BY <2>3, <3>2 DEF IInv, TypeOK
    <2>4. QED
      BY <2>2, <2>3 DEF SceneAnswered
  <1>3. TypeOK'
    BY <1>1, <1>2, ReturnTypes
    DEF IInv, TypeOK, SceneAnswered, flightVars, flagVars, Places, Requests
  <1>4. QED
    BY <1>1, <1>3, ReturnTypes, MovesKept

LEMMA SceneJoinsKept ==
  ASSUME IInv, NEW t \in Threads, SceneJoins(t)
  PROVE  IInv'
PROOF
  <1>1. PICK f \in Pending(req[t].svg, req[t].size) : mine' = [mine EXCEPT ![t] = f]
    BY DEF SceneJoins
  <1>2. req[t] \in Requests /\ pc[t] = "scene"
    BY DEF IInv, InHand, SceneJoins, Misses
  <1>3. f \in 1..Len(flights)
    BY <1>2 DEF IInv, TypeOK, Pending, Requests
  <1>4. TypeOK'
    BY <1>1, <1>3, HandTypes DEF IInv, TypeOK, SceneJoins, Goto, Places, Requests
  <1>5. Moves(t)
    BY <1>1, <1>2, <1>3
    DEF IInv, TypeOK, SceneJoins, Goto, Moves, Places, InHand, Building, flightVars
  <1>6. QED
    BY <1>4, <1>5, MovesKept

LEMMA FlightWaitKept ==
  ASSUME IInv, NEW t \in Threads, FlightWait(t)
  PROVE  IInv'
PROOF
  <1>1. pc[t] = "join" /\ ~Building(t) /\ UNCHANGED <<flightVars, keptVars, flagVars, calls>>
    BY DEF FlightWait, Building
  <1>2. CASE Return(t)
    <2>1. TypeOK'
      BY <1>1, <1>2, ReturnTypes, HandTypes DEF IInv, TypeOK
    <2>2. QED
      BY <1>1, <1>2, <2>1, ReturnTypes, MovesKept
  <1>3. CASE Goto(t, "wait") /\ UNCHANGED <<req, mine, built>>
    <2>1. TypeOK'
      BY <1>1, <1>3, HandTypes DEF IInv, TypeOK, Goto, Places, Requests
    <2>2. Moves(t)
      BY <1>1, <1>3 DEF IInv, TypeOK, Goto, Moves, Places, InHand, Building, flightVars
    <2>3. QED
      BY <2>1, <2>2, MovesKept
  <1>4. QED
    BY <1>2, <1>3 DEF FlightWait

LEMMA WakeKept ==
  ASSUME IInv, NEW t \in Threads, WakeSpuriously(t)
  PROVE  IInv'
PROOF
  <1>1. TypeOK'
    BY HandTypes DEF IInv, TypeOK, WakeSpuriously, Goto, Places, Requests
  <1>2. Moves(t)
    BY DEF IInv, TypeOK, WakeSpuriously, Goto, Moves, Places, InHand, Building, flightVars
  <1>3. QED
    BY <1>1, <1>2, MovesKept

\* The steps of a builder up to its completion.
LEMMA BuildKept ==
  ASSUME IInv, NEW t \in Threads,
         \/ \E n \in SceneBytes : BuildScene(t, n)
         \/ BuildFails(t) \/ BuildFallsBack(t)
  PROVE  IInv'
PROOF
  <1>0. pc[t] = "build" /\ req[t] \in Requests /\ InHand(t)
    BY DEF IInv, InHand, BuildScene, BuildFails, BuildFallsBack
  <1>1. CASE \E n \in SceneBytes : BuildScene(t, n)
    <2>1. TypeOK'
      BY <1>1, HandTypes DEF IInv, TypeOK, BuildScene, Goto, Places, Requests
    <2>2. Moves(t)
      BY <1>0, <1>1
      DEF IInv, TypeOK, BuildScene, Goto, Moves, Places, InHand, Building, flightVars
    <2>3. QED
      BY <2>1, <2>2, MovesKept
  <1>2. CASE BuildFails(t)
    <2>1. TypeOK'
      BY <1>2, HandTypes DEF IInv, TypeOK, BuildFails, Goto, Places, Requests
    <2>2. Moves(t)
      BY <1>0, <1>2
      DEF IInv, TypeOK, BuildFails, Goto, Moves, Places, InHand, Building, flightVars
    <2>3. QED
      BY <2>1, <2>2, MovesKept
  <1>3. CASE BuildFallsBack(t)
    <2>1. TypeOK'
      BY <1>0, <1>3
      DEF IInv, TypeOK, BuildFallsBack, Goto, Requests, flightVars, keptVars
    <2>2. Moves(t)
      BY <1>0, <1>3
      DEF IInv, TypeOK, BuildFallsBack, Goto, Moves, Places, InHand, Building, flightVars
    <2>3. QED
      BY <2>1, <2>2, MovesKept
  <1>4. QED
    BY <1>1, <1>2, <1>3

LEMMA SceneOwnsKept ==
  ASSUME IInv, NEW t \in Threads, SceneOwns(t)
  PROVE  IInv'
PROOF
  <1> DEFINE svg == req[t].svg
             size == req[t].size
             n == Len(flights) + 1
             flight == [svg |-> svg, size |-> size, owner |-> t, outcome |-> "pending"]
  <1>1. /\ svg \in Svgs /\ size \in Sizes /\ pc[t] = "scene" /\ req[t] \in Requests
    BY DEF IInv, InHand, SceneOwns, Misses, Requests
  <1>2. /\ flights' \in Seq(Flights) /\ Len(flights) \in Nat /\ Len(flights') = n
        /\ \A i \in 1..Len(flights) : flights'[i] = flights[i]
        /\ flights'[n] = flight
    <2>1. flight \in Flights /\ flights \in Seq(Flights)
      BY <1>1 DEF IInv, TypeOK, Flights
    <2>2. flights' = Append(flights, flight)
      BY DEF SceneOwns
    <2>3. QED
      BY <2>1, <2>2, AppendProperties, LenProperties
  <1>3. /\ pc' = [pc EXCEPT ![t] = "build"] /\ mine' = [mine EXCEPT ![t] = n]
        /\ sceneLoading' = [sceneLoading EXCEPT ![svg] = @ \cup {n}]
        /\ UNCHANGED <<req, built, keptVars, flagVars, calls>>
    BY DEF SceneOwns, Goto
  <1>4. Pending(svg, size) = {}
    BY DEF SceneOwns
  <1> HIDE DEF n, svg, size
  <1>5. n \in 1..n /\ \A i \in 1..Len(flights) : i \in 1..n /\ i # n
    BY <1>2 DEF n
  <1>6. TypeOK'
    <2>1. /\ pc' \in [Threads -> Places] /\ mine' \in [Threads -> (1..n) \cup {None}]
          /\ sceneLoading' \in [Svgs -> SUBSET (1..n)]
      BY <1>1, <1>3, <1>5 DEF IInv, TypeOK, Places
    <2>2. QED
      BY <1>2, <1>3, <2>1 DEF IInv, TypeOK, keptVars, flagVars, Places
  <1>7. /\ pc'[t] = "build" /\ mine'[t] = n
        /\ \A u \in Threads \ {t} : pc'[u] = pc[u] /\ mine'[u] = mine[u]
    BY <1>3 DEF IInv, TypeOK
  <1>8. ASSUME NEW u \in Threads
        PROVE  InHand(u)'
    <2>1. InHand(u)
      BY DEF IInv
    <2>2. CASE u = t
      BY <1>1, <1>2, <1>3, <1>5, <1>7, <2>2 DEF InHand, Building, svg, size
    <2>3. CASE u # t
      <3>1. /\ pc'[u] = pc[u] /\ mine'[u] = mine[u] /\ req'[u] = req[u] /\ built'[u] = built[u]
        BY <1>3, <1>7, <2>3
      <3>2. mine[u] \in 1..Len(flights) =>
              mine[u] \in 1..Len(flights') /\ flights'[mine[u]] = flights[mine[u]]
        BY <1>2, <1>5
      <3>3. Building(u) => mine[u] \in 1..Len(flights)
        BY <2>1 DEF InHand, Building
      <3>4. QED
        BY <2>1, <3>1, <3>2, <3>3 DEF InHand, Building
    <2>4. QED
      BY <2>2, <2>3
  <1>9. FlightsOfBuilders'
    <2>1. SUFFICES ASSUME NEW s \in Svgs
                   PROVE  sceneLoading'[s] =
                            {mine'[u] : u \in {v \in Threads : Building(v)' /\ req'[v].svg = s}}
      BY DEF FlightsOfBuilders
    <2>2. sceneLoading[s] = {mine[u] : u \in {v \in Threads : Building(v) /\ req[v].svg = s}}
      BY DEF IInv, FlightsOfBuilders
    <2>3. {v \in Threads : Building(v)' /\ req'[v].svg = s} =
            {v \in Threads : Building(v) /\ req[v].svg = s} \cup
              (IF s = svg THEN {t} ELSE {})
      BY <1>1, <1>3, <1>7 DEF Building, svg
    <2>4. ~Building(t)
      BY <1>1 DEF Building
    <2>5. sceneLoading'[s] = sceneLoading[s] \cup (IF s = svg THEN {n} ELSE {})
      BY <1>1, <1>3 DEF IInv, TypeOK
    <2>6. \A u \in {v \in Threads : Building(v) /\ req[v].svg = s} : mine'[u] = mine[u]
      BY <1>7, <2>4
    <2>7. QED
      BY <1>7, <2>2, <2>3, <2>5, <2>6
  <1>10. OneFlightPerSize'
    <2>1. SUFFICES ASSUME NEW s \in Svgs, NEW f \in sceneLoading'[s], NEW g \in sceneLoading'[s],
                          SameSize(flights'[f].size, flights'[g].size)
                   PROVE  f = g
      BY DEF OneFlightPerSize
    <2>2. /\ f \in sceneLoading[s] \/ (f = n /\ s = svg)
          /\ g \in sceneLoading[s] \/ (g = n /\ s = svg)
      BY <1>1, <1>3 DEF IInv, TypeOK
    <2>3. \A h \in sceneLoading[s] : flights'[h] = flights[h]
      BY <1>2 DEF IInv, TypeOK
    <2>4. \A h \in sceneLoading[svg] : ~SameSize(flights[h].size, size)
      BY <1>4 DEF Pending
    <2>5. flights'[n].size = size
      BY <1>2
    <2>6. CASE f \in sceneLoading[s] /\ g \in sceneLoading[s]
      BY <2>1, <2>3, <2>6 DEF IInv, OneFlightPerSize
    <2>7. CASE f \in sceneLoading[s] /\ g = n /\ s = svg
      BY <2>1, <2>3, <2>4, <2>5, <2>7
    <2>8. CASE g \in sceneLoading[s] /\ f = n /\ s = svg
      BY <2>1, <2>3, <2>4, <2>5, <2>8 DEF SameSize
    <2>9. CASE f = n /\ g = n
      BY <2>9
    <2>10. QED
      BY <2>2, <2>6, <2>7, <2>8, <2>9
  <1>11. QED
    BY <1>6, <1>8, <1>9, <1>10 DEF IInv

LEMMA RetainKept ==
  ASSUME IInv, NEW t \in Threads, RetainScene(t)
  PROVE  IInv'
PROOF
  <1> DEFINE svg == req[t].svg
             size == req[t].size
             kept == scenes[svg]
  <1>1. /\ svg \in Svgs /\ size \in Sizes /\ pc[t] = "retain" /\ built[t] \in SceneBytes
        /\ InHand(t) /\ kept \in Seq(Entries(SceneBytes)) /\ used \in Nat
    BY DEF IInv, InHand, TypeOK, RetainScene, Requests
  <1>2. /\ pc' = [pc EXCEPT ![t] = "complete"]
        /\ built' = [built EXCEPT ![t] = IF poisoned THEN None ELSE @]
        /\ UNCHANGED <<req, mine, flightVars, rasters, other, flagVars, calls>>
    BY DEF RetainScene, Goto
  <1>3. scenes' \in [Svgs -> Seq(Entries(SceneBytes))] /\ used' \in Nat
    <2>1. CASE UNCHANGED <<scenes, used>>
      BY <2>1 DEF IInv, TypeOK
    <2>2. CASE /\ scenes' = [scenes EXCEPT ![svg] = Inserted(kept, size, built[t])]
               /\ used' = Charge(kept, built[t])
      <3>1. SceneBytes \in SUBSET Nat
        BY CachesAssumption
      <3>2. /\ Inserted(kept, size, built[t]) \in Seq(Entries(SceneBytes))
            /\ Charge(kept, built[t]) \in Nat
        <4> HIDE DEF kept, size
        <4>1. QED
          BY <1>1, <3>1, InsertFits
      <3> HIDE DEF kept, size, svg
      <3>3. QED
        BY <2>2, <3>2 DEF IInv, TypeOK
    <2>3. QED
      BY <2>1, <2>2 DEF RetainScene, Inserted
  <1>4. TypeOK'
    BY <1>1, <1>2, <1>3 DEF IInv, TypeOK, flightVars, flagVars
  <1>5. Moves(t)
    BY <1>1, <1>2 DEF IInv, TypeOK, Moves, Places, InHand, Building, flightVars
  <1>6. QED
    BY <1>4, <1>5, MovesKept

LEMMA CompleteKept ==
  ASSUME IInv, NEW t \in Threads, Complete(t)
  PROVE  IInv'
PROOF
  <1> DEFINE svg == req[t].svg
             f == mine[t]
             outcome == IF built[t] = None THEN "none" ELSE "scene"
  <1>1. /\ svg \in Svgs /\ req[t] \in Requests /\ pc[t] = "complete" /\ Building(t)
        /\ f \in 1..Len(flights) /\ flights[f].owner = t
        /\ flights \in Seq(Flights)
    BY DEF IInv, InHand, TypeOK, Complete, Requests, Building
  <1>2. /\ pc' = [pc EXCEPT ![t] = "notify"]
        /\ flights' = [flights EXCEPT ![f].outcome = outcome]
        /\ sceneLoading' = [sceneLoading EXCEPT ![svg] = @ \ {f}]
        /\ UNCHANGED <<req, mine, built, keptVars, flagVars, calls>>
    <2>1. Completed(svg, f) = {f} \cap sceneLoading[svg]
      BY DEF Completed
    <2>2. sceneLoading[svg] \ Completed(svg, f) = sceneLoading[svg] \ {f}
      BY <2>1
    <2>3. QED
      BY <2>2 DEF Complete, Goto
  <1>3. outcome \in {"none", "scene"}
    OBVIOUS
  <1> HIDE DEF outcome
  <1>4. /\ flights' \in Seq(Flights) /\ Len(flights') = Len(flights)
        /\ \A i \in 1..Len(flights) :
             /\ flights'[i].owner = flights[i].owner
             /\ flights'[i].svg = flights[i].svg /\ flights'[i].size = flights[i].size
    <2>1. flights[f] \in Flights
      BY <1>1, ElementOfSeq
    <2>2. flights' = [flights EXCEPT ![f] = [flights[f] EXCEPT !.outcome = outcome]]
      BY <1>2
    <2>3. [flights[f] EXCEPT !.outcome = outcome] \in Flights
      BY <1>3, <2>1 DEF Flights
    <2>4. flights' \in Seq(Flights) /\ Len(flights') = Len(flights)
      BY <1>1, <2>2, <2>3, ExceptSeq
    <2>5. \A i \in 1..Len(flights) : flights'[i] =
            IF i = f THEN [flights[f] EXCEPT !.outcome = outcome] ELSE flights[i]
      BY <1>1, <2>2, ExceptSeq, LenProperties
    <2>6. QED
      BY <2>1, <2>4, <2>5 DEF Flights
  <1>5. TypeOK'
    BY <1>1, <1>2, <1>4 DEF IInv, TypeOK, keptVars, flagVars
  <1>6. pc'[t] = "notify" /\ \A u \in Threads \ {t} : pc'[u] = pc[u]
    BY <1>2 DEF IInv, TypeOK
  <1>7. ASSUME NEW u \in Threads
        PROVE  InHand(u)'
    <2>1. InHand(u)
      BY DEF IInv
    <2>2. Building(u) => mine[u] \in 1..Len(flights)
      BY <2>1 DEF InHand, Building
    <2>3. CASE u = t
      BY <1>1, <1>2, <1>6, <2>3 DEF InHand, Building
    <2>4. CASE u # t
      BY <1>2, <1>4, <1>6, <2>1, <2>2, <2>4 DEF InHand, Building
    <2>5. QED
      BY <2>3, <2>4
  <1>8. FlightsOfBuilders'
    <2>1. SUFFICES ASSUME NEW s \in Svgs
                   PROVE  sceneLoading'[s] =
                            {mine[u] : u \in {v \in Threads : Building(v)' /\ req[v].svg = s}}
      BY <1>2 DEF FlightsOfBuilders
    <2>2. sceneLoading[s] = {mine[u] : u \in {v \in Threads : Building(v) /\ req[v].svg = s}}
      BY DEF IInv, FlightsOfBuilders
    <2>3. {v \in Threads : Building(v)' /\ req[v].svg = s} =
            {v \in Threads : Building(v) /\ req[v].svg = s} \ {t}
      BY <1>6 DEF Building
    <2>4. \A u \in Threads \ {t} : Building(u) => mine[u] # f
      <3>1. ASSUME NEW u \in Threads \ {t}, Building(u), mine[u] = f
            PROVE  FALSE
        <4>1. flights[mine[u]].owner = u
          BY <3>1 DEF IInv, InHand
        <4>2. QED
          BY <1>1, <3>1, <4>1
      <3>2. QED
        BY <3>1
    <2>5. sceneLoading'[s] = sceneLoading[s] \ (IF s = svg THEN {f} ELSE {})
      BY <1>1, <1>2 DEF IInv, TypeOK
    <2>6. QED
      BY <1>1, <2>2, <2>3, <2>4, <2>5
  <1>9. OneFlightPerSize'
    <2>1. SUFFICES ASSUME NEW s \in Svgs, NEW g \in sceneLoading'[s], NEW h \in sceneLoading'[s],
                          SameSize(flights'[g].size, flights'[h].size)
                   PROVE  g = h
      BY DEF OneFlightPerSize
    <2>2. g \in sceneLoading[s] /\ h \in sceneLoading[s]
      BY <1>1, <1>2 DEF IInv, TypeOK
    <2>3. flights'[g].size = flights[g].size /\ flights'[h].size = flights[h].size
      BY <1>4, <2>2 DEF IInv, TypeOK
    <2>4. QED
      BY <2>1, <2>2, <2>3 DEF IInv, OneFlightPerSize
  <1>10. QED
    BY <1>5, <1>7, <1>8, <1>9 DEF IInv

LEMMA NotifyAllKept ==
  ASSUME IInv, NEW t \in Threads, NotifyAll(t)
  PROVE  IInv'
PROOF
  <1>1. /\ pc[t] = "notify" /\ ~Building(t)
        /\ UNCHANGED <<flightVars, keptVars, flagVars, calls>>
    BY DEF NotifyAll, Building
  <1>2. \A u \in Threads :
          /\ pc'[u] = IF u = t THEN "idle" ELSE IF u \in Woken(t) THEN "join" ELSE pc[u]
          /\ req'[u] = IF u = t THEN None ELSE req[u]
          /\ mine'[u] = IF u = t THEN None ELSE mine[u]
          /\ built'[u] = IF u = t THEN None ELSE built[u]
    BY DEF IInv, TypeOK, NotifyAll
  <1>3. TypeOK'
    BY <1>1, <1>2, HandTypes DEF IInv, TypeOK, NotifyAll, Places, Requests
  <1>4. \A u \in Woken(t) : u \in Threads /\ pc[u] = "wait"
    BY DEF Woken
  <1>5. ASSUME NEW u \in Threads
        PROVE  InHand(u)'
    <2>1. InHand(u)
      BY DEF IInv
    <2>2. CASE u = t
      BY <1>2, <2>2 DEF InHand, Building
    <2>3. CASE u # t /\ u \in Woken(t)
      BY <1>1, <1>2, <1>4, <2>1, <2>3 DEF InHand, Building, flightVars
    <2>4. CASE u # t /\ u \notin Woken(t)
      BY <1>1, <1>2, <2>1, <2>4 DEF InHand, Building, flightVars
    <2>5. QED
      BY <2>2, <2>3, <2>4
  <1>6. \A u \in Threads : /\ Building(u)' <=> Building(u)
                           /\ Building(u) => mine'[u] = mine[u] /\ req'[u] = req[u]
    <2>1. \A u \in Threads : Building(u)' <=> Building(u)
      BY <1>1, <1>2, <1>4 DEF Building
    <2>2. \A u \in Threads : Building(u) => u # t
      BY <1>1
    <2>3. QED
      BY <1>2, <2>1, <2>2
  <1>7. FlightsOfBuilders' /\ OneFlightPerSize'
    BY <1>1, <1>6, BuildersKept
  <1>8. QED
    BY <1>3, <1>5, <1>7 DEF IInv

\* The steps of a rasterization, and of the rest of the source cache.
LEMMA RastersKept ==
  ASSUME IInv, NEW t \in Threads,
         \/ RasterAnswered(t) \/ RasterizePanics(t)
         \/ \E n \in RasterBytes : Rasterize(t, n)
  PROVE  IInv'
PROOF
  <1> DEFINE svg == req[t].svg
             size == req[t].size
             kept == rasters[svg]
  <1>1. /\ Return(t) /\ ~Building(t) /\ UNCHANGED <<flightVars, scenes, other, calls>>
        /\ svg \in Svgs /\ size \in Sizes /\ kept \in Seq(Entries(RasterBytes))
    BY DEF IInv, InHand, TypeOK, Requests, RasterAnswered, RasterizePanics, Rasterize,
           Building, keptVars
  <1>2. RasterBytes \in SUBSET Nat
    BY CachesAssumption
  <1>3. /\ rasters' \in [Svgs -> Seq(Entries(RasterBytes))] /\ used' \in Nat
        /\ rasterOnly' \subseteq Svgs /\ rasterPoisoned' \subseteq Svgs /\ poisoned' \in BOOLEAN
    <2>1. CASE RasterAnswered(t)
      <3>1. UNCHANGED <<used, flagVars>>
        BY <2>1 DEF RasterAnswered
      <3>2. CASE UNCHANGED rasters
        BY <3>1, <3>2 DEF IInv, TypeOK, flagVars
      <3>3. CASE Index(kept, size) # 0 /\ rasters' = [rasters EXCEPT ![svg] = Touch(kept, size)]
        <4>1. Touch(kept, size) \in Seq(Entries(RasterBytes))
          BY <1>1, <1>2, <3>3, TouchMoves
        <4> HIDE DEF kept, size, svg
        <4>2. QED
          BY <3>1, <3>3, <4>1 DEF IInv, TypeOK, flagVars
      <3>4. QED
        BY <2>1, <3>2, <3>3 DEF RasterAnswered
    <2>2. CASE RasterizePanics(t)
      <3>1. poisoned' \in BOOLEAN
        BY <2>2 DEF RasterizePanics
      <3>2. QED
        BY <1>1, <2>2, <3>1 DEF IInv, TypeOK, RasterizePanics, keptVars
    <2>3. CASE \E n \in RasterBytes : Rasterize(t, n)
      <3>1. PICK n \in RasterBytes : Rasterize(t, n)
        BY <2>3
      <3>2. /\ rasters' = [rasters EXCEPT ![svg] = Inserted(kept, size, n)]
            /\ used' = Charge(kept, n) /\ UNCHANGED flagVars
        BY <3>1 DEF Rasterize, Inserted
      <3>3. used \in Nat
        BY DEF IInv, TypeOK
      <3>4. /\ Inserted(kept, size, n) \in Seq(Entries(RasterBytes)) /\ Charge(kept, n) \in Nat
        <4> HIDE DEF kept, size
        <4>1. QED
          BY <1>1, <1>2, <3>3, InsertFits
      <3> HIDE DEF kept, size, svg
      <3>5. QED
        BY <3>2, <3>4 DEF IInv, TypeOK, flagVars
    <2>4. QED
      BY <2>1, <2>2, <2>3
  <1>4. TypeOK'
    <2>1. /\ pc' \in [Threads -> Places] /\ req' \in [Threads -> Requests \cup {None}]
          /\ mine' \in [Threads -> (1..Len(flights)) \cup {None}]
          /\ built' \in [Threads -> SceneBytes \cup {None}]
      BY <1>1, ReturnTypes
    <2>2. QED
      BY <1>1, <1>3, <2>1 DEF IInv, TypeOK, flightVars, Places, Requests
  <1>5. QED
    BY <1>1, <1>4, ReturnTypes, MovesKept

LEMMA OtherKept ==
  ASSUME IInv, NEW n \in {0} \cup OtherBytes, ChargeOther(n)
  PROVE  IInv'
PROOF
  <1>1. UNCHANGED <<threadVars, flightVars, scenes, rasters, flagVars, calls>>
    BY DEF ChargeOther
  <1>2. used' \in Nat /\ other' \in Nat
    <2>1. n \in Nat /\ used \in Nat /\ other \in Nat
      <3>1. n \in Nat
        BY CachesAssumption
      <3>2. used \in Nat /\ other \in Nat
        BY DEF IInv, TypeOK
      <3>3. QED
        BY <3>1, <3>2
    <2>2. other <= used /\ used' = used - other + n /\ other' = n
      BY DEF ChargeOther
    <2>3. QED
      BY <2>1, <2>2
  <1>3. TypeOK'
    BY <1>1, <1>2 DEF IInv, TypeOK, threadVars, flightVars, flagVars
  <1>4. QED
    BY <1>1, <1>3
    DEF IInv, InHand, Building, FlightsOfBuilders, OneFlightPerSize, threadVars, flightVars

----------------------------------------------------------------------------

LEMMA InitKept == Init => IInv
PROOF
  <1> SUFFICES ASSUME Init
               PROVE  IInv
    OBVIOUS
  <1>1. Len(flights) = 0 /\ flights \in Seq(Flights)
    BY DEF Init
  <1>2. poisoned \in BOOLEAN
    BY DEF Init
  <1>3. TypeOK
    BY <1>1, <1>2 DEF Init, TypeOK
  <1>4. \A t \in Threads : InHand(t) /\ ~Building(t)
    BY DEF Init, InHand, Building
  <1>5. FlightsOfBuilders /\ OneFlightPerSize
    BY <1>4 DEF Init, FlightsOfBuilders, OneFlightPerSize
  <1>6. QED
    BY <1>3, <1>4, <1>5 DEF IInv

LEMMA StepKept == IInv /\ [Next]_vars => IInv'
PROOF
  <1> SUFFICES ASSUME IInv, [Next]_vars
               PROVE  IInv'
    OBVIOUS
  <1>1. CASE UNCHANGED vars
    BY <1>1
    DEF IInv, TypeOK, InHand, Building, FlightsOfBuilders, OneFlightPerSize, vars, threadVars,
        flightVars, keptVars, flagVars
  <1>2. ASSUME NEW t \in Threads, Step(t)
        PROVE  IInv'
    BY <1>2, SceneAnsweredKept, SceneJoinsKept, SceneOwnsKept, FlightWaitKept, BuildKept,
       RetainKept, CompleteKept, NotifyAllKept, RastersKept DEF Step
  <1>3. QED
    BY <1>1, <1>2, CallKept, WakeKept, OtherKept DEF Next

LEMMA Always == Spec => []IInv
  BY InitKept, StepKept, PTL DEF Spec

\* For any number of threads, sources and sizes, sizes with a NaN included: a
\* scene is built by one thread per size, and no flight is left by a builder that
\* fails or panics (ImageSource::scene_with, PendingScene).
THEOREM OneBuilderAlways == Spec => []OneBuilderPerSize
PROOF
  <1>1. IInv => OneBuilderPerSize
    BY DEF IInv, FlightsOfBuilders, OneFlightPerSize, OneBuilderPerSize
  <1>2. QED
    BY <1>1, Always, PTL

----------------------------------------------------------------------------
(* What is charged is what is kept. *)

LEMMA KeptWeights ==
  ASSUME NEW drawn \in [Svgs -> Seq(Entries(SceneBytes))],
         NEW painted \in [Svgs -> Seq(Entries(RasterBytes))]
  PROVE  LET bytes == KeptBytes(drawn, painted) IN
         /\ IsFiniteSet(Svgs) /\ Weights(bytes, Svgs)
         /\ SumFunctionOnSet(bytes, Svgs) \in Nat
         /\ \A s \in Svgs :
              /\ Bytes(drawn[s]) \in Nat /\ Bytes(painted[s]) \in Nat
              /\ bytes[s] = Bytes(drawn[s]) + Bytes(painted[s])
              /\ bytes[s] <= SumFunctionOnSet(bytes, Svgs)
PROOF
  <1> DEFINE w == KeptBytes(drawn, painted)
             sum == SumFunctionOnSet(w, Svgs)
  <1>1. /\ SceneBytes \in SUBSET Nat /\ RasterBytes \in SUBSET Nat /\ IsFiniteSet(Svgs)
    BY CachesAssumption
  <1>2. \A s \in Svgs : Bytes(drawn[s]) \in Nat /\ Bytes(painted[s]) \in Nat
    BY <1>1, BytesAreSum
  <1>3. \A s \in Svgs : w[s] = Bytes(drawn[s]) + Bytes(painted[s])
    BY DEF KeptBytes
  <1> HIDE DEF w
  <1>4. Weights(w, Svgs)
    BY <1>2, <1>3 DEF Weights
  <1>5. sum \in Nat /\ \A s \in Svgs : w[s] <= sum
    <2>1. ASSUME NEW s \in Svgs
          PROVE  w[s] <= sum
      <3> DEFINE rest == SumFunctionOnSet(w, Svgs \ {s})
      <3>1. rest \in Nat /\ sum = w[s] + rest /\ w[s] \in Nat
        BY <1>1, <1>4, SumElement DEF Weights
      <3> HIDE DEF rest, sum
      <3>2. QED
        BY <3>1
    <2>2. QED
      BY <1>1, <1>4, <2>1, SumElement
  <1>6. QED
    BY <1>1, <1>2, <1>3, <1>4, <1>5 DEF w

\* What one source keeps changes by as much as is charged.
LEMMA StaysBalanced ==
  ASSUME TypeOK, TypeOK', Balanced, NEW svg \in Svgs,
         \A s \in Svgs \ {svg} : scenes'[s] = scenes[s] /\ rasters'[s] = rasters[s],
         other' = other, used' <= Limit,
         used' + Bytes(scenes[svg]) + Bytes(rasters[svg])
           = used + Bytes(scenes'[svg]) + Bytes(rasters'[svg])
  PROVE  Balanced'
PROOF
  <1> DEFINE v == KeptBytes(scenes, rasters)
             w == KeptBytes(scenes', rasters')
             before == SumFunctionOnSet(v, Svgs)
             after == SumFunctionOnSet(w, Svgs)
             vs == Bytes(scenes[svg])
             vr == Bytes(rasters[svg])
             ws == Bytes(scenes'[svg])
             wr == Bytes(rasters'[svg])
  <1>1. /\ IsFiniteSet(Svgs) /\ Weights(v, Svgs) /\ before \in Nat
        /\ vs \in Nat /\ vr \in Nat /\ v[svg] = vs + vr
    BY KeptWeights DEF TypeOK
  <1>2. /\ Weights(w, Svgs) /\ after \in Nat
        /\ ws \in Nat /\ wr \in Nat /\ w[svg] = ws + wr
    BY KeptWeights DEF TypeOK
  <1>3. \A s \in Svgs \ {svg} : v[s] = w[s]
    BY DEF KeptBytes
  <1>4. used \in Nat /\ used' \in Nat /\ other \in Nat
    BY DEF TypeOK
  <1>5. used = other + before /\ used' + vs + vr = used + ws + wr
    BY DEF Balanced
  <1> HIDE DEF v, w
  <1>6. before + w[svg] = after + v[svg]
    BY <1>1, <1>2, <1>3, SumChange
  <1> HIDE DEF before, after, vs, vr, ws, wr
  <1>7. used' = other + after
    BY <1>1, <1>2, <1>4, <1>5, <1>6
  <1>8. QED
    BY <1>7 DEF Balanced, after, w

\* Steps that keep and charge nothing new: whoever comes to build asks for a
\* size that is not kept.
LEMMA AccountsStay ==
  ASSUME Accounts, UNCHANGED <<scenes, rasters, used, other>>,
         \A u \in Threads : pc'[u] \in {"build", "retain"} =>
           /\ req'[u] = req[u]
           /\ \/ pc[u] \in {"build", "retain"}
              \/ Index(scenes[req[u].svg], req[u].size) = 0
  PROVE  Accounts'
PROOF
  <1>1. NotKeptYet'
    BY DEF Accounts, NotKeptYet
  <1>2. SizesKeptOnce' /\ Balanced'
    BY DEF Accounts, SizesKeptOnce, Balanced
  <1>3. QED
    BY <1>1, <1>2 DEF Accounts

LEMMA AccountsInit == Init => Accounts
PROOF
  <1> SUFFICES ASSUME Init
               PROVE  Accounts
    OBVIOUS
  <1> DEFINE w == KeptBytes(scenes, rasters)
  <1>1. IsFiniteSet(Svgs) /\ \A s \in Svgs : w[s] = 0
    BY CachesAssumption, BytesOfNone DEF Init, KeptBytes
  <1> HIDE DEF w
  <1>2. SumFunctionOnSet(w, Svgs) = 0
    BY <1>1, SumOfNothing
  <1>3. Balanced
    BY <1>2, CachesAssumption DEF Init, Balanced, w
  <1>4. SizesKeptOnce
    BY CachesAssumption DEF Init, SizesKeptOnce
  <1>5. NotKeptYet
    BY DEF Init, NotKeptYet
  <1>6. QED
    BY <1>3, <1>4, <1>5 DEF Accounts

\* A source's entries of one kind are replaced by at most as many sizes as are
\* allowed, each once.
LEMMA SizesStay ==
  ASSUME TypeOK, TypeOK', SizesKeptOnce, NEW svg \in Svgs,
         \A s \in Svgs \ {svg} : scenes'[s] = scenes[s] /\ rasters'[s] = rasters[s],
         \A kept \in {scenes'[svg], rasters'[svg]} :
           \/ kept \in {scenes[svg], rasters[svg]}
           \/ Len(kept) <= MaxRasterSizes /\ Distinct(kept)
  PROVE  SizesKeptOnce'
PROOF
  <1>1. \A s \in Svgs : \A kept \in {scenes[s], rasters[s]} :
          Len(kept) <= MaxRasterSizes /\ Distinct(kept)
    BY DEF SizesKeptOnce, Distinct
  <1>2. \A s \in Svgs : \A kept \in {scenes'[s], rasters'[s]} :
          Len(kept) <= MaxRasterSizes /\ Distinct(kept)
    BY <1>1
  <1>3. QED
    BY <1>2 DEF SizesKeptOnce, Distinct

LEMMA SceneAnsweredAccounts ==
  ASSUME IInv, IInv', Accounts, NEW t \in Threads, SceneAnswered(t)
  PROVE  Accounts'
PROOF
  <1> DEFINE svg == req[t].svg
             size == req[t].size
             kept == scenes[svg]
  <1>1. /\ svg \in Svgs /\ kept \in Seq(Entries(SceneBytes)) /\ TypeOK /\ TypeOK'
        /\ SceneBytes \in SUBSET Nat
    BY CachesAssumption DEF IInv, TypeOK, InHand, SceneAnswered, Requests
  <1>2. /\ UNCHANGED <<rasters, used, other>>
        /\ \A u \in Threads : pc'[u] \in {"build", "retain"} =>
             req'[u] = req[u] /\ pc[u] \in {"build", "retain"}
    BY DEF SceneAnswered, Return, IInv, TypeOK
  <1>3. CASE UNCHANGED scenes
    BY <1>2, <1>3, AccountsStay
  <1>4. CASE Index(kept, size) # 0 /\ scenes' = [scenes EXCEPT ![svg] = Touch(kept, size)]
    <2> DEFINE new == Touch(kept, size)
    <2>1. /\ new \in Seq(Entries(SceneBytes)) /\ Len(new) = Len(kept)
          /\ Bytes(new) = Bytes(kept)
          /\ \A j \in 1..Len(kept) : \E i \in 1..Len(kept) : new[j] = kept[i]
          /\ Distinct(kept) => Distinct(new)
      BY <1>1, <1>4, TouchMoves
    <2>2. scenes'[svg] = new /\ \A s \in Svgs \ {svg} : scenes'[s] = scenes[s]
      <3> HIDE DEF new
      <3>1. QED
        BY <1>1, <1>4 DEF new, TypeOK
    <2>3. Len(kept) <= MaxRasterSizes /\ Distinct(kept)
      BY <1>1 DEF Accounts, SizesKeptOnce, Distinct
    <2>4. kept = scenes[svg]
      OBVIOUS
    <2> HIDE DEF new, kept, svg, size
    <2>5. SizesKeptOnce'
      <3>1. Len(new) <= MaxRasterSizes /\ Distinct(new)
        BY <2>1, <2>3
      <3>2. QED
        BY <1>1, <1>2, <2>2, <3>1, SizesStay DEF Accounts
    <2>6. Balanced'
      <3>1. used' <= Limit
        BY <1>2 DEF Accounts, Balanced
      <3>2. used' + Bytes(scenes[svg]) + Bytes(rasters[svg])
              = used + Bytes(scenes'[svg]) + Bytes(rasters'[svg])
        BY <1>2, <2>1, <2>2, <2>4
      <3>3. QED
        BY <1>1, <1>2, <2>2, <3>1, <3>2, StaysBalanced DEF Accounts
    <2>7. NotKeptYet'
      <3>1. ASSUME NEW u \in Threads, pc'[u] \in {"build", "retain"}
            PROVE  Index(scenes'[req'[u].svg], req'[u].size) = 0
        <4>1. req'[u] = req[u] /\ Index(scenes[req[u].svg], req[u].size) = 0
          BY <1>2, <3>1 DEF Accounts, NotKeptYet
        <4>2. req[u].svg \in Svgs
          BY <1>2, <3>1 DEF IInv, InHand, Requests
        <4>3. CASE req[u].svg = svg
          <5>1. ~ \E i \in 1..Len(kept) : SameSize(kept[i].size, req[u].size)
            BY <1>1, <2>4, <4>1, <4>3, IndexFinds
          <5>2. ~ \E j \in 1..Len(new) : SameSize(new[j].size, req[u].size)
            BY <2>1, <5>1
          <5>3. QED
            BY <2>1, <2>2, <4>1, <4>3, <5>2, IndexFinds
        <4>4. CASE req[u].svg # svg
          BY <2>2, <4>1, <4>2, <4>4
        <4>5. QED
          BY <4>3, <4>4
      <3>2. QED
        BY <3>1 DEF NotKeptYet
    <2>8. QED
      BY <2>5, <2>6, <2>7 DEF Accounts
  <1>5. QED
    BY <1>3, <1>4 DEF SceneAnswered

\* Two threads that build scenes of one source build different sizes.
LEMMA BuildersDiffer ==
  ASSUME IInv, NEW t \in Threads, NEW u \in Threads, t # u, Building(t), Building(u),
         req[t].svg = req[u].svg
  PROVE  ~SameSize(req[t].size, req[u].size)
PROOF
  <1> DEFINE s == req[t].svg
  <1>1. InHand(t) /\ InHand(u)
    BY DEF IInv
  <1>2. s \in Svgs /\ mine[t] # mine[u]
    BY <1>1 DEF InHand, Building, Requests
  <1>3. mine[t] \in sceneLoading[s] /\ mine[u] \in sceneLoading[s]
    BY <1>2 DEF IInv, FlightsOfBuilders
  <1>4. ~SameSize(flights[mine[t]].size, flights[mine[u]].size)
    BY <1>2, <1>3 DEF IInv, OneFlightPerSize
  <1>5. QED
    BY <1>1, <1>4 DEF InHand

LEMMA RetainAccounts ==
  ASSUME IInv, IInv', Accounts, NEW t \in Threads, RetainScene(t)
  PROVE  Accounts'
PROOF
  <1> DEFINE svg == req[t].svg
             size == req[t].size
             kept == scenes[svg]
             bytes == built[t]
             new == Inserted(kept, size, bytes)
  <1>1. /\ svg \in Svgs /\ size \in Sizes /\ bytes \in SceneBytes /\ TypeOK /\ TypeOK'
        /\ kept \in Seq(Entries(SceneBytes)) /\ SceneBytes \in SUBSET Nat /\ used \in Nat
        /\ pc[t] = "retain"
    BY CachesAssumption DEF IInv, TypeOK, InHand, RetainScene, Requests
  <1>2. /\ UNCHANGED <<req, rasters, other>> /\ pc'[t] = "complete"
        /\ \A u \in Threads \ {t} : pc'[u] = pc[u]
    BY DEF RetainScene, Goto, IInv, TypeOK
  <1>3. CASE UNCHANGED <<scenes, used>>
    <2>1. \A u \in Threads : pc'[u] \in {"build", "retain"} => pc[u] \in {"build", "retain"}
      BY <1>2
    <2>2. QED
      BY <1>2, <1>3, <2>1, AccountsStay
  <1>4. CASE /\ ~(bytes > Remaining + Bytes(kept))
             /\ scenes' = [scenes EXCEPT ![svg] = new] /\ used' = Charge(kept, bytes)
    <2>1. /\ Bytes(kept) \in Nat /\ Bytes(rasters[svg]) \in Nat
          /\ Bytes(kept) <= used /\ used <= Limit
      <3> DEFINE sum == SumFunctionOnSet(KeptBytes(scenes, rasters), Svgs)
      <3>1. /\ sum \in Nat /\ Bytes(scenes[svg]) \in Nat /\ Bytes(rasters[svg]) \in Nat
            /\ Bytes(scenes[svg]) + Bytes(rasters[svg]) <= sum
        BY <1>1, KeptWeights DEF TypeOK
      <3>2. used = other + sum /\ used <= Limit /\ other \in Nat
        BY <1>1 DEF Accounts, Balanced, TypeOK
      <3> HIDE DEF sum
      <3>3. QED
        BY <1>1, <3>1, <3>2
    <2>2. Remaining \in Nat /\ bytes \in Nat
      <3>1. Limit \in Nat /\ used \in Nat /\ bytes \in Nat
        BY <1>1, CachesAssumption
      <3>2. QED
        BY <3>1 DEF Remaining, Monus
    <2>3. bytes <= Remaining + Bytes(kept)
      <3> HIDE DEF kept, bytes
      <3>1. QED
        BY <1>4, <2>1, <2>2
    <2>4. Index(kept, size) = 0
      BY <1>1 DEF Accounts, NotKeptYet
    <2>5. Distinct(kept)
      BY <1>1 DEF Accounts, SizesKeptOnce, Distinct
    <2>6. /\ new \in Seq(Entries(SceneBytes)) /\ Len(new) <= MaxRasterSizes /\ Distinct(new)
          /\ \A j \in 1..Len(new) :
               \/ new[j] = [size |-> size, bytes |-> bytes]
               \/ \E i \in 1..Len(kept) : new[j] = kept[i]
          /\ Charge(kept, bytes) <= Limit
          /\ Charge(kept, bytes) + Bytes(kept) = used + Bytes(new)
          /\ Charge(kept, bytes) \in Nat
      <3> HIDE DEF kept, bytes, size
      <3>1. QED
        BY <1>1, <2>1, <2>3, <2>4, <2>5, InsertFits
    <2>7. scenes'[svg] = new /\ \A s \in Svgs \ {svg} : scenes'[s] = scenes[s]
      <3> HIDE DEF new
      <3>1. QED
        BY <1>1, <1>4 DEF TypeOK
    <2>8. kept = scenes[svg]
      OBVIOUS
    <2> HIDE DEF new, kept, bytes
    <2>9. SizesKeptOnce'
      BY <1>1, <1>2, <2>6, <2>7, SizesStay DEF Accounts
    <2>10. Balanced'
      <3>1. used' + Bytes(scenes[svg]) + Bytes(rasters[svg])
              = used + Bytes(scenes'[svg]) + Bytes(rasters'[svg])
        <4>1. Bytes(new) \in Nat
          BY <1>1, <2>6, BytesAreSum
        <4>2. used' + Bytes(kept) = used + Bytes(new) /\ used' \in Nat
          BY <1>4, <2>6
        <4>3. used' + Bytes(kept) + Bytes(rasters[svg]) = used + Bytes(new) + Bytes(rasters[svg])
          BY <1>1, <2>1, <4>1, <4>2
        <4>4. QED
          BY <1>2, <2>7, <2>8, <4>3
      <3>2. QED
        BY <1>1, <1>2, <1>4, <2>6, <2>7, <3>1, StaysBalanced DEF Accounts
    <2>11. NotKeptYet'
      <3>1. ASSUME NEW u \in Threads, pc'[u] \in {"build", "retain"}
            PROVE  Index(scenes'[req'[u].svg], req'[u].size) = 0
        <4>1. /\ u # t /\ pc[u] \in {"build", "retain"} /\ req'[u] = req[u]
              /\ Index(scenes[req[u].svg], req[u].size) = 0
          BY <1>2, <3>1 DEF Accounts, NotKeptYet
        <4>2. req[u].svg \in Svgs
          BY <4>1 DEF IInv, InHand, Requests
        <4>3. CASE req[u].svg = svg
          <5>1. ~SameSize(size, req[u].size)
            BY <1>1, <4>1, <4>3, BuildersDiffer DEF Building
          <5>2. ~ \E i \in 1..Len(kept) : SameSize(kept[i].size, req[u].size)
            BY <1>1, <2>8, <4>1, <4>3, IndexFinds
          <5>3. ~ \E j \in 1..Len(new) : SameSize(new[j].size, req[u].size)
            BY <2>6, <5>1, <5>2
          <5>4. QED
            BY <2>6, <2>7, <4>1, <4>3, <5>3, IndexFinds
        <4>4. CASE req[u].svg # svg
          BY <2>7, <4>1, <4>2, <4>4
        <4>5. QED
          BY <4>3, <4>4
      <3>2. QED
        BY <3>1 DEF NotKeptYet
    <2>12. QED
      BY <2>9, <2>10, <2>11 DEF Accounts
  <1>5. QED
    BY <1>3, <1>4 DEF RetainScene, Inserted

LEMMA RasterizeAccounts ==
  ASSUME IInv, IInv', Accounts, NEW t \in Threads, NEW bytes \in RasterBytes,
         Rasterize(t, bytes)
  PROVE  Accounts'
PROOF
  <1> DEFINE svg == req[t].svg
             size == req[t].size
             kept == rasters[svg]
             new == Inserted(kept, size, bytes)
  <1>1. /\ svg \in Svgs /\ size \in Sizes /\ TypeOK /\ TypeOK'
        /\ kept \in Seq(Entries(RasterBytes)) /\ RasterBytes \in SUBSET Nat /\ used \in Nat
    BY CachesAssumption DEF IInv, TypeOK, InHand, Rasterize, Requests
  <1>2. /\ UNCHANGED <<scenes, other>> /\ Index(kept, size) = 0
        /\ bytes <= Remaining + Bytes(kept)
        /\ rasters' = [rasters EXCEPT ![svg] = new] /\ used' = Charge(kept, bytes)
    BY DEF Rasterize, Inserted, Available
  <1>3. /\ Bytes(kept) \in Nat /\ Bytes(scenes[svg]) \in Nat
        /\ Bytes(kept) <= used /\ used <= Limit
    <2> DEFINE sum == SumFunctionOnSet(KeptBytes(scenes, rasters), Svgs)
    <2>1. /\ sum \in Nat /\ Bytes(scenes[svg]) \in Nat /\ Bytes(rasters[svg]) \in Nat
          /\ Bytes(scenes[svg]) + Bytes(rasters[svg]) <= sum
      BY <1>1, KeptWeights DEF TypeOK
    <2>2. used = other + sum /\ used <= Limit /\ other \in Nat
      BY <1>1 DEF Accounts, Balanced, TypeOK
    <2> HIDE DEF sum
    <2>3. QED
      BY <1>1, <2>1, <2>2
  <1>4. Distinct(kept)
    BY <1>1 DEF Accounts, SizesKeptOnce, Distinct
  <1>5. /\ new \in Seq(Entries(RasterBytes)) /\ Len(new) <= MaxRasterSizes /\ Distinct(new)
        /\ Charge(kept, bytes) <= Limit /\ Charge(kept, bytes) \in Nat
        /\ Charge(kept, bytes) + Bytes(kept) = used + Bytes(new)
    <2> HIDE DEF kept, size
    <2>1. QED
      BY <1>1, <1>2, <1>3, <1>4, InsertFits
  <1>6. rasters'[svg] = new /\ \A s \in Svgs \ {svg} : rasters'[s] = rasters[s]
    <2> HIDE DEF new
    <2>1. QED
      BY <1>1, <1>2 DEF TypeOK
  <1>7. kept = rasters[svg]
    OBVIOUS
  <1> HIDE DEF new, kept
  <1>8. SizesKeptOnce'
    BY <1>1, <1>2, <1>5, <1>6, SizesStay DEF Accounts
  <1>9. Balanced'
    <2>1. used' + Bytes(scenes[svg]) + Bytes(rasters[svg])
            = used + Bytes(scenes'[svg]) + Bytes(rasters'[svg])
      <3>1. Bytes(new) \in Nat
        BY <1>1, <1>5, BytesAreSum
      <3>2. used' + Bytes(kept) = used + Bytes(new) /\ used' \in Nat
        BY <1>2, <1>5
      <3>3. used' + Bytes(scenes[svg]) + Bytes(kept) = used + Bytes(scenes[svg]) + Bytes(new)
        <4> DEFINE drawn == Bytes(scenes[svg])
        <4>1. drawn \in Nat /\ Bytes(kept) \in Nat /\ used \in Nat
          BY <1>1, <1>3
        <4> HIDE DEF drawn
        <4>2. used' + drawn + Bytes(kept) = used + drawn + Bytes(new)
          BY <3>1, <3>2, <4>1
        <4>3. QED
          BY <4>2 DEF drawn
      <3>4. QED
        BY <1>2, <1>6, <1>7, <3>3
    <2>2. QED
      BY <1>1, <1>2, <1>5, <1>6, <2>1, StaysBalanced DEF Accounts
  <1>10. NotKeptYet'
    <2>1. \A u \in Threads : pc'[u] \in {"build", "retain"} =>
            pc[u] \in {"build", "retain"} /\ req'[u] = req[u]
      BY DEF Rasterize, Return, IInv, TypeOK
    <2>2. QED
      BY <1>2, <2>1 DEF Accounts, NotKeptYet
  <1>11. QED
    BY <1>8, <1>9, <1>10 DEF Accounts

LEMMA RasterAnsweredAccounts ==
  ASSUME IInv, IInv', Accounts, NEW t \in Threads, RasterAnswered(t)
  PROVE  Accounts'
PROOF
  <1> DEFINE svg == req[t].svg
             size == req[t].size
             kept == rasters[svg]
             new == Touch(kept, size)
  <1>1. /\ svg \in Svgs /\ TypeOK /\ TypeOK'
        /\ kept \in Seq(Entries(RasterBytes)) /\ RasterBytes \in SUBSET Nat
    BY CachesAssumption DEF IInv, TypeOK, InHand, RasterAnswered, Requests
  <1>2. /\ UNCHANGED <<scenes, used, other>>
        /\ \A u \in Threads : pc'[u] \in {"build", "retain"} =>
             req'[u] = req[u] /\ pc[u] \in {"build", "retain"}
    BY DEF RasterAnswered, Return, IInv, TypeOK
  <1>3. CASE UNCHANGED rasters
    BY <1>2, <1>3, AccountsStay
  <1>4. CASE Index(kept, size) # 0 /\ rasters' = [rasters EXCEPT ![svg] = new]
    <2>1. /\ Len(new) = Len(kept) /\ Bytes(new) = Bytes(kept)
          /\ Distinct(kept) => Distinct(new)
      BY <1>1, <1>4, TouchMoves
    <2>2. rasters'[svg] = new /\ \A s \in Svgs \ {svg} : rasters'[s] = rasters[s]
      <3> HIDE DEF new
      <3>1. QED
        BY <1>1, <1>4 DEF TypeOK
    <2>3. Len(kept) <= MaxRasterSizes /\ Distinct(kept) /\ kept = rasters[svg]
      BY <1>1 DEF Accounts, SizesKeptOnce, Distinct
    <2> HIDE DEF new, kept, svg, size
    <2>4. Len(new) <= MaxRasterSizes /\ Distinct(new)
      BY <2>1, <2>3
    <2>5. SizesKeptOnce'
      BY <1>1, <1>2, <2>2, <2>4, SizesStay DEF Accounts
    <2>6. Balanced'
      <3>1. used' <= Limit
        BY <1>2 DEF Accounts, Balanced
      <3>2. used' + Bytes(scenes[svg]) + Bytes(rasters[svg])
              = used + Bytes(scenes'[svg]) + Bytes(rasters'[svg])
        BY <1>2, <2>1, <2>2, <2>3
      <3>3. QED
        BY <1>1, <1>2, <2>2, <3>1, <3>2, StaysBalanced DEF Accounts
    <2>7. NotKeptYet'
      BY <1>2 DEF Accounts, NotKeptYet
    <2>8. QED
      BY <2>5, <2>6, <2>7 DEF Accounts
  <1>5. QED
    BY <1>3, <1>4 DEF RasterAnswered

LEMMA OtherAccounts ==
  ASSUME IInv, Accounts, NEW n \in {0} \cup OtherBytes, ChargeOther(n)
  PROVE  Accounts'
PROOF
  <1>1. UNCHANGED <<pc, req, scenes, rasters>>
    BY DEF ChargeOther, threadVars
  <1>2. NotKeptYet' /\ SizesKeptOnce'
    BY <1>1 DEF Accounts, NotKeptYet, SizesKeptOnce
  <1> DEFINE sum == SumFunctionOnSet(KeptBytes(scenes, rasters), Svgs)
  <1>3. n \in Nat /\ used \in Nat /\ other \in Nat /\ sum \in Nat
    <2>1. n \in Nat
      BY CachesAssumption
    <2>2. used \in Nat /\ other \in Nat
      BY DEF IInv, TypeOK
    <2>3. sum \in Nat
      BY KeptWeights DEF IInv, TypeOK
    <2>4. QED
      BY <2>1, <2>2, <2>3
  <1>4. /\ used = other + sum
        /\ used - other + n <= Limit /\ used' = used - other + n /\ other' = n
    BY DEF Accounts, Balanced, ChargeOther
  <1> HIDE DEF sum
  <1>5. used' = other' + sum /\ used' <= Limit
    BY <1>3, <1>4
  <1>6. Balanced'
    BY <1>1, <1>5 DEF Balanced, sum
  <1>7. QED
    BY <1>2, <1>6 DEF Accounts

\* The steps that keep and charge nothing.
LEMMA StaysKept ==
  ASSUME IInv, Accounts, NEW t \in Threads,
         \/ \E svg \in Svgs, size \in Sizes : Call(t, svg, size, "scene")
                                               \/ Call(t, svg, size, "raster")
         \/ SceneJoins(t) \/ SceneOwns(t) \/ FlightWait(t) \/ WakeSpuriously(t)
         \/ \E n \in SceneBytes : BuildScene(t, n)
         \/ BuildFails(t) \/ BuildFallsBack(t) \/ Complete(t) \/ NotifyAll(t)
         \/ RasterizePanics(t)
  PROVE  Accounts'
PROOF
  <1>1. UNCHANGED <<scenes, rasters, used, other>>
    BY DEF Call, SceneJoins, SceneOwns, FlightWait, WakeSpuriously, BuildScene, BuildFails,
       BuildFallsBack, Complete, NotifyAll, RasterizePanics, keptVars
  <1> DEFINE Same(u) == pc'[u] \in {"build", "retain"} =>
               /\ req'[u] = req[u]
               /\ \/ pc[u] \in {"build", "retain"}
                  \/ Index(scenes[req[u].svg], req[u].size) = 0
  <1>2. ASSUME NEW u \in Threads
        PROVE  Same(u)
    <2>1. CASE \E svg \in Svgs, size \in Sizes : Call(t, svg, size, "scene")
                                                 \/ Call(t, svg, size, "raster")
      BY <2>1 DEF Call, Goto, IInv, TypeOK
    <2>2. CASE SceneJoins(t) \/ FlightWait(t) \/ WakeSpuriously(t)
      BY <2>2 DEF SceneJoins, FlightWait, WakeSpuriously, Goto, Return, IInv, TypeOK
    <2>3. CASE SceneOwns(t)
      BY <2>3 DEF SceneOwns, Misses, Goto, IInv, TypeOK
    <2>4. CASE \/ \E n \in SceneBytes : BuildScene(t, n)
               \/ BuildFails(t) \/ BuildFallsBack(t) \/ Complete(t)
      BY <2>4 DEF BuildScene, BuildFails, BuildFallsBack, Complete, Goto, IInv, TypeOK
    <2>5. CASE NotifyAll(t)
      BY <2>5 DEF NotifyAll, IInv, TypeOK
    <2>6. CASE RasterizePanics(t)
      BY <2>6 DEF RasterizePanics, Return, IInv, TypeOK
    <2>7. QED
      BY <2>1, <2>2, <2>3, <2>4, <2>5, <2>6
  <1>3. QED
    BY <1>1, <1>2, AccountsStay

LEMMA AccountsKept == IInv /\ IInv' /\ Accounts /\ [Next]_vars => Accounts'
PROOF
  <1> SUFFICES ASSUME IInv, IInv', Accounts, [Next]_vars
               PROVE  Accounts'
    OBVIOUS
  <1>1. CASE UNCHANGED vars
    BY <1>1, AccountsStay DEF vars, threadVars, keptVars
  <1>2. ASSUME NEW t \in Threads, Step(t)
        PROVE  Accounts'
    BY <1>2, SceneAnsweredAccounts, RetainAccounts, RasterAnsweredAccounts,
       RasterizeAccounts, StaysKept DEF Step
  <1>3. QED
    BY <1>1, <1>2, StaysKept, OtherAccounts DEF Next

\* The sum the property states.
LEMMA TotalIsSum ==
  MapThenSumSet(LAMBDA s : Bytes(scenes[s]) + Bytes(rasters[s]), Svgs)
    = SumFunctionOnSet(KeptBytes(scenes, rasters), Svgs)
PROOF
  <1> DEFINE w == KeptBytes(scenes, rasters)
             Body(it, s) == IF s = {} THEN 0
                            ELSE (Bytes(scenes[Pick(s)]) + Bytes(rasters[Pick(s)]))
                                   + it[s \ {Pick(s)}]
             Fold(it) == it = [s \in SUBSET Svgs |-> Body(it, s)]
             F == CHOOSE it : Fold(it)
  <1>1. IsFiniteSet(Svgs)
    BY CachesAssumption
  <1>2. ASSUME NEW it
        PROVE  Fold(it) <=> SumsOf(w, Svgs, it)
    <2>1. \A s \in SUBSET Svgs :
            s # {} => w[Pick(s)] = Bytes(scenes[Pick(s)]) + Bytes(rasters[Pick(s)])
      BY PickIn DEF KeptBytes
    <2> HIDE DEF w
    <2>2. [s \in SUBSET Svgs |-> Body(it, s)]
          = [s \in SUBSET Svgs |-> IF s = {} THEN 0 ELSE w[Pick(s)] + it[s \ {Pick(s)}]]
      BY <2>1
    <2> HIDE DEF Body
    <2>3. QED
      BY <2>2 DEF SumsOf
  <1>3. SumsOf(w, Svgs, F)
    <2> HIDE DEF Fold
    <2>1. Fold(Sums(w, Svgs))
      BY <1>1, <1>2, SumsAreSums
    <2>2. Fold(F)
      BY <2>1
    <2>3. QED
      BY <1>2, <2>2
  <1>4. MapThenSumSet(LAMBDA s : Bytes(scenes[s]) + Bytes(rasters[s]), Svgs) = F[Svgs]
    BY Zenon DEF MapThenSumSet, MapThenFoldSet, Pick
  <1> HIDE DEF F, w
  <1>5. F[Svgs] = SumFunctionOnSet(w, Svgs)
    BY <1>1, <1>3, FoldIsSum
  <1>6. QED
    BY <1>4, <1>5 DEF w

\* For any number of threads, sources and sizes: `used' is what the scenes and
\* rasters kept and the rest of the cache take, evictions included, it stays within
\* the limit, and no source keeps a size twice or more sizes than allowed
\* (retain_scene, rasterize, evict_least_recently_used).
THEOREM ChargedExactlyAlways == Spec => []ChargedExactly
PROOF
  <1>1. Init => Accounts
    BY AccountsInit
  <1>2. IInv /\ IInv' /\ Accounts /\ [Next]_vars => Accounts'
    BY AccountsKept
  <1>3. Accounts => ChargedExactly
    BY TotalIsSum DEF Accounts, Balanced, ChargedExactly
  <1>4. QED
    BY <1>1, <1>2, <1>3, Always, PTL DEF Spec
=============================================================================
