--------------------------- MODULE DocumentProofs ---------------------------
(***************************************************************************)
(* Proofs about what script does to a document: where variadic calls place *)
(* nodes, and the order of the run.                                        *)
(*                                                                         *)
(* A variadic call gathers and then places its arguments in rounds: what   *)
(* each round leaves in place is what the next one starts from, and the    *)
(* last one leaves the children that were asked for (PlacedAsAsked).       *)
(*                                                                         *)
(* Of the run.  With any number of scripts, written by scripts or parsed,  *)
(* while no limit stops it, the document is the scripts that were reached, *)
(* then those the running script wrote, then those still on the stack of   *)
(* execute_script, then those of the loop over the parsed ones (Layout):   *)
(* this is what makes the order of the reached ones inductive.             *)
(***************************************************************************)
EXTENDS DocumentRun, DomProofs

----------------------------------------------------------------------------
(* Lists of nodes, and what is left of them. *)

\* Induction over lists, with the property given as the set of its lists.
LEMMA ListInduction ==
  ASSUME NEW S, <<>> \in S, \A s \in Seq(Nat), x \in Nat : s \in S => Append(s, x) \in S
  PROVE  Seq(Nat) \subseteq S
PROOF
  <1> DEFINE Good == {n \in Nat : \A s \in Seq(Nat) : Len(s) = n => s \in S}
  <1>1. 0 \in Good
    BY Listed, EmptySeq
  <1>2. ASSUME NEW n \in Nat, n \in Good
        PROVE  n + 1 \in Good
    <2>1. ASSUME NEW s \in Seq(Nat), Len(s) = n + 1
          PROVE  s \in S
      <3>1. s # <<>>
        BY <2>1, EmptySeq
      <3>2. PICK t \in Seq(Nat), x \in Nat : s = Append(t, x)
        BY <3>1, SequenceEmptyOrAppend
      <3>3. Len(s) = Len(t) + 1 /\ Len(t) \in Nat
        BY <3>2, AppendProperties, LenProperties
      <3>4. Len(t) = n
        BY <2>1, <3>3
      <3>5. QED
        BY <1>2, <3>2, <3>4
    <2>2. QED
      BY <2>1
  <1>3. Nat \subseteq Good
    <2> HIDE DEF Good
    <2>1. QED
      BY <1>1, <1>2, Naturally
  <1>4. QED
    BY <1>3, LenProperties

LEMMA WithoutNone == ASSUME NEW g PROVE Without(<<>>, g) = <<>>
PROOF
  <1> DEFINE none == <<>>
  <1>1. none \in Seq(Nat) /\ ToSet(none) = {}
    BY Listed, EmptySeq
  <1>2. Without(none, g) \in Seq(Nat) /\ ToSet(Without(none, g)) = {}
    <2> HIDE DEF none
    <2>1. QED
      BY <1>1, WithoutIs
  <1>3. QED
    BY <1>2, Listed

\* The last element stays or goes.
LEMMA WithoutLast ==
  ASSUME NEW s \in Seq(Nat), NEW x \in Nat, NEW g
  PROVE  Without(Append(s, x), g) = IF x \in g THEN Without(s, g) ELSE Append(Without(s, g), x)
PROOF
  <1> DEFINE t == Append(s, x)
             n == Len(s)
             u == Upto(s, g)
             v == Upto(t, g)
             Good == {k \in Nat : k <= n => v[k] = u[k]}
  <1>1. /\ n \in Nat /\ t \in Seq(Nat) /\ Len(t) = n + 1
        /\ \A i \in 1..n : t[i] = s[i]
        /\ t[n + 1] = x
    BY AppendProperties, LenProperties
  <1>2. /\ u[0] = <<>> /\ Without(s, g) = u[n]
        /\ \A k \in 1..n : u[k] = IF s[k] \in g THEN u[k - 1] ELSE Append(u[k - 1], s[k])
    BY <1>1, UptoStep
  <1> HIDE DEF t
  <1>3. /\ v[0] = <<>> /\ Without(t, g) = v[n + 1]
        /\ \A k \in 1..(n + 1) : v[k] = IF t[k] \in g THEN v[k - 1] ELSE Append(v[k - 1], t[k])
    BY <1>1, UptoStep
  <1> HIDE DEF n, u, v
  <1>4. 0 \in Good
    BY <1>2, <1>3
  <1>5. ASSUME NEW k \in Nat, k \in Good
        PROVE  k + 1 \in Good
    <2>1. ASSUME k + 1 <= n
          PROVE  v[k + 1] = u[k + 1]
      <3>1. k + 1 \in 1..n /\ k + 1 \in 1..(n + 1) /\ (k + 1) - 1 = k /\ k <= n
        BY <1>1, <2>1
      <3>2. v[k] = u[k] /\ t[k + 1] = s[k + 1]
        BY <1>1, <1>5, <3>1
      <3>3. QED
        BY <1>2, <1>3, <3>1, <3>2
    <2>2. QED
      BY <2>1
  <1>6. Nat \subseteq Good
    <2> HIDE DEF Good
    <2>1. QED
      BY <1>4, <1>5, Naturally
  <1>7. v[n] = u[n]
    BY <1>1, <1>6
  <1>8. n + 1 \in 1..(n + 1) /\ (n + 1) - 1 = n
    BY <1>1
  <1>9. v[n + 1] = IF x \in g THEN v[n] ELSE Append(v[n], x)
    BY <1>1, <1>3, <1>8
  <1>10. QED
    BY <1>2, <1>3, <1>7, <1>9 DEF t

LEMMA JoinLast ==
  ASSUME NEW s \in Seq(Nat), NEW t \in Seq(Nat), NEW x \in Nat
  PROVE  s \o Append(t, x) = Append(s \o t, x)
PROOF
  <1>1. <<x>> \in Seq(Nat) /\ s \o t \in Seq(Nat)
    BY ConcatProperties
  <1>2. Append(t, x) = t \o <<x>> /\ Append(s \o t, x) = (s \o t) \o <<x>>
    BY <1>1, AppendIsConcat
  <1>3. QED
    BY <1>1, <1>2, ConcatAssociative

LEMMA WithoutJoin ==
  ASSUME NEW s \in Seq(Nat), NEW t \in Seq(Nat), NEW g
  PROVE  Without(s \o t, g) = Without(s, g) \o Without(t, g)
PROOF
  <1> DEFINE S == {u \in Seq(Nat) : Without(s \o u, g) = Without(s, g) \o Without(u, g)}
  <1>0. Without(s, g) \in Seq(Nat)
    BY WithoutIs
  <1>1. <<>> \in S
    BY <1>0, WithoutNone, ConcatEmptySeq, EmptySeq
  <1>2. ASSUME NEW u \in Seq(Nat), NEW x \in Nat, u \in S
        PROVE  Append(u, x) \in S
    <2>1. /\ s \o u \in Seq(Nat) /\ Append(u, x) \in Seq(Nat)
          /\ Without(u, g) \in Seq(Nat)
      BY ConcatProperties, AppendProperties, WithoutIs
    <2>2. s \o Append(u, x) = Append(s \o u, x)
      BY JoinLast
    <2>3. Without(Append(s \o u, x), g)
            = IF x \in g THEN Without(s \o u, g) ELSE Append(Without(s \o u, g), x)
      BY <2>1, WithoutLast
    <2>4. Without(Append(u, x), g) = IF x \in g THEN Without(u, g) ELSE Append(Without(u, g), x)
      BY WithoutLast
    <2>5. Without(s, g) \o Append(Without(u, g), x) = Append(Without(s, g) \o Without(u, g), x)
      BY <1>0, <2>1, JoinLast
    <2>6. QED
      BY <1>2, <2>1, <2>2, <2>3, <2>4, <2>5
  <1>3. Seq(Nat) \subseteq S
    <2> HIDE DEF S
    <2>1. QED
      BY <1>1, <1>2, ListInduction
  <1>4. QED
    BY <1>3

\* All of it, or none.
LEMMA WithoutOthers ==
  ASSUME NEW s \in Seq(Nat), NEW g
  PROVE  /\ ToSet(s) \cap g = {} => Without(s, g) = s
         /\ ToSet(s) \subseteq g => Without(s, g) = <<>>
PROOF
  <1> DEFINE S == {u \in Seq(Nat) : ToSet(u) \cap g = {} => Without(u, g) = u}
  <1>1. <<>> \in S
    BY WithoutNone, EmptySeq
  <1>2. ASSUME NEW u \in Seq(Nat), NEW x \in Nat, u \in S
        PROVE  Append(u, x) \in S
    <2>1. ToSet(Append(u, x)) = ToSet(u) \cup {x} /\ Append(u, x) \in Seq(Nat)
      <3> DEFINE one == <<x>>
      <3>1. one \in Seq(Nat) /\ Append(u, x) = u \o one /\ ToSet(one) = {x}
        BY AppendIsConcat DEF ToSet
      <3> HIDE DEF one
      <3>2. u \o one \in Seq(Nat) /\ ToSet(u \o one) = ToSet(u) \cup ToSet(one)
        BY <3>1, JoinedIs
      <3>3. QED
        BY <3>1, <3>2
    <2>2. QED
      BY <1>2, <2>1, WithoutLast
  <1>3. Seq(Nat) \subseteq S
    <2> HIDE DEF S
    <2>1. QED
      BY <1>1, <1>2, ListInduction
  <1>4. ASSUME ToSet(s) \subseteq g
        PROVE  Without(s, g) = <<>>
    <2>1. Without(s, g) \in Seq(Nat) /\ ToSet(Without(s, g)) = {}
      BY <1>4, WithoutIs
    <2>2. QED
      BY <2>1, Listed
  <1>5. QED
    BY <1>3, <1>4

LEMMA WithoutTwice ==
  ASSUME NEW s \in Seq(Nat), NEW g, NEW h
  PROVE  Without(Without(s, g), h) = Without(s, g \cup h)
PROOF
  <1> DEFINE S == {u \in Seq(Nat) : Without(Without(u, g), h) = Without(u, g \cup h)}
  <1>1. <<>> \in S
    BY WithoutNone, EmptySeq
  <1>2. ASSUME NEW u \in Seq(Nat), NEW x \in Nat, u \in S
        PROVE  Append(u, x) \in S
    <2>1. Without(u, g) \in Seq(Nat) /\ Append(u, x) \in Seq(Nat)
      BY WithoutIs, AppendProperties
    <2>2. Without(Append(u, x), g) = IF x \in g THEN Without(u, g) ELSE Append(Without(u, g), x)
      BY WithoutLast
    <2>3. Without(Append(Without(u, g), x), h)
            = IF x \in h THEN Without(Without(u, g), h) ELSE Append(Without(Without(u, g), h), x)
      BY <2>1, WithoutLast
    <2>4. Without(Append(u, x), g \cup h)
            = IF x \in g \cup h THEN Without(u, g \cup h) ELSE Append(Without(u, g \cup h), x)
      BY WithoutLast
    <2>5. QED
      BY <1>2, <2>1, <2>2, <2>3, <2>4
  <1>3. Seq(Nat) \subseteq S
    <2> HIDE DEF S
    <2>1. QED
      BY <1>1, <1>2, ListInduction
  <1>4. QED
    BY <1>3

----------------------------------------------------------------------------
(* Places in a list. *)

First(s) == IF s = <<>> THEN None ELSE s[1]
PlaceIn(s, v) == CHOOSE i \in DOMAIN s : s[i] = v
NextIn(s, v) == IF PlaceIn(s, v) < Len(s) THEN s[PlaceIn(s, v) + 1] ELSE None

LEMMA OneIs ==
  ASSUME NEW x \in Nat
  PROVE  LET one == <<x>>
         IN  one \in Seq(Nat) /\ Len(one) = 1 /\ one[1] = x /\ ToSet(one) = {x} /\ IsInjective(one)
BY DEF ToSet, IsInjective

LEMMA ConsIs ==
  ASSUME NEW x \in Nat, NEW b \in Seq(Nat)
  PROVE  LET t == <<x>> \o b
         IN  /\ t \in Seq(Nat) /\ Len(t) = 1 + Len(b) /\ t[1] = x /\ First(t) = x
             /\ ToSet(t) = {x} \cup ToSet(b) /\ t # <<>>
             /\ \A i \in 1..Len(b) : t[i + 1] = b[i]
PROOF
  <1> DEFINE one == <<x>>
             t == one \o b
  <1>1. one \in Seq(Nat) /\ Len(one) = 1 /\ one[1] = x /\ ToSet(one) = {x}
    BY OneIs
  <1> HIDE DEF one
  <1>2. /\ t \in Seq(Nat) /\ Len(t) = 1 + Len(b) /\ Len(b) \in Nat
        /\ \A i \in 1..(1 + Len(b)) : t[i] = IF i <= 1 THEN one[i] ELSE b[i - 1]
    <2>1. /\ t \in Seq(Nat) /\ Len(t) = Len(one) + Len(b)
          /\ \A i \in 1..(Len(one) + Len(b)) : t[i] = IF i <= Len(one) THEN one[i]
                                                      ELSE b[i - Len(one)]
      BY <1>1, ConcatProperties
    <2>2. Len(b) \in Nat
      BY LenProperties
    <2> HIDE DEF t
    <2>3. QED
      BY <1>1, <2>1, <2>2
  <1>3. ToSet(t) = ToSet(one) \cup ToSet(b)
    BY <1>1, JoinedIs
  <1> HIDE DEF t
  <1>4. t[1] = x
    BY <1>1, <1>2
  <1>5. ASSUME NEW i \in 1..Len(b)
        PROVE  t[i + 1] = b[i]
    <2>1. i + 1 \in 1..(1 + Len(b)) /\ ~(i + 1 <= 1) /\ (i + 1) - 1 = i
      BY <1>2
    <2>2. QED
      BY <1>2, <2>1
  <1>6. t # <<>>
    BY <1>2, EmptySeq
  <1>7. QED
    BY <1>1, <1>2, <1>3, <1>4, <1>5, <1>6 DEF First, t, one

LEMMA FirstIs ==
  ASSUME NEW b \in Seq(Nat)
  PROVE  \/ b = <<>> /\ First(b) = None
         \/ First(b) \in ToSet(b) /\ First(b) \in Nat
              /\ \E c \in Seq(Nat) : b = <<First(b)>> \o c
PROOF
  <1>1. CASE b = <<>>
    BY <1>1 DEF First
  <1>2. CASE b # <<>>
    <2>1. Len(b) \in Nat /\ Len(b) # 0 /\ DOMAIN b = 1..Len(b)
      BY <1>2, EmptySeq, LenProperties
    <2>2. 1 \in 1..Len(b) /\ Len(b) \in 1..Len(b)
      BY <2>1
    <2>3. SubSeq(b, 1, Len(b)) = <<b[1]>> \o SubSeq(b, 1 + 1, Len(b))
      BY <2>2, SubSeqRecursiveFirst
    <2>4. SubSeq(b, 1, Len(b)) = b
      BY SubSeqFull
    <2>5. SubSeq(b, 1 + 1, Len(b)) \in Seq(Nat)
      <3>1. 2 \in 1..(Len(b) + 1) /\ Len(b) \in 0..Len(b)
        BY <2>1
      <3>2. QED
        BY <3>1, PartIs
    <2>6. b[1] \in ToSet(b) /\ b[1] \in Nat
      BY <2>1, <2>2, Listed
    <2>7. QED
      BY <1>2, <2>3, <2>4, <2>5, <2>6 DEF First
  <1>3. QED
    BY <1>1, <1>2

\* What follows one another in a list without repetitions is disjoint.
LEMMA SplitIs ==
  ASSUME NEW a \in Seq(Nat), NEW b \in Seq(Nat), IsInjective(a \o b)
  PROVE  IsInjective(a) /\ IsInjective(b) /\ ToSet(a) \cap ToSet(b) = {}
PROOF
  <1> DEFINE s == a \o b
             m == Len(a)
             n == Len(b)
  <1>1. /\ s \in Seq(Nat) /\ Len(s) = m + n /\ m \in Nat /\ n \in Nat
        /\ DOMAIN a = 1..m /\ DOMAIN b = 1..n
        /\ \A i \in 1..(m + n) : s[i] = IF i <= m THEN a[i] ELSE b[i - m]
    BY ConcatProperties, LenProperties
  <1>2. DOMAIN s = 1..(m + n) /\ IsInjective(s)
    BY <1>1, LenProperties
  <1> HIDE DEF s, m, n
  <1>3. \A i \in 1..m : i \in 1..(m + n) /\ s[i] = a[i]
    BY <1>1
  <1>4. ASSUME NEW i \in 1..n
        PROVE  i + m \in 1..(m + n) /\ s[i + m] = b[i]
    <2>1. i + m \in 1..(m + n) /\ ~(i + m <= m) /\ (i + m) - m = i
      BY <1>1
    <2>2. QED
      BY <1>1, <2>1
  <1>5. IsInjective(a)
    BY <1>1, <1>2, <1>3 DEF IsInjective
  <1>6. ASSUME NEW i \in 1..n, NEW j \in 1..n, b[i] = b[j]
        PROVE  i = j
    <2>1. i + m = j + m
      BY <1>2, <1>4, <1>6 DEF IsInjective
    <2>2. QED
      BY <1>1, <2>1
  <1>7. ASSUME NEW i \in 1..m, NEW j \in 1..n, a[i] = b[j]
        PROVE  FALSE
    <2>1. i = j + m
      BY <1>2, <1>3, <1>4, <1>7 DEF IsInjective
    <2>2. QED
      BY <1>1, <2>1
  <1>8. QED
    BY <1>1, <1>5, <1>6, <1>7 DEF IsInjective, ToSet

\* The place of v in a list, and what it is followed by.
LEMMA NextAround ==
  ASSUME NEW a \in Seq(Nat), NEW v \in Nat, NEW b \in Seq(Nat), IsInjective(a \o (<<v>> \o b))
  PROVE  LET s == a \o (<<v>> \o b)
         IN  /\ PlaceIn(s, v) = Len(a) + 1
             /\ NextIn(s, v) = First(b)
             /\ v \in ToSet(s) /\ v \notin ToSet(a) \cup ToSet(b)
PROOF
  <1> DEFINE t == <<v>> \o b
             s == a \o t
             m == Len(a)
             n == Len(b)
  <1>1. /\ t \in Seq(Nat) /\ Len(t) = 1 + n /\ t[1] = v
        /\ ToSet(t) = {v} \cup ToSet(b) /\ \A i \in 1..n : t[i + 1] = b[i]
    BY ConsIs
  <1>0. IsInjective(t) /\ ToSet(a) \cap ToSet(t) = {}
    BY <1>1, SplitIs
  <1>2. v \notin ToSet(b)
    <2> DEFINE one == <<v>>
    <2>1. one \in Seq(Nat) /\ ToSet(one) = {v} /\ IsInjective(one \o b)
      BY <1>0, OneIs
    <2> HIDE DEF one
    <2>2. ToSet(one) \cap ToSet(b) = {}
      BY <2>1, SplitIs
    <2>3. QED
      BY <2>1, <2>2
  <1> HIDE DEF t
  <1>3. /\ s \in Seq(Nat) /\ Len(s) = m + 1 + n /\ m \in Nat /\ n \in Nat /\ DOMAIN s = 1..Len(s)
        /\ \A i \in 1..(m + (1 + n)) : s[i] = IF i <= m THEN a[i] ELSE t[i - m]
    <2>1. /\ s \in Seq(Nat) /\ Len(s) = m + Len(t)
          /\ \A i \in 1..(m + Len(t)) : s[i] = IF i <= m THEN a[i] ELSE t[i - m]
      <3>1. t \in Seq(Nat)
        BY <1>1
      <3>2. QED
        BY <3>1, ConcatProperties
    <2>2. m \in Nat /\ n \in Nat /\ DOMAIN s = 1..Len(s)
      BY <2>1, LenProperties
    <2> HIDE DEF s, m, n
    <2>3. QED
      BY <1>1, <2>1, <2>2
  <1>4. IsInjective(s) /\ ToSet(s) = ToSet(a) \cup ToSet(t)
    <2>1. IsInjective(s)
      BY DEF t
    <2>2. t \in Seq(Nat)
      BY <1>1
    <2>3. ToSet(s) = ToSet(a) \cup ToSet(t)
      BY <2>2, JoinedIs
    <2>4. QED
      BY <2>1, <2>3
  <1> HIDE DEF s, m, n
  <1>5. m + 1 \in DOMAIN s /\ s[m + 1] = v
    <2>1. m + 1 \in 1..(m + (1 + n)) /\ ~(m + 1 <= m) /\ (m + 1) - m = 1
      BY <1>3
    <2>2. QED
      BY <1>1, <1>3, <2>1
  <1>6. PlaceIn(s, v) = m + 1
    BY <1>4, <1>5 DEF PlaceIn, IsInjective
  <1>7. NextIn(s, v) = First(b)
    <2>1. CASE n = 0
      <3>1. b = <<>>
        BY <2>1, EmptySeq DEF n
      <3>2. ~(m + 1 < Len(s))
        BY <1>3, <2>1
      <3>3. QED
        BY <1>6, <3>1, <3>2 DEF NextIn, First
    <2>2. CASE n # 0
      <3>1. b # <<>>
        BY <2>2, EmptySeq DEF n
      <3>2. m + 1 < Len(s) /\ 1 \in 1..n
        BY <1>3, <2>2
      <3>3. /\ m + 1 + 1 \in 1..(m + (1 + n)) /\ ~(m + 1 + 1 <= m) /\ (m + 1 + 1) - m = 1 + 1
        BY <1>3, <2>2
      <3>4. s[m + 1 + 1] = t[1 + 1] /\ t[1 + 1] = b[1]
        BY <1>1, <1>3, <3>2, <3>3
      <3>5. QED
        BY <1>6, <3>1, <3>2, <3>4 DEF NextIn, First
    <2>3. QED
      BY <2>1, <2>2
  <1>8. QED
    BY <1>0, <1>1, <1>2, <1>4, <1>6, <1>7 DEF s, t, m

LEMMA SplicedAround ==
  ASSUME NEW a \in Seq(Nat), NEW b \in Seq(Nat), NEW some \in Seq(Nat),
         IsInjective(a \o b), None \notin ToSet(a \o b)
  PROVE  Spliced(a \o b, First(b), some) = (a \o some) \o b
PROOF
  <1> DEFINE s == a \o b
             x == First(b)
  <1>1. s \in Seq(Nat) /\ ToSet(s) = ToSet(a) \cup ToSet(b) /\ a \o some \in Seq(Nat)
    BY JoinedIs
  <1>2. CASE b = <<>>
    <2>1. x = None /\ s = a /\ (a \o some) \o b = a \o some
      BY <1>1, <1>2, ConcatEmptySeq DEF First
    <2>2. QED
      BY <2>1 DEF Spliced
  <1>3. CASE b # <<>>
    <2>1. PICK c \in Seq(Nat) : b = <<x>> \o c /\ x \in ToSet(b) /\ x \in Nat
      BY <1>3, FirstIs
    <2>2. PlaceIn(s, x) = Len(a) + 1
      BY <2>1, NextAround
    <2>3. /\ Len(s) = Len(a) + Len(b) /\ Len(a) \in Nat /\ Len(b) \in Nat
      BY ConcatProperties, LenProperties
    <2>4. Spliced(s, x, some) = SubSeq(s, 1, PlaceIn(s, x) - 1) \o some
                                  \o SubSeq(s, PlaceIn(s, x), Len(s))
      BY <1>1, <2>1 DEF Spliced, PlaceIn
    <2>5. (Len(a) + 1) - 1 = Len(a)
      BY <2>3
    <2>6. SubSeq(s, 1, Len(a)) = a /\ SubSeq(s, Len(a) + 1, Len(s)) = b
      <3>1. CASE a = <<>>
        <4>1. Len(a) = 0 /\ s = b
          BY <3>1, EmptySeq, ConcatEmptySeq
        <4>2. SubSeq(s, 1, 0) = <<>>
          BY SubSeqEmpty
        <4>3. SubSeq(b, 1, Len(b)) = b
          BY SubSeqFull
        <4>4. Len(a) + 1 = 1
          BY <4>1
        <4>5. QED
          BY <3>1, <4>1, <4>2, <4>3, <4>4
      <3>2. CASE a # <<>>
        <4>1. Len(a) # 0 /\ Len(b) # 0
          BY <1>3, <3>2, EmptySeq
        <4>2. /\ 1 \in 1..Len(a) /\ Len(a) \in 1..Len(a)
              /\ Len(a) + 1 \in (Len(a) + 1)..(Len(a) + Len(b))
              /\ Len(s) \in (Len(a) + 1)..(Len(a) + Len(b))
              /\ (Len(a) + 1) - Len(a) = 1 /\ Len(s) - Len(a) = Len(b)
          BY <2>3, <4>1
        <4>3. SubSeq(s, 1, Len(a)) = SubSeq(a, 1, Len(a))
          BY <4>2, SubSeqOfConcat1
        <4>4. SubSeq(s, Len(a) + 1, Len(s)) = SubSeq(b, (Len(a) + 1) - Len(a), Len(s) - Len(a))
          BY <4>2, SubSeqOfConcat2
        <4>5. SubSeq(a, 1, Len(a)) = a /\ SubSeq(b, 1, Len(b)) = b
          BY SubSeqFull
        <4>6. QED
          BY <4>2, <4>3, <4>4, <4>5
      <3>3. QED
        BY <3>1, <3>2
    <2>7. QED
      BY <2>2, <2>4, <2>5, <2>6
  <1>4. QED
    BY <1>2, <1>3

\* A list around one of its places.
LEMMA CutAt ==
  ASSUME NEW s \in Seq(Nat), NEW at \in 1..Len(s)
  PROVE  LET a == SubSeq(s, 1, at - 1)
             b == SubSeq(s, at + 1, Len(s))
         IN  /\ a \in Seq(Nat) /\ b \in Seq(Nat) /\ s[at] \in Nat /\ s = a \o (<<s[at]>> \o b)
             /\ ToSet(a) = {s[i] : i \in 1..(at - 1)} /\ ToSet(b) = {s[i] : i \in (at + 1)..Len(s)}
PROOF
  <1> DEFINE n == Len(s)
             a == SubSeq(s, 1, at - 1)
             b == SubSeq(s, at + 1, n)
  <1>1. n \in Nat /\ DOMAIN s = 1..n
    BY LenProperties
  <1>2. /\ 1 \in 1..(n + 1) /\ at - 1 \in 0..n /\ at + 1 \in 1..(n + 1) /\ n \in 0..n
        /\ at - 1 \in (1 - 1)..n /\ n \in (at - 1)..n /\ n \in at..n /\ (at - 1) + 1 = at
    BY <1>1
  <1>3. a \in Seq(Nat) /\ ToSet(a) = {s[i] : i \in 1..(at - 1)}
    BY <1>2, PartIs
  <1>4. b \in Seq(Nat) /\ ToSet(b) = {s[i] : i \in (at + 1)..n}
    BY <1>2, PartIs
  <1>5. SubSeq(s, at, n) = <<s[at]>> \o b
    BY <1>2, SubSeqRecursiveFirst
  <1>6. a \o SubSeq(s, (at - 1) + 1, n) = SubSeq(s, 1, n)
    BY <1>2, ConcatAdjacentSubSeq
  <1>7. SubSeq(s, 1, n) = s
    BY SubSeqFull
  <1>8. s[at] \in Nat
    BY ElementOfSeq
  <1>9. QED
    BY <1>2, <1>3, <1>4, <1>5, <1>6, <1>7, <1>8

LEMMA FirstFits ==
  ASSUME NEW s \in Seq(Nat), NEW given
  PROVE  LET v == FirstNotIn(s, given)
         IN  \/ v = None /\ ToSet(s) \subseteq given
             \/ /\ v \in Nat /\ v \in ToSet(s) \ given
                /\ \E a, b \in Seq(Nat) : s = a \o (<<v>> \o b) /\ ToSet(a) \subseteq given
PROOF
  <1> DEFINE fits == {i \in DOMAIN s : s[i] \notin given}
             at == CHOOSE i \in fits : \A j \in fits : i <= j
             v == FirstNotIn(s, given)
  <1>1. DOMAIN s = 1..Len(s) /\ Len(s) \in Nat
    BY LenProperties
  <1>2. CASE fits = {}
    <2>1. v = None
      BY <1>2 DEF FirstNotIn
    <2>2. QED
      BY <1>2, <2>1 DEF ToSet
  <1>3. CASE fits # {}
    <2>1. fits \in SUBSET Nat
      BY <1>1
    <2>2. at \in fits /\ \A j \in fits : at <= j
      <3> HIDE DEF fits
      <3>1. \E i \in fits : \A j \in fits : i <= j
        BY <1>3, <2>1, LeastNatural
      <3>2. QED
        BY <3>1
    <2>3. v = s[at]
      BY <1>3 DEF FirstNotIn
    <2> HIDE DEF at, v
    <2>4. at \in 1..Len(s) /\ v \notin given
      BY <1>1, <2>2, <2>3
    <2> DEFINE a == SubSeq(s, 1, at - 1)
               b == SubSeq(s, at + 1, Len(s))
    <2>5. /\ a \in Seq(Nat) /\ b \in Seq(Nat) /\ v \in Nat /\ s = a \o (<<v>> \o b)
          /\ ToSet(a) = {s[i] : i \in 1..(at - 1)}
      BY <2>3, <2>4, CutAt
    <2>6. ToSet(a) \subseteq given
      <3>1. ASSUME NEW i \in 1..(at - 1)
            PROVE  s[i] \in given
        <4>1. i \in DOMAIN s /\ ~(at <= i)
          BY <1>1, <2>4
        <4>2. QED
          BY <2>2, <4>1
      <3>2. QED
        BY <2>5, <3>1
    <2>7. v \in ToSet(s)
      BY <1>1, <2>3, <2>4 DEF ToSet
    <2>8. QED
      BY <2>4, <2>5, <2>6, <2>7 DEF v
  <1>4. QED
    BY <1>2, <1>3

\* The same from behind.
LEMMA LastFits ==
  ASSUME NEW s \in Seq(Nat), NEW given
  PROVE  LET v == FirstNotIn(Reverse(s), given)
         IN  \/ v = None /\ ToSet(s) \subseteq given
             \/ /\ v \in Nat /\ v \in ToSet(s) \ given
                /\ \E a, b \in Seq(Nat) : s = a \o (<<v>> \o b) /\ ToSet(b) \subseteq given
PROOF
  <1> DEFINE n == Len(s)
             r == Reverse(s)
             fits == {i \in DOMAIN r : r[i] \notin given}
             first == CHOOSE i \in fits : \A j \in fits : i <= j
             at == (n - first) + 1
             v == FirstNotIn(r, given)
  <1>1. DOMAIN s = 1..n /\ n \in Nat
    BY LenProperties
  <1>2. DOMAIN r = 1..n /\ \A i \in 1..n : r[i] = s[(n - i) + 1]
    BY DEF Reverse
  <1> HIDE DEF r
  <1>3. CASE fits = {}
    <2>1. v = None
      BY <1>3 DEF FirstNotIn
    <2>2. ASSUME NEW i \in 1..n
          PROVE  s[i] \in given
      <3>1. (n - i) + 1 \in 1..n /\ (n - ((n - i) + 1)) + 1 = i
        BY <1>1
      <3>2. r[(n - i) + 1] = s[i]
        BY <1>2, <3>1
      <3>3. QED
        BY <1>2, <1>3, <3>1, <3>2
    <2>3. QED
      BY <1>1, <2>1, <2>2 DEF ToSet, r
  <1>4. CASE fits # {}
    <2>1. fits \in SUBSET Nat
      BY <1>1, <1>2
    <2>2. first \in fits /\ \A j \in fits : first <= j
      <3> HIDE DEF fits
      <3>1. \E i \in fits : \A j \in fits : i <= j
        BY <1>4, <2>1, LeastNatural
      <3>2. QED
        BY <3>1
    <2>3. v = r[first]
      BY <1>4 DEF FirstNotIn
    <2>4. first \in 1..n /\ v \notin given
      BY <1>2, <2>2, <2>3
    <2>5. v = s[at]
      BY <1>2, <2>3, <2>4
    <2> HIDE DEF first, v
    <2>6. at \in 1..n
      BY <1>1, <2>4
    <2> DEFINE a == SubSeq(s, 1, at - 1)
               b == SubSeq(s, at + 1, n)
    <2>7. /\ a \in Seq(Nat) /\ b \in Seq(Nat) /\ v \in Nat /\ s = a \o (<<v>> \o b)
          /\ ToSet(b) = {s[i] : i \in (at + 1)..n}
      BY <2>5, <2>6, CutAt
    <2>8. ToSet(b) \subseteq given
      <3>1. ASSUME NEW i \in (at + 1)..n
            PROVE  s[i] \in given
        <4>1. /\ (n - i) + 1 \in 1..n /\ (n - ((n - i) + 1)) + 1 = i
              /\ ~(first <= (n - i) + 1)
          BY <1>1, <2>4, <2>6
        <4>2. r[(n - i) + 1] = s[i] /\ (n - i) + 1 \notin fits
          BY <1>2, <2>2, <4>1
        <4>3. QED
          BY <1>2, <4>1, <4>2
      <3>2. QED
        BY <2>7, <3>1
    <2>9. v \in ToSet(s)
      BY <1>1, <2>5, <2>6 DEF ToSet
    <2>10. QED
      BY <2>4, <2>7, <2>8, <2>9 DEF v, r
  <1>5. QED
    BY <1>3, <1>4

----------------------------------------------------------------------------
(* Where an insertion puts what it moves. *)

LEMMA KidsAre ==
  ASSUME NEW d, Sound(d), NEW y \in Ids(d)
  PROVE  /\ Kids(d, y) \in Seq(Nat) /\ IsInjective(Kids(d, y)) /\ None \notin ToSet(Kids(d, y))
         /\ \A k : k \in ToSet(Kids(d, y)) <=> k \in Ids(d) /\ ParentOf(d, k) = y
PROOF
  <1>1. /\ Kids(d, y) \in Seq(Nat) /\ None \notin Ids(d)
    BY ArenaIs DEF Sound
  <1>2. QED
    BY <1>1 DEF Sound, ListsChildren

LEMMA DetachedKids ==
  ASSUME NEW d, Sound(d), NEW n \in Ids(d)
  PROVE  \A y \in Ids(d) : Kids(Detached(d, n), y) = Without(Kids(d, y), {n})
PROOF
  <1> DEFINE q == ParentOf(d, n)
  <1>1. ASSUME NEW y \in Ids(d), y # q
        PROVE  Without(Kids(d, y), {n}) = Kids(d, y)
    BY <1>1, KidsAre, WithoutOthers
  <1>2. CASE q = None
    <2>1. Detached(d, n) = d /\ None \notin Ids(d)
      BY <1>2, ArenaIs DEF Detached, Sound
    <2>2. QED
      BY <1>1, <1>2, <2>1
  <1>3. CASE q # None
    <2>1. Taken(d, Detached(d, n), q, {n})
      BY <1>3, DetachedIs
    <2>2. QED
      BY <1>1, <2>1 DEF Taken
  <1>4. QED
    BY <1>2, <1>3

LEMMA LinkedKids ==
  ASSUME NEW d, Sound(d), NEW p \in Ids(d), NEW n \in Ids(d), p # n, NEW before,
         IsFragment(d, n) \/ ParentOf(d, n) = None
  PROVE  LET e == Linked(d, p, n, before)
             m == ToSet(Moved(d, n))
         IN  /\ Ids(e) = Ids(d)
             /\ Kids(e, p) = Spliced(Kids(d, p), before, Moved(d, n))
             /\ \A y \in Ids(d) \ {p} : Kids(e, y) = Without(Kids(d, y), m)
             /\ IsFragment(d, n) => Without(Kids(d, p), m) = Kids(d, p)
PROOF
  <1> DEFINE e == Linked(d, p, n, before)
             m == ToSet(Moved(d, n))
  <1>1. PutIn(d, e, p, n, before)
    BY LinkedIs
  <1> HIDE DEF e
  <1>2. /\ IsFragment(d, n) => m = ToSet(Kids(d, n)) /\ m = {k \in Ids(d) : ParentOf(d, k) = n}
        /\ ~IsFragment(d, n) => m = {n}
    BY MovedAre DEF Moved
  <1> HIDE DEF m
  <1>3. None \notin Ids(d)
    BY ArenaIs DEF Sound
  <1>4. ASSUME NEW y \in Ids(d), y # n \/ ~IsFragment(d, n)
        PROVE  Without(Kids(d, y), m) = Kids(d, y)
    <2>1. ToSet(Kids(d, y)) \cap m = {}
      BY <1>2, <1>3, <1>4, KidsAre
    <2>2. QED
      BY <2>1, KidsAre, WithoutOthers
  <1>5. IsFragment(d, n) => Without(Kids(d, n), m) = <<>>
    BY <1>2, KidsAre, WithoutOthers
  <1>6. \A y \in Ids(d) \ {p} : Kids(e, y) = Without(Kids(d, y), m)
    BY <1>1, <1>4, <1>5 DEF PutIn
  <1>7. IsFragment(d, n) => Without(Kids(d, p), m) = Kids(d, p)
    BY <1>4
  <1>8. QED
    BY <1>1, <1>6, <1>7 DEF PutIn, Same, e, m

\* Before itself means before its next sibling.
SkipTo(d, n, before) == IF before # None /\ before = n THEN NextSibling(d, n) ELSE before

LEMMA InsertedKids ==
  ASSUME NEW d, Sound(d), NEW p \in Ids(d), NEW n \in Ids(d), p # n, NEW before
  PROVE  LET e == PreInserted(d, p, n, before)
             m == ToSet(Moved(d, n))
         IN  /\ Ids(e) = Ids(d)
             /\ Kids(e, p) = Spliced(Without(Kids(d, p), m), SkipTo(d, n, before), Moved(d, n))
             /\ \A y \in Ids(d) \ {p} : Kids(e, y) = Without(Kids(d, y), m)
PROOF
  <1> DEFINE f == Detached(d, n)
             x == SkipTo(d, n, before)
             e == Linked(f, p, n, x)
             m == ToSet(Moved(d, n))
  <1>1. /\ Sound(f) /\ Fewer(d, f) /\ ParentOf(f, n) = None /\ Kids(f, n) = Kids(d, n)
        /\ \A y \in Ids(d) : Kids(f, y) = Without(Kids(d, y), {n})
    BY DetachedKeeps, DetachedKids
  <1>2. PreInserted(d, p, n, before) = e
    BY DEF PreInserted, SkipTo
  <1>3. Ids(f) = Ids(d) /\ IsFragment(f, n) = IsFragment(d, n)
    BY <1>1, KindsSame DEF Fewer, Same
  <1>4. Moved(f, n) = Moved(d, n)
    BY <1>1, <1>3 DEF Moved
  <1> HIDE DEF x
  <1>5. IsFragment(d, n) => f = d
    BY DEF Sound, Placed, IsChild, IsFragment, Detached
  <1> HIDE DEF f
  <1>6. /\ Ids(e) = Ids(f)
        /\ Kids(e, p) = Spliced(Kids(f, p), x, Moved(f, n))
        /\ \A y \in Ids(f) \ {p} : Kids(e, y) = Without(Kids(f, y), ToSet(Moved(f, n)))
        /\ IsFragment(f, n) => Without(Kids(f, p), ToSet(Moved(f, n))) = Kids(f, p)
    BY <1>1, <1>3, LinkedKids
  <1> HIDE DEF e
  <1>7. CASE IsFragment(d, n)
    BY <1>2, <1>3, <1>4, <1>5, <1>6, <1>7 DEF x
  <1>8. CASE ~IsFragment(d, n)
    <2>1. m = {n}
      BY <1>8, MovedAre
    <2>2. ASSUME NEW y \in Ids(d) \ {p}
          PROVE  Kids(e, y) = Without(Kids(d, y), {n})
      <3>1. Kids(e, y) = Without(Without(Kids(d, y), {n}), {n})
        BY <1>1, <1>3, <1>4, <1>6, <2>1
      <3>2. Without(Without(Kids(d, y), {n}), {n}) = Without(Kids(d, y), {n} \cup {n})
        BY KidsAre, WithoutTwice
      <3>3. {n} \cup {n} = {n}
        OBVIOUS
      <3>4. QED
        BY <3>1, <3>2, <3>3
    <2>3. QED
      BY <1>1, <1>2, <1>3, <1>4, <1>6, <2>1, <2>2 DEF x
  <1>9. QED
    BY <1>7, <1>8

LEMMA SiblingIs ==
  ASSUME NEW d, NEW n
  PROVE  NextSibling(d, n) = IF ParentOf(d, n) = None THEN None
                             ELSE NextIn(Kids(d, ParentOf(d, n)), n)
PROOF
  BY Zenon DEF NextSibling, NextIn, PlaceIn

\* Going before a child of p, n divides the children of p there.
LEMMA PlacedBefore ==
  ASSUME NEW d, Sound(d), NEW p \in Ids(d), NEW n \in Ids(d), p # n,
         NEW a \in Seq(Nat), NEW b \in Seq(Nat), Kids(d, p) = a \o b
  PROVE  LET m == ToSet(Moved(d, n))
         IN  Kids(PreInserted(d, p, n, First(b)), p)
               = (Without(a, m) \o Moved(d, n)) \o Without(b, m)
PROOF
  <1> DEFINE M == Moved(d, n)
             m == ToSet(M)
             s == Kids(d, p)
             x == First(b)
             a2 == Without(a, m)
             b2 == Without(b, m)
  <1>1. /\ s \in Seq(Nat) /\ IsInjective(s) /\ None \notin ToSet(s) /\ None \notin Ids(d)
        /\ \A k : k \in ToSet(s) <=> k \in Ids(d) /\ ParentOf(d, k) = p
    BY KidsAre, ArenaIs DEF Sound
  <1>2. /\ M \in Seq(Nat)
        /\ IsFragment(d, n) => m = {k \in Ids(d) : ParentOf(d, k) = n}
        /\ ~IsFragment(d, n) => m = {n}
    BY MovedAre
  <1>3. Kids(PreInserted(d, p, n, x), p) = Spliced(Without(s, m), SkipTo(d, n, x), M)
    BY InsertedKids
  <1> HIDE DEF s, M, m
  <1>4. /\ Without(s, m) = a2 \o b2 /\ a2 \in Seq(Nat) /\ b2 \in Seq(Nat)
        /\ IsInjective(Without(s, m)) /\ ToSet(Without(s, m)) = ToSet(s) \ m
    <2>1. s = a \o b
      BY DEF s
    <2>2. Without(a \o b, m) = a2 \o b2
      BY WithoutJoin
    <2>3. a2 \in Seq(Nat) /\ b2 \in Seq(Nat)
      BY WithoutIs
    <2>4. IsInjective(Without(s, m)) /\ ToSet(Without(s, m)) = ToSet(s) \ m
      BY <1>1, WithoutIs
    <2>5. QED
      BY <2>1, <2>2, <2>3, <2>4
  <1>5. ToSet(s) = ToSet(a) \cup ToSet(b)
    BY JoinedIs DEF s
  <1>6. SkipTo(d, n, x) = First(b2)
    <2>1. CASE b = <<>>
      BY <2>1, WithoutNone DEF First, SkipTo
    <2>2. CASE b # <<>>
      <3>1. PICK c \in Seq(Nat) : b = <<x>> \o c /\ x \in ToSet(b) /\ x \in Nat
        BY <2>2, FirstIs
      <3> HIDE DEF x
      <3> DEFINE one == <<x>>
      <3>2. one \in Seq(Nat) /\ ToSet(one) = {x}
        BY <3>1, OneIs
      <3> HIDE DEF one
      <3>3. b2 = Without(one, m) \o Without(c, m) /\ Without(c, m) \in Seq(Nat)
        <4>1. b = one \o c
          BY <3>1 DEF one
        <4>2. Without(one \o c, m) = Without(one, m) \o Without(c, m)
          BY <3>2, WithoutJoin
        <4>3. Without(c, m) \in Seq(Nat)
          BY WithoutIs
        <4>4. QED
          BY <4>1, <4>2, <4>3
      <3>4. CASE x \notin m
        <4>1. Without(one, m) = one
          BY <3>2, <3>4, WithoutOthers
        <4>2. First(b2) = x
          <5>1. b2 = <<x>> \o Without(c, m)
            BY <3>3, <4>1 DEF one
          <5>2. First(<<x>> \o Without(c, m)) = x
            BY <3>1, <3>3, ConsIs
          <5>3. QED
            BY <5>1, <5>2
        <4>3. x # n
          <5>1. CASE IsFragment(d, n)
            BY <5>1, <1>1, <1>5, <3>1 DEF Sound, Placed, IsChild, IsFragment
          <5>2. CASE ~IsFragment(d, n)
            BY <1>2, <3>4, <5>2
          <5>3. QED
            BY <5>1, <5>2
        <4>4. QED
          BY <4>2, <4>3 DEF SkipTo, x
      <3>5. CASE x \in m
        <4>1. ~IsFragment(d, n) /\ x = n /\ x # None
          <5>1. x \in ToSet(s)
            BY <1>5, <3>1
          <5>2. x \in Ids(d) /\ ParentOf(d, x) = p /\ x # None
            BY <1>1, <5>1
          <5>3. ~IsFragment(d, n)
            BY <1>2, <3>5, <5>2
          <5>4. QED
            BY <1>2, <3>5, <5>2, <5>3
        <4>2. Without(one, m) = <<>>
          BY <3>2, <3>5, WithoutOthers
        <4>3. b2 = Without(c, m)
          BY <3>3, <4>2, ConcatEmptySeq
        <4>4. NextIn(s, x) = First(c) /\ x \notin ToSet(c)
          <5>1. s = a \o (<<x>> \o c)
            BY <3>1 DEF s
          <5>2. QED
            BY <1>1, <3>1, <5>1, NextAround
        <4>5. Without(c, m) = c
          BY <1>2, <4>1, <4>4, WithoutOthers
        <4>6. NextSibling(d, n) = NextIn(s, n)
          <5>1. ParentOf(d, n) = p /\ p # None
            BY <1>1, <1>5, <3>1, <4>1
          <5>2. QED
            BY <5>1, SiblingIs DEF s
        <4>7. QED
          BY <4>1, <4>3, <4>4, <4>5, <4>6 DEF SkipTo, x
      <3>6. QED
        BY <3>4, <3>5
    <2>3. QED
      BY <2>1, <2>2
  <1> HIDE DEF a2, b2, x
  <1>7. Spliced(a2 \o b2, First(b2), M) = (a2 \o M) \o b2
    BY <1>1, <1>2, <1>4, SplicedAround
  <1>8. QED
    BY <1>3, <1>4, <1>6, <1>7 DEF x, a2, b2, m, M

LEMMA JoinTwice ==
  ASSUME NEW a \in Seq(Nat), NEW b \in Seq(Nat), NEW c \in Seq(Nat)
  PROVE  a \o (b \o c) = (a \o b) \o c
PROOF
  OBVIOUS

LEMMA PlacedLast ==
  ASSUME NEW d, Sound(d), NEW p \in Ids(d), NEW n \in Ids(d), p # n
  PROVE  Kids(PreInserted(d, p, n, None), p)
           = Without(Kids(d, p), ToSet(Moved(d, n))) \o Moved(d, n)
PROOF
  <1> DEFINE M == Moved(d, n)
             s == Kids(d, p)
             m == ToSet(M)
             none == <<>>
  <1>1. s \in Seq(Nat) /\ M \in Seq(Nat) /\ none \in Seq(Nat) /\ First(none) = None
    BY KidsAre, MovedAre DEF First
  <1>2. s \o none = s
    BY <1>1, ConcatEmptySeq
  <1>3. Kids(PreInserted(d, p, n, First(none)), p) = (Without(s, m) \o M) \o Without(none, m)
    <2> HIDE DEF none
    <2>1. QED
      BY <1>1, <1>2, PlacedBefore
  <1>4. Without(s, m) \in Seq(Nat) /\ Without(none, m) = none
    BY <1>1, WithoutIs, WithoutNone
  <1> HIDE DEF s, M, m
  <1>5. Without(s, m) \o M \in Seq(Nat)
    BY <1>1, <1>4, JoinedIs
  <1>6. (Without(s, m) \o M) \o none = Without(s, m) \o M
    BY <1>5, ConcatEmptySeq
  <1>7. QED
    BY <1>1, <1>3, <1>4, <1>6 DEF s, M, m

LEMMA DetachedSameMoved ==
  ASSUME NEW d, Sound(d), NEW p \in Ids(d), NEW n \in Ids(d), p # n,
         NEW child \in Ids(d), ParentOf(d, child) = p
  PROVE  LET f == Detached(d, child)
         IN  Sound(f) /\ Ids(f) = Ids(d) /\ Moved(f, n) = Moved(d, n)
PROOF
  <1> DEFINE f == Detached(d, child)
  <1>1. /\ Sound(f) /\ Fewer(d, f)
        /\ \A y \in Ids(d) : Kids(f, y) = Without(Kids(d, y), {child})
    BY DetachedKeeps, DetachedKids
  <1> HIDE DEF f
  <1>2. Ids(f) = Ids(d) /\ IsFragment(f, n) = IsFragment(d, n)
    BY <1>1, KindsSame DEF Fewer, Same
  <1>3. Kids(f, n) = Kids(d, n)
    <2>1. ToSet(Kids(d, n)) \cap {child} = {}
      BY KidsAre
    <2>2. Without(Kids(d, n), {child}) = Kids(d, n)
      BY <2>1, KidsAre, WithoutOthers
    <2>3. QED
      BY <1>1, <2>2
  <1>4. QED
    BY <1>1, <1>2, <1>3 DEF Moved, f

\* n takes the place of a child of p.
LEMMA PlacedFor ==
  ASSUME NEW d, Sound(d), NEW p \in Ids(d), NEW n \in Ids(d), p # n,
         NEW child \in Ids(d), child # n,
         NEW a \in Seq(Nat), NEW b \in Seq(Nat), Kids(d, p) = a \o (<<child>> \o b)
  PROVE  LET m == ToSet(Moved(d, n))
         IN  Kids(Replaced(d, p, n, child), p) = (Without(a, m) \o Moved(d, n)) \o Without(b, m)
PROOF
  <1> DEFINE f == Detached(d, child)
             s == Kids(d, p)
             x == First(b)
  <1>1. /\ s \in Seq(Nat) /\ IsInjective(s) /\ None \notin ToSet(s) /\ None \notin Ids(d)
        /\ \A k : k \in ToSet(s) <=> k \in Ids(d) /\ ParentOf(d, k) = p
        /\ Ids(d) \subseteq Nat
    BY KidsAre, ArenaIs DEF Sound
  <1>2. /\ child \in Nat /\ child \in ToSet(s) /\ child \notin ToSet(a) \cup ToSet(b)
        /\ NextIn(s, child) = x
    BY <1>1, NextAround DEF s
  <1>3. ParentOf(d, child) = p /\ p # None /\ NextSibling(d, child) = x
    <2>1. ParentOf(d, child) = p /\ p # None
      BY <1>1, <1>2
    <2>2. QED
      BY <1>2, <2>1, SiblingIs DEF s
  <1>4. Sound(f) /\ Ids(f) = Ids(d) /\ Moved(f, n) = Moved(d, n)
    BY <1>3, DetachedSameMoved
  <1>5. Kids(f, p) = a \o b
    <2> DEFINE one == <<child>>
    <2>1. one \in Seq(Nat) /\ ToSet(one) = {child}
      BY <1>2, OneIs
    <2>2. Kids(f, p) = Without(a \o (one \o b), {child})
      BY DetachedKids
    <2> HIDE DEF one
    <2>3. one \o b \in Seq(Nat)
      BY <2>1, JoinedIs
    <2>4. Without(a \o (one \o b), {child}) = Without(a, {child}) \o Without(one \o b, {child})
      BY <2>3, WithoutJoin
    <2>5. Without(one \o b, {child}) = Without(one, {child}) \o Without(b, {child})
      BY <2>1, WithoutJoin
    <2>6. Without(a, {child}) = a /\ Without(b, {child}) = b
      BY <1>2, WithoutOthers
    <2>7. Without(one, {child}) = <<>>
      BY <2>1, WithoutOthers
    <2>8. <<>> \o b = b
      BY ConcatEmptySeq
    <2>9. QED
      BY <2>2, <2>4, <2>5, <2>6, <2>7, <2>8
  <1>6. Replaced(d, p, n, child) = PreInserted(f, p, n, x)
    <2> DEFINE y == IF x = n THEN NextSibling(d, n) ELSE x
               z == IF x # None /\ x = n THEN NextSibling(f, n) ELSE x
    <2>1. Replaced(d, p, n, child) = Linked(Detached(f, n), p, n, y)
      BY <1>3 DEF Replaced
    <2>2. PreInserted(f, p, n, x) = Linked(Detached(f, n), p, n, z)
      BY DEF PreInserted
    <2>3. y = z
      <3>1. CASE x # n
        BY <3>1
      <3>2. CASE x = n
        <4>1. x # None /\ b # <<>>
          BY <1>1, <3>2 DEF First
        <4>2. PICK c \in Seq(Nat) : b = <<x>> \o c
          BY <4>1, FirstIs
        <4> HIDE DEF x
        <4> DEFINE one == <<child>>
        <4>3. one \in Seq(Nat) /\ s = a \o (one \o b) /\ x \in Nat
          BY <1>1, <1>2, <3>2, OneIs DEF s
        <4> HIDE DEF one
        <4>4. a \o one \in Seq(Nat) /\ a \o (one \o b) = (a \o one) \o b
          <5>1. a \o one \in Seq(Nat)
            BY <4>3, JoinedIs
          <5>2. QED
            BY <4>3, <5>1, JoinTwice
        <4>5. NextIn(s, x) = First(c) /\ x \in ToSet(s)
          <5>1. s = (a \o one) \o (<<x>> \o c)
            BY <4>2, <4>3, <4>4
          <5> DEFINE pre == a \o one
          <5>2. pre \in Seq(Nat)
            BY <4>4
          <5> HIDE DEF pre
          <5>3. IsInjective(pre \o (<<x>> \o c))
            BY <1>1, <5>1 DEF pre
          <5>4. /\ NextIn(pre \o (<<x>> \o c), x) = First(c)
                /\ x \in ToSet(pre \o (<<x>> \o c))
            BY <4>2, <4>3, <5>2, <5>3, NextAround
          <5>5. QED
            BY <5>1, <5>4 DEF pre
        <4>6. NextIn(Kids(f, p), x) = First(c) /\ x \in ToSet(Kids(f, p))
          <5>1. Kids(f, p) = a \o (<<x>> \o c) /\ IsInjective(Kids(f, p))
            BY <1>4, <1>5, <4>2, KidsAre
          <5>2. QED
            BY <4>2, <4>3, <5>1, NextAround
        <4>7. ParentOf(d, n) = p /\ ParentOf(f, n) = p
          <5>1. ParentOf(d, n) = p
            BY <1>1, <3>2, <4>5
          <5> HIDE DEF f
          <5>2. ParentOf(f, n) = p
            BY <1>4, <3>2, <4>6, KidsAre
          <5>3. QED
            BY <5>1, <5>2
        <4>8. NextSibling(d, n) = First(c) /\ NextSibling(f, n) = First(c)
          BY <1>3, <3>2, <4>5, <4>6, <4>7, SiblingIs DEF s
        <4>9. QED
          BY <3>2, <4>1, <4>8
      <3>3. QED
        BY <3>1, <3>2
    <2>4. QED
      BY <2>1, <2>2, <2>3
  <1>7. QED
    <2>1. Sound(f) /\ p \in Ids(f) /\ n \in Ids(f) /\ Kids(f, p) = a \o b
      BY <1>4, <1>5
    <2> HIDE DEF f
    <2>2. Kids(PreInserted(f, p, n, x), p)
            = (Without(a, ToSet(Moved(f, n))) \o Moved(f, n)) \o Without(b, ToSet(Moved(f, n)))
      BY <2>1, PlacedBefore
    <2>3. QED
      BY <1>4, <1>6, <2>2 DEF f

\* n alone is left in p.
LEMMA PlacedAlone ==
  ASSUME Sound(doc), NEW p \in Ids(doc), NEW n \in Ids(doc), MayPreInsert(doc, p, n, None)
  PROVE  Kids(ReplacedAll(p, n), p) = Moved(doc, n)
PROOF
  <1> DEFINE M == Moved(doc, n)
             m == ToSet(M)
             s == Kids(doc, p)
             e == PreInserted(doc, p, n, None)
             some == ToSet(s) \ {n}
             gone == {k \in some : ParentOf(e, k) = p}
             rest == Without(s, m)
  <1>1. MayGo(doc, p, n, None) /\ p # n
    BY NotBelow DEF MayPreInsert, MayInsert, MayGo
  <1>2. Sound(e) /\ Ids(e) = Ids(doc)
    BY <1>1, PreInsertedKeeps DEF Relinked
  <1>3. Kids(e, p) = rest \o M
    BY <1>1, PlacedLast
  <1>4. /\ s \in Seq(Nat) /\ None \notin ToSet(s)
        /\ \A k : k \in ToSet(s) <=> k \in Ids(doc) /\ ParentOf(doc, k) = p
    BY KidsAre
  <1>5. /\ M \in Seq(Nat)
        /\ IsFragment(doc, n) => m = {k \in Ids(doc) : ParentOf(doc, k) = n}
        /\ ~IsFragment(doc, n) => m = {n}
    BY MovedAre
  <1>6. some \in SUBSET Ids(e)
    BY <1>2, <1>4
  <1>7. Kids(ReplacedAll(p, n), p) = Without(Kids(e, p), gone)
    <2>1. Taken(e, DetachedAll(e, p, some), p, gone)
      BY <1>2, <1>6, DetachedAllIs
    <2>2. QED
      BY <1>2, <2>1 DEF Taken, ReplacedAll
  <1> HIDE DEF s, M, m
  <1>8. rest \in Seq(Nat) /\ ToSet(rest) = ToSet(s) \ m
    BY <1>4, WithoutIs
  <1>9. \A k \in ToSet(rest) : ParentOf(e, k) = p
    <2>1. ToSet(rest) \subseteq ToSet(Kids(e, p))
      BY <1>3, <1>5, <1>8, JoinedIs
    <2> HIDE DEF e
    <2>2. QED
      BY <1>2, <2>1, KidsAre
  <1>10. IsFragment(doc, n) => n \notin ToSet(s)
    <2>1. None \notin Ids(doc) /\ Placed(doc, n)
      BY ArenaIs DEF Sound
    <2>2. QED
      BY <1>4, <2>1 DEF IsFragment, Placed, IsChild
  <1> HIDE DEF e
  <1>11. ToSet(rest) \subseteq gone
    BY <1>5, <1>8, <1>9, <1>10
  <1>12. m \cap gone = {}
    BY <1>1, <1>4, <1>5
  <1> HIDE DEF gone
  <1>13. Without(rest, gone) = <<>> /\ Without(M, gone) = M
    BY <1>5, <1>8, <1>11, <1>12, WithoutOthers DEF m
  <1>14. Without(rest \o M, gone) = Without(rest, gone) \o Without(M, gone)
    BY <1>5, <1>8, WithoutJoin
  <1>15. <<>> \o M = M
    BY <1>5, ConcatEmptySeq
  <1>16. QED
    BY <1>3, <1>7, <1>13, <1>14, <1>15 DEF M

----------------------------------------------------------------------------
(* What is asked of a call, in terms of the tree it finds. *)

\* The nodes some come between a and b, none of which is there twice.
Around(a, some, b) == (Without(a, ToSet(some)) \o some) \o Without(b, ToSet(some))

LEMMA AroundIs ==
  ASSUME NEW a \in Seq(Nat), NEW some \in Seq(Nat)
  PROVE  /\ Around(a, some, <<>>) = Without(a, ToSet(some)) \o some
         /\ Around(<<>>, some, a) = some \o Without(a, ToSet(some))
         /\ Around(<<>>, some, <<>>) = some
PROOF
  <1> DEFINE w == Without(a, ToSet(some))
             none == Without(<<>>, ToSet(some))
  <1>1. w \in Seq(Nat) /\ none = <<>>
    BY WithoutIs, WithoutNone
  <1> HIDE DEF w
  <1>2. w \o some \in Seq(Nat)
    BY <1>1, JoinedIs
  <1>3. (w \o some) \o <<>> = w \o some
    BY <1>2, ConcatEmptySeq
  <1>4. <<>> \o some = some /\ some \o <<>> = some
    BY ConcatEmptySeq
  <1> HIDE DEF none
  <1>5. /\ Around(a, some, <<>>) = (w \o some) \o none
        /\ Around(<<>>, some, a) = (none \o some) \o w
        /\ Around(<<>>, some, <<>>) = (none \o some) \o none
    BY DEF Around, w, none
  <1>6. QED
    BY <1>1, <1>3, <1>4, <1>5 DEF w

\* What is among some may stand on either side.
LEMMA AroundSkips ==
  ASSUME NEW a \in Seq(Nat), NEW b \in Seq(Nat), NEW x \in Seq(Nat), NEW some \in Seq(Nat),
         ToSet(x) \subseteq ToSet(some)
  PROVE  Around(a \o x, some, b) = Around(a, some, b) /\ Around(a, some, x \o b) = Around(a, some, b)
PROOF
  <1> DEFINE m == ToSet(some)
  <1>1. Without(x, m) = <<>>
    BY WithoutOthers
  <1>2. /\ Without(a \o x, m) = Without(a, m) \o Without(x, m)
        /\ Without(x \o b, m) = Without(x, m) \o Without(b, m)
    <2> HIDE DEF m
    <2>1. Without(a \o x, m) = Without(a, m) \o Without(x, m)
      BY WithoutJoin
    <2>2. Without(x \o b, m) = Without(x, m) \o Without(b, m)
      BY WithoutJoin
    <2>3. QED
      BY <2>1, <2>2
  <1>3. Without(a, m) \in Seq(Nat) /\ Without(b, m) \in Seq(Nat)
    BY WithoutIs
  <1>4. Without(a, m) \o <<>> = Without(a, m) /\ <<>> \o Without(b, m) = Without(b, m)
    BY <1>3, ConcatEmptySeq
  <1>5. Without(a \o x, m) = Without(a, m) /\ Without(x \o b, m) = Without(b, m)
    BY <1>1, <1>2, <1>4
  <1>6. QED
    BY <1>5 DEF Around

LEMMA InsertedAround ==
  ASSUME NEW d, Sound(d), NEW p \in Ids(d), NEW n \in Ids(d), p # n
  PROVE  \A a, b \in Seq(Nat) :
           Kids(d, p) = a \o b => Kids(PreInserted(d, p, n, First(b)), p) = Around(a, Moved(d, n), b)
PROOF
  BY PlacedBefore DEF Around

\* v is the last of a that is not in m, or the first of b; when all that was
\* there was taken away, nothing is left of either.
LastOf(v, a, m, all) ==
  \/ v = None /\ ToSet(a) \subseteq m
  \/ v # None /\ (all # <<>> => \E s, t \in Seq(Nat) : a = s \o (<<v>> \o t) /\ ToSet(t) \subseteq m)
FirstOf(v, b, m, all) ==
  \/ v = None /\ ToSet(b) \subseteq m
  \/ v # None /\ (all # <<>> => \E s, t \in Seq(Nat) : b = s \o (<<v>> \o t) /\ ToSet(s) \subseteq m)

AskedBefore(d, c) ==
  LET some == Moved(d, c.node)
  IN  \E a, b \in Seq(Nat) : /\ Kids(d, c.parent) = a \o b /\ c.asked = Around(a, some, b)
                             /\ LastOf(c.viable, a, ToSet(some), a \o b)
AskedAfter(d, c) ==
  LET some == Moved(d, c.node)
  IN  \E a, b \in Seq(Nat) : /\ Kids(d, c.parent) = a \o b /\ c.asked = Around(a, some, b)
                             /\ FirstOf(c.viable, b, ToSet(some), a \o b)
AskedFor(d, c) ==
  \E a, b \in Seq(Nat) : /\ Kids(d, c.parent) = a \o (<<c.this>> \o b)
                         /\ c.asked = Around(a, Moved(d, c.node), b)

Asks(d, c) ==
  LET some == Moved(d, c.node)
      kids == Kids(d, c.parent)
      none == <<>>
  IN  /\ c.op \in ParentOps \cup ChildOps
      /\ c.viable \in Ids(d) \cup {None}
      /\ c.op = "append" => c.asked = Around(kids, some, none)
      /\ c.op = "prepend" => c.asked = Around(none, some, kids)
      /\ c.op = "replaceChildren" => c.asked = some
      /\ c.op = "before" => AskedBefore(d, c)
      /\ c.op = "after" \/ (c.op = "replaceWith" /\ ParentOf(d, c.this) # c.parent)
           => AskedAfter(d, c)
      /\ c.op = "replaceWith" /\ ParentOf(d, c.this) = c.parent => AskedFor(d, c)

----------------------------------------------------------------------------
(* A call does what it is asked. *)

LEMMA FirstFound ==
  ASSUME NEW s \in Seq(Nat), None \notin ToSet(s)
  PROVE  FirstNotIn(s, {}) = First(s)
PROOF
  <1> DEFINE v == FirstNotIn(s, {})
  <1>1. \/ v = None /\ ToSet(s) \subseteq {}
        \/ /\ v \in Nat /\ v \in ToSet(s)
           /\ \E a, b \in Seq(Nat) : s = a \o (<<v>> \o b) /\ ToSet(a) \subseteq {}
    <2> DEFINE given == {}
    <2> HIDE DEF given
    <2>1. LET w == FirstNotIn(s, given)
          IN  \/ w = None /\ ToSet(s) \subseteq given
              \/ /\ w \in Nat /\ w \in ToSet(s)
                 /\ \E a, b \in Seq(Nat) : s = a \o (<<w>> \o b) /\ ToSet(a) \subseteq given
      BY FirstFits
    <2>2. QED
      BY <2>1, Zenon DEF given
  <1> HIDE DEF v
  <1>2. CASE v = None /\ ToSet(s) \subseteq {}
    <2>1. s = <<>>
      BY <1>2, Listed
    <2>2. QED
      BY <1>2, <2>1 DEF First, v
  <1>3. ASSUME v \in Nat, NEW a \in Seq(Nat), NEW b \in Seq(Nat), s = a \o (<<v>> \o b),
               ToSet(a) \subseteq {}
        PROVE  First(s) = v
    <2>1. a = <<>>
      BY <1>3, Listed
    <2>2. <<v>> \o b \in Seq(Nat) /\ First(<<v>> \o b) = v
      BY <1>3, ConsIs
    <2>3. <<>> \o (<<v>> \o b) = <<v>> \o b
      BY <2>2, ConcatEmptySeq
    <2>4. QED
      BY <1>3, <2>1, <2>2, <2>3
  <1>4. QED
    BY <1>1, <1>2, <1>3 DEF v

\* The reference is no child of p when p has none.
LEMMA EmptyTakesLast ==
  ASSUME Sound(doc), NEW p \in Ids(doc), NEW n, NEW r \in Ids(doc) \cup {None},
         MayPreInsert(doc, p, n, r), Kids(doc, p) = <<>>
  PROVE  r = None
PROOF
  <1>1. r # None => r \in Ids(doc) /\ ParentOf(doc, r) = p
    BY DEF MayPreInsert, MayInsert
  <1>2. ToSet(Kids(doc, p)) = {}
    BY KidsAre, Listed
  <1>3. QED
    BY <1>1, <1>2, KidsAre

LEMMA SiblingWithin ==
  ASSUME Sound(doc), NEW n \in Ids(doc)
  PROVE  NextSibling(doc, n) \in Ids(doc) \cup {None}
PROOF
  <1> DEFINE q == ParentOf(doc, n)
             s == Kids(doc, q)
  <1>1. q # None => q \in Ids(doc)
    BY DEF Sound, Placed
  <1>2. q # None => s \in Seq(Nat) /\ n \in ToSet(s) /\ ToSet(s) \subseteq Ids(doc)
    BY <1>1, KidsAre
  <1>3. q # None => \E i \in DOMAIN s : s[i] = n
    BY <1>2 DEF ToSet
  <1> HIDE DEF s
  <1>4. q # None => PlaceIn(s, n) \in DOMAIN s
    BY <1>3 DEF PlaceIn
  <1>5. q # None => NextIn(s, n) \in ToSet(s) \cup {None}
    <2>1. SUFFICES ASSUME q # None, PlaceIn(s, n) < Len(s)
                   PROVE  s[PlaceIn(s, n) + 1] \in ToSet(s)
      BY DEF NextIn
    <2>2. DOMAIN s = 1..Len(s) /\ PlaceIn(s, n) \in 1..Len(s)
      BY <1>2, <1>4, <2>1, Listed
    <2>3. PlaceIn(s, n) + 1 \in DOMAIN s
      BY <2>1, <2>2
    <2>4. QED
      BY <1>2, <2>1, <2>3, Listed
  <1>6. QED
    BY <1>2, <1>5, SiblingIs DEF s

LEMMA DoneBefore ==
  ASSUME Sound(doc), NEW c, c.parent \in Ids(doc), c.node \in Ids(doc), c.parent # c.node,
         c.op = "before", c.viable \in Ids(doc) \cup {None}, AskedBefore(doc, c),
         MayPreInsert(doc, c.parent, c.node, Reference(c))
  PROVE  Kids(PreInserted(doc, c.parent, c.node, Reference(c)), c.parent) = c.asked
PROOF
  <1> DEFINE p == c.parent
             n == c.node
             v == c.viable
             some == Moved(doc, n)
             m == ToSet(some)
  <1>1. PICK a \in Seq(Nat), b \in Seq(Nat) :
               /\ Kids(doc, p) = a \o b /\ c.asked = Around(a, some, b)
               /\ LastOf(v, a, m, a \o b)
    BY DEF AskedBefore
  <1>2. some \in Seq(Nat)
    BY MovedAre
  <1>3. /\ IsInjective(Kids(doc, p)) /\ None \notin ToSet(Kids(doc, p)) /\ a \o b \in Seq(Nat)
        /\ \A k : k \in ToSet(Kids(doc, p)) <=> k \in Ids(doc) /\ ParentOf(doc, k) = p
        /\ None \notin Ids(doc)
    <2>1. None \notin Ids(doc)
      BY ArenaIs DEF Sound
    <2>2. /\ Kids(doc, p) \in Seq(Nat) /\ IsInjective(Kids(doc, p)) /\ None \notin ToSet(Kids(doc, p))
          /\ \A k : k \in ToSet(Kids(doc, p)) <=> k \in Ids(doc) /\ ParentOf(doc, k) = p
      BY KidsAre
    <2>3. QED
      BY <1>1, <2>1, <2>2
  <1>p. \A k, l \in Seq(Nat) :
          Kids(doc, p) = k \o l => Kids(PreInserted(doc, p, n, First(l)), p) = Around(k, some, l)
    BY InsertedAround
  <1>4. Reference(c) = IF v = None THEN First(a \o b) ELSE NextSibling(doc, v)
    BY <1>1, <1>3, FirstFound DEF Reference
  <1> DEFINE s == a \o b
             none == <<>>
  <1>5. none \in Seq(Nat) /\ none \o s = s
    BY <1>3, ConcatEmptySeq
  <1>6. CASE v = None
    <2>1. ToSet(a) \subseteq m
      BY <1>1, <1>6 DEF LastOf
    <2>2. none \o a = a
      BY ConcatEmptySeq
    <2> HIDE DEF some, m, s
    <2> HIDE DEF none
    <2>3. Kids(PreInserted(doc, p, n, First(s)), p) = Around(none, some, s)
      <3>1. Kids(doc, p) = none \o s
        BY <1>1, <1>5 DEF s
      <3>2. QED
        BY <1>3, <1>5, <1>p, <3>1 DEF s
    <2>4. Around(none \o a, some, b) = Around(none, some, b)
      BY <1>2, <1>5, <2>1, AroundSkips DEF m
    <2>5. Around(none, some, a \o b) = Around(none, some, b)
      BY <1>2, <1>5, <2>1, AroundSkips DEF m
    <2>6. QED
      BY <1>1, <1>4, <1>6, <2>2, <2>3, <2>4, <2>5 DEF s
  <1>7. CASE v # None /\ s = <<>>
    <2>1. Reference(c) \in Ids(doc) \cup {None}
      BY <1>4, <1>7, SiblingWithin
    <2>2. Reference(c) = None
      BY <1>1, <1>7, <2>1, EmptyTakesLast
    <2>3. a = <<>> /\ b = <<>>
      BY <1>7, ConcatEmptySeq
    <2>4. First(none) = None /\ none \o none = none
      BY <1>5, ConcatEmptySeq DEF First
    <2> HIDE DEF none, some
    <2>5. Kids(PreInserted(doc, p, n, First(none)), p) = Around(none, some, none)
      BY <1>1, <1>5, <1>p, <1>7, <2>4 DEF none
    <2>6. QED
      BY <1>1, <2>2, <2>3, <2>4, <2>5 DEF none
  <1>8. CASE v # None /\ s # <<>>
    <2>1. PICK x \in Seq(Nat), y \in Seq(Nat) : a = x \o (<<v>> \o y) /\ ToSet(y) \subseteq m
      BY <1>1, <1>8 DEF LastOf
    <2> DEFINE one == <<v>>
               xv == x \o one
               yb == y \o b
    <2>2. v \in Nat /\ one \in Seq(Nat)
      <3>1. v \in Nat
        BY <1>8, ArenaIs DEF Sound
      <3>2. QED
        BY <3>1, OneIs
    <2> HIDE DEF one, v
    <2>3. xv \in Seq(Nat) /\ yb \in Seq(Nat) /\ one \o y \in Seq(Nat) /\ one \o yb \in Seq(Nat)
      <3>1. xv \in Seq(Nat) /\ yb \in Seq(Nat) /\ one \o y \in Seq(Nat)
        BY <2>2, JoinedIs
      <3> HIDE DEF yb
      <3>2. one \o yb \in Seq(Nat)
        BY <2>2, <3>1, JoinedIs
      <3>3. QED
        BY <3>1, <3>2
    <2>4. a = xv \o y
      BY <2>1, <2>2, JoinTwice DEF one
    <2>5. s = xv \o yb
      <3>1. s = (xv \o y) \o b
        BY <2>4
      <3> HIDE DEF xv
      <3>2. QED
        BY <2>3, <3>1
    <2>6. s = x \o (one \o yb)
      <3> HIDE DEF yb
      <3>1. QED
        BY <2>2, <2>3, <2>5, JoinTwice
    <2> HIDE DEF xv, yb, s
    <2>7. NextIn(s, v) = First(yb) /\ v \in ToSet(s)
      <3>1. IsInjective(x \o (<<v>> \o yb))
        BY <1>1, <1>3, <2>6 DEF s, one
      <3>2. /\ NextIn(x \o (<<v>> \o yb), v) = First(yb)
            /\ v \in ToSet(x \o (<<v>> \o yb))
        BY <2>2, <2>3, <3>1, NextAround
      <3>3. QED
        BY <2>6, <3>2 DEF one
    <2>8. Reference(c) = First(yb)
      <3>1. ParentOf(doc, v) = p /\ p # None
        BY <1>1, <1>3, <2>7 DEF s
      <3>2. NextSibling(doc, v) = NextIn(Kids(doc, p), v)
        BY <3>1, SiblingIs
      <3>3. QED
        BY <1>1, <1>4, <1>8, <2>7, <3>2 DEF s
    <2>9. Kids(PreInserted(doc, p, n, First(yb)), p) = Around(xv, some, yb)
      <3>1. Kids(doc, p) = xv \o yb
        BY <1>1, <2>5 DEF s
      <3>2. QED
        BY <1>p, <2>3, <3>1
    <2> HIDE DEF some, m
    <2>10. Around(xv, some, y \o b) = Around(xv, some, b)
      BY <1>2, <2>1, <2>3, AroundSkips DEF m
    <2>11. Around(xv \o y, some, b) = Around(xv, some, b)
      BY <1>2, <2>1, <2>3, AroundSkips DEF m
    <2>12. QED
      BY <1>1, <2>4, <2>8, <2>9, <2>10, <2>11 DEF yb
  <1>9. QED
    BY <1>6, <1>7, <1>8

LEMMA DoneAfter ==
  ASSUME Sound(doc), NEW c, c.parent \in Ids(doc), c.node \in Ids(doc), c.parent # c.node,
         c.op \in {"after", "replaceWith"}, c.viable \in Ids(doc) \cup {None}, AskedAfter(doc, c),
         MayPreInsert(doc, c.parent, c.node, Reference(c))
  PROVE  Kids(PreInserted(doc, c.parent, c.node, Reference(c)), c.parent) = c.asked
PROOF
  <1> DEFINE p == c.parent
             n == c.node
             v == c.viable
             some == Moved(doc, n)
             m == ToSet(some)
             none == <<>>
  <1>1. PICK a \in Seq(Nat), b \in Seq(Nat) :
               /\ Kids(doc, p) = a \o b /\ c.asked = Around(a, some, b)
               /\ FirstOf(v, b, m, a \o b)
    BY DEF AskedAfter
  <1>2. some \in Seq(Nat)
    BY MovedAre
  <1>3. a \o b \in Seq(Nat) /\ Reference(c) = v
    BY JoinedIs DEF Reference
  <1>4. \A k, l \in Seq(Nat) :
          Kids(doc, p) = k \o l => Kids(PreInserted(doc, p, n, First(l)), p) = Around(k, some, l)
    BY InsertedAround
  <1>5. none \in Seq(Nat) /\ First(none) = None /\ b \o none = b /\ (a \o b) \o none = a \o b
    BY <1>3, ConcatEmptySeq DEF First
  <1>6. CASE v = None
    <2>1. ToSet(b) \subseteq m
      BY <1>1, <1>6 DEF FirstOf
    <2>2. Kids(PreInserted(doc, p, n, First(none)), p) = Around(a \o b, some, none)
      BY <1>1, <1>3, <1>4, <1>5
    <2> HIDE DEF some, m, none
    <2>3. Around(a \o b, some, none) = Around(a, some, none)
      BY <1>2, <1>5, <2>1, AroundSkips DEF m
    <2>4. Around(a, some, b \o none) = Around(a, some, none)
      <3>1. none \in Seq(Nat)
        BY <1>5
      <3>2. QED
        BY <1>2, <2>1, <3>1, AroundSkips DEF m
    <2>5. QED
      BY <1>1, <1>3, <1>5, <1>6, <2>2, <2>3, <2>4
  <1>7. CASE v # None /\ a \o b = <<>>
    BY <1>1, <1>3, <1>7, EmptyTakesLast
  <1>8. CASE v # None /\ a \o b # <<>>
    <2>1. PICK x \in Seq(Nat), y \in Seq(Nat) : b = x \o (<<v>> \o y) /\ ToSet(x) \subseteq m
      BY <1>1, <1>8 DEF FirstOf
    <2>2. v \in Nat
      BY <1>8, ArenaIs DEF Sound
    <2> DEFINE vy == <<v>> \o y
               ax == a \o x
    <2>3. vy \in Seq(Nat) /\ First(vy) = v
      BY <2>2, ConsIs
    <2>4. b = x \o vy
      BY <2>1
    <2> HIDE DEF vy
    <2>5. ax \in Seq(Nat) /\ a \o b = ax \o vy
      <3>1. ax \in Seq(Nat)
        BY JoinedIs
      <3>2. vy \in Seq(Nat)
        BY <2>3
      <3>3. a \o (x \o vy) = (a \o x) \o vy
        BY <3>2, JoinTwice, Zenon
      <3>4. QED
        BY <2>4, <3>1, <3>3
    <2> HIDE DEF ax
    <2>6. Kids(PreInserted(doc, p, n, First(vy)), p) = Around(ax, some, vy)
      BY <1>1, <1>4, <2>3, <2>5
    <2> HIDE DEF some, m
    <2>7. Around(a \o x, some, vy) = Around(a, some, vy)
      BY <1>2, <2>1, <2>3, AroundSkips DEF m
    <2>8. Around(a, some, x \o vy) = Around(a, some, vy)
      BY <1>2, <2>1, <2>3, AroundSkips DEF m
    <2>9. QED
      BY <1>1, <1>3, <2>3, <2>4, <2>6, <2>7, <2>8 DEF ax
  <1>9. QED
    BY <1>6, <1>7, <1>8

LEMMA DoneFor ==
  ASSUME Sound(doc), NEW c, c.parent \in Ids(doc), c.node \in Ids(doc), c.parent # c.node,
         c.this \in Ids(doc), c.this # c.node, AskedFor(doc, c)
  PROVE  Kids(Replaced(doc, c.parent, c.node, c.this), c.parent) = c.asked
PROOF
  <1> DEFINE p == c.parent
             n == c.node
             child == c.this
             some == Moved(doc, n)
  <1>1. PICK a \in Seq(Nat), b \in Seq(Nat) :
               /\ Kids(doc, p) = a \o (<<child>> \o b) /\ c.asked = Around(a, some, b)
    BY DEF AskedFor
  <1> HIDE DEF p, n, child
  <1>2. p \in Ids(doc) /\ n \in Ids(doc) /\ child \in Ids(doc) /\ child # n /\ p # n
    BY DEF p, n, child
  <1>3. \A k, l \in Seq(Nat) :
          Kids(doc, p) = k \o (<<child>> \o l)
            => Kids(Replaced(doc, p, n, child), p)
                 = (Without(k, ToSet(Moved(doc, n))) \o Moved(doc, n))
                     \o Without(l, ToSet(Moved(doc, n)))
    BY <1>2, PlacedFor
  <1>4. Kids(Replaced(doc, p, n, child), p) = Around(a, some, b)
    BY <1>1, <1>3 DEF Around
  <1>5. QED
    BY <1>1, <1>4 DEF p, n, child

\* The last borrow of a call gives its parent the children asked for, or
\* changes nothing.
LEMMA FinishedAsAsked ==
  ASSUME Sound(doc), NEW c, c.parent \in Ids(doc), c.node \in Ids(doc), c.this \in Ids(doc),
         c.parent # c.node => Asks(doc, c), Finished(c) # doc
  PROVE  Kids(Finished(c), c.parent) = c.asked
PROOF
  <1> DEFINE p == c.parent
             n == c.node
             A == c.op = "replaceWith" /\ StillChild(c) /\ MayReplace(doc, p, n, c.this)
             B == c.op = "replaceChildren" /\ MayPreInsert(doc, p, n, None)
             C == /\ c.op # "replaceChildren" /\ ~(c.op = "replaceWith" /\ StillChild(c))
                  /\ MayPreInsert(doc, p, n, Reference(c))
             some == Moved(doc, n)
             kids == Kids(doc, p)
             none == <<>>
  <1>1. A \/ B \/ C => p # n
    BY NotBelow DEF MayReplace, MayPreInsert, MayInsert
  <1>2. Finished(c) = CASE A -> Replaced(doc, p, n, c.this)
                        [] B -> ReplacedAll(p, n)
                        [] C -> PreInserted(doc, p, n, Reference(c))
                        [] OTHER -> doc
    BY Zenon DEF Finished
  <1>3. A => ~B /\ ~C
    OBVIOUS
  <1>4. B => ~C
    OBVIOUS
  <1>5. CASE A
    <2>1. AskedFor(doc, c)
      BY <1>1, <1>5 DEF Asks, StillChild
    <2>2. Finished(c) = Replaced(doc, p, n, c.this)
      <3> HIDE DEF A, B, C
      <3>1. QED
        BY <1>2, <1>3, <1>5
    <2>3. c.this # n
      BY <2>2 DEF Replaced
    <2>4. QED
      BY <1>1, <1>5, <2>1, <2>2, <2>3, DoneFor
  <1>6. CASE B
    <2>1. c.asked = some
      BY <1>1, <1>6 DEF Asks
    <2>2. Finished(c) = ReplacedAll(p, n)
      <3> HIDE DEF A, B, C
      <3>1. QED
        BY <1>2, <1>3, <1>4, <1>6
    <2>3. QED
      BY <1>6, <2>1, <2>2, PlacedAlone
  <1>7. CASE C
    <2>1. /\ c.op \in ParentOps \cup ChildOps /\ c.viable \in Ids(doc) \cup {None}
          /\ c.op = "append" => c.asked = Around(kids, some, none)
          /\ c.op = "prepend" => c.asked = Around(none, some, kids)
          /\ c.op = "before" => AskedBefore(doc, c)
          /\ c.op = "after" \/ (c.op = "replaceWith" /\ ParentOf(doc, c.this) # p)
               => AskedAfter(doc, c)
      BY <1>1, <1>7 DEF Asks
    <2>2. Finished(c) = PreInserted(doc, p, n, Reference(c))
      <3> HIDE DEF A, B, C
      <3>1. QED
        BY <1>2, <1>3, <1>4, <1>7
    <2>3. /\ kids \in Seq(Nat) /\ None \notin ToSet(kids) /\ none \in Seq(Nat)
          /\ none \o kids = kids /\ kids \o none = kids
      BY KidsAre, ConcatEmptySeq
    <2>4. \A k, l \in Seq(Nat) :
            kids = k \o l => Kids(PreInserted(doc, p, n, First(l)), p) = Around(k, some, l)
      BY <1>1, <1>7, InsertedAround
    <2>5. c.op \in {"append", "prepend", "before", "after", "replaceWith"}
      BY <1>7, <2>1 DEF ParentOps, ChildOps
    <2>6. CASE c.op = "append"
      <3>1. Reference(c) = First(none)
        BY <2>6 DEF Reference, First
      <3> HIDE DEF none, kids, some
      <3>2. QED
        BY <2>1, <2>2, <2>3, <2>4, <2>6, <3>1
    <2>7. CASE c.op = "prepend"
      <3>1. Reference(c) = First(kids)
        BY <2>3, <2>7, FirstFound DEF Reference
      <3> HIDE DEF none, kids, some
      <3>2. QED
        BY <2>1, <2>2, <2>3, <2>4, <2>7, <3>1
    <2>8. CASE c.op = "before"
      BY <1>1, <1>7, <2>1, <2>2, <2>8, DoneBefore
    <2>9. CASE c.op \in {"after", "replaceWith"}
      BY <1>1, <1>7, <2>1, <2>2, <2>9, DoneAfter DEF StillChild
    <2>10. QED
      BY <2>5, <2>6, <2>7, <2>8, <2>9
  <1>8. CASE ~A /\ ~B /\ ~C
    <2> HIDE DEF A, B, C
    <2>1. QED
      BY <1>2, <1>8
  <1>9. QED
    BY <1>5, <1>6, <1>7, <1>8

----------------------------------------------------------------------------
(* What is asked for, argument by argument. *)

TakeStep(n, sofar) ==
  LET more == IF n \in Ids(doc) /\ IsFragment(doc, n)
              THEN Without(IF n \in Ids(doc) THEN Moved(doc, n) ELSE <<n>>, ToSet(sofar))
              ELSE <<n>>
  IN  Without(sofar, ToSet(more)) \o more

OpenedOf(given, count, f) ==
  f = [k \in 0..count |-> IF k = 0 THEN <<>> ELSE TakeStep(given[k], f[k - 1])]

\* What an argument brings along, once it is opened; and what of it is new.
Brings(n) == IF n \in Ids(doc) /\ IsFragment(doc, n) THEN ToSet(Kids(doc, n)) ELSE {n}
More(n, sofar) == IF n \in Ids(doc) /\ IsFragment(doc, n)
                  THEN Without(Kids(doc, n), ToSet(sofar)) ELSE <<n>>

LEMMA TakeIs ==
  ASSUME Sound(doc), NEW n \in Nat, NEW s \in Seq(Nat)
  PROVE  LET more == More(n, s)
         IN  /\ TakeStep(n, s) = Without(s, ToSet(more)) \o more
             /\ TakeStep(n, s) \in Seq(Nat) /\ more \in Seq(Nat)
             /\ ToSet(TakeStep(n, s)) = ToSet(s) \cup ToSet(more)
             /\ ToSet(s) \cup ToSet(more) = ToSet(s) \cup Brings(n)
PROOF
  <1> DEFINE more == More(n, s)
             w == Without(s, ToSet(more))
  <1>1. TakeStep(n, s) = w \o more
    BY DEF TakeStep, More, Moved
  <1>2. more \in Seq(Nat) /\ ToSet(s) \cup ToSet(more) = ToSet(s) \cup Brings(n)
    <2>1. CASE n \in Ids(doc) /\ IsFragment(doc, n)
      <3>1. more = Without(Kids(doc, n), ToSet(s)) /\ Brings(n) = ToSet(Kids(doc, n))
        BY <2>1 DEF More, Brings
      <3>2. Kids(doc, n) \in Seq(Nat)
        BY <2>1, KidsAre
      <3> HIDE DEF more
      <3>3. more \in Seq(Nat) /\ ToSet(more) = ToSet(Kids(doc, n)) \ ToSet(s)
        BY <3>1, <3>2, WithoutIs
      <3>4. QED
        BY <3>1, <3>3
    <2>2. CASE ~(n \in Ids(doc) /\ IsFragment(doc, n))
      <3>1. more = <<n>> /\ Brings(n) = {n}
        BY <2>2 DEF More, Brings
      <3> HIDE DEF more
      <3>2. <<n>> \in Seq(Nat) /\ ToSet(<<n>>) = {n}
        BY OneIs
      <3>3. QED
        BY <3>1, <3>2
    <2>3. QED
      BY <2>1, <2>2
  <1> HIDE DEF more
  <1>3. w \in Seq(Nat) /\ ToSet(w) = ToSet(s) \ ToSet(more)
    BY WithoutIs
  <1> HIDE DEF w
  <1>4. w \o more \in Seq(Nat) /\ ToSet(w \o more) = ToSet(w) \cup ToSet(more)
    BY <1>2, <1>3, JoinedIs
  <1>5. QED
    BY <1>1, <1>2, <1>3, <1>4 DEF more, w

LEMMA OpenedExists ==
  ASSUME Sound(doc), NEW count \in Nat, NEW given \in [1..count -> Nat]
  PROVE  \E f : OpenedOf(given, count, f)
PROOF
  <1> DEFINE V == Seq(Nat)
             F == [k \in 1..count |-> [s \in V |-> TakeStep(given[k], s)]]
             none == <<>>
  <1>1. F \in [1..count -> [V -> V]]
    BY TakeIs
  <1>2. \A k \in 1..count : \A s \in V : F[k][s] = TakeStep(given[k], s)
    OBVIOUS
  <1>3. none \in V
    OBVIOUS
  <1> HIDE DEF F, V, none
  <1>4. PICK it \in [0..count -> V] : it[0] = none /\ \A k \in 1..count : it[k] = F[k][it[k - 1]]
    <2>1. \E it : Running(V, none, count, F, it)
      BY <1>1, <1>3, RepeatedRuns
    <2>2. QED
      BY <2>1 DEF Running
  <1>5. ASSUME NEW k \in 0..count
        PROVE  it[k] = IF k = 0 THEN none ELSE TakeStep(given[k], it[k - 1])
    <2>1. CASE k = 0
      BY <1>4, <2>1
    <2>2. CASE k # 0
      <3>1. k \in 1..count /\ k - 1 \in 0..count
        BY <2>2
      <3>2. it[k - 1] \in V /\ it[k] = F[k][it[k - 1]]
        BY <1>4, <3>1
      <3>3. QED
        BY <1>2, <2>2, <3>1, <3>2
    <2>3. QED
      BY <2>1, <2>2
  <1>6. it = [k \in 0..count |-> IF k = 0 THEN none ELSE TakeStep(given[k], it[k - 1])]
    BY <1>4, <1>5
  <1>7. QED
    BY <1>6, Zenon DEF OpenedOf, none

\* Such a function, step by step.
Opening(given, count, f) ==
  /\ f[0] = <<>> /\ \A k \in 0..count : f[k] \in Seq(Nat)
  /\ \A k \in 1..count : f[k] = TakeStep(given[k], f[k - 1])

LEMMA OpenedIs ==
  ASSUME Sound(doc), NEW items, NEW count \in Nat, Len(items) = count,
         NEW given \in [1..count -> Nat], given = Indices(items)
  PROVE  \E f : Opening(given, count, f) /\ Opened(items) = f[count]
PROOF
  <1> DEFINE f == CHOOSE h : OpenedOf(given, count, h)
  <1>1. Opened(items) = f[count]
    BY Zenon DEF Opened, OpenedOf, TakeStep
  <1>2. OpenedOf(given, count, f)
    BY OpenedExists
  <1> HIDE DEF f
  <1>3. \A k \in 0..count : f[k] = IF k = 0 THEN <<>> ELSE TakeStep(given[k], f[k - 1])
    <2>1. f = [k \in 0..count |-> IF k = 0 THEN <<>> ELSE TakeStep(given[k], f[k - 1])]
      BY <1>2, Zenon DEF OpenedOf
    <2>2. QED
      BY <2>1
  <1>4. f[0] = <<>>
    BY <1>3
  <1>5. \A k \in 1..count : f[k] = TakeStep(given[k], f[k - 1])
    BY <1>3
  <1> DEFINE V == Seq(Nat)
  <1>6. f[0] \in V
    BY <1>4
  <1>7. ASSUME NEW k \in 1..count, f[k - 1] \in V
        PROVE  f[k] \in V
    BY <1>5, <1>7, TakeIs
  <1> HIDE DEF V
  <1>8. \A k \in 0..count : f[k] \in V
    BY <1>6, <1>7, RepeatsWithin
  <1>9. Opening(given, count, f)
    BY <1>4, <1>5, <1>8 DEF Opening, V
  <1>10. QED
    BY <1>1, <1>9

----------------------------------------------------------------------------
(* The fragment takes what is asked for. *)

\* base is the document with new nodes without links, of which the holder
\* alone is a fragment.
Prepared(base, holder) ==
  /\ Sound(base) /\ Ids(doc) \subseteq Ids(base) /\ holder \in Ids(base) \ Ids(doc)
  /\ \A x \in Ids(doc) : Kids(base, x) = Kids(doc, x) /\ IsFragment(base, x) = IsFragment(doc, x)
  /\ \A x \in Ids(base) \ Ids(doc) : Kids(base, x) = <<>> /\ (x # holder => ~IsFragment(base, x))

\* As far as r has come, the holder has the nodes s, and no one else has.
Taking(base, holder, s, r) ==
  /\ r \in Gathering(base, holder)
  /\ r.ok => /\ Kids(r.doc, holder) = s
             /\ \A x \in Ids(base) \ {holder} : Kids(r.doc, x) = Without(Kids(base, x), ToSet(s))

LEMMA TakingStep ==
  ASSUME Sound(doc), NEW base, NEW holder, Prepared(base, holder), NEW n \in Ids(base),
         NEW s \in Seq(Nat), NEW r, Taking(base, holder, s, r)
  PROVE  Taking(base, holder, TakeStep(n, s), GatherStep(holder, n, r))
PROOF
  <1> DEFINE t == TakeStep(n, s)
             q == GatherStep(holder, n, r)
             more == More(n, s)
             d == r.doc
  <1>1. r \in Gathering(base, holder) /\ holder \in Ids(base)
    BY DEF Taking, Prepared
  <1>2. q \in Gathering(base, holder)
    BY <1>1, GatherStepKeeps
  <1>3. CASE ~(r.ok /\ MayPreInsert(d, holder, n, None))
    <2>1. q = [r EXCEPT !.ok = FALSE]
      BY <1>3 DEF GatherStep
    <2>2. r \in [doc : Documents, node : {holder}, ok : BOOLEAN]
      BY <1>1 DEF Gathering
    <2>3. ~q.ok
      BY <2>1, <2>2
    <2>4. QED
      BY <1>2, <2>3 DEF Taking
  <1>4. CASE r.ok /\ MayPreInsert(d, holder, n, None)
    <2> DEFINE e == PreInserted(d, holder, n, None)
    <2>1. q = [r EXCEPT !.doc = e]
      BY <1>4 DEF GatherStep
    <2>2. r \in [doc : Documents, node : {holder}, ok : BOOLEAN] /\ Relinked(base, d)
      BY <1>1 DEF Gathering
    <2> HIDE DEF e
    <2>3. q.doc = e
      BY <2>1, <2>2
    <2>4. Sound(d) /\ Ids(d) = Ids(base) /\ IsFragment(d, n) = IsFragment(base, n)
      BY <2>2 DEF Relinked, Grown, IsFragment
    <2>5. n # holder
      BY <1>1, <1>4, <2>4, NotBelow DEF MayPreInsert, MayInsert
    <2>6. /\ Kids(d, holder) = s
          /\ \A x \in Ids(base) \ {holder} : Kids(d, x) = Without(Kids(base, x), ToSet(s))
      BY <1>4 DEF Taking
    <2>7. n \in Nat /\ (n \in Ids(doc) => Kids(base, n) = Kids(doc, n)
                                           /\ IsFragment(base, n) = IsFragment(doc, n))
          /\ (n \notin Ids(doc) => ~IsFragment(base, n))
      BY <2>5, ArenaIs DEF Prepared, Sound
    <2>8. Moved(d, n) = more
      <3>1. Moved(d, n) = IF IsFragment(d, n) THEN Kids(d, n) ELSE <<n>>
        BY DEF Moved
      <3>2. Kids(d, n) = Without(Kids(base, n), ToSet(s))
        BY <2>5, <2>6
      <3>3. QED
        BY <2>4, <2>7, <3>1, <3>2 DEF More
    <2>9. /\ t = Without(s, ToSet(more)) \o more /\ more \in Seq(Nat)
          /\ ToSet(t) = ToSet(s) \cup ToSet(more)
      BY <2>7, TakeIs
    <2> HIDE DEF d, t, more
    <2>10. Kids(e, holder) = t
      <3>1. Kids(e, holder) = Without(Kids(d, holder), ToSet(Moved(d, n))) \o Moved(d, n)
        BY <1>1, <2>4, <2>5, PlacedLast DEF e
      <3>2. QED
        BY <2>6, <2>8, <2>9, <3>1
    <2>11. ASSUME NEW x \in Ids(base) \ {holder}
           PROVE  Kids(e, x) = Without(Kids(base, x), ToSet(t))
      <3>1. Kids(e, x) = Without(Kids(d, x), ToSet(more))
        BY <1>1, <2>4, <2>5, <2>8, InsertedKids DEF e
      <3>2. Kids(base, x) \in Seq(Nat)
        BY KidsAre DEF Prepared
      <3>3. Without(Without(Kids(base, x), ToSet(s)), ToSet(more))
              = Without(Kids(base, x), ToSet(s) \cup ToSet(more))
        BY <3>2, WithoutTwice
      <3>4. QED
        BY <2>6, <2>9, <3>1, <3>3
    <2>12. QED
      BY <1>2, <2>3, <2>10, <2>11 DEF Taking, t
  <1>5. QED
    BY <1>3, <1>4

\* The sets of nodes that come with the first k arguments.
BroughtBy(given, k, S) ==
  /\ \A j \in 1..k : Brings(given[j]) \subseteq S
  /\ \A x \in S : \E j \in 1..k : x \in Brings(given[j])

LEMMA OpenedBrings ==
  ASSUME Sound(doc), NEW count \in Nat, NEW given \in [1..count -> Nat], NEW f,
         Opening(given, count, f)
  PROVE  BroughtBy(given, count, ToSet(f[count]))
PROOF
  <1> DEFINE A(k) == BroughtBy(given, k, ToSet(f[k]))
             V == {k \in 0..count : A(k)}
             id == [k \in 0..count |-> k]
  <1>1. A(0)
    BY DEF Opening, BroughtBy, ToSet
  <1>2. ASSUME NEW k \in 1..count, A(k - 1)
        PROVE  A(k)
    <2>1. k - 1 \in 0..count /\ given[k] \in Nat /\ f[k - 1] \in Seq(Nat)
      BY DEF Opening
    <2>2. ToSet(f[k]) = ToSet(f[k - 1]) \cup Brings(given[k])
      BY <2>1, TakeIs DEF Opening
    <2>3. \A j \in 1..k : j \in 1..(k - 1) \/ j = k
      OBVIOUS
    <2>4. 1..(k - 1) \subseteq 1..k /\ k \in 1..k
      OBVIOUS
    <2>5. QED
      BY <1>2, <2>2, <2>3, <2>4 DEF BroughtBy
  <1> HIDE DEF A
  <1>3. id[0] \in V
    BY <1>1
  <1>4. ASSUME NEW k \in 1..count, id[k - 1] \in V
        PROVE  id[k] \in V
    <2>1. id[k - 1] = k - 1 /\ id[k] = k /\ k \in 0..count
      OBVIOUS
    <2>2. QED
      BY <1>2, <1>4, <2>1
  <1> HIDE DEF V, id
  <1>5. \A k \in 0..count : id[k] \in V
    BY <1>3, <1>4, RepeatsWithin
  <1>6. A(count)
    BY <1>5 DEF V, id
  <1>7. QED
    BY <1>6 DEF A

LEMMA GatherTakes ==
  ASSUME Sound(doc), NEW base, NEW holder, Prepared(base, holder), NEW count \in Nat,
         NEW given \in [1..count -> Ids(base)], NEW f, NEW g, NEW first,
         first = [doc |-> base, node |-> holder, ok |-> TRUE],
         Opening(given, count, f), FilledOf(first, holder, given, count, g)
  PROVE  Taking(base, holder, f[count], g[count])
PROOF
  <1> DEFINE A(k) == Taking(base, holder, f[k], g[k])
             V == {k \in 0..count : A(k)}
             id == [k \in 0..count |-> k]
  <1>1. \A k \in 0..count : g[k] = IF k = 0 THEN first ELSE GatherStep(holder, given[k], g[k - 1])
    <2>1. g = [k \in 0..count |-> IF k = 0 THEN first ELSE GatherStep(holder, given[k], g[k - 1])]
      BY Zenon DEF FilledOf
    <2>2. QED
      BY <2>1
  <1>2. A(0)
    <2>1. g[0] = first /\ f[0] = <<>>
      <3>1. 0 \in 0..count
        OBVIOUS
      <3>2. g[0] = first
        BY <1>1, <3>1
      <3>3. f[0] = <<>>
        BY DEF Opening
      <3>4. QED
        BY <3>2, <3>3
    <2>2. Sound(base) /\ base \in Documents /\ holder \in Ids(base)
      BY DEF Prepared, Sound
    <2>3. first \in Gathering(base, holder)
      BY <2>2, RelinkedSelf DEF Gathering
    <2>4. Kids(base, holder) = <<>>
      BY DEF Prepared
    <2>5. \A x \in Ids(base) : Without(Kids(base, x), ToSet(<<>>)) = Kids(base, x)
      <3> DEFINE nil == ToSet(<<>>)
      <3>1. nil = {}
        BY DEF ToSet
      <3> HIDE DEF nil
      <3>2. \A x \in Ids(base) : Without(Kids(base, x), nil) = Kids(base, x)
        BY <2>2, <3>1, KidsAre, WithoutOthers
      <3>3. QED
        BY <3>2 DEF nil
    <2>6. QED
      BY <2>1, <2>3, <2>4, <2>5 DEF Taking
  <1>3. ASSUME NEW k \in 1..count, A(k - 1)
        PROVE  A(k)
    <2>1. k - 1 \in 0..count /\ k \in 0..count /\ k # 0 /\ given[k] \in Ids(base)
      OBVIOUS
    <2>2. f[k - 1] \in Seq(Nat) /\ f[k] = TakeStep(given[k], f[k - 1])
      BY <2>1 DEF Opening
    <2>3. g[k] = GatherStep(holder, given[k], g[k - 1])
      BY <1>1, <2>1
    <2>4. Taking(base, holder, TakeStep(given[k], f[k - 1]), GatherStep(holder, given[k], g[k - 1]))
      BY <1>3, <2>1, <2>2, TakingStep
    <2>5. QED
      BY <2>2, <2>3, <2>4
  <1> HIDE DEF A
  <1>4. id[0] \in V
    BY <1>2
  <1>5. ASSUME NEW k \in 1..count, id[k - 1] \in V
        PROVE  id[k] \in V
    <2>1. id[k - 1] = k - 1 /\ id[k] = k /\ k \in 0..count
      OBVIOUS
    <2>2. QED
      BY <1>3, <1>5, <2>1
  <1> HIDE DEF V, id
  <1>6. \A k \in 0..count : id[k] \in V
    BY <1>4, <1>5, RepeatsWithin
  <1>7. A(count)
    BY <1>6 DEF V, id
  <1>8. QED
    BY <1>7 DEF A

----------------------------------------------------------------------------
(* What a call is asked for when it starts. *)

LEMMA SidesAre ==
  ASSUME Sound(doc), NEW this \in Ids(doc), ParentOf(doc, this) # None
  PROVE  LET p == ParentOf(doc, this)
         IN  /\ p \in Ids(doc)
             /\ Preceding(doc, this) \in Seq(Nat) /\ Following(doc, this) \in Seq(Nat)
             /\ Kids(doc, p) = Preceding(doc, this) \o (<<this>> \o Following(doc, this))
PROOF
  <1> DEFINE p == ParentOf(doc, this)
             s == Kids(doc, p)
             at == Position(doc, this)
  <1>1. p \in Ids(doc)
    BY DEF Sound, Placed
  <1>2. s \in Seq(Nat) /\ this \in ToSet(s)
    BY <1>1, KidsAre
  <1>3. at \in DOMAIN s /\ s[at] = this
    <2>1. \E i \in DOMAIN s : s[i] = this
      BY <1>2 DEF ToSet
    <2>2. at = CHOOSE i \in DOMAIN s : s[i] = this
      BY DEF Position
    <2> HIDE DEF s, at
    <2>3. QED
      BY <2>1, <2>2
  <1>4. Preceding(doc, this) = SubSeq(s, 1, at - 1) /\ Following(doc, this) = SubSeq(s, at + 1, Len(s))
    BY DEF Preceding, Following
  <1> HIDE DEF s, at
  <1>5. at \in 1..Len(s)
    BY <1>2, <1>3, Listed
  <1>6. QED
    BY <1>1, <1>2, <1>3, <1>4, <1>5, CutAt DEF s

\* The node n of the document e stands for the arguments, whose nodes are some;
\* those taken are no longer where they were.
Finds(e, n, given, some, taken) ==
  /\ Sound(e) /\ Ids(doc) \subseteq Ids(e) /\ n \in Ids(e)
  /\ some = Moved(e, n) /\ (taken = {} \/ taken = ToSet(some))
  /\ \A x \in Ids(doc) : Kids(e, x) = Without(Kids(doc, x), taken)
  /\ \A k \in given : Brings(k) \subseteq ToSet(some)
  /\ taken # {} => \A x \in ToSet(some) \cap Ids(doc) : \E k \in given : x \in Brings(k)

\* Of the children of p, those given are among some; when others are, all are.
LEMMA FindsAmong ==
  ASSUME Sound(doc), NEW p \in Ids(doc), NEW e, NEW n, NEW given, NEW some, NEW taken,
         Finds(e, n, given, some, taken), given \subseteq Ids(doc)
  PROVE  LET L == ToSet(Kids(doc, p))
         IN  /\ L \cap given \subseteq ToSet(some)
             /\ taken = {} \/ L \cap taken \subseteq given \/ L \subseteq taken
PROOF
  <1> DEFINE L == ToSet(Kids(doc, p))
  <1>1. \A k : k \in L <=> k \in Ids(doc) /\ ParentOf(doc, k) = p
    BY KidsAre
  <1>2. ASSUME NEW k \in L \cap given
        PROVE  k \in ToSet(some)
    <2>1. ~IsFragment(doc, k)
      <3>1. p # None /\ Placed(doc, k) /\ ParentOf(doc, k) = p
        BY <1>1, ArenaIs DEF Sound
      <3>2. QED
        BY <3>1 DEF Placed, IsChild, IsFragment
    <2>2. Brings(k) = {k}
      BY <2>1 DEF Brings
    <2>3. QED
      BY <2>2 DEF Finds
  <1>3. ASSUME NEW x \in L \cap taken, x \notin given, taken # {}
        PROVE  L \subseteq taken
    <2>1. taken = ToSet(some)
      BY <1>3 DEF Finds
    <2>2. x \in ToSet(some) \cap Ids(doc)
      BY <1>1, <1>3, <2>1
    <2>3. PICK k \in given : x \in Brings(k)
      BY <1>3, <2>2 DEF Finds
    <2>4. k \in Ids(doc) /\ IsFragment(doc, k) /\ x \in ToSet(Kids(doc, k))
      BY <1>3, <2>3 DEF Brings
    <2>5. ParentOf(doc, x) = k
      BY <2>4, KidsAre
    <2>6. k = p
      BY <1>1, <1>3, <2>5
    <2>7. Brings(k) = L
      BY <2>4, <2>6 DEF Brings
    <2>8. QED
      BY <2>1, <2>7 DEF Finds
  <1>4. QED
    BY <1>2, <1>3

LEMMA AroundTaken ==
  ASSUME NEW a \in Seq(Nat), NEW b \in Seq(Nat), NEW some, NEW taken,
         taken = {} \/ taken = ToSet(some)
  PROVE  Around(Without(a, taken), some, Without(b, taken)) = Around(a, some, b)
PROOF
  <1> DEFINE m == ToSet(some)
  <1>1. taken \cup m = m
    OBVIOUS
  <1> HIDE DEF m
  <1>2. Without(Without(a, taken), m) = Without(a, m)
    BY <1>1, WithoutTwice
  <1>3. Without(Without(b, taken), m) = Without(b, m)
    BY <1>1, WithoutTwice
  <1>4. QED
    BY <1>2, <1>3 DEF Around, m

\* What is left of a list around one of its nodes.
Led(v, t) == <<v>> \o t

LEMMA WithoutKept ==
  ASSUME NEW s \in Seq(Nat), NEW v \in Nat, NEW t \in Seq(Nat), NEW gone, v \notin gone
  PROVE  Without(s \o Led(v, t), gone) = Without(s, gone) \o Led(v, Without(t, gone))
PROOF
  <1> DEFINE one == <<v>>
  <1>1. one \in Seq(Nat) /\ ToSet(one) = {v}
    BY OneIs
  <1> HIDE DEF one
  <1>2. one \o t \in Seq(Nat)
    BY <1>1, JoinedIs
  <1>3. Without(s \o (one \o t), gone) = Without(s, gone) \o Without(one \o t, gone)
    BY <1>2, WithoutJoin
  <1>4. Without(one \o t, gone) = Without(one, gone) \o Without(t, gone)
    BY <1>1, WithoutJoin
  <1>5. Without(one, gone) = one
    BY <1>1, WithoutOthers
  <1>6. QED
    BY <1>3, <1>4, <1>5 DEF one, Led

LEMMA WithoutGone ==
  ASSUME NEW s \in Seq(Nat), NEW v \in Nat, NEW t \in Seq(Nat), NEW gone, v \in gone
  PROVE  Without(s \o Led(v, t), gone) = Without(s, gone) \o Without(t, gone)
PROOF
  <1> DEFINE one == <<v>>
  <1>1. one \in Seq(Nat) /\ ToSet(one) = {v}
    BY OneIs
  <1> HIDE DEF one
  <1>2. one \o t \in Seq(Nat) /\ Without(t, gone) \in Seq(Nat)
    BY <1>1, JoinedIs, WithoutIs
  <1>3. Without(s \o (one \o t), gone) = Without(s, gone) \o Without(one \o t, gone)
    BY <1>2, WithoutJoin
  <1>4. Without(one \o t, gone) = Without(one, gone) \o Without(t, gone)
    BY <1>1, WithoutJoin
  <1>5. Without(one, gone) = <<>>
    BY <1>1, WithoutOthers
  <1>6. <<>> \o Without(t, gone) = Without(t, gone)
    BY <1>2, ConcatEmptySeq
  <1>7. QED
    BY <1>3, <1>4, <1>5, <1>6 DEF one, Led

SetIn(a, s, w, t) == \E x, y \in Seq(Nat) : /\ a = x \o (<<w>> \o y)
                                            /\ ToSet(x) \subseteq ToSet(s)
                                            /\ ToSet(y) \subseteq ToSet(t)

LEMMA KeptWithin ==
  ASSUME NEW s \in Seq(Nat), NEW t \in Seq(Nat), NEW w \in Nat,
         NEW taken, w \notin taken
  PROVE  SetIn(Without(s \o Led(w, t), taken), s, w, t)
PROOF
  <1>1. /\ Without(s, taken) \in Seq(Nat) /\ ToSet(Without(s, taken)) \subseteq ToSet(s)
        /\ Without(t, taken) \in Seq(Nat) /\ ToSet(Without(t, taken)) \subseteq ToSet(t)
    BY WithoutIs
  <1>2. Without(s \o Led(w, t), taken) = Without(s, taken) \o Led(w, Without(t, taken))
    BY WithoutKept
  <1>3. QED
    BY <1>1, <1>2 DEF Led, SetIn

\* The sibling found before the arguments were taken away is still the last
\* one that stays, or the first.
LEMMA LastStays ==
  ASSUME NEW a \in Seq(Nat), NEW b \in Seq(Nat), NEW given, NEW m, NEW taken,
         ToSet(a \o b) \cap given \subseteq m,
         \/ taken = {}
         \/ ToSet(a \o b) \cap taken \subseteq given
         \/ ToSet(a \o b) \subseteq taken,
         None \notin ToSet(a \o b)
  PROVE  LET v == FirstNotIn(Reverse(a), given)
         IN  /\ LastOf(v, Without(a, taken), m, Without(a \o b, taken))
             /\ v \in ToSet(a \o b) \cup {None}
PROOF
  <1> DEFINE v == FirstNotIn(Reverse(a), given)
             L == ToSet(a \o b)
             rest == Without(a, taken)
             all == Without(a \o b, taken)
  <1>1. \/ v = None /\ ToSet(a) \subseteq given
        \/ /\ v \in Nat /\ v \in ToSet(a) \ given
           /\ \E s, t \in Seq(Nat) : a = s \o (<<v>> \o t) /\ ToSet(t) \subseteq given
    BY LastFits
  <1>2. a \o b \in Seq(Nat) /\ L = ToSet(a) \cup ToSet(b)
    BY JoinedIs
  <1>3. ToSet(rest) = ToSet(a) \ taken /\ ToSet(all) = L \ taken /\ all \in Seq(Nat)
    BY <1>2, WithoutIs
  <1> HIDE DEF v
  <1>4. L \subseteq taken => all = <<>>
    <2> HIDE DEF all
    <2>1. QED
      BY <1>3, Listed
  <1>5. CASE v = None /\ ToSet(a) \subseteq given
    BY <1>2, <1>3, <1>5 DEF LastOf, v
  <1>6. ASSUME v \in Nat, v \in ToSet(a) \ given, NEW s \in Seq(Nat), NEW t \in Seq(Nat),
               a = s \o (<<v>> \o t), ToSet(t) \subseteq given
        PROVE  LastOf(v, rest, m, all)
    <2>0. v # None
      BY <1>2, <1>6
    <2>2. ToSet(t) \subseteq ToSet(a)
      <3> DEFINE vt == <<v>> \o t
      <3>1. vt \in Seq(Nat) /\ a = s \o vt /\ ToSet(t) \subseteq ToSet(vt)
        BY <1>6, ConsIs
      <3> HIDE DEF vt
      <3>2. QED
        BY <3>1, JoinedIs
    <2>3. v \in taken => all = <<>>
      BY <1>2, <1>4, <1>6
    <2>4. CASE v \notin taken
      <3>1. v \in Nat /\ a = s \o Led(v, t)
        BY <1>6 DEF Led
      <3>2. PICK x \in Seq(Nat), y \in Seq(Nat) :
                  /\ rest = x \o (<<v>> \o y)
                  /\ ToSet(x) \subseteq ToSet(s)
                  /\ ToSet(y) \subseteq ToSet(t)
        <4>1. \A w \in Nat : w \notin taken => SetIn(Without(s \o Led(w, t), taken), s, w, t)
          BY KeptWithin
        <4>2. SetIn(rest, s, v, t)
          BY <2>4, <3>1, <4>1
        <4>3. QED
          BY <4>2 DEF SetIn
      <3>3. ToSet(y) \subseteq m
        BY <1>2, <1>6, <2>2, <3>2
      <3> HIDE DEF rest, all
      <3>4. QED
        BY <2>0, <3>2, <3>3 DEF LastOf
    <2> HIDE DEF rest, all
    <2>6. QED
      BY <2>0, <2>3, <2>4 DEF LastOf
  <1>7. v \in L \cup {None}
    BY <1>1, <1>2 DEF v
  <1>8. QED
    BY <1>1, <1>5, <1>6, <1>7 DEF v

LEMMA FirstStays ==
  ASSUME NEW a \in Seq(Nat), NEW b \in Seq(Nat), NEW given, NEW m, NEW taken,
         ToSet(a \o b) \cap given \subseteq m,
         \/ taken = {}
         \/ ToSet(a \o b) \cap taken \subseteq given
         \/ ToSet(a \o b) \subseteq taken,
         None \notin ToSet(a \o b)
  PROVE  LET v == FirstNotIn(b, given)
         IN  /\ FirstOf(v, Without(b, taken), m, Without(a \o b, taken))
             /\ v \in ToSet(a \o b) \cup {None}
PROOF
  <1> DEFINE v == FirstNotIn(b, given)
             L == ToSet(a \o b)
             rest == Without(b, taken)
             all == Without(a \o b, taken)
  <1>1. \/ v = None /\ ToSet(b) \subseteq given
        \/ /\ v \in Nat /\ v \in ToSet(b) \ given
           /\ \E s, t \in Seq(Nat) : b = s \o (<<v>> \o t) /\ ToSet(s) \subseteq given
    BY FirstFits
  <1>2. a \o b \in Seq(Nat) /\ L = ToSet(a) \cup ToSet(b)
    BY JoinedIs
  <1>3. ToSet(rest) = ToSet(b) \ taken /\ ToSet(all) = L \ taken /\ all \in Seq(Nat)
    BY <1>2, WithoutIs
  <1> HIDE DEF v
  <1>4. L \subseteq taken => all = <<>>
    <2> HIDE DEF all
    <2>1. QED
      BY <1>3, Listed
  <1>5. CASE v = None /\ ToSet(b) \subseteq given
    BY <1>2, <1>3, <1>5 DEF FirstOf, v
  <1>6. ASSUME v \in Nat, v \in ToSet(b) \ given, NEW s \in Seq(Nat), NEW t \in Seq(Nat),
               b = s \o (<<v>> \o t), ToSet(s) \subseteq given
        PROVE  FirstOf(v, rest, m, all)
    <2>1. v # None
      BY <1>2, <1>6
    <2>3. ToSet(s) \subseteq ToSet(b)
      <3> DEFINE vt == <<v>> \o t
      <3>1. vt \in Seq(Nat) /\ b = s \o vt
        BY <1>6, ConsIs
      <3> HIDE DEF vt
      <3>2. QED
        BY <3>1, JoinedIs
    <2>4. v \in taken => all = <<>>
      BY <1>2, <1>4, <1>6
    <2>5. CASE v \notin taken
      <3>1. v \in Nat /\ b = s \o Led(v, t)
        BY <1>6 DEF Led
      <3>2. PICK x \in Seq(Nat), y \in Seq(Nat) :
                  /\ rest = x \o (<<v>> \o y)
                  /\ ToSet(x) \subseteq ToSet(s)
                  /\ ToSet(y) \subseteq ToSet(t)
        <4>1. \A w \in Nat : w \notin taken => SetIn(Without(s \o Led(w, t), taken), s, w, t)
          BY KeptWithin
        <4>2. SetIn(rest, s, v, t)
          BY <2>5, <3>1, <4>1
        <4>3. QED
          BY <4>2 DEF SetIn
      <3>3. ToSet(x) \subseteq m
        BY <1>2, <1>6, <2>3, <3>2
      <3> HIDE DEF rest, all
      <3>4. QED
        BY <2>1, <3>2, <3>3 DEF FirstOf
    <2> HIDE DEF rest, all
    <2>6. QED
      BY <2>1, <2>4, <2>5 DEF FirstOf
  <1>7. v \in L \cup {None}
    BY <1>1, <1>2 DEF v
  <1>8. QED
    BY <1>1, <1>5, <1>6, <1>7 DEF v

----------------------------------------------------------------------------
(* What a call asks for when it starts. *)

Parent(op, this) == IF op \in ParentOps THEN this ELSE ParentOf(doc, this)

StartsAs(c, op, this, items) ==
  LET given == ToSet(items) \ {None}
  IN  /\ c.asked = Asked(op, this, Parent(op, this), items)
      /\ c.parent = Parent(op, this) /\ c.op = op /\ c.this = this
      /\ op = "before" => c.viable = ViablePrevious(this, given)
      /\ op \in {"after", "replaceWith"} => c.viable = ViableNext(this, given)
      /\ op \in ParentOps => c.viable = None

LEMMA StartedAsks ==
  ASSUME NEW op, NEW this, NEW items
  PROVE  StartsAs(Started(op, this, items), op, this, items)
PROOF
  <1> DEFINE args == (ToSet(items) \ {None}) \cup {this}
             p == Parent(op, this)
             given == ToSet(items) \ {None}
             viable == CASE op = "before" -> ViablePrevious(this, given)
                         [] op \in {"after", "replaceWith"} -> ViableNext(this, given)
                         [] OTHER -> None
             asked == Asked(op, this, p, items)
             node == Gathered(items).node
             gathered == Len(items) # 1
  <1>1. Started(op, this, items)
          = AsCall("place", op, args, this, p, node, viable, gathered, asked, {})
    BY Zenon DEF Started, AsCall, Parent
  <1> HIDE DEF args, p, viable, asked, node, gathered, given
  <1>2. LET c == Started(op, this, items)
        IN  c.asked = asked /\ c.parent = p /\ c.op = op /\ c.this = this /\ c.viable = viable
    BY <1>1, AsCallIs DEF AsCall
  <1>3. /\ op = "before" => viable = ViablePrevious(this, given)
        /\ op \in {"after", "replaceWith"} => viable = ViableNext(this, given)
        /\ op \in ParentOps => viable = None
    BY DEF viable, ParentOps
  <1>4. QED
    BY <1>2, <1>3 DEF asked, p, given, StartsAs

AskedThen(op, this, p, some, is) ==
  LET m  == ToSet(some)
      a  == Preceding(doc, this)
      b  == Following(doc, this)
  IN  /\ op = "append" => is = Without(Kids(doc, p), m) \o some
      /\ op = "prepend" => is = some \o Without(Kids(doc, p), m)
      /\ op = "replaceChildren" => is = some
      /\ op = "before" => is = Without(a, m) \o some \o Without(Led(this, b), m)
      /\ op = "after" => is = Without(Append(a, this), m) \o some \o Without(b, m)
      /\ op = "replaceWith" => is = Without(a, m) \o some \o Without(b, m)

LEMMA AskedCases ==
  ASSUME NEW op, NEW this, NEW p, NEW items
  PROVE  AskedThen(op, this, p, Opened(items), Asked(op, this, p, items))
PROOF
  <1> DEFINE some == Opened(items)
             m  == ToSet(some)
             a  == Preceding(doc, this)
             b  == Following(doc, this)
             append == Without(Kids(doc, p), m) \o some
             prepend == some \o Without(Kids(doc, p), m)
             before == Without(a, m) \o some \o Without(Led(this, b), m)
             after == Without(Append(a, this), m) \o some \o Without(b, m)
             instead == Without(a, m) \o some \o Without(b, m)
  <1>1. Asked(op, this, p, items) =
          CASE op = "append"          -> append
            [] op = "prepend"         -> prepend
            [] op = "replaceChildren" -> some
            [] op = "before"          -> before
            [] op = "after"           -> after
            [] op = "replaceWith"     -> instead
    BY Zenon DEF Asked, Led
  <1> HIDE DEF append, prepend, before, after, instead
  <1>2. /\ op = "append" => Asked(op, this, p, items) = append
        /\ op = "prepend" => Asked(op, this, p, items) = prepend
        /\ op = "replaceChildren" => Asked(op, this, p, items) = some
        /\ op = "before" => Asked(op, this, p, items) = before
        /\ op = "after" => Asked(op, this, p, items) = after
        /\ op = "replaceWith" => Asked(op, this, p, items) = instead
    BY <1>1
  <1>3. QED
    BY <1>2, Zenon DEF append, prepend, before, after, instead, AskedThen

FoundFor(e, c, items, taken) ==
  LET some  == Opened(items)
      given == ToSet(items) \ {None}
  IN  some \in Seq(Nat) /\ given \subseteq Ids(doc) /\ Finds(e, c.node, given, some, taken)

LEMMA AsksParent ==
  ASSUME Sound(doc), NEW op \in ParentOps, NEW this \in Ids(doc), NEW items,
         NEW c, c = Started(op, this, items), NEW e, NEW taken, FoundFor(e, c, items, taken)
  PROVE  Asks(e, c)
PROOF
  <1> SUFFICES ASSUME NEW some \in Seq(Nat), some = Opened(items),
                      NEW given, Finds(e, c.node, given, some, taken)
               PROVE  Asks(e, c)
    BY DEF FoundFor
  <1> DEFINE kids == Kids(doc, this)
             now == Kids(e, this)
             m == ToSet(some)
             none == <<>>
             asked == c.asked
  <1>1. /\ c.op = op /\ c.parent = this /\ c.this = this /\ c.viable = None
        /\ asked = Asked(op, this, this, items)
    <2>1. StartsAs(c, op, this, items)
      BY StartedAsks
    <2>2. QED
      BY <2>1 DEF StartsAs, Parent
  <1>2. some = Moved(e, c.node) /\ now = Without(kids, taken) /\ (taken = {} \/ taken = m)
    BY DEF Finds
  <1>3. kids \in Seq(Nat) /\ now \in Seq(Nat)
    BY <1>2, KidsAre, WithoutIs
  <1>4. /\ op = "append" => asked = Without(kids, m) \o some
        /\ op = "prepend" => asked = some \o Without(kids, m)
        /\ op = "replaceChildren" => asked = some
    <2>1. AskedThen(op, this, this, some, asked)
      BY <1>1, AskedCases
    <2>2. QED
      BY <2>1, Zenon DEF AskedThen
  <1>5. Without(now, m) = Without(kids, m)
    <2>1. taken \cup m = m
      BY <1>2
    <2>2. QED
      BY <1>2, <1>3, <2>1, WithoutTwice
  <1>6. /\ Around(now, some, none) = Without(now, m) \o some
        /\ Around(none, some, now) = some \o Without(now, m)
    BY <1>3, AroundIs
  <1> HIDE DEF none, asked, now, kids, m
  <1>7. /\ op = "append" => asked = Around(now, some, none)
        /\ op = "prepend" => asked = Around(none, some, now)
        /\ op = "replaceChildren" => asked = some
    BY <1>4, <1>5, <1>6
  <1>8. op \notin ChildOps /\ op \in {"append", "prepend", "replaceChildren"}
    BY DEF ChildOps, ParentOps
  <1>9. /\ c.op # "before" /\ c.op # "after" /\ c.op # "replaceWith"
    BY <1>1, <1>8 DEF ChildOps
  <1>10. /\ c.op = "append" => c.asked = Around(Kids(e, c.parent), Moved(e, c.node), <<>>)
         /\ c.op = "prepend" => c.asked = Around(<<>>, Moved(e, c.node), Kids(e, c.parent))
         /\ c.op = "replaceChildren" => c.asked = Moved(e, c.node)
    BY <1>1, <1>2, <1>7, Zenon DEF none, asked, now
  <1>11. c.op \in ParentOps \cup ChildOps /\ c.viable \in Ids(e) \cup {None}
    BY <1>1
  <1>12. QED
    BY <1>9, <1>10, <1>11, Zenon DEF Asks

\* The parent's children around a node of its own, and what is among them.
Sides(e, n, this, p, given, some, taken) ==
  LET a == Preceding(doc, this)
      b == Following(doc, this)
      L == ToSet(Kids(doc, p))
  IN  /\ p \in Ids(doc) /\ a \in Seq(Nat) /\ b \in Seq(Nat) /\ this \in Nat
      /\ Kids(doc, p) = a \o Led(this, b) /\ Kids(e, p) = Without(Kids(doc, p), taken)
      /\ L \cap given \subseteq ToSet(some)
      /\ taken = {} \/ L \cap taken \subseteq given \/ L \subseteq taken
      /\ None \notin L /\ this \in L /\ L \subseteq Ids(doc)
      /\ some = Moved(e, n) /\ Ids(doc) \subseteq Ids(e) /\ Sound(e)
      /\ taken = {} \/ taken = ToSet(some)

LEMMA SidesFound ==
  ASSUME Sound(doc), NEW this \in Ids(doc), NEW p, p = ParentOf(doc, this), p # None,
         NEW e, NEW n, NEW given, NEW some, NEW taken,
         Finds(e, n, given, some, taken), given \subseteq Ids(doc)
  PROVE  Sides(e, n, this, p, given, some, taken)
PROOF
  <1>1. /\ p \in Ids(doc) /\ Preceding(doc, this) \in Seq(Nat) /\ Following(doc, this) \in Seq(Nat)
        /\ Kids(doc, p) = Preceding(doc, this) \o Led(this, Following(doc, this))
    BY SidesAre DEF Led
  <1>2. /\ None \notin ToSet(Kids(doc, p))
        /\ \A k : k \in ToSet(Kids(doc, p)) <=> k \in Ids(doc) /\ ParentOf(doc, k) = p
    BY <1>1, KidsAre
  <1>3. Kids(e, p) = Without(Kids(doc, p), taken)
    BY <1>1 DEF Finds
  <1>4. /\ some = Moved(e, n) /\ Ids(doc) \subseteq Ids(e) /\ Sound(e)
        /\ taken = {} \/ taken = ToSet(some)
    BY DEF Finds
  <1>5. /\ ToSet(Kids(doc, p)) \cap given \subseteq ToSet(some)
        /\ \/ taken = {}
           \/ ToSet(Kids(doc, p)) \cap taken \subseteq given
           \/ ToSet(Kids(doc, p)) \subseteq taken
    BY <1>1, FindsAmong
  <1>6. this \in Nat
    BY ArenaIs DEF Sound
  <1>7. QED
    BY <1>1, <1>2, <1>3, <1>4, <1>5, <1>6 DEF Sides

LEMMA StartsBefore ==
  ASSUME Sound(doc), NEW this \in Ids(doc), ParentOf(doc, this) # None,
         NEW items, NEW c, StartsAs(c, "before", this, items),
         NEW e, NEW taken, FoundFor(e, c, items, taken)
  PROVE  AskedBefore(e, c) /\ c.viable \in Ids(e) \cup {None}
PROOF
  <1> SUFFICES ASSUME NEW p, p = ParentOf(doc, this), p # None,
                      NEW some \in Seq(Nat), some = Opened(items),
                      NEW given, given = ToSet(items) \ {None}, given \subseteq Ids(doc),
                      Finds(e, c.node, given, some, taken)
               PROVE  AskedBefore(e, c) /\ c.viable \in Ids(e) \cup {None}
    BY DEF FoundFor
  <1> DEFINE a == Preceding(doc, this)
             b == Following(doc, this)
             w == Led(this, b)
             m == ToSet(some)
             L == ToSet(Kids(doc, p))
             x == Without(a, taken)
             y == Without(w, taken)
  <1>1. /\ p \in Ids(doc) /\ a \in Seq(Nat) /\ b \in Seq(Nat) /\ this \in Nat
        /\ Kids(doc, p) = a \o w /\ Kids(e, p) = Without(Kids(doc, p), taken)
        /\ L \cap given \subseteq m
        /\ taken = {} \/ L \cap taken \subseteq given \/ L \subseteq taken
        /\ None \notin L /\ L \subseteq Ids(doc)
        /\ some = Moved(e, c.node) /\ Ids(doc) \subseteq Ids(e)
        /\ taken = {} \/ taken = m
    <2>1. Sides(e, c.node, this, p, given, some, taken)
      BY SidesFound
    <2>2. QED
      BY <2>1 DEF Sides
  <1>2. w \in Seq(Nat)
    BY <1>1, ConsIs DEF Led
  <1>3. /\ c.viable = FirstNotIn(Reverse(a), given) /\ c.parent = p
        /\ c.asked = Asked("before", this, p, items)
    BY DEF StartsAs, Parent, ParentOps, ViablePrevious
  <1>4. c.asked = Around(a, some, w)
    <2>1. AskedThen("before", this, p, some, c.asked)
      BY <1>3, AskedCases
    <2>2. QED
      BY <2>1, Zenon DEF AskedThen, Around
  <1> HIDE DEF a, b, w
  <1>5. x \in Seq(Nat) /\ y \in Seq(Nat) /\ Kids(e, p) = x \o y
    <2>1. Kids(e, p) = Without(a \o w, taken) /\ a \in Seq(Nat) /\ w \in Seq(Nat)
      BY <1>1, <1>2
    <2>2. Without(a \o w, taken) = x \o y
      BY <2>1, WithoutJoin
    <2>3. QED
      BY <2>1, <2>2, WithoutIs
  <1>6. c.asked = Around(x, some, y)
    BY <1>1, <1>2, <1>4, AroundTaken
  <1>7. /\ LastOf(c.viable, x, m, Without(a \o w, taken))
        /\ c.viable \in ToSet(a \o w) \cup {None}
    <2>1. /\ LastOf(FirstNotIn(Reverse(a), given), x, m, Without(a \o w, taken))
          /\ FirstNotIn(Reverse(a), given) \in ToSet(a \o w) \cup {None}
      BY <1>1, <1>2, LastStays
    <2>2. QED
      BY <2>1, <1>3
  <1> HIDE DEF x, y, m
  <1>8. LastOf(c.viable, x, m, x \o y)
    BY <1>1, <1>5, <1>7
  <1>9. AskedBefore(e, c)
    BY <1>1, <1>3, <1>5, <1>6, <1>8 DEF AskedBefore, m
  <1>10. c.viable \in Ids(e) \cup {None}
    BY <1>1, <1>7
  <1>11. QED
    BY <1>9, <1>10

LEMMA StartsAfter ==
  ASSUME Sound(doc), NEW this \in Ids(doc), ParentOf(doc, this) # None,
         NEW items, NEW c, StartsAs(c, "after", this, items),
         NEW e, NEW taken, FoundFor(e, c, items, taken)
  PROVE  AskedAfter(e, c) /\ c.viable \in Ids(e) \cup {None}
PROOF
  <1> SUFFICES ASSUME NEW p, p = ParentOf(doc, this), p # None,
                      NEW some \in Seq(Nat), some = Opened(items),
                      NEW given, given = ToSet(items) \ {None}, given \subseteq Ids(doc),
                      Finds(e, c.node, given, some, taken)
               PROVE  AskedAfter(e, c) /\ c.viable \in Ids(e) \cup {None}
    BY DEF FoundFor
  <1> DEFINE b == Following(doc, this)
             w == Append(Preceding(doc, this), this)
             m == ToSet(some)
             L == ToSet(Kids(doc, p))
             x == Without(w, taken)
             y == Without(b, taken)
  <1>1. /\ p \in Ids(doc) /\ Preceding(doc, this) \in Seq(Nat) /\ b \in Seq(Nat) /\ this \in Nat
        /\ Kids(doc, p) = Preceding(doc, this) \o Led(this, b)
        /\ Kids(e, p) = Without(Kids(doc, p), taken)
        /\ L \cap given \subseteq m
        /\ taken = {} \/ L \cap taken \subseteq given \/ L \subseteq taken
        /\ None \notin L /\ L \subseteq Ids(doc)
        /\ some = Moved(e, c.node) /\ Ids(doc) \subseteq Ids(e)
        /\ taken = {} \/ taken = m
    <2>1. Sides(e, c.node, this, p, given, some, taken)
      BY SidesFound
    <2>2. QED
      BY <2>1 DEF Sides
  <1>2. w \in Seq(Nat) /\ Kids(doc, p) = w \o b
    <2> DEFINE a == Preceding(doc, this)
               one == <<this>>
    <2>1. one \in Seq(Nat)
      BY <1>1, OneIs
    <2>2. w = a \o one
      BY <1>1, AppendIsConcat
    <2>3. Kids(doc, p) = a \o (one \o b)
      BY <1>1 DEF Led
    <2> HIDE DEF a, one, w, b
    <2>4. a \in Seq(Nat) /\ b \in Seq(Nat)
      BY <1>1 DEF a, b
    <2>5. a \o (one \o b) = (a \o one) \o b /\ a \o one \in Seq(Nat)
      BY <2>1, <2>4, JoinTwice, JoinedIs
    <2>6. QED
      BY <2>2, <2>3, <2>5
  <1>3. /\ c.viable = FirstNotIn(b, given) /\ c.parent = p
        /\ c.asked = Asked("after", this, p, items)
    BY DEF StartsAs, Parent, ParentOps, ViableNext
  <1>4. c.asked = Around(w, some, b)
    <2>1. AskedThen("after", this, p, some, c.asked)
      BY <1>3, AskedCases
    <2>2. QED
      BY <2>1, Zenon DEF AskedThen, Around
  <1> HIDE DEF b, w
  <1>5. x \in Seq(Nat) /\ y \in Seq(Nat) /\ Kids(e, p) = x \o y
    <2>1. Kids(e, p) = Without(w \o b, taken) /\ w \in Seq(Nat) /\ b \in Seq(Nat)
      BY <1>1, <1>2
    <2>2. Without(w \o b, taken) = x \o y
      BY <2>1, WithoutJoin
    <2>3. QED
      BY <2>1, <2>2, WithoutIs
  <1>6. c.asked = Around(x, some, y)
    BY <1>1, <1>2, <1>4, AroundTaken
  <1>7. /\ FirstOf(c.viable, y, m, Without(w \o b, taken))
        /\ c.viable \in ToSet(w \o b) \cup {None}
    <2>1. /\ FirstOf(FirstNotIn(b, given), y, m, Without(w \o b, taken))
          /\ FirstNotIn(b, given) \in ToSet(w \o b) \cup {None}
      BY <1>1, <1>2, FirstStays
    <2>2. QED
      BY <2>1, <1>3
  <1> HIDE DEF x, y, m
  <1>8. FirstOf(c.viable, y, m, x \o y)
    BY <1>1, <1>2, <1>5, <1>7
  <1>9. AskedAfter(e, c)
    BY <1>1, <1>3, <1>5, <1>6, <1>8 DEF AskedAfter, m
  <1>10. c.viable \in Ids(e) \cup {None}
    BY <1>1, <1>2, <1>7
  <1>11. QED
    BY <1>9, <1>10

LEMMA StartsInstead ==
  ASSUME Sound(doc), NEW this \in Ids(doc), ParentOf(doc, this) # None,
         NEW items, NEW c, StartsAs(c, "replaceWith", this, items),
         NEW e, NEW taken, FoundFor(e, c, items, taken)
  PROVE  /\ ParentOf(e, this) = ParentOf(doc, this) => AskedFor(e, c)
         /\ ParentOf(e, this) # ParentOf(doc, this) => AskedAfter(e, c)
         /\ c.viable \in Ids(e) \cup {None}
PROOF
  <1> SUFFICES ASSUME NEW p, p = ParentOf(doc, this), p # None,
                      NEW some \in Seq(Nat), some = Opened(items),
                      NEW given, given = ToSet(items) \ {None}, given \subseteq Ids(doc),
                      Finds(e, c.node, given, some, taken)
               PROVE  /\ ParentOf(e, this) = p => AskedFor(e, c)
                      /\ ParentOf(e, this) # p => AskedAfter(e, c)
                      /\ c.viable \in Ids(e) \cup {None}
    BY DEF FoundFor
  <1> DEFINE a == Preceding(doc, this)
             b == Following(doc, this)
             m == ToSet(some)
             L == ToSet(Kids(doc, p))
             S == ToSet(a \o b)
             x == Without(a, taken)
             y == Without(b, taken)
  <1>1. /\ p \in Ids(doc) /\ a \in Seq(Nat) /\ b \in Seq(Nat) /\ this \in Nat
        /\ Kids(doc, p) = a \o Led(this, b) /\ Kids(e, p) = Without(Kids(doc, p), taken)
        /\ L \cap given \subseteq m
        /\ taken = {} \/ L \cap taken \subseteq given \/ L \subseteq taken
        /\ None \notin L /\ this \in L /\ L \subseteq Ids(doc)
        /\ some = Moved(e, c.node) /\ Ids(doc) \subseteq Ids(e) /\ Sound(e)
        /\ taken = {} \/ taken = m
    <2>1. Sides(e, c.node, this, p, given, some, taken)
      BY SidesFound
    <2>2. QED
      BY <2>1 DEF Sides
  <1>2. c.viable = FirstNotIn(b, given) /\ c.parent = p /\ c.this = this
    BY DEF StartsAs, Parent, ParentOps, ViableNext
  <1>3. c.asked = Around(a, some, b)
    <2>1. AskedThen("replaceWith", this, p, some, c.asked)
      BY AskedCases DEF StartsAs, Parent, ParentOps
    <2>2. QED
      BY <2>1, Zenon DEF AskedThen, Around
  <1> HIDE DEF a, b
  <1>4. S \subseteq L
    <2>1. Led(this, b) \in Seq(Nat) /\ ToSet(b) \subseteq ToSet(Led(this, b))
      BY <1>1, ConsIs DEF Led
    <2>2. ToSet(a \o Led(this, b)) = ToSet(a) \cup ToSet(Led(this, b))
      BY <1>1, <2>1, JoinedIs
    <2>3. S = ToSet(a) \cup ToSet(b)
      BY <1>1, JoinedIs
    <2>4. QED
      BY <1>1, <2>1, <2>2, <2>3
  <1>5. x \in Seq(Nat) /\ y \in Seq(Nat) /\ Without(a \o b, taken) = x \o y
    <2>1. a \in Seq(Nat) /\ b \in Seq(Nat)
      BY <1>1
    <2>2. Without(a \o b, taken) = x \o y
      BY <2>1, WithoutJoin
    <2>3. QED
      BY <2>1, <2>2, WithoutIs
  <1>6. c.asked = Around(x, some, y)
    BY <1>1, <1>3, AroundTaken
  <1>7. FirstOf(c.viable, y, m, Without(a \o b, taken)) /\ c.viable \in S \cup {None}
    <2>1. /\ FirstOf(FirstNotIn(b, given), y, m, Without(a \o b, taken))
          /\ FirstNotIn(b, given) \in S \cup {None}
      <3>1. /\ S \cap given \subseteq m /\ None \notin S
            /\ taken = {} \/ S \cap taken \subseteq given \/ S \subseteq taken
        BY <1>1, <1>4
      <3>2. QED
        BY <1>1, <3>1, FirstStays
    <2>2. QED
      BY <2>1, <1>2
  <1>8. this \in ToSet(Kids(e, p)) <=> ParentOf(e, this) = p
    <2>1. p \in Ids(e) /\ this \in Ids(e)
      BY <1>1
    <2>2. QED
      BY <1>1, <2>1, KidsAre
  <1>9. this \in ToSet(Kids(e, p)) <=> this \notin taken
    <2>1. Kids(doc, p) \in Seq(Nat)
      BY <1>1, KidsAre
    <2>2. ToSet(Without(Kids(doc, p), taken)) = ToSet(Kids(doc, p)) \ taken
      BY <2>1, WithoutIs
    <2>3. QED
      BY <1>1, <2>2
  <1>10. ParentOf(e, this) = p => AskedFor(e, c)
    <2>1. ASSUME this \notin taken PROVE Kids(e, p) = x \o Led(this, y)
      <3>1. a \in Seq(Nat) /\ b \in Seq(Nat) /\ this \in Nat
        BY <1>1
      <3>2. Without(a \o Led(this, b), taken) = x \o Led(this, y)
        BY <2>1, <3>1, WithoutKept
      <3>3. QED
        BY <1>1, <3>2
    <2> HIDE DEF x, y
    <2>2. QED
      BY <1>1, <1>2, <1>5, <1>6, <1>8, <1>9, <2>1 DEF AskedFor, Led
  <1>11. ParentOf(e, this) # p => AskedAfter(e, c)
    <2>1. ASSUME this \in taken PROVE Kids(e, p) = x \o y
      <3>1. a \in Seq(Nat) /\ b \in Seq(Nat) /\ this \in Nat
        BY <1>1
      <3>2. Without(a \o Led(this, b), taken) = x \o y
        BY <2>1, <3>1, WithoutGone
      <3>3. QED
        BY <1>1, <3>2
    <2> HIDE DEF x, y, m
    <2>2. QED
      BY <1>1, <1>2, <1>5, <1>6, <1>7, <1>8, <1>9, <2>1 DEF AskedAfter, m
  <1>12. c.viable \in Ids(e) \cup {None}
    BY <1>1, <1>4, <1>7
  <1>13. QED
    BY <1>10, <1>11, <1>12

\* The children of the parent, once the node is built, bear out what is asked.
LEMMA StartAsks ==
  ASSUME Sound(doc), NEW op \in ParentOps \cup ChildOps, NEW this \in Ids(doc), NEW items,
         op \in ParentOps \/ ParentOf(doc, this) # None,
         NEW c, c = Started(op, this, items), NEW e, NEW taken, FoundFor(e, c, items, taken)
  PROVE  Asks(e, c)
PROOF
  <1>1. CASE op \in ParentOps
    BY <1>1, AsksParent
  <1>2. CASE op \notin ParentOps
    <2> DEFINE p == ParentOf(doc, this)
    <2>1. p # None /\ op \in {"before", "after", "replaceWith"}
      BY <1>2 DEF ChildOps
    <2>2. StartsAs(c, op, this, items)
      BY StartedAsks
    <2>3. c.op = op /\ c.this = this /\ c.parent = p
      BY <1>2, <2>2 DEF StartsAs, Parent
    <2>4. op \notin {"append", "prepend", "replaceChildren"}
      BY <1>2 DEF ParentOps
    <2> HIDE DEF p
    <2>5. CASE op = "before"
      <3>1. AskedBefore(e, c) /\ c.viable \in Ids(e) \cup {None}
        BY <2>1, <2>2, <2>5, StartsBefore DEF p
      <3>2. QED
        BY <2>3, <2>4, <2>5, <3>1 DEF Asks
    <2>6. CASE op = "after"
      <3>1. AskedAfter(e, c) /\ c.viable \in Ids(e) \cup {None}
        BY <2>1, <2>2, <2>6, StartsAfter DEF p
      <3>2. QED
        BY <2>3, <2>4, <2>6, <3>1 DEF Asks
    <2>7. CASE op = "replaceWith"
      <3>1. /\ ParentOf(e, this) = p => AskedFor(e, c)
            /\ ParentOf(e, this) # p => AskedAfter(e, c)
            /\ c.viable \in Ids(e) \cup {None}
        BY <2>1, <2>2, <2>7, StartsInstead DEF p
      <3>2. QED
        BY <2>3, <2>4, <2>7, <3>1 DEF Asks
    <2>8. QED
      BY <2>1, <2>5, <2>6, <2>7
  <1>3. QED
    BY <1>1, <1>2

----------------------------------------------------------------------------
(* The node made of the arguments stands for them. *)

\* Several arguments: the fragment has what they bring, and no one else has.
LEMMA HolderPrepared ==
  ASSUME Sound(doc), NEW items \in ItemsOf(doc), Len(items) # 1,
         NEW made, NEW base, GatheredFrom(items, made, base)
  PROVE  Prepared(base, Len(doc.nodes) + Texts(items) + 1)
PROOF
  <1> DEFINE holder == Len(doc.nodes) + Texts(items) + 1
  <1>1. /\ Blank(doc, made) /\ Blank(made, base) /\ Sound(base)
        /\ Ids(base) = Ids(made) \cup {holder} /\ holder \notin Ids(made)
        /\ \A k \in Ids(made) \ Ids(doc) : made.nodes[k].kind = "text"
    BY DEF GatheredFrom
  <1> HIDE DEF holder
  <1>2. Ids(doc) \subseteq Ids(made) /\ Ids(made) \subseteq Ids(base)
    BY <1>1 DEF Blank
  <1>3. \A k \in Ids(doc) : base.nodes[k] = doc.nodes[k]
    BY <1>1, <1>2 DEF Blank
  <1>4. ASSUME NEW k \in Ids(base) \ Ids(doc)
        PROVE  Kids(base, k) = <<>> /\ (k # holder => ~IsFragment(base, k))
    <2>1. CASE k = holder
      BY <1>1, <2>1 DEF Blank
    <2>2. CASE k # holder
      <3>1. k \in Ids(made) \ Ids(doc)
        BY <1>1, <2>2
      <3>2. base.nodes[k] = made.nodes[k] /\ Kids(made, k) = <<>> /\ made.nodes[k].kind = "text"
        BY <1>1, <3>1 DEF Blank
      <3>3. QED
        BY <3>2 DEF Kids, IsFragment
    <2>3. QED
      BY <2>1, <2>2
  <1>5. holder \in Ids(base) \ Ids(doc)
    BY <1>1, <1>2
  <1>6. Ids(doc) \subseteq Ids(base)
    BY <1>2
  <1>7. Prepared(base, holder)
    BY <1>1, <1>3, <1>4, <1>5, <1>6 DEF Prepared, Kids, IsFragment
  <1>8. QED
    BY <1>7 DEF holder

LEMMA FoundSeveral ==
  ASSUME Sound(doc), NEW items \in ItemsOf(doc), Len(items) # 1, Gathered(items).ok,
         NEW c, c.node = Gathered(items).node
  PROVE  FoundFor(Gathered(items).doc, c, items, ToSet(Opened(items)))
PROOF
  <1> DEFINE g == Gathered(items)
             e == g.doc
             given == Indices(items)
             count == Len(items)
             holder == Len(doc.nodes) + Texts(items) + 1
             some == Opened(items)
             taken == ToSet(some)
  <1>1. PICK made, base : GatheredFrom(items, made, base)
    BY GatheredIs
  <1> DEFINE first == [doc |-> base, node |-> holder, ok |-> TRUE]
  <1>2. /\ given \in [1..count -> Ids(made)]
        /\ \A i \in 1..count : IF items[i] # None THEN given[i] = items[i] ELSE given[i] \notin Ids(doc)
        /\ Sound(base) /\ Ids(base) = Ids(made) \cup {holder} /\ IsFragment(base, holder)
    BY <1>1 DEF GatheredFrom
  <1>3. PICK h : FilledOf(first, holder, given, count, h) /\ g = h[count]
    BY <1>1 DEF GatheredFrom
  <1>4. Prepared(base, holder)
    BY <1>1, HolderPrepared
  <1>5. /\ count \in Nat /\ items \in [1..count -> Ids(doc) \cup {None}]
        /\ given \in [1..count -> Ids(base)] /\ given \in [1..count -> Nat]
    <2>1. count \in Nat /\ items \in [1..count -> Ids(doc) \cup {None}]
      BY ItemsAre
    <2>2. Ids(base) \subseteq Nat
      BY <1>2, ArenaIs DEF Sound
    <2> HIDE DEF given, count
    <2>3. QED
      BY <1>2, <2>1, <2>2
  <1> HIDE DEF given, count, holder, first, g, e
  <1>6. PICK f : Opening(given, count, f) /\ some = f[count]
    BY <1>5, OpenedIs DEF given, count
  <1>7. Taking(base, holder, some, g)
    BY <1>3, <1>4, <1>5, <1>6, GatherTakes DEF first
  <1>8. BroughtBy(given, count, taken)
    BY <1>5, <1>6, OpenedBrings
  <1>9. some \in Seq(Nat)
    BY <1>5, <1>6 DEF Opening
  <1>10. /\ g.node = holder /\ Relinked(base, e) /\ Kids(e, holder) = some
         /\ \A x \in Ids(base) \ {holder} : Kids(e, x) = Without(Kids(base, x), taken)
    BY <1>7 DEF Taking, Gathering, g, e
  <1>11. /\ Sound(e) /\ Ids(e) = Ids(base) /\ Ids(doc) \subseteq Ids(base)
         /\ holder \in Ids(base) /\ holder \notin Ids(doc)
         /\ \A x \in Ids(doc) : Kids(base, x) = Kids(doc, x)
    BY <1>4, <1>10 DEF Relinked, Prepared
  <1>12. Moved(e, holder) = some
    BY <1>2, <1>10, <1>11 DEF Relinked, Grown, Moved, IsFragment
  <1>13. \A x \in Ids(doc) : Kids(e, x) = Without(Kids(doc, x), taken)
    BY <1>10, <1>11
  <1>14. \A k \in ToSet(items) \ {None} : \E i \in 1..count : k = items[i] /\ k \in Ids(doc)
    BY <1>5 DEF ToSet
  <1>15. \A k \in ToSet(items) \ {None} : Brings(k) \subseteq taken
    BY <1>2, <1>8, <1>14 DEF BroughtBy, given, count
  <1>16. ASSUME NEW x \in taken \cap Ids(doc)
         PROVE  \E k \in ToSet(items) \ {None} : x \in Brings(k)
    <2>1. PICK j \in 1..count : x \in Brings(given[j])
      BY <1>8 DEF BroughtBy
    <2>2. items[j] # None
      BY <1>2, <2>1 DEF Brings, given, count
    <2>3. given[j] = items[j] /\ items[j] \in ToSet(items)
      BY <1>2, <1>5, <2>2 DEF given, count, ToSet
    <2>4. QED
      BY <2>1, <2>2, <2>3
  <1> HIDE DEF taken
  <1>17. Finds(e, c.node, ToSet(items) \ {None}, some, taken)
    <2>1. c.node = holder
      BY <1>10 DEF g
    <2>2. QED
      BY <1>10, <1>11, <1>12, <1>13, <1>15, <1>16, <2>1 DEF Finds, taken
  <1>18. ToSet(items) \ {None} \subseteq Ids(doc)
    BY <1>14
  <1>19. QED
    BY <1>9, <1>17, <1>18 DEF FoundFor, e, g, taken

\* One argument: nothing is moved before it is placed.
LEMMA OpenedOne ==
  ASSUME Sound(doc), NEW items \in ItemsOf(doc), Len(items) = 1
  PROVE  LET n == Indices(items)[1]
         IN  /\ n \in Nat /\ Opened(items) = More(n, <<>>) /\ Opened(items) \in Seq(Nat)
             /\ Gathered(items).node = n /\ Gathered(items).ok
             /\ IF items[1] # None THEN n = items[1] ELSE n \notin Ids(doc)
             /\ Blank(doc, Gathered(items).doc) /\ n \in Ids(Gathered(items).doc)
             /\ n \notin Ids(doc) => Gathered(items).doc.nodes[n].kind = "text"
PROOF
  <1> DEFINE given == Indices(items)
             n == given[1]
             none == <<>>
             g == Gathered(items)
  <1>1. PICK made, base : GatheredFrom(items, made, base)
    BY GatheredIs
  <1>2. /\ given \in [1..1 -> Ids(made)] /\ g = [doc |-> made, node |-> n, ok |-> TRUE]
        /\ \A i \in 1..1 : IF items[i] # None THEN given[i] = items[i] ELSE given[i] \notin Ids(doc)
        /\ Blank(doc, made) /\ \A k \in Ids(made) \ Ids(doc) : made.nodes[k].kind = "text"
        /\ Sound(made)
    BY <1>1 DEF GatheredFrom
  <1>3. Ids(made) \subseteq Nat
    BY <1>2, ArenaIs DEF Sound
  <1> HIDE DEF given, g
  <1>4. given \in [1..1 -> Nat] /\ n \in Ids(made) /\ n \in Nat
    BY <1>2, <1>3
  <1>5. PICK f : Opening(given, 1, f) /\ Opened(items) = f[1]
    BY <1>4, OpenedIs DEF given
  <1>6. f[1] = TakeStep(n, none) /\ f[1] \in Seq(Nat)
    <2>1. f[0] = none /\ f[1] \in Seq(Nat) /\ f[1] = TakeStep(given[1], f[1 - 1])
      BY <1>5 DEF Opening
    <2>2. 1 - 1 = 0
      OBVIOUS
    <2> HIDE DEF none
    <2>3. QED
      BY <2>1, <2>2
  <1>7. TakeStep(n, none) = More(n, none)
    <2> DEFINE more == More(n, none)
    <2>1. none \in Seq(Nat)
      BY EmptySeq
    <2>2. TakeStep(n, none) = Without(none, ToSet(more)) \o more /\ more \in Seq(Nat)
      <3> HIDE DEF none
      <3>1. QED
        BY <1>4, <2>1, TakeIs
    <2>3. Without(none, ToSet(more)) = none
      BY WithoutNone
    <2> HIDE DEF more
    <2>4. none \o more = more
      BY <2>2, ConcatEmptySeq
    <2>5. QED
      BY <2>2, <2>3, <2>4 DEF more
  <1>8. g.doc = made /\ g.node = n /\ g.ok
    BY <1>2
  <1>9. IF items[1] # None THEN n = items[1] ELSE n \notin Ids(doc)
    BY <1>2
  <1> HIDE DEF n, none
  <1>10. QED
    BY <1>2, <1>4, <1>5, <1>6, <1>7, <1>8, <1>9 DEF none, n, given, g

\* A string: the node is a text of its own.
LEMMA FoundText ==
  ASSUME Sound(doc), NEW items \in ItemsOf(doc), Len(items) = 1, items[1] = None,
         NEW c, c.node = Gathered(items).node,
         NEW e, Blank(doc, e), c.node \in Ids(e), e.nodes[c.node].kind = "text"
  PROVE  FoundFor(e, c, items, {})
PROOF
  <1> DEFINE n == c.node
             none == <<>>
             some == Opened(items)
  <1>1. n \notin Ids(doc) /\ some = More(n, none) /\ some \in Seq(Nat)
    BY OpenedOne
  <1>2. some = <<n>>
    BY <1>1 DEF More
  <1>3. Moved(e, n) = <<n>>
    BY DEF Moved, IsFragment
  <1>4. Sound(e) /\ Ids(doc) \subseteq Ids(e)
    BY BlankKeeps DEF Blank
  <1>5. ASSUME NEW x \in Ids(doc)
        PROVE  Kids(e, x) = Without(Kids(doc, x), {})
    <2>1. Kids(doc, x) \in Seq(Nat) /\ Kids(e, x) = Kids(doc, x)
      BY KidsAre DEF Blank, Kids
    <2>2. QED
      BY <2>1, WithoutOthers
  <1>6. ToSet(items) \ {None} = {}
    BY ItemsAre DEF ToSet
  <1> HIDE DEF n, some, none
  <1>7. Finds(e, n, {}, some, {})
    BY <1>2, <1>3, <1>4, <1>5 DEF Finds, n
  <1>8. QED
    BY <1>1, <1>6, <1>7 DEF FoundFor, n, some

\* A node.
LEMMA FoundNode ==
  ASSUME Sound(doc), NEW items \in ItemsOf(doc), Len(items) = 1, items[1] # None,
         NEW c, c.node = Gathered(items).node
  PROVE  FoundFor(doc, c, items, {})
PROOF
  <1> DEFINE n == items[1]
             none == <<>>
             some == Opened(items)
             kids == Kids(doc, n)
  <1>1. n \in Ids(doc) /\ ToSet(items) \ {None} = {n}
    <2>1. items \in [1..1 -> Ids(doc) \cup {None}]
      BY ItemsAre
    <2>2. QED
      BY <2>1 DEF ToSet
  <1>2. c.node = n /\ some = More(n, none) /\ some \in Seq(Nat)
    BY OpenedOne
  <1>3. kids \in Seq(Nat)
    BY <1>1, KidsAre
  <1>4. Without(kids, ToSet(none)) = kids
    <2>1. ToSet(none) = {}
      BY Listed, EmptySeq
    <2> HIDE DEF none, kids
    <2>2. QED
      BY <1>3, <2>1, WithoutOthers
  <1>5. some = Moved(doc, n)
    BY <1>1, <1>2, <1>4 DEF More, Moved
  <1>6. Brings(n) = ToSet(some)
    <2>1. n \in Nat
      BY <1>1, ArenaIs DEF Sound
    <2>2. ToSet(<<n>>) = {n}
      BY <2>1, OneIs
    <2>3. QED
      BY <1>1, <1>5, <2>2 DEF Brings, Moved
  <1>7. ASSUME NEW x \in Ids(doc)
        PROVE  Kids(doc, x) = Without(Kids(doc, x), {})
    <2>1. Kids(doc, x) \in Seq(Nat)
      BY KidsAre
    <2>2. QED
      BY <2>1, WithoutOthers
  <1> HIDE DEF n, some, none, kids
  <1>8. Finds(doc, n, {n}, some, {})
    BY <1>1, <1>5, <1>6, <1>7 DEF Finds
  <1>9. QED
    BY <1>1, <1>2, <1>8 DEF FoundFor, some

----------------------------------------------------------------------------
(* What every call bears out. *)

\* A call that is to place its node knows how; one that has placed it has left
\* the children asked for.
Bears(d, c) ==
  /\ c.then = "place" => Asks(d, c)
  /\ c.then = "return" /\ c.parent # None => Kids(d, c.parent) = c.asked

PlaceInv == Bears(doc, call)

\* Only what a call says of places matters, and only the nodes of the arena.
Agrees(a, b) ==
  /\ b.then = a.then /\ b.op = a.op /\ b.this = a.this /\ b.parent = a.parent
  /\ b.node = a.node /\ b.viable = a.viable /\ b.asked = a.asked

LEMMA BearsAlike ==
  ASSUME NEW d, NEW e, e.nodes = d.nodes, NEW a, NEW b, Agrees(a, b), Bears(d, a)
  PROVE  Bears(e, b)
PROOF
  <1>1. /\ Kids(e, b.parent) = Kids(d, a.parent) /\ Moved(e, b.node) = Moved(d, a.node)
        /\ ParentOf(e, b.this) = ParentOf(d, a.this) /\ Ids(e) = Ids(d)
    BY DEF Agrees, Kids, Moved, IsFragment, ParentOf, Ids
  <1>2. /\ b.then = a.then /\ b.op = a.op /\ b.this = a.this /\ b.parent = a.parent
        /\ b.node = a.node /\ b.viable = a.viable /\ b.asked = a.asked
    BY DEF Agrees
  <1>3. AskedBefore(d, a) => AskedBefore(e, b)
    BY <1>1, <1>2, Zenon DEF AskedBefore
  <1>4. AskedAfter(d, a) => AskedAfter(e, b)
    BY <1>1, <1>2, Zenon DEF AskedAfter
  <1>5. AskedFor(d, a) => AskedFor(e, b)
    BY <1>1, <1>2, Zenon DEF AskedFor
  <1>6. Asks(d, a) => Asks(e, b)
    BY <1>1, <1>2, <1>3, <1>4, <1>5, Zenon DEF Asks
  <1>7. QED
    BY <1>1, <1>2, <1>6 DEF Bears

LEMMA SheetsAgree ==
  ASSUME NEW c, IsCall(c), NEW S
  PROVE  Agrees(c, [c EXCEPT !.sheets = S])
PROOF
  <1>1. [c EXCEPT !.sheets = S] = SetTo(c, "sheets", S)
    BY Zenon DEF SetTo
  <1>2. QED
    BY <1>1, FieldSet DEF Fields, Agrees

\* A call that places nothing, or has not yet placed anything.
Silent(c) == IsCall(c) /\ c.then # "place" /\ (c.then = "return" => c.parent = None)

LEMMA SilentBears ==
  ASSUME NEW c, Silent(c)
  PROVE  \A d : Bears(d, c)
BY DEF Silent, Bears

\* A borrow after which the call bears out what is asked.
Bearing == \E new, next, moved : /\ BorrowNoting(new, next, moved)
                                 /\ IsCall(next) /\ Bears(new, next)

LEMMA BearingKeeps ==
  ASSUME Bearing
  PROVE  PlaceInv'
PROOF
  <1>1. PICK new, next, moved : /\ BorrowNoting(new, next, moved)
                                /\ IsCall(next) /\ Bears(new, next)
    BY DEF Bearing
  <1>2. doc' = new /\ call' = [next EXCEPT !.sheets = SheetsReplaced(new, moved)]
    BY <1>1 DEF BorrowNoting
  <1>3. Agrees(next, call')
    BY <1>1, <1>2, SheetsAgree
  <1>4. QED
    BY <1>1, <1>2, <1>3, BearsAlike DEF PlaceInv

LEMMA BorrowBears ==
  ASSUME NEW new, NEW next, Borrow(new, next) \/ Gather(new, next), IsCall(next), Bears(new, next)
  PROVE  Bearing
BY DEF Borrow, Gather, Bearing

LEMMA SilentBearing ==
  ASSUME NEW new, NEW next, Borrow(new, next) \/ Gather(new, next), Silent(next)
  PROVE  Bearing
BY SilentBears, BorrowBears DEF Silent

LEMMA ReturningBearing ==
  ASSUME NEW new, NEW args, Borrow(new, Returning(args)) \/ Gather(new, Returning(args))
  PROVE  Bearing
PROOF
  <1>1. Silent(Returning(args))
    BY ReturningIs DEF Silent
  <1>2. QED
    BY <1>1, SilentBearing

LEMMA WrappingBearing ==
  ASSUME NEW new, NEW args, NEW m, Borrow(new, Wrapping(args, m))
  PROVE  Bearing
PROOF
  <1>1. Silent(Wrapping(args, m))
    BY WrappingIs DEF Silent
  <1>2. QED
    BY <1>1, SilentBearing

LEMMA CreateBearing ==
  ASSUME NEW kind, Create(kind)
  PROVE  Bearing
PROOF
  <1> DEFINE w == Wrapping({}, Len(doc.nodes) + 1)
             next == [w EXCEPT !.then = IF kind = "template" THEN "contents" ELSE "wrap"]
  <1>1. Borrow(Added(doc, kind), next)
    BY DEF Create
  <1>2. IsCall(w)
    BY WrappingIs
  <1> HIDE DEF w
  <1>3. IsCall(next) /\ next.then = IF kind = "template" THEN "contents" ELSE "wrap"
    BY <1>2, ThenIs
  <1> HIDE DEF next
  <1>4. Silent(next)
    BY <1>3 DEF Silent
  <1>5. QED
    BY <1>1, <1>4, SilentBearing

LEMMA PlaceBears ==
  ASSUME DomInv, NEW c, {c.parent, c.node, c.this} \subseteq Ids(doc), Asks(doc, c), Place(c)
  PROVE  Bearing
PROOF
  <1> DEFINE new == Finished(c)
             next == PlacedCall(c.args, c.parent, c.asked, c.gathered)
  <1>1. Borrow(new, next) /\ new # doc
    BY Zenon DEF Place, PlacedCall
  <1>2. Sound(doc) /\ c.parent \in Ids(doc) /\ c.node \in Ids(doc) /\ c.this \in Ids(doc)
    BY DEF DomInv, ArenaOK
  <1>3. Kids(new, c.parent) = c.asked
    BY <1>1, <1>2, FinishedAsAsked
  <1>4. IsCall(next) /\ next.then = "return" /\ next.parent = c.parent /\ next.asked = c.asked
    BY PlacedCallIs
  <1> HIDE DEF new, next
  <1>5. Bears(new, next)
    BY <1>3, <1>4 DEF Bears
  <1>6. QED
    BY <1>1, <1>4, <1>5, BorrowBears

LEMMA PlaceNodeBears ==
  ASSUME DomInv, PlaceInv, PlaceNode
  PROVE  Bearing
PROOF
  <1>1. call.then = "place" /\ (Place(call) \/ Borrow(doc, NoCall))
    BY DEF PlaceNode
  <1>2. {call.parent, call.node, call.this} \subseteq Ids(doc)
    BY <1>1 DEF DomInv, CallOK, Names
  <1>3. Asks(doc, call)
    BY <1>1 DEF PlaceInv, Bears
  <1>4. Silent(NoCall)
    BY NoCallIs DEF Silent
  <1>5. QED
    BY <1>1, <1>2, <1>3, <1>4, PlaceBears, SilentBearing

\* How many nodes a call makes of its arguments.
LEMMA MadeFor ==
  ASSUME NEW items \in ItemsOf(doc)
  PROVE  Additional(items) = 0 <=> Len(items) = 1 /\ items[1] # None
PROOF
  <1> DEFINE texts == Texts(items)
             count == Len(items)
  <1>1. /\ texts \in Nat /\ items \in [1..count -> Ids(doc) \cup {None}]
        /\ \A i \in 1..count : items[i] = None =>
             Cardinality({j \in 1..i : items[j] = None}) \in 1..texts
    BY ItemsAre
  <1>2. Additional(items) = texts + (IF count = 1 THEN 0 ELSE 1)
    BY DEF Additional, Texts
  <1>3. count = 1 /\ items[1] = None => texts # 0
    BY <1>1
  <1>4. count = 1 /\ items[1] # None => texts = 0
    <2>1. ASSUME count = 1, items[1] # None
          PROVE  {i \in DOMAIN items : items[i] = None} = {}
      BY <1>1, <2>1
    <2>2. QED
      BY <2>1, FS_EmptySet DEF Texts
  <1> HIDE DEF texts, count
  <1>5. QED
    BY <1>1, <1>2, <1>3, <1>4 DEF count

LEMMA VariadicBears ==
  ASSUME DomInv, NEW items \in Items, NEW this \in Ids(doc), NEW op \in ParentOps \cup ChildOps,
         Variadic(op, this, items)
  PROVE  Bearing
PROOF
  <1> DEFINE g == Gathered(items)
             c == Started(op, this, items)
             more == Additional(items)
  <1>1. /\ op \in ParentOps \/ ParentOf(doc, this) # None
        /\ FitsBudget(more)
        /\ \/ more = 0 /\ Place(c)
           \/ more # 0 /\ g.ok /\ Gather(g.doc, c)
           \/ Gather(g.doc, Returning(c.args))
    BY Zenon DEF Variadic
  <1>2. items \in ItemsOf(doc)
    <2>1. PICK k \in 0..MaxItems : items \in [1..k -> Reachable \cup {None}]
      BY DEF Items
    <2>2. k \in Nat /\ items \in [1..k -> Ids(doc) \cup {None}]
      BY <2>1, ReachableIs, ScriptAssumption
    <2>3. QED
      BY <2>2 DEF ItemsOf
  <1>3. Sound(doc)
    BY DEF DomInv, ArenaOK
  <1>4. IsCall(c) /\ c.node = g.node
    BY StartedIs
  <1>5. /\ more = 0 => c.node \in Ids(doc)
        /\ {c.parent, c.this} \subseteq Ids(doc)
    BY <1>1, <1>2, GatheredLawful
  <1>6. more = 0 <=> Len(items) = 1 /\ items[1] # None
    BY <1>2, MadeFor
  <1>7. \A e, taken : FoundFor(e, c, items, taken) => Asks(e, c)
    BY <1>1, <1>3, StartAsks
  <1> HIDE DEF c, more
  <1>8. CASE more = 0 /\ Place(c)
    <2>1. FoundFor(doc, c, items, {})
      BY <1>2, <1>3, <1>4, <1>6, <1>8, FoundNode
    <2>2. Asks(doc, c) /\ {c.parent, c.node, c.this} \subseteq Ids(doc)
      BY <1>5, <1>7, <1>8, <2>1
    <2>3. QED
      BY <1>8, <2>2, PlaceBears
  <1>9. CASE more # 0 /\ g.ok /\ Gather(g.doc, c)
    <2>1. CASE Len(items) # 1
      <3>1. FoundFor(g.doc, c, items, ToSet(Opened(items)))
        BY <1>2, <1>3, <1>4, <1>9, <2>1, FoundSeveral
      <3>2. Bears(g.doc, c)
        BY <1>4, <1>7, <3>1, StartedIs DEF Bears, c
      <3>3. QED
        BY <1>4, <1>9, <3>2, BorrowBears
    <2>2. CASE Len(items) = 1
      <3>1. items[1] = None
        BY <1>6, <1>9, <2>2
      <3>2. Blank(doc, g.doc) /\ c.node \in Ids(g.doc) /\ g.doc.nodes[c.node].kind = "text"
        BY <1>2, <1>3, <1>4, <2>2, <3>1, OpenedOne
      <3>3. FoundFor(g.doc, c, items, {})
        BY <1>2, <1>3, <1>4, <2>2, <3>1, <3>2, FoundText
      <3>4. Bears(g.doc, c)
        BY <1>4, <1>7, <3>3, StartedIs DEF Bears, c
      <3>5. QED
        BY <1>4, <1>9, <3>4, BorrowBears
    <2>3. QED
      BY <2>1, <2>2
  <1>10. CASE Gather(g.doc, Returning(c.args))
    BY <1>10, ReturningBearing
  <1>11. QED
    BY <1>1, <1>8, <1>9, <1>10

\* One string alone.
LEMMA OneString ==
  LET items == <<None>>
  IN  items \in ItemsOf(doc) /\ Len(items) = 1 /\ items[1] = None /\ Additional(items) = 1
PROOF
  <1> DEFINE items == <<None>>
  <1>1. items \in [1..1 -> Ids(doc) \cup {None}] /\ Len(items) = 1 /\ DOMAIN items = 1..1
        /\ items[1] = None
    OBVIOUS
  <1>2. {i \in DOMAIN items : items[i] = None} = {1}
    BY <1>1
  <1>3. Cardinality({1}) = 1
    BY FS_Singleton
  <1> HIDE DEF items
  <1>4. items \in ItemsOf(doc)
    BY <1>1 DEF ItemsOf
  <1>5. Additional(items) = 1
    BY <1>1, <1>2, <1>3 DEF Additional
  <1>6. QED
    BY <1>1, <1>4, <1>5 DEF items

LEMMA SetFragmentTextBears ==
  ASSUME DomInv, NEW p \in Ids(doc), NEW empty, SetFragmentText(p, empty)
  PROVE  Bearing
PROOF
  <1> DEFINE items == <<None>>
             new == Added(doc, "text")
             c == Started("replaceChildren", p, items)
             g == Gathered(items)
  <1>1. Borrow(Emptied(doc, p), Returning({p})) \/ Borrow(new, c)
    BY DEF SetFragmentText
  <1>2. CASE Borrow(new, c)
    <2>1. items \in ItemsOf(doc) /\ Len(items) = 1 /\ items[1] = None /\ Additional(items) = 1
      BY OneString
    <2>2. Sound(doc)
      BY DEF DomInv, ArenaOK
    <2>3. "text" \in NodeKinds /\ "replaceChildren" \in ParentOps
      BY DEF NodeKinds, ParentOps
    <2>4. /\ Blank(doc, new) /\ Newest(new) = Len(doc.nodes) + 1 /\ Newest(new) \in Ids(new)
          /\ new.nodes[Newest(new)].kind = "text"
      BY <2>2, <2>3, AddedIs
    <2> HIDE DEF items, new, g
    <2>5. IsCall(c) /\ c.node = g.node /\ c.then = "place"
      BY StartedIs DEF g
    <2>6. c.node = Newest(new)
      <3>1. g.node \notin Ids(doc) /\ g.node \in Ids(g.doc) /\ g.node \in Nat
        BY <2>1, <2>2, OpenedOne DEF g
      <3>2. Sound(g.doc) /\ Len(g.doc.nodes) = Len(doc.nodes) + 1
        BY <2>1, <2>2, GatheredKeeps DEF g
      <3>3. /\ Ids(doc) = 1..Len(doc.nodes) /\ Len(doc.nodes) \in Nat
            /\ Ids(g.doc) = 1..Len(g.doc.nodes)
        BY <2>2, <3>2, ArenaIs DEF Sound
      <3> DEFINE L == Len(doc.nodes)
                 n == g.node
      <3>4. L \in Nat /\ n \in 1..(L + 1) /\ n \notin 1..L /\ Newest(new) = L + 1
        BY <2>4, <3>1, <3>2, <3>3
      <3> HIDE DEF L, n
      <3>5. n = Newest(new)
        BY <3>4
      <3>6. QED
        BY <2>5, <3>5 DEF n
    <2>7. FoundFor(new, c, items, {})
      BY <2>1, <2>2, <2>4, <2>5, <2>6, FoundText DEF g
    <2>8. Asks(new, c)
      BY <2>2, <2>3, <2>7, StartAsks
    <2> HIDE DEF c
    <2>9. Bears(new, c)
      BY <2>5, <2>8 DEF Bears
    <2>10. QED
      BY <1>2, <2>5, <2>9, BorrowBears
  <1>3. QED
    BY <1>1, <1>2, ReturningBearing

LEMMA ScriptBears ==
  ASSUME DomInv, Script
  PROVE  Bearing \/ UNCHANGED <<doc, call>>
PROOF
  <1>1. Reachable \subseteq Ids(doc)
    BY ReachableIs
  <1>2. CASE Mutates
    <2>1. ASSUME NEW p, NEW n, NEW before, InsertBefore(p, n, before)
          PROVE  Bearing
      BY <2>1, ReturningBearing DEF InsertBefore
    <2>2. ASSUME NEW n, RemoveChild(n)
          PROVE  Bearing
      BY <2>2, ReturningBearing DEF RemoveChild
    <2>3. ASSUME NEW p, NEW n, NEW child, ReplaceChild(p, n, child)
          PROVE  Bearing
      BY <2>3, ReturningBearing DEF ReplaceChild
    <2>4. ASSUME NEW p, NEW kinds, SetTextContent(p, kinds)
          PROVE  Bearing
      BY <2>4, ReturningBearing DEF SetTextContent
    <2>5. ASSUME NEW p, NEW kinds, SetInnerHTML(p, kinds)
          PROVE  Bearing
      BY <2>5, ReturningBearing DEF SetInnerHTML
    <2>6. ASSUME NEW items \in Items, NEW this \in Reachable, NEW op \in ParentOps \cup ChildOps,
                 Variadic(op, this, items)
          PROVE  Bearing
      BY <1>1, <2>6, VariadicBears
    <2>7. ASSUME NEW p \in Reachable, NEW empty \in BOOLEAN, SetFragmentText(p, empty)
          PROVE  Bearing
      BY <1>1, <2>7, SetFragmentTextBears
    <2>8. QED
      BY <1>2, <2>1, <2>2, <2>3, <2>4, <2>5, <2>6, <2>7 DEF Mutates
  <1>3. CASE Makes
    <2>1. ASSUME NEW n, NEW deep, CloneNode(n, deep)
          PROVE  Bearing
      BY <2>1, WrappingBearing DEF CloneNode
    <2>2. ASSUME NEW n, SplitText(n)
          PROVE  Bearing
      BY <2>2, WrappingBearing DEF SplitText
    <2>3. QED
      BY <1>3, <2>1, <2>2, CreateBearing DEF Makes
  <1>4. ASSUME NEW n, Hold(n) \/ Drop(n)
        PROVE  UNCHANGED <<doc, call>>
    BY <1>4 DEF Hold, Drop
  <1>5. QED
    BY <1>2, <1>3, <1>4 DEF Script

\* A borrow is over: what the parent has been given is not asked for again.
LEMMA StartSyncBears ==
  ASSUME DomInv, PlaceInv, StartSync
  PROVE  PlaceInv'
PROOF
  <1> DEFINE none == <<>>
             back == [call EXCEPT !.parent = None, !.asked = <<>>, !.sheets = {}]
             other == [call EXCEPT !.sheets = {}]
  <1>1. IsCall(call) /\ doc'.nodes = doc.nodes
    <2>1. doc' = [doc EXCEPT !.changed = {}]
      BY DEF StartSync
    <2>2. doc \in Documents
      BY DEF DomInv, ArenaOK, Sound
    <2>3. QED
      BY <2>1, <2>2 DEF Documents, DomInv, CallOK
  <1>2. back.then = call.then /\ back.parent = None
    <2> DEFINE a == SetTo(call, "parent", None)
               b == SetTo(a, "asked", none)
    <2>1. back = SetTo(b, "sheets", {})
      BY Zenon DEF SetTo
    <2> HIDE DEF none
    <2>2. IsCall(a) /\ a.then = call.then /\ a.parent = None
      BY <1>1, FieldSet DEF Fields
    <2> HIDE DEF a
    <2>3. IsCall(b) /\ b.then = call.then /\ b.parent = None
      BY <2>2, FieldSet DEF Fields
    <2> HIDE DEF b
    <2>4. QED
      BY <2>1, <2>3, FieldSet DEF Fields
  <1>3. Agrees(call, other)
    BY <1>1, SheetsAgree
  <1>4. call' = CASE call.then = "return" -> back
                  [] call.then = "place" -> call
                  [] OTHER -> other
    BY Zenon DEF StartSync
  <1> HIDE DEF back, other
  <1>5. CASE call.then = "return"
    BY <1>2, <1>4, <1>5 DEF PlaceInv, Bears
  <1>6. CASE call.then # "return"
    <2>1. Agrees(call, call')
      BY <1>3, <1>4, <1>6 DEF Agrees
    <2>2. QED
      BY <1>1, <2>1, BearsAlike DEF PlaceInv
  <1>7. QED
    BY <1>5, <1>6

LEMMA PlaceStep ==
  ASSUME DomInv, PlaceInv, [Next]_vars
  PROVE  PlaceInv'
PROOF
  <1>1. call' = NoCall => PlaceInv'
    BY NoCallIs DEF PlaceInv, Bears
  <1>2. UNCHANGED <<doc, call>> => PlaceInv'
    BY DEF PlaceInv
  <1>3. CASE Script
    BY <1>2, <1>3, ScriptBears, BearingKeeps
  <1>4. CASE AddContents
    BY <1>4, WrappingBearing, BearingKeeps DEF AddContents
  <1>5. CASE Wrap
    BY <1>1, <1>5 DEF Wrap
  <1>6. CASE PlaceNode
    BY <1>6, PlaceNodeBears, BearingKeeps
  <1>7. CASE Synchronize
    <2>1. ASSUME NEW n, SyncNode(n)
          PROVE  call' = NoCall \/ UNCHANGED <<doc, call>>
      BY <2>1 DEF SyncNode
    <2>2. ASSUME NothingToSync
          PROVE  call' = NoCall
      BY <2>2 DEF NothingToSync
    <2>3. QED
      BY <1>1, <1>2, <1>7, <2>1, <2>2, StartSyncBears DEF Synchronize
  <1>8. CASE Collect
    BY <1>2, <1>8 DEF Collect
  <1>9. CASE UNCHANGED vars
    BY <1>2, <1>9 DEF vars
  <1>10. QED
    BY <1>3, <1>4, <1>5, <1>6, <1>7, <1>8, <1>9 DEF Next

\* A variadic call that succeeds leaves its parent with exactly the children
\* the DOM standard asks for.
THEOREM PlacedAlwaysAsAsked == Spec => []PlacedAsAsked
PROOF
  <1>1. Init => PlaceInv
    BY NoCallIs DEF Init, PlaceInv, Bears
  <1>2. DomInv /\ PlaceInv /\ [Next]_vars => PlaceInv'
    BY PlaceStep
  <1>3. PlaceInv => PlacedAsAsked
    BY DEF PlaceInv, Bears, PlacedAsAsked
  <1>4. QED
    BY <1>1, <1>2, <1>3, DomAlways, PTL DEF Spec

----------------------------------------------------------------------------
\* Where the parts of the document end.
Length == Len(document)
AfterReached == Length - Len(written) - Len(pending) - Len(left)
AfterWritten == Length - Len(pending) - Len(left)
AfterPending == Length - Len(left)

Layout ==
  /\ AfterReached \in Nat
  /\ reached = {document[i] : i \in 1..AfterReached}
  /\ \A i \in DOMAIN written : document[AfterReached + i] = written[i]
  /\ \A i \in DOMAIN pending : document[AfterPending + 1 - i] = pending[i]
  /\ \A i \in DOMAIN left : document[AfterPending + i] = left[i]

\* The elements of the document are the numbers 1 to its length.
Distinct ==
  /\ \A i \in DOMAIN document : document[i] \in 1..Length
  /\ \A i, j \in DOMAIN document : document[i] = document[j] => i = j
  /\ Length <= Parsed + MaxWritten

\* Writes go in front of what comes next.
Points ==
  /\ point \in Int
  /\ part \in {"none", "other"} => point = NoPoint /\ written = <<>>
  /\ current # NoScript => part \in {"inline", "external"}
  /\ point # NoPoint =>
       point = IF AfterWritten = Length THEN AtEnd ELSE document[AfterWritten + 1]

InOrder ==
  \A i, j \in DOMAIN document :
    i < j /\ document[j] \in reached => document[i] \in reached

Parts ==
  /\ part \in {"none", "other", "inline", "external", "error", "load event", "load"}
  /\ part # "none" => stage = "scripts"
  /\ stage = "scripts" =>
       busy <=> part \in {"inline", "external", "error", "load"}
  /\ part = "load event" => aborted = Unlimited

Stages ==
  /\ stage \in {"idle", "images", "scripts", "DOMContentLoaded", "drain", "load",
                "last drain", "done"}
  /\ stage \in {"idle", "images", "done"} => ~busy
  /\ stage = "last drain" => busy
  /\ stage \in {"idle", "images"} =>
       /\ left = <<>> /\ pending = <<>> /\ reached = {}
       /\ document = [i \in 1..Parsed |-> i]
  /\ stage \notin {"idle", "images", "scripts"} /\ aborted = Unlimited =>
       left = <<>> /\ pending = <<>>

Reports ==
  /\ aborted \in Limits \cup {Unlimited}
  /\ stage = "idle" => report = NoReport
  /\ stage # "idle" /\ ~busy => report = aborted
  /\ busy => report = Unlimited

RunTypes ==
  /\ busy \in BOOLEAN
  /\ result \in Limits \cup Successes
  /\ document \in Seq(Scripts) /\ left \in Seq(Scripts)
  /\ pending \in Seq(Scripts) /\ written \in Seq(Scripts)
  /\ point \in Scripts \cup {NoPoint, AtEnd} /\ current \in Scripts \cup {NoScript}
  /\ reached \subseteq Scripts
  /\ ready \in {"loading", "interactive", "complete"}
  /\ report \in Limits \cup {Unlimited, NoReport}

IInv ==
  /\ RunTypes /\ Distinct /\ InOrder /\ Parts /\ Stages /\ Reports
  /\ aborted = Unlimited /\ stage \notin {"idle", "images"} => Layout /\ Points
  /\ stage \in {"idle", "images"} => point = NoPoint /\ current = NoScript /\ written = <<>>

----------------------------------------------------------------------------
(* Sequences. *)

LEMMA EmptyLen ==
  ASSUME NEW S, NEW s \in Seq(S)
  PROVE  Len(s) \in Nat /\ (s = <<>> <=> Len(s) = 0)
BY EmptySeq, LenProperties

\* The sequence is s with e at place n.
HasInserted(r, s, n, e) ==
  /\ Len(r) = Len(s) + 1
  /\ \A i \in 1..(Len(s) + 1) :
       r[i] = IF i < n THEN s[i] ELSE IF i = n THEN e ELSE s[i - 1]

\* InsertAt, which SequencesExt defines by what is before and after the place.
LEMMA Inserted ==
  ASSUME NEW S, NEW s \in Seq(S), NEW e \in S, NEW n \in 1..(Len(s) + 1)
  PROVE  InsertAt(s, n, e) \in Seq(S) /\ HasInserted(InsertAt(s, n, e), s, n, e)
<1> DEFINE before == SubSeq(s, 1, n - 1)
           after == SubSeq(s, n, Len(s))
           first == before \o <<e>>
<1>1. /\ before \in Seq(S) /\ Len(before) = n - 1
      /\ \A i \in 1..(n - 1) : before[i] = s[i]
  BY LenProperties
<1>2. /\ after \in Seq(S) /\ Len(after) = Len(s) - n + 1
      /\ \A i \in 1..(Len(s) - n + 1) : after[i] = s[n + i - 1]
  BY LenProperties
<1>3. <<e>> \in Seq(S) /\ Len(<<e>>) = 1 /\ <<e>>[1] = e
  OBVIOUS
<1> HIDE DEF before, after
<1>4. /\ first \in Seq(S) /\ Len(first) = n
      /\ \A i \in 1..(n - 1) : first[i] = s[i]
      /\ first[n] = e
  BY <1>1, <1>3
<1> HIDE DEF first
<1>5. InsertAt(s, n, e) = first \o after
  BY DEF InsertAt, first, before, after
<1>6. Len(s) \in Nat /\ n \in Nat /\ n >= 1
  BY LenProperties
<1>7. first \o after \in Seq(S) /\ Len(first \o after) = Len(s) + 1
  BY <1>2, <1>4, <1>6
<1>8. ASSUME NEW i \in 1..(Len(s) + 1)
      PROVE  (first \o after)[i] = IF i < n THEN s[i] ELSE IF i = n THEN e ELSE s[i - 1]
  <2>1. (first \o after)[i] = IF i <= n THEN first[i] ELSE after[i - n]
    BY <1>2, <1>4, <1>6, <1>8
  <2>2. CASE i <= n
    BY <1>4, <1>6, <2>1, <2>2
  <2>3. CASE i > n
    <3>1. i - n \in 1..(Len(s) - n + 1) /\ n + (i - n) - 1 = i - 1
      BY <1>6, <2>3
    <3> QED
      BY <1>2, <1>6, <2>1, <2>3, <3>1
  <2>4. i <= n \/ i > n
    BY <1>6
  <2> QED
    BY <2>2, <2>3, <2>4
<1> QED
  BY <1>5, <1>7, <1>8 DEF HasInserted

LEMMA Reversed ==
  ASSUME NEW S, NEW s \in Seq(S)
  PROVE  /\ Reverse(s) \in Seq(S) /\ Len(Reverse(s)) = Len(s)
         /\ \A i \in 1..Len(s) : Reverse(s)[i] = s[Len(s) + 1 - i]
<1>1. Len(s) \in Nat
  BY LenProperties
<1>2. Reverse(s) = [i \in 1..Len(s) |-> s[(Len(s) - i) + 1]]
  BY DEF Reverse
<1>3. \A i \in 1..Len(s) : s[(Len(s) - i) + 1] \in S
  BY <1>1, ElementOfSeq
<1>4. Reverse(s) \in Seq(S)
  BY <1>1, <1>2, <1>3, IsASeq
<1> QED
  BY <1>1, <1>2, <1>4, LenProperties

----------------------------------------------------------------------------
LEMMA RunInit == DocumentInit => IInv
<1> SUFFICES ASSUME DocumentInit
             PROVE  IInv
  OBVIOUS
<1>1. Parsed \in Nat /\ MaxWritten \in Nat
  BY CountsAssumption DEF CountsAssumption
<1>2. document = [i \in 1..Parsed |-> i] /\ Len(document) = Parsed
  BY <1>1 DEF DocumentInit
<1>3. document \in Seq(Scripts)
  BY <1>1, <1>2, IsASeq DEF Scripts
<1>4. <<>> \in Seq(Scripts)
  BY EmptySeq
<1>5. RunTypes
  BY <1>1, <1>3, <1>4 DEF DocumentInit, RunTypes, Scripts, Successes
<1>6. Distinct
  BY <1>1, <1>2 DEF Distinct, Length
<1>7. InOrder /\ Parts /\ Stages /\ Reports
  BY DEF DocumentInit, InOrder, Parts, Stages, Reports
<1> QED
  BY <1>5, <1>6, <1>7 DEF DocumentInit, IInv

LEMMA StartKept ==
  ASSUME IInv, Start
  PROVE  IInv'
<1>1. /\ stage = "idle" /\ stage' = "images" /\ report' = aborted
      /\ ready' \in {ready, "loading"} /\ UNCHANGED <<calls, script, document>>
  BY DEF Start, IfActive
<1> USE DEF calls, script
<1>2. RunTypes'
  BY <1>1 DEF IInv, RunTypes, Reports
<1>3. Distinct' /\ InOrder'
  BY <1>1 DEF IInv, Distinct, InOrder, Length
<1>4. Parts' /\ Stages' /\ Reports'
  BY <1>1 DEF IInv, Parts, Stages, Reports
<1> QED
  BY <1>1, <1>2, <1>3, <1>4 DEF IInv

LEMMA SyncParsedKept ==
  ASSUME IInv, SyncParsed
  PROVE  IInv'
<1>1. /\ stage = "images" /\ stage' = "scripts" /\ ~busy
      /\ aborted' \in Limits \cup {Unlimited} /\ report' = aborted'
      /\ left' = IF aborted' = Unlimited THEN document ELSE <<>>
      /\ UNCHANGED <<busy, result, part, pending, written, point, current, reached,
                     document, ready>>
  BY DEF SyncParsed, IInv, Reports, Stages
<1>2. pending = <<>> /\ reached = {} /\ point = NoPoint /\ current = NoScript /\ written = <<>>
  BY <1>1 DEF IInv, Stages
<1>3. RunTypes'
  BY <1>1, EmptySeq DEF IInv, RunTypes
<1>4. Distinct' /\ InOrder'
  BY <1>1 DEF IInv, Distinct, InOrder, Length
<1>5. part = "none"
  BY <1>1 DEF IInv, Parts
<1>6. Parts' /\ Stages' /\ Reports'
  BY <1>1, <1>5 DEF IInv, Parts, Stages, Reports
<1>7. ASSUME aborted' = Unlimited
      PROVE  Layout' /\ Points'
  <2>1. left' = document /\ Len(document) \in Nat /\ Len(<<>>) = 0
    BY <1>1, <1>7 DEF IInv, RunTypes
  <2>2. AfterReached' = 0 /\ AfterPending' = 0
    BY <1>1, <1>2, <2>1 DEF AfterReached, AfterPending, Length
  <2>3. Layout'
    BY <1>1, <1>2, <2>1, <2>2 DEF Layout
  <2>4. Points'
    BY <1>1, <1>2, <1>5 DEF Points, NoPoint
  <2> QED
    BY <2>3, <2>4
<1> QED
  BY <1>1, <1>3, <1>4, <1>6, <1>7 DEF IInv

\* Steps that move no script.
LEMMA ScriptsStay ==
  ASSUME IInv, stage \notin {"idle", "images"}, stage' \notin {"idle", "images"},
         aborted' = Unlimited => aborted = Unlimited,
         part' = part \/ {part, part'} \subseteq {"load event", "load"},
         UNCHANGED <<left, pending, written, point, current, reached, document>>
  PROVE  /\ Distinct' /\ InOrder'
         /\ aborted' = Unlimited => Layout' /\ Points'
<1>1. Distinct' /\ InOrder'
  BY DEF IInv, Distinct, InOrder, Length
<1>2. ASSUME aborted' = Unlimited
      PROVE  Layout' /\ Points'
  <2>1. Layout /\ Points
    BY <1>2 DEF IInv
  <2>2. Layout'
    BY <2>1 DEF Layout, AfterReached, AfterPending, Length
  <2>3. part' \in {"none", "other"} => part \in {"none", "other"}
    OBVIOUS
  <2>4. Points'
    BY <2>1, <2>3 DEF Points, AfterWritten, Length
  <2> QED
    BY <2>2, <2>4
<1> QED
  BY <1>1, <1>2

LEMMA StopKept ==
  ASSUME IInv, Stop
  PROVE  IInv'
<1>1. /\ busy /\ aborted = Unlimited /\ aborted' \in Limits /\ stage' = stage
      /\ aborted' # Unlimited
      /\ UNCHANGED <<busy, result, script, document, ready, report>>
  BY LimitsAssumption DEF Stop, LimitsAssumption
<1> USE DEF script
<1>2. stage \notin {"idle", "images", "done"}
  BY <1>1 DEF IInv, Stages
<1>3. RunTypes' /\ Parts' /\ Stages' /\ Reports'
  BY <1>1, <1>2 DEF IInv, RunTypes, Parts, Stages, Reports
<1> QED
  BY <1>1, <1>2, <1>3, ScriptsStay DEF IInv

\* What a call that ends leaves of the reports.
LEMMA FinishReports ==
  ASSUME IInv, Finish, report' = ReportOf(result')
  PROVE  /\ busy /\ ~busy' /\ busy' \in BOOLEAN /\ aborted' = aborted
         /\ report' = aborted /\ result' \in Limits \cup Successes
         /\ result' \in Successes <=> aborted = Unlimited
<1>1. busy /\ report = Unlimited /\ aborted \in Limits \cup {Unlimited}
  BY DEF Finish, IInv, Reports
<1>2. Unlimited \notin Limits /\ \A l \in Limits : l \notin Successes
  BY LimitsAssumption DEF LimitsAssumption
<1>3. CASE aborted = Unlimited
  BY <1>1, <1>2, <1>3 DEF Finish, ReportOf
<1>4. CASE aborted \in Limits
  BY <1>1, <1>2, <1>4 DEF Finish, ReportOf
<1> QED
  BY <1>1, <1>3, <1>4

LEMMA EndOfStageKept ==
  ASSUME IInv, EndOfStage
  PROVE  IInv'
<1>1. /\ stage \in {"DOMContentLoaded", "drain", "load", "last drain"}
      /\ stage' = IF stage = "last drain" THEN "done" ELSE stage
      /\ UNCHANGED <<script, document, ready>>
  BY DEF EndOfStage
<1>2. /\ busy /\ ~busy' /\ busy' \in BOOLEAN /\ aborted' = aborted
      /\ report' = aborted /\ result' \in Limits \cup Successes
  BY FinishReports DEF EndOfStage
<1> USE DEF script
<1>3. RunTypes'
  BY <1>1, <1>2 DEF IInv, RunTypes, Reports
<1>4. Parts' /\ Stages' /\ Reports'
  BY <1>1, <1>2 DEF IInv, Parts, Stages, Reports
<1> QED
  BY <1>1, <1>2, <1>3, <1>4, ScriptsStay DEF IInv

LEMMA NextStageKept ==
  ASSUME IInv, NextStage
  PROVE  IInv'
<1>1. /\ ~busy /\ stage \in DOMAIN Follows /\ UNCHANGED <<script, document, report>>
      /\ stage = "scripts" =>
           part = "none" /\ (aborted # Unlimited \/ (left = <<>> /\ pending = <<>>))
      /\ stage \in {"scripts", "DOMContentLoaded", "drain", "load"}
  BY DEF NextStage, StageEnded, Follows
<1>2. report = aborted
  BY <1>1 DEF IInv, Reports
<1> USE DEF script
<1>3. CASE report = Unlimited
  <2>1. /\ busy' /\ busy' \in BOOLEAN /\ UNCHANGED <<aborted, result>>
        /\ stage' = Follows[stage] /\ ready' = Announced[stage]
    BY <1>1, <1>2, <1>3 DEF NextStage, MayGoOn, Call
  <2>2. stage' \in {"DOMContentLoaded", "drain", "load", "last drain"}
    <3>1. CASE stage = "scripts"
      BY <2>1, <3>1 DEF Follows
    <3>2. CASE stage = "DOMContentLoaded"
      BY <2>1, <3>2 DEF Follows
    <3>3. CASE stage = "drain"
      BY <2>1, <3>3 DEF Follows
    <3>4. CASE stage = "load"
      BY <2>1, <3>4 DEF Follows
    <3> QED
      BY <1>1, <3>1, <3>2, <3>3, <3>4
  <2>3. ready' \in {ready, "interactive", "complete"}
    BY <1>1, <2>1 DEF Announced
  <2>4. RunTypes'
    BY <1>1, <2>1, <2>3 DEF IInv, RunTypes
  <2>5. part = "none"
    BY <1>1 DEF IInv, Parts
  <2>6. Parts' /\ Stages' /\ Reports'
    BY <1>1, <1>2, <1>3, <2>1, <2>2, <2>5 DEF IInv, Parts, Stages, Reports
  <2> QED
    BY <1>1, <2>1, <2>2, <2>4, <2>6, ScriptsStay DEF IInv
<1>4. CASE report # Unlimited
  <2>1. stage' = "done" /\ UNCHANGED <<calls, ready>>
    BY <1>4 DEF NextStage, MayGoOn
  <2>2. part = "none"
    BY <1>1 DEF IInv, Parts
  <2>3. RunTypes' /\ Parts' /\ Stages' /\ Reports'
    BY <1>1, <1>2, <1>4, <2>1, <2>2 DEF IInv, RunTypes, Parts, Stages, Reports, calls
  <2> QED
    BY <1>1, <2>1, <2>3, ScriptsStay DEF IInv, calls
<1> QED
  BY <1>3, <1>4

LEMMA FireScriptLoadKept ==
  ASSUME IInv, FireScriptLoad
  PROVE  IInv'
<1>1. /\ part = "load event" /\ ~busy /\ Call /\ part' = "load"
      /\ UNCHANGED <<stage, left, pending, written, point, current, reached, document,
                     ready, report>>
  BY DEF FireScriptLoad
<1>2. stage = "scripts" /\ aborted = Unlimited /\ report = Unlimited
  BY <1>1 DEF IInv, Parts, Reports
<1>3. busy' /\ busy' \in BOOLEAN /\ UNCHANGED <<aborted, result>>
  BY <1>1, <1>2 DEF Call
<1>4. RunTypes' /\ Parts' /\ Stages' /\ Reports'
  BY <1>1, <1>2, <1>3 DEF IInv, RunTypes, Parts, Stages, Reports
<1> QED
  BY <1>1, <1>2, <1>3, <1>4, ScriptsStay DEF IInv

----------------------------------------------------------------------------
(* Steps that move scripts. *)

\* The lengths of the parts are numbers that add up to that of the document.
LEMMA PartLengths ==
  ASSUME RunTypes
  PROVE  /\ Length \in Nat /\ Len(written) \in Nat /\ Len(pending) \in Nat /\ Len(left) \in Nat
         /\ AfterReached \in Int /\ AfterWritten \in Int /\ AfterPending \in Int
         /\ AfterReached + Len(written) = AfterWritten
         /\ AfterWritten + Len(pending) = AfterPending
         /\ AfterPending + Len(left) = Length
         /\ DOMAIN document = 1..Length /\ DOMAIN written = 1..Len(written)
         /\ DOMAIN pending = 1..Len(pending) /\ DOMAIN left = 1..Len(left)
<1>1. Length \in Nat /\ Len(written) \in Nat /\ Len(pending) \in Nat /\ Len(left) \in Nat
  BY LenProperties DEF RunTypes, Length
<1>2. /\ DOMAIN document = 1..Length /\ DOMAIN written = 1..Len(written)
      /\ DOMAIN pending = 1..Len(pending) /\ DOMAIN left = 1..Len(left)
  BY LenProperties DEF RunTypes, Length
<1>3. \A a, b, c, d \in Nat :
        /\ a - b - c - d \in Int /\ a - c - d \in Int /\ a - d \in Int
        /\ a - b - c - d + b = a - c - d /\ a - c - d + c = a - d /\ a - d + d = a
  OBVIOUS
<1> HIDE DEF Length
<1> QED
  BY <1>1, <1>2, <1>3 DEF AfterReached, AfterWritten, AfterPending

\* A first part of a document of distinct elements is closed towards its front.
LEMMA FirstPartInOrder ==
  ASSUME NEW d, NEW n \in Nat, NEW k \in Nat, k <= n, DOMAIN d = 1..n,
         \A i, j \in DOMAIN d : d[i] = d[j] => i = j,
         NEW r, r = {d[i] : i \in 1..k}
  PROVE  \A i, j \in DOMAIN d : i < j /\ d[j] \in r => d[i] \in r
<1> SUFFICES ASSUME NEW i \in DOMAIN d, NEW j \in DOMAIN d, i < j, d[j] \in r
             PROVE  d[i] \in r
  OBVIOUS
<1>1. PICK l \in 1..k : d[j] = d[l]
  OBVIOUS
<1>2. l \in DOMAIN d
  OBVIOUS
<1>3. j = l
  BY <1>1, <1>2
<1>4. i \in 1..k
  BY <1>3
<1> QED
  BY <1>4

LEMMA IndexFound ==
  ASSUME Distinct, NEW i \in DOMAIN document
  PROVE  IndexOf(document[i]) = i
BY DEF Distinct, IndexOf

LEMMA NextElementKept ==
  ASSUME IInv, NextElement
  PROVE  IInv'
<1>1. /\ stage = "scripts" /\ ~busy /\ part = "none" /\ aborted = Unlimited
      /\ pending = <<>> /\ left # <<>>
      /\ pending' = <<Head(left)>> /\ left' = Tail(left)
      /\ UNCHANGED <<calls, stage, part, written, point, current, reached, document,
                     ready, report>>
  BY DEF NextElement, AtScripts
<1> USE DEF calls
<1>2. Layout /\ Points /\ RunTypes
  BY <1>1 DEF IInv
<1>3. left \in Seq(Scripts) /\ Len(left) \in Nat /\ Len(left) # 0
  BY <1>1, <1>2, EmptyLen DEF RunTypes
<1>4. /\ left' \in Seq(Scripts) /\ Len(left') = Len(left) - 1
      /\ \A i \in 1..(Len(left) - 1) : left'[i] = left[i + 1]
  BY <1>1, <1>3
<1>5. pending' \in Seq(Scripts) /\ Len(pending') = 1 /\ pending'[1] = left[1]
  BY <1>1, <1>3
<1>6. RunTypes'
  BY <1>1, <1>2, <1>4, <1>5 DEF RunTypes
<1>7. Len(pending) = 0
  BY <1>1
<1>8. /\ AfterReached' = AfterReached /\ AfterPending' = AfterPending + 1
      /\ AfterWritten' = AfterWritten
  BY <1>1, <1>2, <1>3, <1>4, <1>5, <1>7, PartLengths
     DEF AfterReached, AfterWritten, AfterPending, Length
<1>9. Layout'
  <2>1. \A i \in DOMAIN pending' : document'[AfterPending' + 1 - i] = pending'[i]
    <3>1. DOMAIN pending' = {1}
      BY <1>5
    <3>2. 1 \in DOMAIN left
      BY <1>3
    <3>3. AfterPending \in Int /\ AfterPending' + 1 - 1 = AfterPending + 1
      BY <1>2, <1>8, PartLengths
    <3>4. document[AfterPending + 1] = left[1]
      BY <1>2, <3>2 DEF Layout
    <3> QED
      BY <1>1, <1>5, <3>1, <3>3, <3>4
  <2>2. \A i \in DOMAIN left' : document'[AfterPending' + i] = left'[i]
    <3> SUFFICES ASSUME NEW i \in DOMAIN left'
                 PROVE  document'[AfterPending' + i] = left'[i]
      OBVIOUS
    <3>1. i \in 1..(Len(left) - 1) /\ i + 1 \in DOMAIN left
      <4>1. DOMAIN left' = 1..(Len(left) - 1) /\ DOMAIN left = 1..Len(left)
        BY <1>3, <1>4
      <4> QED
        BY <1>3, <4>1
    <3>2. AfterPending' + i = AfterPending + (i + 1)
      BY <1>2, <1>8, <3>1, PartLengths
    <3> QED
      BY <1>1, <1>2, <1>4, <3>1, <3>2 DEF Layout
  <2> QED
    BY <1>1, <1>2, <1>8, <2>1, <2>2 DEF Layout
<1>10. Points'
  BY <1>1, <1>2, <1>8 DEF Points, Length
<1>11. Distinct' /\ InOrder' /\ Parts' /\ Stages' /\ Reports'
  BY <1>1 DEF IInv, Distinct, InOrder, Length, Parts, Stages, Reports
<1> QED
  BY <1>1, <1>6, <1>9, <1>10, <1>11 DEF IInv

\* The script on top of the stack is the first that was not reached.
LEMMA NextScriptKept ==
  ASSUME IInv, NextScript
  PROVE  IInv'
<1> DEFINE s == Last(pending)
           k == AfterReached + 1
<1>1. /\ stage = "scripts" /\ ~busy /\ part = "none" /\ aborted = Unlimited
      /\ pending # <<>> /\ pending' = Front(pending)
      /\ reached' = reached \cup {s}
      /\ part' \in {"other", "inline", "external", "error"}
      /\ UNCHANGED <<aborted, result, stage, left, written, document, ready, report>>
      /\ part' = "other" => UNCHANGED <<busy, point, current>>
      /\ part' # "other" =>
           /\ busy' = TRUE /\ point' = PointAfter(s)
           /\ current' = IF part' = "error" THEN NoScript ELSE s
  BY DEF NextScript, AtScripts, Call
<1>2. Layout /\ Points /\ RunTypes /\ Distinct
  BY <1>1 DEF IInv
<1>3. pending \in Seq(Scripts) /\ Len(pending) \in Nat /\ Len(pending) # 0
  BY <1>1, <1>2, EmptyLen DEF RunTypes
<1>4. /\ pending' \in Seq(Scripts) /\ Len(pending') = Len(pending) - 1
      /\ \A i \in 1..(Len(pending) - 1) : pending'[i] = pending[i]
  <2>1. pending' = SubSeq(pending, 1, Len(pending) - 1)
    BY <1>1 DEF Front
  <2> QED
    <3> DEFINE m == Len(pending) - 1
    <3>1. m \in Nat /\ m <= Len(pending)
      BY <1>3
    <3> HIDE DEF m
    <3>2. /\ SubSeq(pending, 1, m) \in Seq(Scripts) /\ Len(SubSeq(pending, 1, m)) = m
          /\ \A i \in 1..m : SubSeq(pending, 1, m)[i] = pending[i]
      BY <1>3, <3>1
    <3> QED
      BY <2>1, <3>2 DEF m
<1>5. written = <<>> /\ Len(written) = 0 /\ point = NoPoint /\ current = NoScript
  BY <1>1, <1>2 DEF Points
<1>6. /\ AfterReached' = k /\ AfterPending' = AfterPending /\ AfterWritten' = k
      /\ k \in Nat /\ k = AfterPending + 1 - Len(pending) /\ k \in 1..Length
  BY <1>1, <1>2, <1>3, <1>4, <1>5, PartLengths
     DEF AfterReached, AfterWritten, AfterPending, Length, Layout
<1>7. s = document[k] /\ k \in DOMAIN document /\ IndexOf(s) = k /\ s \in Scripts
  <2>1. s = document[k] /\ k \in DOMAIN document /\ s \in Scripts
    <3>1. Len(pending) \in DOMAIN pending /\ DOMAIN document = 1..Length
      BY <1>2, <1>3, PartLengths
    <3>2. document[AfterPending + 1 - Len(pending)] = pending[Len(pending)]
      BY <1>2, <3>1 DEF Layout
    <3>3. pending[Len(pending)] \in Scripts
      BY <1>3, <3>1, ElementOfSeq
    <3> QED
      BY <1>6, <3>1, <3>2, <3>3 DEF Last
  <2> HIDE DEF s, k
  <2> QED
    BY <1>2, <2>1, IndexFound
<1> HIDE DEF s, k
<1>8. reached' = {document'[i] : i \in 1..k}
  <2>1. reached = {document[i] : i \in 1..(k - 1)}
    <3>1. k - 1 = AfterReached
      BY <1>2, PartLengths DEF k
    <3> QED
      BY <1>2, <3>1 DEF Layout
  <2> QED
    BY <1>1, <1>6, <1>7, <2>1
<1>9. Layout'
  <2>1. \A i \in DOMAIN pending' : document'[AfterPending' + 1 - i] = pending'[i]
    <3>1. DOMAIN pending' \subseteq DOMAIN pending
      BY <1>3, <1>4
    <3>2. \A i \in DOMAIN pending' : pending'[i] = pending[i]
      BY <1>3, <1>4
    <3> QED
      BY <1>1, <1>2, <1>6, <3>1, <3>2 DEF Layout
  <2>2. DOMAIN written' = {}
    BY <1>1, <1>5
  <2> QED
    BY <1>1, <1>2, <1>6, <1>8, <2>1, <2>2 DEF Layout
<1>10. point' # NoPoint => point' = IF k = Length THEN AtEnd ELSE document[k + 1]
  BY <1>1, <1>5, <1>7 DEF PointAfter, Length
<1>11. point' \in Scripts \cup {NoPoint, AtEnd} /\ current' \in Scripts \cup {NoScript}
  <2>1. k # Length => document[k + 1] \in Scripts
    BY <1>2, <1>6, PartLengths, ElementOfSeq DEF RunTypes, Length
  <2> QED
    BY <1>1, <1>2, <1>5, <1>7, <2>1 DEF PointAfter, RunTypes, Length
<1>12. RunTypes'
  BY <1>1, <1>2, <1>4, <1>7, <1>11 DEF RunTypes
<1>13. Points'
  <2>1. point' \in Int
    BY <1>11, CountsAssumption DEF Scripts, NoPoint, AtEnd, CountsAssumption
  <2> QED
    BY <1>1, <1>5, <1>6, <1>10, <2>1 DEF Points, Length
<1>14. Distinct'
  BY <1>1, <1>2 DEF Distinct, Length
<1>15. InOrder'
  <2>1. DOMAIN document = 1..Length /\ Length \in Nat
    BY <1>2, PartLengths
  <2>2. \A i, j \in DOMAIN document : i < j /\ document[j] \in reached' => document[i] \in reached'
    <3> DEFINE r == reached'
    <3>1. /\ k \in Nat /\ k <= Length /\ r = {document[i] : i \in 1..k}
          /\ \A i, j \in DOMAIN document : document[i] = document[j] => i = j
      <4>1. k \in Nat /\ k <= Length
        BY <1>6, <2>1
      <4>2. r = {document[i] : i \in 1..k}
        BY <1>1, <1>8
      <4>3. \A i, j \in DOMAIN document : document[i] = document[j] => i = j
        BY <1>2 DEF Distinct
      <4> QED
        BY <4>1, <4>2, <4>3
    <3> HIDE DEF r
    <3>2. \A i, j \in DOMAIN document : i < j /\ document[j] \in r => document[i] \in r
      BY <2>1, <3>1, FirstPartInOrder
    <3> QED
      BY <3>2 DEF r
  <2> QED
    BY <1>1, <2>2 DEF InOrder
<1>16. Parts' /\ Stages' /\ Reports'
  <2>1. Parts'
    <3>1. CASE part' = "other"
      BY <1>1, <3>1 DEF Parts
    <3>2. CASE part' # "other"
      <4>1. busy' = TRUE /\ part' \in {"inline", "external", "error"}
        BY <1>1, <3>2
      <4> QED
        BY <1>1, <4>1 DEF Parts
    <3> QED
      BY <3>1, <3>2
  <2>2. Stages'
    BY <1>1 DEF IInv, Stages
  <2>3. Reports'
    BY <1>1 DEF IInv, Reports
  <2> QED
    BY <2>1, <2>2, <2>3
<1> QED
  BY <1>1, <1>9, <1>12, <1>13, <1>14, <1>15, <1>16 DEF IInv

\* A script is written after those that were written before it.
LEMMA WriteKept ==
  ASSUME IInv, Write
  PROVE  IInv'
<1> DEFINE n == AfterWritten + 1
           new == Length + 1
<1>1. /\ busy /\ aborted = Unlimited /\ point # NoPoint
      /\ Length < Parsed + MaxWritten
      /\ document' = InsertAt(document, IF point = AtEnd THEN new ELSE IndexOf(point), new)
      /\ written' = Append(written, new)
      /\ UNCHANGED <<calls, stage, part, left, pending, point, current, reached,
                     ready, report>>
  BY DEF Write, Length
<1> USE DEF calls
<1>2. stage \notin {"idle", "images"} /\ Layout /\ Points /\ RunTypes /\ Distinct
  BY <1>1 DEF IInv, Stages
<1>3. /\ n \in 1..(Length + 1) /\ Length \in Nat /\ AfterReached \in Nat
      /\ AfterReached < n /\ new \in Scripts
  <2>1. /\ Length \in Nat /\ AfterWritten \in Int /\ AfterReached \in Nat
        /\ Len(written) \in Nat /\ Len(pending) \in Nat /\ Len(left) \in Nat
        /\ AfterReached + Len(written) = AfterWritten
        /\ AfterWritten + Len(pending) = AfterPending /\ AfterPending + Len(left) = Length
    BY <1>2, PartLengths DEF Layout
  <2>2. n \in 1..(Length + 1) /\ AfterReached < n
    BY <2>1
  <2>3. new \in Scripts
    BY <1>1, <2>1, CountsAssumption DEF Scripts, CountsAssumption
  <2> QED
    BY <2>1, <2>2, <2>3
<1>4. /\ (IF point = AtEnd THEN new ELSE IndexOf(point)) = n
      /\ n # Length + 1 => point = document[n]
      /\ n = Length + 1 => point = AtEnd
  <2>1. CASE AfterWritten = Length
    BY <1>1, <1>2, <2>1 DEF Points
  <2>2. CASE AfterWritten # Length
    <3>1. n \in DOMAIN document /\ point = document[n]
      <4>1. DOMAIN document = 1..Length /\ AfterWritten \in Int
        BY <1>2, PartLengths
      <4>2. n \in DOMAIN document
        BY <1>3, <2>2, <4>1
      <4> QED
        BY <1>1, <1>2, <2>2, <4>2 DEF Points
    <3>2. document[n] # AtEnd
      BY <1>2, <3>1 DEF Distinct, AtEnd
    <3>3. IndexOf(document[n]) = n
      BY <1>2, <3>1, IndexFound
    <3> QED
      BY <1>2, <1>3, <2>2, <3>1, <3>2, <3>3, PartLengths
  <2> QED
    BY <2>1, <2>2
<1>5. document \in Seq(Scripts) /\ Len(document) = Length
  BY <1>2 DEF RunTypes, Length
<1> HIDE DEF n, new
<1>6. /\ document' \in Seq(Scripts) /\ Len(document') = Length + 1
      /\ \A i \in 1..(Length + 1) :
           document'[i] = IF i < n THEN document[i] ELSE IF i = n THEN new ELSE document[i - 1]
  <2>1. document' = InsertAt(document, n, new)
    BY <1>1, <1>4
  <2>2. n \in 1..(Len(document) + 1)
    BY <1>3, <1>5
  <2>3. document \in Seq(Scripts) /\ new \in Scripts
    BY <1>3, <1>5
  <2>4. document' \in Seq(Scripts) /\ HasInserted(document', document, n, new)
    BY <2>1, <2>2, <2>3, Inserted
  <2> QED
    BY <1>5, <2>4 DEF HasInserted
<1>7. /\ written' \in Seq(Scripts) /\ Len(written') = Len(written) + 1
      /\ \A i \in 1..Len(written) : written'[i] = written[i]
      /\ written'[Len(written) + 1] = new
  BY <1>1, <1>2, <1>3 DEF RunTypes
<1>8. RunTypes'
  BY <1>1, <1>2, <1>6, <1>7 DEF RunTypes
<1>9. /\ Length' = Length + 1 /\ AfterReached' = AfterReached
      /\ AfterWritten' = AfterWritten + 1 /\ AfterPending' = AfterPending + 1
  BY <1>1, <1>2, <1>6, <1>7, PartLengths
     DEF AfterReached, AfterWritten, AfterPending, Length
<1>10. /\ DOMAIN document = 1..Length /\ DOMAIN document' = 1..(Length + 1)
       /\ DOMAIN written' = 1..(Len(written) + 1)
  BY <1>2, <1>6, <1>7, PartLengths
<1>15. /\ Length \in Nat /\ Len(pending) \in Nat /\ Len(left) \in Nat /\ AfterPending \in Nat
       /\ n = AfterWritten + 1 /\ AfterWritten \in Nat
       /\ AfterWritten + Len(pending) = AfterPending /\ AfterPending + Len(left) = Length
       /\ AfterPending' = AfterPending + 1
  <2>1. /\ Length \in Nat /\ Len(pending) \in Nat /\ Len(left) \in Nat
        /\ AfterPending \in Int /\ AfterWritten \in Int
        /\ AfterWritten + Len(pending) = AfterPending /\ AfterPending + Len(left) = Length
        /\ AfterReached + Len(written) = AfterWritten /\ Len(written) \in Nat
    BY <1>2, PartLengths
  <2>2. n = AfterWritten + 1 /\ AfterReached \in Nat /\ AfterPending' = AfterPending + 1
    BY <1>3, <1>9 DEF n
  <2> QED
    BY <2>1, <2>2
<1>11. Layout'
  <2>1. reached' = {document'[i] : i \in 1..AfterReached'}
    <3>1. \A i \in 1..AfterReached : document'[i] = document[i]
      BY <1>3, <1>6
    <3> QED
      BY <1>1, <1>2, <1>9, <3>1 DEF Layout
  <2>2. ASSUME NEW i \in DOMAIN written'
        PROVE  document'[AfterReached' + i] = written'[i]
    <3>1. CASE i = Len(written) + 1
      <4>1. AfterReached + i = n
        BY <1>2, <3>1, PartLengths DEF n
      <4> QED
        BY <1>3, <1>6, <1>7, <1>9, <3>1, <4>1
    <3>2. CASE i \in DOMAIN written
      <4>1. /\ AfterReached + i < n /\ AfterReached + i \in 1..(Length + 1)
            /\ i \in 1..Len(written)
        <5>1. /\ i \in 1..Len(written) /\ Len(written) \in Nat
              /\ AfterReached + Len(written) = AfterWritten
          BY <1>2, <3>2, PartLengths
        <5> QED
          BY <1>3, <1>15, <5>1
      <4> QED
        BY <1>2, <1>6, <1>7, <1>9, <3>2, <4>1 DEF Layout
    <3>3. i = Len(written) + 1 \/ i \in 1..Len(written)
      <4>1. Len(written) \in Nat /\ i \in 1..(Len(written) + 1)
        BY <1>2, <1>10, PartLengths
      <4> QED
        BY <4>1
    <3> QED
      BY <1>2, <3>1, <3>2, <3>3, PartLengths
  <2>3. ASSUME NEW i \in DOMAIN pending'
        PROVE  document'[AfterPending' + 1 - i] = pending'[i]
    <3>1. i \in DOMAIN pending /\ i \in 1..Len(pending)
      BY <1>1, <1>2, PartLengths
    <3> DEFINE j == AfterPending' + 1 - i
    <3>2. j > n /\ j \in 1..(Length + 1) /\ j - 1 = AfterPending + 1 - i
      BY <1>15, <3>1
    <3>3. document'[j] = document[j - 1]
      BY <1>3, <1>6, <3>2
    <3> QED
      BY <1>1, <1>2, <3>1, <3>2, <3>3 DEF Layout
  <2>4. ASSUME NEW i \in DOMAIN left'
        PROVE  document'[AfterPending' + i] = left'[i]
    <3>1. i \in DOMAIN left /\ i \in 1..Len(left)
      BY <1>1, <1>2, PartLengths
    <3> DEFINE j == AfterPending' + i
    <3>2. j > n /\ j \in 1..(Length + 1) /\ j - 1 = AfterPending + i
      BY <1>15, <3>1
    <3>3. document'[j] = document[j - 1]
      BY <1>3, <1>6, <3>2
    <3> QED
      BY <1>1, <1>2, <3>1, <3>2, <3>3 DEF Layout
  <2> QED
    BY <1>3, <1>9, <2>1, <2>2, <2>3, <2>4 DEF Layout
<1>12. Points'
  <2>1. part \notin {"none", "other"}
    BY <1>1, <1>2 DEF Points
  <2>2. point = IF AfterWritten' = Length' THEN AtEnd ELSE document'[AfterWritten' + 1]
    <3>1. CASE n = Length + 1
      BY <1>2, <1>4, <1>9, <3>1, PartLengths DEF n
    <3>2. CASE n # Length + 1
      <4>1. /\ AfterWritten' # Length' /\ AfterWritten' + 1 = n + 1 /\ n + 1 \in 1..(Length + 1)
            /\ n + 1 > n /\ n + 1 - 1 = n
        BY <1>15, <1>3, <1>9, <3>2
      <4> QED
        BY <1>3, <1>4, <1>6, <3>2, <4>1
    <3> QED
      BY <3>1, <3>2
  <2> QED
    BY <1>1, <1>2, <2>1, <2>2 DEF Points
<1>13. Distinct'
  <2>1. \A i \in DOMAIN document' :
          \/ i = n /\ document'[i] = Length + 1
          \/ i < n /\ i \in DOMAIN document /\ document'[i] = document[i]
          \/ i > n /\ i - 1 \in DOMAIN document /\ document'[i] = document[i - 1]
    BY <1>3, <1>6, <1>10 DEF new
  <2>2. \A i \in DOMAIN document : document[i] \in 1..Length
    BY <1>2 DEF Distinct
  <2>3. \A i \in DOMAIN document' : document'[i] \in 1..(Length + 1)
    BY <1>3, <2>1, <2>2
  <2>4. ASSUME NEW i \in DOMAIN document', NEW j \in DOMAIN document',
               document'[i] = document'[j]
        PROVE  i = j
    <3> \A x, y \in DOMAIN document : document[x] = document[y] => x = y
      BY <1>2 DEF Distinct
    <3> QED
      BY <1>3, <1>10, <2>1, <2>2, <2>4
  <2>5. Length' <= Parsed + MaxWritten
    BY <1>1, <1>3, <1>9, CountsAssumption DEF CountsAssumption
  <2> QED
    BY <1>9, <2>3, <2>4, <2>5 DEF Distinct
<1>14. InOrder'
  <2>1. /\ Length' \in Nat /\ AfterReached' \in Nat /\ AfterReached' <= Length'
        /\ DOMAIN document' = 1..Length' /\ reached' = {document'[i] : i \in 1..AfterReached'}
    BY <1>2, <1>3, <1>9, <1>10, <1>11, PartLengths DEF Layout
  <2>2. \A i, j \in DOMAIN document' : document'[i] = document'[j] => i = j
    BY <1>13 DEF Distinct
  <2> QED
    BY <2>1, <2>2, FirstPartInOrder DEF InOrder
<1>16. Parts' /\ Stages' /\ Reports'
  BY <1>1, <1>2 DEF IInv, Parts, Stages, Reports
<1> QED
  BY <1>1, <1>2, <1>8, <1>11, <1>12, <1>13, <1>14, <1>16 DEF IInv

\* The scripts a script wrote are those that come next.
LEMMA LeaveKept ==
  ASSUME IInv, LeaveScript, stage = "scripts", stage' = stage, aborted' = aborted,
         UNCHANGED <<left, reached, document>>
  PROVE  /\ pending' \in Seq(Scripts) /\ written' \in Seq(Scripts) /\ point' \in Scripts \cup {NoPoint, AtEnd}
         /\ current' \in Scripts \cup {NoScript}
         /\ aborted' = Unlimited => Layout' /\ Points'
<1>1. RunTypes
  BY DEF IInv
<1>2. CASE aborted # Unlimited
  BY <1>1, <1>2 DEF LeaveScript, PointLeft, IfActive, RunTypes
<1>3. CASE aborted = Unlimited
  <2> DEFINE back == Reverse(written)
  <2>1. /\ part' = "none" /\ point' = NoPoint /\ current' = NoScript
        /\ pending' = pending \o back /\ written' = <<>>
    BY <1>3 DEF LeaveScript, PointLeft, IfActive, PendingWithWritten
  <2>2. Layout
    BY <1>3 DEF IInv
  <2>3. /\ back \in Seq(Scripts) /\ Len(back) = Len(written)
        /\ \A i \in 1..Len(written) : back[i] = written[Len(written) + 1 - i]
    BY <1>1, Reversed DEF RunTypes
  <2> HIDE DEF back
  <2>4. /\ pending' \in Seq(Scripts) /\ Len(pending') = Len(pending) + Len(written)
        /\ \A i \in 1..Len(pending) : pending'[i] = pending[i]
        /\ \A i \in 1..Len(written) : pending'[Len(pending) + i] = back[i]
    <3>1. pending \in Seq(Scripts) /\ back \in Seq(Scripts)
      BY <1>1, <2>3 DEF RunTypes
    <3>2. /\ pending \o back \in Seq(Scripts) /\ Len(pending \o back) = Len(pending) + Len(back)
          /\ \A i \in 1..Len(pending) : (pending \o back)[i] = pending[i]
          /\ \A i \in 1..Len(back) : (pending \o back)[Len(pending) + i] = back[i]
      BY <3>1
    <3> QED
      BY <2>1, <2>3, <3>2
  <2>5. /\ Len(pending) \in Nat /\ Len(written) \in Nat /\ AfterReached \in Nat
        /\ AfterPending \in Int /\ Len(written') = 0
        /\ AfterReached + Len(written) + Len(pending) = AfterPending
        /\ DOMAIN written = 1..Len(written) /\ DOMAIN pending = 1..Len(pending)
    BY <1>1, <2>1, <2>2, PartLengths DEF Layout
  <2>6. AfterReached' = AfterReached /\ AfterPending' = AfterPending
    <3>1. \A l, p, w, m \in Nat : l - w - p - m = l - 0 - (p + w) - m
      OBVIOUS
    <3>2. Len(document) \in Nat /\ Len(left) \in Nat
      BY <1>1, PartLengths DEF Length
    <3> QED
      BY <2>4, <2>5, <3>1, <3>2 DEF AfterReached, AfterPending, Length
  <2>7. ASSUME NEW i \in DOMAIN pending'
        PROVE  document'[AfterPending' + 1 - i] = pending'[i]
    <3>1. i \in 1..(Len(pending) + Len(written))
      BY <2>4
    <3>2. CASE i \in 1..Len(pending)
      BY <2>2, <2>4, <2>5, <2>6, <3>2 DEF Layout
    <3>3. CASE i \notin 1..Len(pending)
      <4> DEFINE j == i - Len(pending)
                 k == Len(written) + 1 - j
      <4>1. /\ j \in 1..Len(written) /\ k \in 1..Len(written) /\ i = Len(pending) + j
            /\ AfterPending' + 1 - i = AfterReached + k
        BY <2>5, <2>6, <3>1, <3>3
      <4> HIDE DEF j, k
      <4>2. pending'[i] = written[k]
        BY <2>3, <2>4, <4>1 DEF k
      <4>3. document[AfterReached + k] = written[k]
        BY <2>2, <2>5, <4>1 DEF Layout
      <4> QED
        BY <4>1, <4>2, <4>3
    <3> QED
      BY <3>2, <3>3
  <2>8. DOMAIN written' = {}
    BY <2>1
  <2>9. Layout'
    BY <2>2, <2>5, <2>6, <2>7, <2>8 DEF Layout
  <2>10. Points'
    BY <2>1 DEF Points, NoPoint
  <2>11. written' \in Seq(Scripts)
    BY <2>1, EmptySeq
  <2> QED
    BY <2>1, <2>4, <2>9, <2>10, <2>11
<1> QED
  BY <1>2, <1>3

LEMMA SkipOtherKept ==
  ASSUME IInv, SkipOther
  PROVE  IInv'
<1>1. /\ part = "other" /\ LeaveScript /\ part' = "none"
      /\ UNCHANGED <<busy, aborted, result, stage, left, reached, document, ready, report>>
  BY DEF SkipOther, LeaveScript, calls
<1>2. stage = "scripts"
  BY <1>1 DEF IInv, Parts
<1>3. /\ pending' \in Seq(Scripts) /\ written' \in Seq(Scripts) /\ point' \in Scripts \cup {NoPoint, AtEnd}
      /\ current' \in Scripts \cup {NoScript}
      /\ aborted' = Unlimited => Layout' /\ Points'
  BY <1>1, <1>2, LeaveKept
<1>4. RunTypes' /\ Parts' /\ Stages' /\ Reports'
  BY <1>1, <1>2, <1>3 DEF IInv, RunTypes, Parts, Stages, Reports
<1>5. Distinct' /\ InOrder'
  BY <1>1 DEF IInv, Distinct, InOrder, Length
<1> QED
  BY <1>1, <1>2, <1>3, <1>4, <1>5 DEF IInv

LEMMA EndOfPartKept ==
  ASSUME IInv, EndOfPart
  PROVE  IInv'
<1>1. /\ stage = "scripts" /\ UNCHANGED <<stage, left, reached, document, ready>>
  BY DEF EndOfPart
<1>2. /\ busy /\ ~busy' /\ busy' \in BOOLEAN /\ aborted' = aborted
      /\ report' = aborted /\ result' \in Limits \cup Successes
      /\ result' \in Successes <=> aborted = Unlimited
  BY FinishReports DEF EndOfPart
<1>3. part \in {"inline", "external", "error", "load"}
  BY <1>1, <1>2 DEF IInv, Parts
<1>4. Distinct' /\ InOrder'
  BY <1>1 DEF IInv, Distinct, InOrder, Length
<1>5. CASE part = "external" /\ result' \in Successes
  <2>1. part' = "load event" /\ current' = NoScript /\ UNCHANGED <<pending, written, point>>
    BY <1>5 DEF EndOfPart
  <2>2. RunTypes' /\ Parts' /\ Stages' /\ Reports'
    BY <1>1, <1>2, <1>5, <2>1 DEF IInv, RunTypes, Parts, Stages, Reports
  <2>3. Layout /\ Points
    BY <1>1, <1>2, <1>5 DEF IInv
  <2>4. Layout'
    BY <1>1, <2>1, <2>3 DEF Layout, AfterReached, AfterPending, Length
  <2>5. Points'
    BY <1>1, <2>1, <2>3 DEF Points, AfterWritten, Length
  <2> QED
    BY <1>1, <1>4, <2>2, <2>4, <2>5 DEF IInv
<1>6. CASE ~(part = "external" /\ result' \in Successes)
  <2>1. LeaveScript /\ part' = "none"
    BY <1>6 DEF EndOfPart, LeaveScript
  <2>2. /\ pending' \in Seq(Scripts) /\ written' \in Seq(Scripts)
        /\ point' \in Scripts \cup {NoPoint, AtEnd} /\ current' \in Scripts \cup {NoScript}
        /\ aborted' = Unlimited => Layout' /\ Points'
    BY <1>1, <1>2, <2>1, LeaveKept
  <2>3. RunTypes' /\ Parts' /\ Stages' /\ Reports'
    BY <1>1, <1>2, <2>1, <2>2 DEF IInv, RunTypes, Parts, Stages, Reports
  <2> QED
    BY <1>1, <1>4, <2>2, <2>3 DEF IInv
<1> QED
  BY <1>5, <1>6

----------------------------------------------------------------------------
LEMMA RunStep == IInv /\ [DocumentNext]_documentVars => IInv'
<1> SUFFICES ASSUME IInv, [DocumentNext]_documentVars
             PROVE  IInv'
  OBVIOUS
<1>1. CASE UNCHANGED documentVars
  <2>1. UNCHANGED <<busy, aborted, result, stage, part, left, pending, written, point,
                    current, reached, document, ready, report>>
    BY <1>1 DEF documentVars, script, calls
  <2>2. RunTypes' /\ Distinct' /\ InOrder' /\ Parts' /\ Stages' /\ Reports'
    <3>1. RunTypes' /\ Distinct' /\ InOrder'
      BY <2>1 DEF IInv, RunTypes, Distinct, InOrder, Length
    <3>2. Parts' /\ Stages' /\ Reports'
      BY <2>1 DEF IInv, Parts, Stages, Reports
    <3> QED
      BY <3>1, <3>2
  <2>3. Layout' <=> Layout
    BY <2>1 DEF Layout, AfterReached, AfterPending, Length
  <2>4. Points' <=> Points
    BY <2>1 DEF Points, AfterWritten, Length
  <2> QED
    BY <2>1, <2>2, <2>3, <2>4 DEF IInv
<1> QED
  BY <1>1, StartKept, SyncParsedKept, NextElementKept, NextScriptKept, WriteKept,
     EndOfPartKept, FireScriptLoadKept, SkipOtherKept, NextStageKept, EndOfStageKept,
     StopKept DEF DocumentNext, Step, Done

\* At every moment of a run that nothing stopped, the document is what was
\* reached, what is being written, and what is still to come (execute_script).
THEOREM RunAlways == DocumentSpec => []IInv
BY RunInit, RunStep, PTL DEF DocumentSpec

\* However scripts write scripts, none is reached before one that stands in
\* front of it, and only a script the parser runs can write (execute_script).
THEOREM ScriptsInOrder == DocumentSpec => []RunsInDocumentOrder
<1>1. IInv => RunsInDocumentOrder
  <2> SUFFICES ASSUME IInv
               PROVE  RunsInDocumentOrder
    OBVIOUS
  <2>1. TypeOK
    BY DEF IInv, TypeOK, RunTypes, Parts, Stages, Reports
  <2>2. ASSUME stage # "scripts", aborted = Unlimited
        PROVE  point = NoPoint /\ current = NoScript
    <3>1. part = "none"
      BY <2>2 DEF IInv, Parts
    <3> QED
      BY <2>2, <3>1 DEF IInv, Points
  <2> QED
    BY <2>1, <2>2 DEF RunsInDocumentOrder, IInv, InOrder
<1> QED
  BY <1>1, RunAlways, PTL

\* The report of a run names the limit that stopped it, and only such a one.
THEOREM ReportAlwaysTells == DocumentSpec => []ReportTellsAbort
<1>1. IInv => ReportTellsAbort
  BY DEF IInv, Stages, Reports, ReportTellsAbort
<1> QED
  BY <1>1, RunAlways, PTL

\* When load is fired no limit was met, and every script of the document was
\* reached, whoever wrote it.
THEOREM LoadIsLast == DocumentSpec => LoadComesLast
<1>1. IInv /\ [DocumentNext]_documentVars =>
        [stage' = "load" /\ stage # "load" =>
           /\ aborted = Unlimited
           /\ {document[i] : i \in DOMAIN document} \subseteq reached]_documentVars
  <2> SUFFICES ASSUME IInv, DocumentNext, stage' = "load", stage # "load"
               PROVE  /\ aborted = Unlimited
                      /\ {document[i] : i \in DOMAIN document} \subseteq reached
    OBVIOUS
  <2>1. NextStage
    BY DEF DocumentNext, Step, Done, documentVars, Start, SyncParsed, NextElement, NextScript, EndOfPart,
       FireScriptLoad, SkipOther, EndOfStage, Write, Stop
  <2>2. ~busy /\ stage \in DOMAIN Follows /\ stage' = Follows[stage] /\ report = Unlimited
    BY <2>1 DEF NextStage, StageEnded, MayGoOn
  <2>3. stage = "drain"
    <3>1. stage \in {"scripts", "DOMContentLoaded", "drain", "load"}
      BY <2>2 DEF Follows
    <3>2. stage = "scripts" => stage' = "DOMContentLoaded"
      BY <2>2 DEF Follows
    <3>3. stage = "DOMContentLoaded" => stage' = "drain"
      BY <2>2 DEF Follows
    <3> QED
      BY <3>1, <3>2, <3>3
  <2>4. aborted = Unlimited
    BY <2>2, <2>3 DEF IInv, Reports
  <2>5. /\ left = <<>> /\ pending = <<>> /\ written = <<>> /\ Layout /\ RunTypes
    BY <2>3, <2>4 DEF IInv, Stages, Parts, Points
  <2>6. AfterReached = Length /\ DOMAIN document = 1..Length
    <3>1. Len(left) = 0 /\ Len(pending) = 0 /\ Len(written) = 0
      BY <2>5
    <3> QED
      BY <2>5, <3>1, PartLengths
  <2>7. reached = {document[i] : i \in DOMAIN document}
    BY <2>5, <2>6 DEF Layout
  <2> QED
    BY <2>4, <2>7
<1> QED
  BY <1>1, RunAlways, PTL DEF DocumentSpec, LoadComesLast
=============================================================================
