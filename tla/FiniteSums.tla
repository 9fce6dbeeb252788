----------------------------- MODULE FiniteSums -----------------------------
(***************************************************************************)
(* Sums of natural numbers over finite sets: what the folds of the         *)
(* community modules compute, for the accounts the components keep.  And,  *)
(* at the end, what Without leaves of a sequence.                          *)
(***************************************************************************)
EXTENDS Integers, Retain, SequencesExt, FiniteSetTheorems, SequenceTheorems, WellFoundedInduction, TLAPS

\* Every non-empty set of natural numbers has a least element: induction, in
\* the form of a least counterexample.
LEMMA LeastNatural ==
  ASSUME NEW S \in SUBSET Nat, S # {}
  PROVE  \E n \in S : \A m \in S : n <= m
PROOF
  <1>1. PICK n \in S : \A m \in S : ~ (<<m, n>> \in OpToRel(<, Nat))
    BY NatLessThanWellFounded, WFMin, Zenon
  <1>2. \A m \in S : ~ (m < n)
    BY <1>1, Zenon DEF OpToRel
  <1>3. QED
    BY <1>2

\* Induction, with the property given as the set of its numbers.
LEMMA Naturally ==
  ASSUME NEW S, 0 \in S, \A n \in Nat : n \in S => n + 1 \in S
  PROVE  Nat \subseteq S
PROOF
  <1> DEFINE Bad == Nat \ S
  <1>1. ASSUME Bad # {}
        PROVE  FALSE
    <2>1. PICK n \in Bad : \A m \in Bad : n <= m
      BY <1>1, LeastNatural
    <2>2. n # 0 /\ n \in Nat
      OBVIOUS
    <2>3. n - 1 \in Nat /\ ~(n <= n - 1) /\ (n - 1) + 1 = n
      BY <2>2
    <2>4. n - 1 \in S
      BY <2>1, <2>3
    <2>5. QED
      BY <2>3, <2>4
  <1>2. QED
    BY <1>1

Pick(s) == CHOOSE x \in s : TRUE

\* `it' is what the fold computes on the way: the sum of each subset.
SumsOf(w, S, it) ==
  it = [s \in SUBSET S |-> IF s = {} THEN 0 ELSE w[Pick(s)] + it[s \ {Pick(s)}]]

Weights(w, S) == \A x \in S : w[x] \in Nat

\* The element a fold takes out of a set first.
LEMMA PickIn == ASSUME NEW s, s # {} PROVE Pick(s) \in s
  BY DEF Pick

\* Below, sets are smaller by an element.
LEMMA Smaller ==
  ASSUME NEW S, IsFiniteSet(S), NEW x \in S
  PROVE  /\ IsFiniteSet(S \ {x}) /\ Cardinality(S) \in Nat
         /\ Cardinality(S \ {x}) = Cardinality(S) - 1 /\ Cardinality(S) > 0
         /\ Cardinality(S \ {x}) \in Nat /\ Cardinality(S \ {x}) < Cardinality(S)
PROOF
  <1>1. IsFiniteSet(S \ {x}) /\ Cardinality(S \ {x}) = Cardinality(S) - 1
    BY FS_RemoveElement
  <1>2. Cardinality(S) \in Nat /\ Cardinality(S \ {x}) \in Nat
    BY <1>1, FS_CardinalityType
  <1>3. QED
    BY <1>1, <1>2

LEMMA SumsExist ==
  ASSUME NEW S, IsFiniteSet(S), NEW w
  PROVE  \E it : SumsOf(w, S, it)
PROOF
  <1> DEFINE Body(h, s) == IF s = {} THEN 0 ELSE w[Pick(s)] + h[s \ {Pick(s)}]
             Upto(n, h) == /\ h = [s \in SUBSET S |-> h[s]]
                           /\ \A s \in SUBSET S : Cardinality(s) <= n => h[s] = Body(h, s)
             Bad == {n \in Nat : ~ \E h : Upto(n, h)}
  <1>1. Bad = {}
    <2>1. SUFFICES ASSUME Bad # {}
                   PROVE  FALSE
      OBVIOUS
    <2>2. PICK n \in Bad : \A m \in Bad : n <= m
      BY <2>1, LeastNatural
    <2>3. PICK h : \A s \in SUBSET S : Cardinality(s) < n => h[s] = Body(h, s)
      <3>1. CASE n = 0
        <4>1. \A s \in SUBSET S : ~(Cardinality(s) < n)
          BY <3>1, FS_Subset, FS_CardinalityType
        <4>2. QED
          BY <4>1
      <3>2. CASE n # 0
        <4> n \in Nat
          BY <2>2
        <4> HIDE DEF Bad
        <4>1. n - 1 \in Nat /\ n - 1 \notin Bad
          BY <2>2, <3>2
        <4>2. PICK h : Upto(n - 1, h)
          BY <4>1 DEF Bad
        <4>3. \A s \in SUBSET S : Cardinality(s) < n => Cardinality(s) <= n - 1
          BY FS_Subset, FS_CardinalityType
        <4>4. QED
          BY <4>2, <4>3
      <3>3. QED
        BY <3>1, <3>2
    <2>4. \E g : g = [s \in SUBSET S |-> Body(h, s)]
      OBVIOUS
    <2>5. PICK g : g = [s \in SUBSET S |-> Body(h, s)]
      BY <2>4
    <2>6. ASSUME NEW s \in SUBSET S, Cardinality(s) <= n
          PROVE  g[s] = Body(g, s)
      <3>1. CASE s = {}
        BY <2>5, <3>1
      <3>2. CASE s # {}
        <4> DEFINE r == s \ {Pick(s)}
        <4>1. IsFiniteSet(s) /\ Pick(s) \in s
          BY <3>2, PickIn, FS_Subset
        <4>2. Cardinality(r) < n /\ r \in SUBSET S
          BY <4>1, <2>2, <2>6, Smaller
        <4>3. h[r] = Body(h, r)
          BY <4>2, <2>3
        <4>4. g[r] = Body(h, r)
          BY <4>2, <2>5
        <4>5. g[s] = w[Pick(s)] + h[r]
          BY <2>5, <3>2
        <4>6. QED
          BY <3>2, <4>3, <4>4, <4>5
      <3>3. QED
        BY <3>1, <3>2
    <2>7. g = [s \in SUBSET S |-> g[s]]
      BY <2>5
    <2>8. Upto(n, g)
      BY <2>6, <2>7
    <2>9. QED
      BY <2>2, <2>8
  <1>2. Cardinality(S) \in Nat
    BY FS_CardinalityType
  <1>3. PICK h : Upto(Cardinality(S), h)
    BY <1>1, <1>2
  <1>4. \A s \in SUBSET S : Cardinality(s) <= Cardinality(S)
    BY FS_Subset
  <1>5. \A s \in SUBSET S : h[s] = Body(h, s)
    BY <1>3, <1>4
  <1>6. h = [s \in SUBSET S |-> Body(h, s)]
    BY <1>3, <1>5
  <1>7. QED
    BY <1>6 DEF SumsOf

\* The sums a fold chooses, under the name the lemmas below use.
Sums(w, S) == CHOOSE it : SumsOf(w, S, it)

LEMMA SumsAreSums ==
  ASSUME NEW S, IsFiniteSet(S), NEW w
  PROVE  SumsOf(w, S, Sums(w, S))
  BY SumsExist DEF Sums

\* The step of such a function.
LEMMA SumsStep ==
  ASSUME NEW S, NEW w, NEW it, SumsOf(w, S, it)
  PROVE  /\ it[{}] = 0
         /\ \A s \in SUBSET S : s # {} =>
              /\ Pick(s) \in s /\ s \ {Pick(s)} \in SUBSET S
              /\ it[s] = w[Pick(s)] + it[s \ {Pick(s)}]
  BY PickIn DEF SumsOf

\* Two such functions agree where both are defined and add the same.
LEMMA SumsAgree ==
  ASSUME NEW S, NEW v, NEW f, SumsOf(v, S, f), NEW T, NEW w, NEW g, SumsOf(w, T, g),
         NEW R, IsFiniteSet(R), R \subseteq S, R \subseteq T, \A x \in R : v[x] = w[x]
  PROVE  f[R] = g[R]
PROOF
  <1> DEFINE Differs(n) == \E s \in SUBSET R : Cardinality(s) = n /\ f[s] # g[s]
             Bad == {n \in Nat : Differs(n)}
  <1>1. ASSUME Bad # {}
        PROVE  FALSE
    <2>1. PICK n \in Bad : \A m \in Bad : n <= m
      BY <1>1, LeastNatural
    <2>2. PICK s \in SUBSET R : Cardinality(s) = n /\ f[s] # g[s]
      BY <2>1
    <2>3. s # {}
      <3>1. f[{}] = 0 /\ g[{}] = 0
        BY SumsStep
      <3>2. QED
        BY <2>2, <3>1
    <2>4. /\ f[s] = v[Pick(s)] + f[s \ {Pick(s)}]
          /\ g[s] = w[Pick(s)] + g[s \ {Pick(s)}]
          /\ Pick(s) \in s
      BY <2>2, <2>3, SumsStep
    <2> DEFINE r == s \ {Pick(s)}
    <2>5. IsFiniteSet(s)
      BY FS_Subset
    <2>6. Cardinality(r) \in Nat /\ Cardinality(r) < n
      BY <2>1, <2>2, <2>4, <2>5, Smaller, FS_CardinalityType
    <2>7. f[r] # g[r]
      BY <2>2, <2>4
    <2>8. Cardinality(r) \in Bad
      BY <2>6, <2>7
    <2> HIDE DEF Bad
    <2>9. n <= Cardinality(r) /\ n \in Nat
      BY <2>1, <2>8 DEF Bad
    <2>10. QED
      BY <2>6, <2>9
  <1>2. Cardinality(R) \in Nat
    BY FS_CardinalityType
  <1>3. QED
    BY <1>1, <1>2

\* A fold may take out any element first.
LEMMA SumsAnyElement ==
  ASSUME NEW S, IsFiniteSet(S), NEW w, Weights(w, S), NEW it, SumsOf(w, S, it)
  PROVE  \A s \in SUBSET S :
           it[s] \in Nat /\ \A x \in s : it[s] = w[x] + it[s \ {x}]
PROOF
  <1> DEFINE Good(s) == it[s] \in Nat /\ \A x \in s : it[s] = w[x] + it[s \ {x}]
             Bad == {n \in Nat : \E s \in SUBSET S : Cardinality(s) = n /\ ~Good(s)}
  <1>1. ASSUME Bad # {}
        PROVE  FALSE
    <2>1. PICK n \in Bad : \A m \in Bad : n <= m
      BY <1>1, LeastNatural
    <2>2. PICK s \in SUBSET S : Cardinality(s) = n /\ ~Good(s)
      BY <2>1
    <2>3. ASSUME NEW r \in SUBSET S, Cardinality(r) \in Nat, Cardinality(r) < n
          PROVE  Good(r)
      <3>1. Cardinality(r) \notin Bad
        <4> HIDE DEF Bad
        <4>1. n \in Nat
          BY <2>1 DEF Bad
        <4>2. QED
          BY <2>1, <2>3, <4>1
      <3>2. QED
        BY <2>3, <3>1
    <2>4. IsFiniteSet(s) /\ n \in Nat
      BY <2>1, FS_Subset
    <2>5. ASSUME NEW x \in s
          PROVE  Good(s \ {x})
      <3>1. IsFiniteSet(s \ {x}) /\ Cardinality(s \ {x}) < n
        BY <2>2, <2>4, Smaller
      <3>2. Cardinality(s \ {x}) \in Nat
        BY <3>1, FS_CardinalityType
      <3>3. QED
        BY <2>3, <3>1, <3>2
    <2>6. s # {}
      <3>1. CASE s = {}
        BY <2>2, <3>1, SumsStep
      <3>2. QED
        BY <3>1
    <2> DEFINE c == Pick(s)
    <2>7. c \in s /\ it[s] = w[c] + it[s \ {c}]
      BY <2>6, SumsStep
    <2> HIDE DEF c
    <2>8. it[s] \in Nat
      <3>1. it[s \ {c}] \in Nat /\ w[c] \in Nat
        BY <2>5, <2>7 DEF Weights
      <3>2. QED
        BY <2>7, <3>1
    <2>9. ASSUME NEW x \in s, x # c
          PROVE  it[s] = w[x] + it[s \ {x}]
      <3> DEFINE r == s \ {c, x}
      <3>1. (s \ {c}) \ {x} = r /\ (s \ {x}) \ {c} = r
        OBVIOUS
      <3>2. it[s \ {c}] = w[x] + it[r] /\ it[s \ {c}] \in Nat
        <4>1. Good(s \ {c}) /\ x \in s \ {c}
          BY <2>5, <2>7, <2>9
        <4>2. QED
          BY <3>1, <4>1
      <3>3. it[s \ {x}] = w[c] + it[r] /\ it[s \ {x}] \in Nat
        <4>1. Good(s \ {x}) /\ c \in s \ {x}
          BY <2>5, <2>7, <2>9
        <4>2. QED
          BY <3>1, <4>1
      <3>4. IsFiniteSet(r) /\ r \in SUBSET S /\ Cardinality(r) \in Nat /\ Cardinality(r) < n
        <4>1. /\ IsFiniteSet(s \ {c}) /\ Cardinality(s \ {c}) = n - 1
              /\ Cardinality(s \ {c}) \in Nat
          BY <2>2, <2>4, <2>7, Smaller, FS_CardinalityType
        <4>2. IsFiniteSet(r) /\ Cardinality(r) < n
          <5>1. x \in s \ {c}
            BY <2>9
          <5>2. IsFiniteSet((s \ {c}) \ {x}) /\ Cardinality((s \ {c}) \ {x}) = (n - 1) - 1
            BY <4>1, <5>1, Smaller
          <5> HIDE DEF r
          <5>3. QED
            BY <2>4, <3>1, <5>2
        <4>3. QED
          BY <4>2, FS_CardinalityType
      <3>5. it[r] \in Nat
        BY <2>3, <3>4
      <3>6. w[x] \in Nat /\ w[c] \in Nat
        BY <2>7 DEF Weights
      <3> HIDE DEF r
      <3>7. QED
        BY <2>7, <3>2, <3>3, <3>5, <3>6
    <2>10. QED
      BY <2>2, <2>7, <2>8, <2>9
  <1>2. ASSUME NEW s \in SUBSET S
        PROVE  Good(s)
    <2>1. Cardinality(s) \in Nat
      BY FS_Subset, FS_CardinalityType
    <2>2. QED
      BY <1>1, <2>1
  <1>3. QED
    BY <1>2

----------------------------------------------------------------------------
(* The sum of the community modules, SumFunctionOnSet, by these functions. *)

LEMMA SumIsChosen ==
  ASSUME NEW w, NEW S
  PROVE  SumFunctionOnSet(w, S) = Sums(w, S)[S]
  BY Zenon DEF SumFunctionOnSet, FoldFunctionOnSet, MapThenFoldSet, Sums, SumsOf, Pick

\* Any fold that adds the weights computes the sum.
LEMMA FoldIsSum ==
  ASSUME NEW S, IsFiniteSet(S), NEW T, S \subseteq T,
         NEW v, NEW w, \A x \in S : v[x] = w[x], NEW it, SumsOf(v, T, it)
  PROVE  it[S] = SumFunctionOnSet(w, S)
PROOF
  <1>1. SumsOf(w, S, Sums(w, S))
    BY SumsAreSums
  <1>2. it[S] = Sums(w, S)[S]
    <2> DEFINE g == Sums(w, S)
    <2>1. SumsOf(w, S, g) /\ S \subseteq S
      BY <1>1
    <2> HIDE DEF g
    <2>2. it[S] = g[S]
      BY <2>1, SumsAgree
    <2>3. QED
      BY <2>2 DEF g
  <1>3. QED
    BY <1>2, SumIsChosen

\* A fold may also add to the left of the rest, as FoldSeq does when its
\* operator has the sum as its second operand.
SumsBackOf(w, S, it) ==
  it = [s \in SUBSET S |-> IF s = {} THEN 0 ELSE it[s \ {Pick(s)}] + w[Pick(s)]]

LEMMA SumsBack ==
  ASSUME NEW S, IsFiniteSet(S), NEW w, Weights(w, S)
  PROVE  SumsBackOf(w, S, Sums(w, S))
PROOF
  <1> DEFINE it == Sums(w, S)
  <1>1. SumsOf(w, S, it)
    BY SumsAreSums
  <1>2. \A s \in SUBSET S : it[s] \in Nat
    BY <1>1, SumsAnyElement
  <1> HIDE DEF it
  <1>3. ASSUME NEW s \in SUBSET S, s # {}
        PROVE  w[Pick(s)] + it[s \ {Pick(s)}] = it[s \ {Pick(s)}] + w[Pick(s)]
    <2>1. w[Pick(s)] \in Nat /\ it[s \ {Pick(s)}] \in Nat
      BY <1>2, <1>3, PickIn DEF Weights
    <2>2. QED
      BY <2>1
  <1>4. it = [s \in SUBSET S |-> IF s = {} THEN 0 ELSE it[s \ {Pick(s)}] + w[Pick(s)]]
    BY <1>1, <1>3 DEF SumsOf
  <1>5. QED
    BY <1>4 DEF SumsBackOf, it

\* A fold that adds the weight last gives the same sum.
LEMMA FoldBackIsSum ==
  ASSUME NEW S, IsFiniteSet(S), NEW w, Weights(w, S), NEW f, SumsBackOf(w, S, f)
  PROVE  f[S] = SumFunctionOnSet(w, S)
PROOF
  <1> DEFINE g == Sums(w, S)
             Bad == {n \in Nat : \E s \in SUBSET S : Cardinality(s) = n /\ f[s] # g[s]}
  <1>1. SumsBackOf(w, S, g)
    BY SumsBack
  <1> HIDE DEF g
  <1>2. ASSUME Bad # {}
        PROVE  FALSE
    <2>1. PICK n \in Bad : \A m \in Bad : n <= m
      BY <1>2, LeastNatural
    <2>2. PICK s \in SUBSET S : Cardinality(s) = n /\ f[s] # g[s]
      BY <2>1
    <2>3. s # {}
      <3>1. f[{}] = 0 /\ g[{}] = 0
        BY <1>1 DEF SumsBackOf
      <3>2. QED
        BY <2>2, <3>1
    <2> DEFINE r == s \ {Pick(s)}
    <2>4. f[s] = f[r] + w[Pick(s)] /\ g[s] = g[r] + w[Pick(s)] /\ Pick(s) \in s
      BY <1>1, <2>3, PickIn DEF SumsBackOf
    <2>5. Cardinality(r) \in Nat /\ Cardinality(r) < n
      BY <2>2, <2>4, FS_Subset, Smaller
    <2>6. Cardinality(r) \in Bad
      <3>1. f[r] # g[r]
        BY <2>2, <2>4
      <3>2. QED
        BY <2>5, <3>1
    <2> HIDE DEF Bad
    <2>7. n <= Cardinality(r) /\ n \in Nat
      BY <2>1, <2>6 DEF Bad
    <2>8. QED
      BY <2>5, <2>7
  <1>3. f[S] = g[S]
    <2>1. Cardinality(S) \in Nat
      BY FS_CardinalityType
    <2>2. QED
      BY <1>2, <2>1
  <1>4. QED
    BY <1>3, SumIsChosen DEF g

\* Nothing adds up to zero.
LEMMA SumEmpty == ASSUME NEW w PROVE SumFunctionOnSet(w, {}) = 0
PROOF
  <1>1. SumsOf(w, {}, Sums(w, {}))
    BY SumsAreSums, FS_EmptySet
  <1>2. Sums(w, {})[{}] = 0
    BY <1>1, SumsStep
  <1>3. QED
    BY <1>2, SumIsChosen

\* Equal weights, equal sums.
LEMMA SumSame ==
  ASSUME NEW S, IsFiniteSet(S), NEW v, NEW w, \A x \in S : v[x] = w[x]
  PROVE  SumFunctionOnSet(v, S) = SumFunctionOnSet(w, S)
PROOF
  <1>1. SumsOf(v, S, Sums(v, S))
    BY SumsAreSums
  <1>2. Sums(v, S)[S] = SumFunctionOnSet(w, S)
    BY <1>1, FoldIsSum
  <1>3. QED
    BY <1>2, SumIsChosen

\* A sum is the weight of any element with the sum over the rest.
LEMMA SumElement ==
  ASSUME NEW S, IsFiniteSet(S), NEW w, Weights(w, S)
  PROVE  /\ SumFunctionOnSet(w, S) \in Nat
         /\ \A x \in S : /\ SumFunctionOnSet(w, S \ {x}) \in Nat
                         /\ SumFunctionOnSet(w, S) = w[x] + SumFunctionOnSet(w, S \ {x})
PROOF
  <1> DEFINE it == Sums(w, S)
  <1>1. SumsOf(w, S, it)
    BY SumsAreSums
  <1>2. ASSUME NEW s \in SUBSET S
        PROVE  it[s] = SumFunctionOnSet(w, s)
    BY <1>1, FoldIsSum, FS_Subset
  <1>3. \A s \in SUBSET S : it[s] \in Nat /\ \A x \in s : it[s] = w[x] + it[s \ {x}]
    BY <1>1, SumsAnyElement
  <1> HIDE DEF it
  <1>4. QED
    BY <1>2, <1>3

\* A new element adds its weight.
LEMMA SumAdd ==
  ASSUME NEW S, IsFiniteSet(S), NEW x, x \notin S, NEW w, Weights(w, S \cup {x})
  PROVE  SumFunctionOnSet(w, S \cup {x}) = w[x] + SumFunctionOnSet(w, S)
PROOF
  <1>1. IsFiniteSet(S \cup {x}) /\ (S \cup {x}) \ {x} = S
    BY FS_AddElement
  <1>2. QED
    BY <1>1, SumElement

\* One weight changes.
LEMMA SumChange ==
  ASSUME NEW S, IsFiniteSet(S), NEW x \in S,
         NEW v, Weights(v, S), NEW w, Weights(w, S), \A y \in S \ {x} : v[y] = w[y]
  PROVE  SumFunctionOnSet(v, S) + w[x] = SumFunctionOnSet(w, S) + v[x]
PROOF
  <1>1. IsFiniteSet(S \ {x})
    BY FS_RemoveElement
  <1>2. SumFunctionOnSet(v, S \ {x}) = SumFunctionOnSet(w, S \ {x})
    BY <1>1, SumSame
  <1>3. /\ SumFunctionOnSet(v, S) = v[x] + SumFunctionOnSet(v, S \ {x})
        /\ SumFunctionOnSet(w, S) = w[x] + SumFunctionOnSet(w, S \ {x})
        /\ SumFunctionOnSet(v, S \ {x}) \in Nat
    BY SumElement
  <1>4. v[x] \in Nat /\ w[x] \in Nat
    BY DEF Weights
  <1>5. QED
    BY <1>2, <1>3, <1>4

Through(f, S) == {f[x] : x \in S}

\* The sum over a bijective image, and over a union of disjoint sets, by a
\* least counterexample among the subsets of one of them.
LEMMA SumImage ==
  ASSUME NEW S, IsFiniteSet(S), NEW f, \A x, y \in S : f[x] = f[y] => x = y,
         NEW v, NEW w, \A x \in S : w[x] \in Nat /\ v[f[x]] = w[x]
  PROVE  SumFunctionOnSet(v, Through(f, S)) = SumFunctionOnSet(w, S)
PROOF
  <1> DEFINE Image(s) == {f[x] : x \in s}
             Good(s) == /\ SumFunctionOnSet(v, Image(s)) = SumFunctionOnSet(w, s)
                        /\ IsFiniteSet(Image(s))
             Bad == {n \in Nat : \E s \in SUBSET S : Cardinality(s) = n /\ ~Good(s)}
  <1>1. ASSUME Bad # {}
        PROVE  FALSE
    <2>1. PICK n \in Bad : \A m \in Bad : n <= m
      BY <1>1, LeastNatural
    <2>2. PICK s \in SUBSET S : Cardinality(s) = n /\ ~Good(s)
      BY <2>1
    <2>3. IsFiniteSet(s) /\ n \in Nat
      BY <2>1, FS_Subset
    <2>4. CASE s = {}
      <3>1. Image(s) = {}
        BY <2>4
      <3>2. Good(s)
        BY <2>4, <3>1, SumEmpty, FS_EmptySet
      <3>3. QED
        BY <2>2, <3>2
    <2>5. CASE s # {}
      <3>1. PICK x \in s : TRUE
        BY <2>5
      <3> DEFINE r == s \ {x}
      <3>2. IsFiniteSet(r) /\ Cardinality(r) \in Nat /\ Cardinality(r) < n
        <4>1. IsFiniteSet(r) /\ Cardinality(r) \in Nat /\ Cardinality(r) < Cardinality(s)
          BY <2>3, Smaller
        <4>2. QED
          BY <2>2, <4>1
      <3>3. Good(r)
        <4>1. Cardinality(r) \notin Bad
          <5> HIDE DEF Bad
          <5>1. QED
            BY <2>1, <2>3, <3>2
        <4>2. QED
          BY <3>2, <4>1
      <3>4. Image(s) = Image(r) \cup {f[x]} /\ f[x] \notin Image(r)
        OBVIOUS
      <3>5. Weights(v, Image(s)) /\ Weights(w, s)
        BY DEF Weights
      <3>6. IsFiniteSet(Image(s))
        <4> HIDE DEF Image, r
        <4>1. QED
          BY <3>3, <3>4, FS_AddElement
      <3>7. SumFunctionOnSet(v, Image(s)) = v[f[x]] + SumFunctionOnSet(v, Image(r))
        <4> DEFINE I == Image(r)
                   y == f[x]
        <4>1. IsFiniteSet(I) /\ y \notin I /\ Weights(v, I \cup {y}) /\ Image(s) = I \cup {y}
          BY <3>3, <3>4, <3>5
        <4> HIDE DEF I, y, Image
        <4>2. SumFunctionOnSet(v, I \cup {y}) = v[y] + SumFunctionOnSet(v, I)
          BY <4>1, SumAdd
        <4>3. QED
          BY <4>1, <4>2 DEF I, y
      <3>8. SumFunctionOnSet(w, s) = w[x] + SumFunctionOnSet(w, r)
        BY <2>3, <3>5, SumElement
      <3>9. v[f[x]] = w[x]
        OBVIOUS
      <3>10. Good(s)
        <4> HIDE DEF Image, r
        <4>1. QED
          BY <3>3, <3>6, <3>7, <3>8, <3>9
      <3>11. QED
        BY <2>2, <3>10
    <2>6. QED
      BY <2>4, <2>5
  <1>2. Cardinality(S) \in Nat
    BY FS_CardinalityType
  <1>3. QED
    BY <1>1, <1>2 DEF Through

\* Disjoint sets add up.
LEMMA SumUnion ==
  ASSUME NEW S, IsFiniteSet(S), NEW T, IsFiniteSet(T), S \cap T = {},
         NEW w, Weights(w, S \cup T)
  PROVE  SumFunctionOnSet(w, S \cup T) = SumFunctionOnSet(w, S) + SumFunctionOnSet(w, T)
PROOF
  <1> DEFINE Sum(s) == SumFunctionOnSet(w, s)
             Good(s) == Sum(S \cup s) = Sum(S) + Sum(s)
             Bad == {n \in Nat : \E s \in SUBSET T : Cardinality(s) = n /\ ~Good(s)}
  <1>0. Sum(S) \in Nat
    BY SumElement DEF Weights
  <1>1. ASSUME Bad # {}
        PROVE  FALSE
    <2>1. PICK n \in Bad : \A m \in Bad : n <= m
      BY <1>1, LeastNatural
    <2>2. PICK s \in SUBSET T : Cardinality(s) = n /\ ~Good(s)
      BY <2>1
    <2>3. IsFiniteSet(s) /\ n \in Nat
      BY <2>1, FS_Subset
    <2>4. CASE s = {}
      <3>1. S \cup s = S /\ Sum(s) = 0
        BY <2>4, SumEmpty
      <3>2. QED
        BY <1>0, <2>2, <3>1
    <2>5. CASE s # {}
      <3>1. PICK x \in s : TRUE
        BY <2>5
      <3> DEFINE r == s \ {x}
      <3>2. IsFiniteSet(r) /\ Cardinality(r) \in Nat /\ Cardinality(r) < n
        <4>1. IsFiniteSet(r) /\ Cardinality(r) \in Nat /\ Cardinality(r) < Cardinality(s)
          BY <2>3, Smaller
        <4>2. QED
          BY <2>2, <4>1
      <3>3. Good(r)
        <4>1. Cardinality(r) \notin Bad
          <5> HIDE DEF Bad
          <5>1. QED
            BY <2>1, <2>3, <3>2
        <4>2. QED
          BY <3>2, <4>1
      <3>4. IsFiniteSet(S \cup s) /\ (S \cup s) \ {x} = S \cup r
        BY <2>3, FS_Union
      <3>5. Weights(w, S \cup s) /\ Weights(w, s)
        BY DEF Weights
      <3>6. Sum(S \cup s) = w[x] + Sum(S \cup r)
        BY <3>4, <3>5, SumElement
      <3>7. Sum(s) = w[x] + Sum(r) /\ Sum(r) \in Nat /\ w[x] \in Nat
        BY <2>3, <3>5, SumElement DEF Weights
      <3> HIDE DEF r, Sum
      <3>8. QED
        BY <1>0, <2>2, <3>3, <3>6, <3>7
    <2>6. QED
      BY <2>4, <2>5
  <1>2. Cardinality(T) \in Nat
    BY FS_CardinalityType
  <1>3. QED
    BY <1>1, <1>2

\* A part adds up to no more than the whole.
LEMMA SumPart ==
  ASSUME NEW S, IsFiniteSet(S), NEW R \in SUBSET S, NEW w, Weights(w, S)
  PROVE  /\ SumFunctionOnSet(w, R) \in Nat /\ SumFunctionOnSet(w, S) \in Nat
         /\ SumFunctionOnSet(w, R) <= SumFunctionOnSet(w, S)
PROOF
  <1>1. /\ IsFiniteSet(R) /\ IsFiniteSet(S \ R)
        /\ R \cap (S \ R) = {} /\ R \cup (S \ R) = S
    BY FS_Subset
  <1>2. Weights(w, R) /\ Weights(w, S \ R)
    BY DEF Weights
  <1>3. /\ SumFunctionOnSet(w, R) \in Nat /\ SumFunctionOnSet(w, S \ R) \in Nat
        /\ SumFunctionOnSet(w, S) \in Nat
    BY <1>1, <1>2, SumElement
  <1>4. SumFunctionOnSet(w, S) = SumFunctionOnSet(w, R) + SumFunctionOnSet(w, S \ R)
    BY <1>1, SumUnion
  <1>5. QED
    BY <1>3, <1>4

\* A sum of zeros.
LEMMA SumOfNothing ==
  ASSUME NEW S, IsFiniteSet(S), NEW w, \A x \in S : w[x] = 0
  PROVE  SumFunctionOnSet(w, S) = 0
PROOF
  <1> DEFINE Good(s) == SumFunctionOnSet(w, s) = 0
             Bad == {n \in Nat : \E s \in SUBSET S : Cardinality(s) = n /\ ~Good(s)}
  <1>1. ASSUME Bad # {}
        PROVE  FALSE
    <2>1. PICK n \in Bad : \A m \in Bad : n <= m
      BY <1>1, LeastNatural
    <2>2. PICK s \in SUBSET S : Cardinality(s) = n /\ ~Good(s)
      BY <2>1
    <2>3. s # {}
      BY <2>2, SumEmpty
    <2>4. PICK x \in s : TRUE
      BY <2>3
    <2>5. IsFiniteSet(s) /\ Weights(w, s)
      BY FS_Subset DEF Weights
    <2>6. /\ Cardinality(s \ {x}) \in Nat /\ Cardinality(s \ {x}) < Cardinality(s)
          /\ Cardinality(s) \in Nat
      BY <2>5, Smaller
    <2>7. Good(s \ {x})
      <3>1. ASSUME ~Good(s \ {x})
            PROVE  FALSE
        <4>1. Cardinality(s \ {x}) \in Bad
          BY <2>6, <3>1
        <4> HIDE DEF Bad
        <4>2. n <= Cardinality(s \ {x})
          BY <2>1, <4>1
        <4>3. QED
          BY <2>2, <2>6, <4>2
      <3>2. QED
        BY <3>1
    <2>8. SumFunctionOnSet(w, s) = w[x] + SumFunctionOnSet(w, s \ {x})
      BY <2>5, SumElement
    <2>9. QED
      BY <2>2, <2>7, <2>8
  <1>2. QED
    <2>1. \A s \in SUBSET S : Cardinality(s) \in Nat
      BY FS_Subset, FS_CardinalityType
    <2>2. QED
      BY <1>1, <2>1

----------------------------------------------------------------------------
(* The bytes of a sequence of entries, as the caches add them up. *)

Weight(kept) == [i \in DOMAIN kept |-> kept[i].bytes]
Sized(kept) == \A i \in DOMAIN kept : kept[i].bytes \in Nat
Total(kept) == FoldSeq(LAMBDA e, sum : sum + e.bytes, 0, kept)

\* The total of a sequence is the sum over its places.
LEMMA TotalAddsUp ==
  ASSUME NEW E, NEW kept \in Seq(E), Sized(kept)
  PROVE  /\ IsFiniteSet(DOMAIN kept) /\ Weights(Weight(kept), DOMAIN kept)
         /\ Total(kept) = SumFunctionOnSet(Weight(kept), DOMAIN kept)
         /\ Total(kept) \in Nat
PROOF
  <1> DEFINE D == DOMAIN kept
             w == Weight(kept)
             Fold(it) == it = [s \in SUBSET D |->
                           IF s = {} THEN 0 ELSE it[s \ {Pick(s)}] + kept[Pick(s)].bytes]
             F == CHOOSE it : Fold(it)
  <1>1. D = 1..Len(kept) /\ IsFiniteSet(D)
    BY FS_Interval, LenProperties
  <1>2. Weights(w, D)
    BY DEF Weights, Weight, Sized
  <1>3. ASSUME NEW it
        PROVE  Fold(it) <=> SumsBackOf(w, D, it)
    <2>1. \A s \in SUBSET D : s # {} => kept[Pick(s)].bytes = w[Pick(s)]
      BY PickIn DEF Weight
    <2>2. [s \in SUBSET D |->
             IF s = {} THEN 0 ELSE it[s \ {Pick(s)}] + kept[Pick(s)].bytes]
          = [s \in SUBSET D |-> IF s = {} THEN 0 ELSE it[s \ {Pick(s)}] + w[Pick(s)]]
      BY <2>1
    <2>3. QED
      BY <2>2 DEF SumsBackOf
  <1>4. Fold(Sums(w, D))
    BY <1>1, <1>2, <1>3, SumsBack
  <1>5. SumsBackOf(w, D, F)
    <2> HIDE DEF Fold
    <2>1. Fold(F)
      BY <1>4
    <2>2. QED
      BY <1>3, <2>1
  <1>6. Total(kept) = F[D]
    BY Zenon DEF Total, FoldSeq, FoldFunction, FoldFunctionOnSet, MapThenFoldSet, Pick
  <1> HIDE DEF F, w, D
  <1>7. Total(kept) = SumFunctionOnSet(w, D)
    BY <1>1, <1>2, <1>5, <1>6, FoldBackIsSum
  <1>8. SumFunctionOnSet(w, D) \in Nat
    BY <1>1, <1>2, SumElement
  <1>9. QED
    BY <1>1, <1>2, <1>7, <1>8 DEF w, D

LEMMA TotalOfNone == Total(<<>>) = 0
PROOF
  <1>1. <<>> \in Seq({}) /\ DOMAIN <<>> = {} /\ Sized(<<>>)
    BY DEF Sized
  <1>2. Total(<<>>) = SumFunctionOnSet(Weight(<<>>), {})
    BY <1>1, TotalAddsUp
  <1>3. QED
    BY <1>2, SumEmpty

\* Sequences one after the other add up.
LEMMA TotalOfConcat ==
  ASSUME NEW E, NEW a \in Seq(E), NEW b \in Seq(E), Sized(a), Sized(b)
  PROVE  Sized(a \o b) /\ Total(a \o b) = Total(a) + Total(b)
PROOF
  <1> DEFINE c == a \o b
             shift == [i \in 1..Len(b) |-> Len(a) + i]
             tail == {shift[i] : i \in 1..Len(b)}
             w == Weight(c)
  <1>1. /\ c \in Seq(E) /\ Len(c) = Len(a) + Len(b)
        /\ \A i \in 1..Len(c) : c[i] = IF i <= Len(a) THEN a[i] ELSE b[i - Len(a)]
    BY ConcatProperties
  <1>2. /\ Len(a) \in Nat /\ Len(b) \in Nat
        /\ DOMAIN a = 1..Len(a) /\ DOMAIN b = 1..Len(b) /\ DOMAIN c = 1..Len(c)
    BY <1>1, LenProperties
  <1>sized. Sized(c)
    <2>1. ASSUME NEW i \in 1..Len(c)
          PROVE  c[i].bytes \in Nat
      <3>1. CASE i <= Len(a)
        BY <1>1, <1>2, <3>1 DEF Sized
      <3>2. CASE ~(i <= Len(a))
        <4>1. i - Len(a) \in 1..Len(b) /\ c[i] = b[i - Len(a)]
          BY <1>1, <1>2, <3>2
        <4>2. QED
          BY <1>2, <4>1 DEF Sized
      <3>3. QED
        BY <3>1, <3>2
    <2>2. QED
      BY <1>2, <2>1 DEF Sized
  <1>3. /\ IsFiniteSet(1..Len(b)) /\ IsFiniteSet(1..Len(a)) /\ IsFiniteSet(1..Len(c))
        /\ Weights(w, 1..Len(c)) /\ Weights(Weight(b), 1..Len(b))
    <2>1. /\ IsFiniteSet(DOMAIN c) /\ Weights(Weight(c), DOMAIN c)
          /\ IsFiniteSet(DOMAIN a)
          /\ IsFiniteSet(DOMAIN b) /\ Weights(Weight(b), DOMAIN b)
      BY <1>1, <1>sized, TotalAddsUp
    <2>2. QED
      BY <1>2, <2>1
  <1>4. SumFunctionOnSet(w, 1..Len(a)) = Total(a)
    <2>1. \A i \in 1..Len(a) : w[i] = Weight(a)[i]
      BY <1>1, <1>2 DEF Weight
    <2>2. SumFunctionOnSet(w, 1..Len(a)) = SumFunctionOnSet(Weight(a), 1..Len(a))
      <3> HIDE DEF w
      <3>1. QED
        BY <1>3, <2>1, SumSame
    <2>3. QED
      BY <1>2, <2>2, TotalAddsUp
  <1>5. SumFunctionOnSet(w, tail) = Total(b)
    <2>1. \A i \in 1..Len(b) : Weight(b)[i] \in Nat /\ w[shift[i]] = Weight(b)[i]
      <3>1. ASSUME NEW i \in 1..Len(b)
            PROVE  w[shift[i]] = Weight(b)[i]
        <4>1. shift[i] = Len(a) + i /\ shift[i] \in 1..Len(c) /\ ~(shift[i] <= Len(a))
          BY <1>1, <1>2
        <4>2. c[shift[i]] = b[i]
          BY <1>1, <1>2, <4>1
        <4>3. QED
          BY <1>2, <4>1, <4>2 DEF Weight
      <3>2. QED
        BY <1>3, <3>1 DEF Weights
    <2>2. \A i, j \in 1..Len(b) : shift[i] = shift[j] => i = j
      BY <1>2
    <2> DEFINE part == 1..Len(b)
               v == Weight(b)
    <2>3. IsFiniteSet(part) /\ (\A i \in part : v[i] \in Nat /\ w[shift[i]] = v[i])
      BY <1>3, <2>1
    <2>4. \A i, j \in part : shift[i] = shift[j] => i = j
      BY <2>2
    <2> HIDE DEF w, v, part
    <2>5. tail = Through(shift, part)
      BY DEF part, Through
    <2> HIDE DEF tail, shift
    <2>6. SumFunctionOnSet(w, tail) = SumFunctionOnSet(v, part)
      BY <2>3, <2>4, <2>5, SumImage
    <2>7. QED
      BY <1>2, <2>6, TotalAddsUp DEF part, v
  <1>6. /\ 1..Len(c) = (1..Len(a)) \cup tail /\ (1..Len(a)) \cap tail = {}
    <2>1. tail = {i \in 1..Len(c) : i > Len(a)}
      <3>1. ASSUME NEW i \in 1..Len(c), i > Len(a)
            PROVE  i \in tail
        <4>1. i - Len(a) \in 1..Len(b) /\ shift[i - Len(a)] = i
          BY <1>1, <1>2, <3>1
        <4>2. QED
          BY <4>1
      <3>2. ASSUME NEW j \in 1..Len(b)
            PROVE  shift[j] \in 1..Len(c) /\ shift[j] > Len(a)
        BY <1>1, <1>2
      <3>3. QED
        BY <3>1, <3>2
    <2>2. QED
      BY <1>1, <1>2, <2>1
  <1>7. IsFiniteSet(tail)
    BY <1>3, <1>6, FS_Subset
  <1> HIDE DEF w, tail, c
  <1>8. SumFunctionOnSet(w, 1..Len(c)) =
          SumFunctionOnSet(w, 1..Len(a)) + SumFunctionOnSet(w, tail)
    <2> DEFINE head == 1..Len(a)
    <2>1. IsFiniteSet(head) /\ head \cap tail = {} /\ head \cup tail = 1..Len(c)
      BY <1>3, <1>6
    <2>2. Weights(w, head \cup tail)
      BY <1>3, <2>1
    <2> HIDE DEF head
    <2>3. SumFunctionOnSet(w, head \cup tail) =
            SumFunctionOnSet(w, head) + SumFunctionOnSet(w, tail)
      BY <1>7, <2>1, <2>2, SumUnion
    <2>4. QED
      BY <2>1, <2>3 DEF head
  <1>9. Total(c) = SumFunctionOnSet(w, 1..Len(c))
    BY <1>1, <1>2, <1>sized, TotalAddsUp DEF w
  <1>10. QED
    BY <1>4, <1>5, <1>8, <1>9, <1>sized DEF c

-----------------------------------------------------------------------------
(* Sequences that elements are taken out of. *)

\* The function behind Without.
UptoOf(kept, gone, f) ==
  f = [n \in 0..Len(kept) |->
         IF n = 0 THEN <<>>
         ELSE IF kept[n] \in gone THEN f[n - 1] ELSE Append(f[n - 1], kept[n])]

LEMMA UptoExists ==
  ASSUME NEW kept, Len(kept) \in Nat, NEW gone
  PROVE  \E f : UptoOf(kept, gone, f)
PROOF
  <1> DEFINE N == Len(kept)
             Body(h, n) == IF n = 0 THEN <<>>
                           ELSE IF kept[n] \in gone THEN h[n - 1]
                                                    ELSE Append(h[n - 1], kept[n])
             Good(n) == \E h : /\ h = [m \in 0..N |-> h[m]]
                               /\ \A m \in 0..N : m <= n => h[m] = Body(h, m)
             Goods == {n \in Nat : Good(n)}
  <1>1. 0 \in Goods
    <2> DEFINE h == [m \in 0..N |-> <<>>]
    <2>1. h = [m \in 0..N |-> h[m]] /\ \A m \in 0..N : m <= 0 => h[m] = Body(h, m)
      OBVIOUS
    <2>2. QED
      BY <2>1
  <1>2. ASSUME NEW n \in Nat, n \in Goods
        PROVE  n + 1 \in Goods
    <2>1. PICK h : /\ h = [m \in 0..N |-> h[m]]
                   /\ \A m \in 0..N : m <= n => h[m] = Body(h, m)
      BY <1>2
    <2> DEFINE g == [m \in 0..N |-> IF m = n + 1 THEN Body(h, m) ELSE h[m]]
    <2>2. g = [m \in 0..N |-> g[m]]
      OBVIOUS
    <2>3. ASSUME NEW m \in 0..N, m <= n + 1
          PROVE  g[m] = Body(g, m)
      <3>1. m = 0 \/ (m # 0 /\ m - 1 \in 0..N /\ m - 1 # n + 1)
        BY <2>3
      <3>2. m # 0 => g[m - 1] = h[m - 1]
        BY <3>1
      <3>3. g[m] = Body(h, m)
        <4>1. CASE m = n + 1
          BY <4>1
        <4>2. CASE m # n + 1
          <5>1. m <= n
            BY <2>3, <4>2
          <5>2. g[m] = h[m] /\ h[m] = Body(h, m)
            BY <2>1, <4>2, <5>1
          <5>3. QED
            BY <5>2
        <4>3. QED
          BY <4>1, <4>2
      <3>4. Body(g, m) = Body(h, m)
        <4> HIDE DEF g
        <4>1. QED
          BY <3>2
      <3>5. QED
        BY <3>3, <3>4
    <2>4. Good(n + 1)
      <3> HIDE DEF g, Body
      <3>1. QED
        BY <2>2, <2>3
    <2>5. QED
      BY <2>4
  <1>3. N \in Goods
    <2> HIDE DEF Goods
    <2>1. QED
      BY <1>1, <1>2, Naturally
  <1>4. PICK h : /\ h = [m \in 0..N |-> h[m]]
                 /\ \A m \in 0..N : m <= N => h[m] = Body(h, m)
    BY <1>3
  <1>5. h = [m \in 0..N |-> Body(h, m)]
    BY <1>4
  <1>6. QED
    BY <1>5 DEF UptoOf

Upto(kept, gone) == CHOOSE f : UptoOf(kept, gone, f)

LEMMA UptoStep ==
  ASSUME NEW kept, Len(kept) \in Nat, NEW gone
  PROVE  /\ Upto(kept, gone)[0] = <<>>
         /\ \A n \in 1..Len(kept) :
              Upto(kept, gone)[n] =
                IF kept[n] \in gone THEN Upto(kept, gone)[n - 1]
                                    ELSE Append(Upto(kept, gone)[n - 1], kept[n])
         /\ Without(kept, gone) = Upto(kept, gone)[Len(kept)]
PROOF
  <1> DEFINE f == Upto(kept, gone)
  <1>1. UptoOf(kept, gone, f)
    BY UptoExists DEF Upto
  <1>2. Without(kept, gone) = f[Len(kept)]
    BY Zenon DEF Without, Upto, UptoOf
  <1> HIDE DEF f
  <1>3. \A n \in 0..Len(kept) :
          f[n] = IF n = 0 THEN <<>>
                 ELSE IF kept[n] \in gone THEN f[n - 1] ELSE Append(f[n - 1], kept[n])
    BY <1>1 DEF UptoOf
  <1>4. 0 \in 0..Len(kept) /\ \A n \in 1..Len(kept) : n \in 0..Len(kept) /\ n # 0
    OBVIOUS
  <1>5. QED
    BY <1>2, <1>3, <1>4 DEF f

\* It keeps the type of the sequence.
LEMMA WithoutKeeps ==
  ASSUME NEW E, NEW kept \in Seq(E), NEW gone
  PROVE  Without(kept, gone) \in Seq(E)
PROOF
  <1> DEFINE f == Upto(kept, gone)
             Goods == {n \in Nat : n <= Len(kept) => f[n] \in Seq(E)}
  <1>1. /\ Len(kept) \in Nat /\ f[0] = <<>> /\ Without(kept, gone) = f[Len(kept)]
        /\ \A n \in 1..Len(kept) :
             f[n] = IF kept[n] \in gone THEN f[n - 1] ELSE Append(f[n - 1], kept[n])
    BY LenProperties, UptoStep
  <1> HIDE DEF f
  <1>2. 0 \in Goods
    <2>1. f[0] \in Seq(E)
      BY <1>1
    <2>2. QED
      BY <2>1
  <1>3. ASSUME NEW n \in Nat, n \in Goods
        PROVE  n + 1 \in Goods
    <2>1. CASE n + 1 <= Len(kept)
      <3>1. n + 1 \in 1..Len(kept) /\ (n + 1) - 1 = n /\ n <= Len(kept)
        BY <1>1, <2>1
      <3>2. f[n] \in Seq(E) /\ kept[n + 1] \in E
        BY <1>3, <3>1, ElementOfSeq
      <3>3. f[n + 1] = IF kept[n + 1] \in gone THEN f[n] ELSE Append(f[n], kept[n + 1])
        BY <1>1, <3>1
      <3>4. Append(f[n], kept[n + 1]) \in Seq(E)
        BY <3>2
      <3>5. f[n + 1] \in Seq(E)
        BY <3>2, <3>3, <3>4
      <3>6. QED
        BY <3>5
    <2>2. CASE ~(n + 1 <= Len(kept))
      BY <2>2
    <2>3. QED
      BY <2>1, <2>2
  <1>4. Len(kept) \in Goods
    <2> HIDE DEF Goods
    <2>1. QED
      BY <1>1, <1>2, <1>3, Naturally
  <1>5. QED
    BY <1>1, <1>4

\* What is kept: every element that is not gone, each at its place, in the order
\* of the places.
KeptAt(kept, gone, n, s, g) ==
  /\ g \in [1..Len(s) -> 1..n]
  /\ \A i \in 1..Len(s) : s[i] = kept[g[i]] /\ kept[g[i]] \notin gone
  /\ \A i, j \in 1..Len(s) : i < j => g[i] < g[j]
  /\ \A m \in 1..n : kept[m] \notin gone => \E i \in 1..Len(s) : g[i] = m

LEMMA WithoutPlaces ==
  ASSUME NEW E, NEW kept \in Seq(E), NEW gone
  PROVE  \E g : KeptAt(kept, gone, Len(kept), Without(kept, gone), g)
PROOF
  <1> DEFINE f == Upto(kept, gone)
             Good(n) == f[n] \in Seq(E) /\ \E g : KeptAt(kept, gone, n, f[n], g)
             Goods == {n \in Nat : n <= Len(kept) => Good(n)}
  <1>1. /\ Len(kept) \in Nat /\ f[0] = <<>> /\ Without(kept, gone) = f[Len(kept)]
        /\ \A n \in 1..Len(kept) :
             f[n] = IF kept[n] \in gone THEN f[n - 1] ELSE Append(f[n - 1], kept[n])
    BY LenProperties, UptoStep
  <1> HIDE DEF f
  <1>2. 0 \in Goods
    <2>1. f[0] \in Seq(E) /\ Len(f[0]) = 0
      BY <1>1
    <2>2. KeptAt(kept, gone, 0, f[0], [i \in 1..0 |-> i])
      BY <2>1 DEF KeptAt
    <2>3. Good(0)
      BY <2>1, <2>2
    <2> HIDE DEF Good
    <2>4. QED
      BY <2>3
  <1>3. ASSUME NEW n \in Nat, n \in Goods
        PROVE  n + 1 \in Goods
    <2>1. CASE n + 1 <= Len(kept)
      <3>1. n + 1 \in 1..Len(kept) /\ (n + 1) - 1 = n /\ n <= Len(kept)
        BY <1>1, <2>1
      <3>2. Good(n) /\ kept[n + 1] \in E
        BY <1>3, <3>1, ElementOfSeq
      <3>3. f[n + 1] = IF kept[n + 1] \in gone THEN f[n] ELSE Append(f[n], kept[n + 1])
        BY <1>1, <3>1
      <3> DEFINE s == f[n]
                 e == kept[n + 1]
                 t == Append(s, e)
                 k == Len(s)
      <3>4. s \in Seq(E) /\ k \in Nat
        BY <3>2
      <3>5. PICK g : KeptAt(kept, gone, n, s, g)
        BY <3>2
      <3>6. CASE e \in gone
        <4>1. KeptAt(kept, gone, n + 1, s, g)
          <5> HIDE DEF s, k
          <5>1. g \in [1..Len(s) -> 1..(n + 1)]
            BY <3>5 DEF KeptAt
          <5>2. \A m \in 1..(n + 1) : kept[m] \notin gone => \E i \in 1..Len(s) : g[i] = m
            BY <3>5, <3>6 DEF KeptAt
          <5>3. QED
            BY <3>5, <5>1, <5>2 DEF KeptAt
        <4>2. f[n + 1] = s
          BY <3>3, <3>6
        <4>3. QED
          BY <3>4, <4>1, <4>2
      <3>7. CASE e \notin gone
        <4> DEFINE h == [i \in 1..(k + 1) |-> IF i = k + 1 THEN n + 1 ELSE g[i]]
        <4>1. /\ t \in Seq(E) /\ Len(t) = k + 1 /\ t[k + 1] = e
              /\ \A i \in 1..k : t[i] = s[i]
          BY <3>2, <3>4, AppendProperties
        <4> HIDE DEF s, t, e
        <4>2. /\ g \in [1..k -> 1..n]
              /\ \A i \in 1..k : s[i] = kept[g[i]] /\ kept[g[i]] \notin gone
              /\ \A i, j \in 1..k : i < j => g[i] < g[j]
              /\ \A m \in 1..n : kept[m] \notin gone => \E i \in 1..k : g[i] = m
          BY <3>5 DEF KeptAt
        <4> HIDE DEF k
        <4>3. h[k + 1] = n + 1 /\ \A i \in 1..k : h[i] = g[i]
          BY <3>4
        <4>4. h \in [1..(k + 1) -> 1..(n + 1)]
          BY <3>4, <4>2
        <4> HIDE DEF h
        <4>5. ASSUME NEW i \in 1..(k + 1)
              PROVE  t[i] = kept[h[i]] /\ kept[h[i]] \notin gone
          <5>1. CASE i = k + 1
            BY <3>7, <4>1, <4>3, <5>1 DEF e
          <5>2. CASE i # k + 1
            <6>1. i \in 1..k
              BY <3>4, <5>2
            <6>2. QED
              BY <4>1, <4>2, <4>3, <6>1
          <5>3. QED
            BY <5>1, <5>2
        <4>6. ASSUME NEW i \in 1..(k + 1), NEW j \in 1..(k + 1), i < j
              PROVE  h[i] < h[j]
          <5>1. i \in 1..k /\ g[i] \in 1..n
            BY <3>4, <4>2, <4>6
          <5>2. CASE j = k + 1
            BY <4>3, <5>1, <5>2
          <5>3. CASE j # k + 1
            <6>1. j \in 1..k
              BY <3>4, <5>3
            <6>2. QED
              BY <4>2, <4>3, <4>6, <5>1, <6>1
          <5>4. QED
            BY <5>2, <5>3
        <4>7. ASSUME NEW m \in 1..(n + 1), kept[m] \notin gone
              PROVE  \E i \in 1..(k + 1) : h[i] = m
          <5>1. CASE m = n + 1
            BY <3>4, <4>3, <5>1
          <5>2. CASE m # n + 1
            <6>1. m \in 1..n
              BY <5>2
            <6>2. PICK i \in 1..k : g[i] = m
              BY <4>2, <4>7, <6>1
            <6>3. i \in 1..(k + 1)
              BY <3>4
            <6>4. QED
              BY <4>3, <6>2, <6>3
          <5>3. QED
            BY <5>1, <5>2
        <4>8. KeptAt(kept, gone, n + 1, t, h)
          BY <4>1, <4>4, <4>5, <4>6, <4>7 DEF KeptAt
        <4>9. f[n + 1] = t
          BY <3>3, <3>7 DEF t, s, e
        <4>10. QED
          BY <4>1, <4>8, <4>9
      <3>8. QED
        BY <3>6, <3>7
    <2>2. CASE ~(n + 1 <= Len(kept))
      BY <2>2
    <2>3. QED
      BY <2>1, <2>2
  <1>4. Len(kept) \in Goods
    <2> HIDE DEF Goods
    <2>1. QED
      BY <1>1, <1>2, <1>3, Naturally
  <1>5. QED
    BY <1>1, <1>4
=============================================================================
