----------------------------- MODULE DomProofs -----------------------------
(***************************************************************************)
(* Proofs about the nodes of a document under script: the arena stays a    *)
(* forest, the records of the collector follow it, and a node script can   *)
(* reach keeps its record.                                                 *)
(*                                                                         *)
(* A document is Sound when links agree and there is a depth that grows    *)
(* along every edge from a node to what it owns: this stands for "nothing  *)
(* is below itself", which is not inductive.  What the recursive walks     *)
(* compute is characterised as a least closed set.  Each binding is a      *)
(* borrow that leaves a sound document with the nodes it had (Lawful); the *)
(* records follow the arena but for nodes that are noted, new, or yet to   *)
(* be looked at (FollowInv); and those link only to what is kept alive, or *)
(* what has moved hangs from one new node (KeepInv): that is why no record *)
(* of a node script can reach is given up.                                 *)
(***************************************************************************)
EXTENDS ScriptDom, FiniteSums

(* Recursive functions over a bounded count. *)

\* A step that is taken N times, from a on, within V.
LEMMA Repeated ==
  ASSUME NEW V, NEW a \in V, NEW N \in Nat, NEW F \in [1..N -> [V -> V]]
  PROVE  \E it \in [0..N -> V] :
           it[0] = a /\ \A k \in 1..N : it[k] = F[k][it[k - 1]]
PROOF
  <1> DEFINE Runs(n, it) == /\ it \in [0..n -> V] /\ it[0] = a
                            /\ \A k \in 1..n : it[k] = F[k][it[k - 1]]
             Good == {n \in Nat : n <= N => \E it : Runs(n, it)}
  <1>1. 0 \in Good
    <2>1. Runs(0, [k \in 0..0 |-> a])
      OBVIOUS
    <2>2. QED
      BY <2>1
  <1>2. ASSUME NEW n \in Nat, n \in Good
        PROVE  n + 1 \in Good
    <2>1. SUFFICES ASSUME n + 1 <= N
                   PROVE  \E it : Runs(n + 1, it)
      OBVIOUS
    <2>2. PICK it : Runs(n, it)
      BY <1>2, <2>1
    <2> DEFINE next == [k \in 0..(n + 1) |-> IF k = n + 1 THEN F[n + 1][it[n]] ELSE it[k]]
    <2>3. n + 1 \in 1..N /\ it[n] \in V
      BY <2>1, <2>2
    <2>4. F[n + 1][it[n]] \in V
      BY <2>3
    <2>5. next[n + 1] = F[n + 1][it[n]] /\ \A k \in 0..n : next[k] = it[k] /\ k # n + 1
      OBVIOUS
    <2>6. next \in [0..(n + 1) -> V]
      BY <2>2, <2>4
    <2> HIDE DEF next
    <2>7. ASSUME NEW k \in 1..(n + 1)
          PROVE  next[k] = F[k][next[k - 1]]
      <3>1. CASE k = n + 1
        <4>1. k - 1 = n /\ n \in 0..n
          BY <3>1
        <4>2. QED
          BY <2>5, <3>1, <4>1
      <3>2. CASE k # n + 1
        <4>1. k \in 1..n /\ k - 1 \in 0..n /\ k \in 0..n
          BY <3>2
        <4>2. QED
          BY <2>2, <2>5, <4>1
      <3>3. QED
        BY <3>1, <3>2
    <2>8. Runs(n + 1, next)
      BY <2>2, <2>5, <2>6, <2>7
    <2>9. QED
      BY <2>8
  <1> HIDE DEF Runs
  <1>3. Nat \subseteq Good
    <2> HIDE DEF Good
    <2>1. QED
      BY <1>1, <1>2, Naturally
  <1>4. \E it : Runs(N, it)
    BY <1>3
  <1>5. QED
    BY <1>4 DEF Runs

\* Such a function stays within V, whatever it does outside.
Running(V, a, N, F, it) == it \in [0..N -> V] /\ it[0] = a /\ \A k \in 1..N : it[k] = F[k][it[k - 1]]

LEMMA RepeatedRuns ==
  ASSUME NEW V, NEW a \in V, NEW N \in Nat, NEW F \in [1..N -> [V -> V]]
  PROVE  \E it : Running(V, a, N, F, it)
PROOF
  <1>1. \E it \in [0..N -> V] : it[0] = a /\ \A k \in 1..N : it[k] = F[k][it[k - 1]]
    BY Repeated
  <1>2. QED
    BY <1>1 DEF Running

LEMMA RepeatsWithin ==
  ASSUME NEW V, NEW d, NEW N \in Nat, d[0] \in V,
         \A k \in 1..N : d[k - 1] \in V => d[k] \in V
  PROVE  \A k \in 0..N : d[k] \in V
PROOF
  <1> DEFINE Good == {n \in Nat : n <= N => d[n] \in V}
  <1>1. 0 \in Good
    OBVIOUS
  <1>2. ASSUME NEW n \in Nat, n \in Good
        PROVE  n + 1 \in Good
    <2>1. CASE n + 1 <= N
      <3>1. n + 1 \in 1..N /\ (n + 1) - 1 = n /\ n <= N
        BY <2>1
      <3>2. QED
        BY <1>2, <3>1
    <2>2. CASE ~(n + 1 <= N)
      BY <2>2
    <2>3. QED
      BY <2>1, <2>2
  <1> HIDE DEF Good
  <1>3. Nat \subseteq Good
    BY <1>1, <1>2, Naturally
  <1>4. QED
    BY <1>3 DEF Good

----------------------------------------------------------------------------
(* The least closed set around `start'. *)

Spread(near, S) == S \cup UNION {near[m] : m \in S}
Closed(near, S) == \A m \in S : near[m] \subseteq S
IsClosure(U, near, start, C) ==
  /\ C \in SUBSET U /\ start \subseteq C /\ Closed(near, C)
  /\ \A S \in SUBSET U : start \subseteq S /\ Closed(near, S) => C \subseteq S

LEMMA SpreadTypes ==
  ASSUME NEW U, NEW near \in [U -> SUBSET U], NEW S \in SUBSET U
  PROVE  Spread(near, S) \in SUBSET U /\ S \subseteq Spread(near, S)
         /\ (Spread(near, S) = S => Closed(near, S))
         /\ (Closed(near, S) => Spread(near, S) = S)
BY DEF Spread, Closed

\* As many steps as there are elements reach it: each step that changes
\* anything adds one.
LEMMA Saturates ==
  ASSUME NEW U, IsFiniteSet(U), NEW near \in [U -> SUBSET U], NEW start \in SUBSET U,
         NEW N \in Nat, Cardinality(U) <= N, NEW d, d[0] = start,
         \A k \in 1..N : d[k - 1] \in SUBSET U => d[k] = Spread(near, d[k - 1])
  PROVE  IsClosure(U, near, start, d[N])
PROOF
  <1>1. \A k \in 1..N : d[k - 1] \in SUBSET U => d[k] \in SUBSET U
    BY SpreadTypes
  <1>2. \A k \in 0..N : d[k] \in SUBSET U
    <2> DEFINE V == SUBSET U
    <2>1. d[0] \in V /\ \A k \in 1..N : d[k - 1] \in V => d[k] \in V
      BY <1>1
    <2> HIDE DEF V
    <2>2. \A k \in 0..N : d[k] \in V
      BY <2>1, RepeatsWithin
    <2>3. QED
      BY <2>2 DEF V
  <1>3. ASSUME NEW k \in 1..N
        PROVE  k - 1 \in 0..N /\ k \in 0..N /\ d[k] = Spread(near, d[k - 1])
    BY <1>2
  <1>4. d[N] \in SUBSET U /\ Cardinality(d[N]) \in Nat /\ Cardinality(d[N]) <= N
    <2>1. d[N] \in SUBSET U
      BY <1>2
    <2>2. Cardinality(d[N]) \in Nat /\ Cardinality(U) \in Nat
          /\ Cardinality(d[N]) <= Cardinality(U)
      BY <2>1, FS_Subset, FS_CardinalityType
    <2>3. QED
      BY <2>1, <2>2
  <1>5. Closed(near, d[N])
    <2> DEFINE Good == {n \in Nat : n <= N => Closed(near, d[n]) \/ Cardinality(d[n]) >= n + 1}
    <2>1. 0 \in Good
      <3>1. CASE start = {}
        BY <3>1 DEF Closed
      <3>2. CASE start # {}
        <4>1. IsFiniteSet(start) /\ Cardinality(start) \in Nat /\ Cardinality(start) # 0
          BY <3>2, FS_Subset, FS_CardinalityType, FS_EmptySet
        <4>2. QED
          BY <4>1
      <3>3. QED
        BY <3>1, <3>2
    <2>2. ASSUME NEW n \in Nat, n \in Good
          PROVE  n + 1 \in Good
      <3>1. SUFFICES ASSUME n + 1 <= N
                     PROVE  Closed(near, d[n + 1]) \/ Cardinality(d[n + 1]) >= n + 2
        OBVIOUS
      <3> DEFINE S == d[n]
                 T == d[n + 1]
      <3>2. n + 1 \in 1..N /\ (n + 1) - 1 = n /\ n \in 0..N
        BY <3>1
      <3>3. S \in SUBSET U /\ T = Spread(near, S) /\ T \in SUBSET U
        BY <1>2, <1>3, <3>2, SpreadTypes
      <3>4. Closed(near, S) \/ Cardinality(S) >= n + 1
        BY <2>2, <3>2
      <3> HIDE DEF S, T
      <3>5. CASE Closed(near, S)
        BY <3>3, <3>5, SpreadTypes DEF T
      <3>6. CASE ~Closed(near, S)
        <4>1. S \subseteq T /\ S # T
          BY <3>3, <3>6, SpreadTypes
        <4>2. IsFiniteSet(T) /\ Cardinality(T) \in Nat /\ Cardinality(S) \in Nat
          BY <3>3, FS_Subset, FS_CardinalityType
        <4>3. Cardinality(S) < Cardinality(T)
          BY <4>1, <4>2, FS_Subset
        <4>4. QED
          BY <3>4, <3>6, <4>2, <4>3 DEF T
      <3>7. QED
        BY <3>5, <3>6
    <2> HIDE DEF Good
    <2>3. Nat \subseteq Good
      BY <2>1, <2>2, Naturally
    <2>4. Closed(near, d[N]) \/ Cardinality(d[N]) >= N + 1
      BY <2>3 DEF Good
    <2>5. QED
      BY <1>4, <2>4
  <1>6. ASSUME NEW S \in SUBSET U, start \subseteq S, Closed(near, S)
        PROVE  d[N] \subseteq S
    <2> DEFINE V == SUBSET S
    <2>1. d[0] \in V
      BY <1>6
    <2>2. ASSUME NEW k \in 1..N, d[k - 1] \in V
          PROVE  d[k] \in V
      <3>1. d[k] = Spread(near, d[k - 1])
        BY <1>3
      <3>2. QED
        BY <1>6, <2>2, <3>1 DEF Spread, Closed
    <2> HIDE DEF V
    <2>3. \A k \in 0..N : d[k] \in V
      BY <2>1, <2>2, RepeatsWithin
    <2>4. QED
      BY <2>3 DEF V
  <1>7. start \subseteq d[N]
    <2> DEFINE V == {S \in SUBSET U : start \subseteq S}
    <2>1. d[0] \in V
      OBVIOUS
    <2>2. ASSUME NEW k \in 1..N, d[k - 1] \in V
          PROVE  d[k] \in V
      BY <1>3, <2>2, SpreadTypes
    <2> HIDE DEF V
    <2>3. \A k \in 0..N : d[k] \in V
      BY <2>1, <2>2, RepeatsWithin
    <2>4. QED
      BY <2>3 DEF V
  <1>8. QED
    BY <1>4, <1>5, <1>6, <1>7 DEF IsClosure

Spreads(U, near, start, N, it) ==
  /\ it \in [0..N -> SUBSET U]
  /\ it[0] = start /\ \A k \in 1..N : it[k] = Spread(near, it[k - 1])

\* The recursion that computes it has a solution.
LEMMA SpreadExists ==
  ASSUME NEW U, NEW near \in [U -> SUBSET U], NEW start \in SUBSET U, NEW N \in Nat
  PROVE  \E it : Spreads(U, near, start, N, it)
PROOF
  <1> DEFINE V == SUBSET U
             F == [k \in 1..N |-> [S \in V |-> Spread(near, S)]]
  <1>1. F \in [1..N -> [V -> V]]
    BY SpreadTypes
  <1>2. \A k \in 1..N : \A S \in V : F[k][S] = Spread(near, S)
    OBVIOUS
  <1>3. start \in V
    OBVIOUS
  <1> HIDE DEF F, V
  <1>4. PICK it \in [0..N -> V] : it[0] = start /\ \A k \in 1..N : it[k] = F[k][it[k - 1]]
    BY <1>1, <1>3, Repeated
  <1>5. \A k \in 1..N : it[k - 1] \in V
    BY <1>4
  <1>6. \A k \in 1..N : it[k] = Spread(near, it[k - 1])
    BY <1>2, <1>4, <1>5
  <1>7. QED
    BY <1>4, <1>6 DEF V, Spreads

----------------------------------------------------------------------------
(* Documents and what is below a node. *)

NodeKinds == {"document", "element", "template", "text", "comment", "fragment"}
NodeData  == [kind : NodeKinds, parent : Nat, children : Seq(Nat), contents : Nat]
Documents == [nodes : Seq(NodeData), changed : SUBSET Nat]

\* What n owns: its children and its contents.
Owned(d, n) == ToSet(Kids(d, n)) \cup ({d.nodes[n].contents} \ {None})
Owners(d)   == [n \in Ids(d) |-> Owned(d, n)]

\* No link leaves the arena.
Linking(d) == d \in Documents /\ \A n \in Ids(d) : Owned(d, n) \subseteq Ids(d)

LEMMA ArenaIs ==
  ASSUME NEW d \in Documents
  PROVE  /\ d.nodes \in Seq(NodeData) /\ Len(d.nodes) \in Nat /\ Ids(d) = 1..Len(d.nodes)
         /\ None \notin Ids(d) /\ Ids(d) \subseteq Nat
         /\ IsFiniteSet(Ids(d)) /\ Cardinality(Ids(d)) = Len(d.nodes)
         /\ \A n \in Ids(d) : /\ d.nodes[n] \in NodeData /\ d.nodes[n].kind \in NodeKinds
                              /\ ParentOf(d, n) \in Nat /\ Kids(d, n) \in Seq(Nat)
                              /\ d.nodes[n].contents \in Nat
PROOF
  <1>1. d.nodes \in Seq(NodeData)
    BY DEF Documents
  <1>2. Len(d.nodes) \in Nat /\ Ids(d) = 1..Len(d.nodes)
    BY <1>1, LenProperties DEF Ids
  <1>3. \A n \in Ids(d) : d.nodes[n] \in NodeData
    BY <1>1, <1>2, ElementOfSeq
  <1>4. IsFiniteSet(Ids(d)) /\ Cardinality(Ids(d)) = Len(d.nodes)
    BY <1>2, FS_Interval
  <1>5. QED
    BY <1>1, <1>2, <1>3, <1>4 DEF NodeData, ParentOf, Kids, None

DownOf(d, n, f) ==
  f = [k \in 0..Len(d.nodes) |->
         IF k = 0 THEN {n}
         ELSE LET found == f[k - 1]
              IN  found \cup (UNION {ToSet(Kids(d, m)) : m \in found})
                    \cup ({d.nodes[m].contents : m \in found} \ {None})]

LEMMA BelowIsClosure ==
  ASSUME NEW d, Linking(d), NEW n \in Ids(d)
  PROVE  IsClosure(Ids(d), Owners(d), {n}, Below(d, n))
PROOF
  <1> DEFINE U == Ids(d)
             near == Owners(d)
             N == Len(d.nodes)
             Once(S) == S \cup (UNION {ToSet(Kids(d, m)) : m \in S})
                          \cup ({d.nodes[m].contents : m \in S} \ {None})
             down == CHOOSE f : DownOf(d, n, f)
  <1>1. /\ N \in Nat /\ IsFiniteSet(U) /\ Cardinality(U) = N
        /\ near \in [U -> SUBSET U] /\ {n} \in SUBSET U
    BY ArenaIs DEF Linking, Owners
  <1>2. ASSUME NEW S \in SUBSET U
        PROVE  Once(S) = Spread(near, S)
    <2>1. UNION {near[m] : m \in S}
            = (UNION {ToSet(Kids(d, m)) : m \in S}) \cup ({d.nodes[m].contents : m \in S} \ {None})
      <3>1. \A m \in S : near[m] = Owned(d, m)
        BY DEF Owners
      <3> HIDE DEF near
      <3>2. UNION {near[m] : m \in S} = UNION {Owned(d, m) : m \in S}
        BY <3>1
      <3> DEFINE kids == UNION {ToSet(Kids(d, m)) : m \in S}
                 inside == {d.nodes[m].contents : m \in S} \ {None}
      <3>3. \A x : (\E m \in S : x \in Owned(d, m)) <=> x \in kids \/ x \in inside
        BY DEF Owned
      <3> HIDE DEF kids, inside
      <3>4. UNION {Owned(d, m) : m \in S} = kids \cup inside
        BY <3>3
      <3>5. QED
        BY <3>2, <3>4 DEF kids, inside
    <2>2. QED
      BY <2>1 DEF Spread
  <1>3. \E f : DownOf(d, n, f)
    <2> HIDE DEF near, U, N
    <2> DEFINE start == {n}
    <2>a. start \in SUBSET U
      BY <1>1
    <2> HIDE DEF start
    <2>b. PICK it : Spreads(U, near, start, N, it)
      BY <1>1, <2>a, SpreadExists
    <2>1. /\ it \in [0..N -> SUBSET U]
          /\ it[0] = {n} /\ \A k \in 1..N : it[k] = Spread(near, it[k - 1])
      BY <2>b DEF start, Spreads
    <2>2. ASSUME NEW k \in 0..N
          PROVE  it[k] = IF k = 0 THEN {n} ELSE Once(it[k - 1])
      <3>1. CASE k = 0
        BY <2>1, <3>1
      <3>2. CASE k # 0
        <4>1. k \in 1..N /\ k - 1 \in 0..N
          BY <1>1, <3>2
        <4>2. it[k - 1] \in SUBSET U /\ it[k] = Spread(near, it[k - 1])
          BY <2>1, <4>1
        <4> HIDE DEF Once
        <4>3. QED
          BY <1>2, <3>2, <4>2
      <3>3. QED
        BY <3>1, <3>2
    <2>3. it = [k \in 0..N |-> IF k = 0 THEN {n} ELSE Once(it[k - 1])]
      <3> HIDE DEF Once, N
      <3>1. QED
        BY <2>1, <2>2
    <2>4. QED
      BY <2>3, Zenon DEF DownOf, N
  <1>4. DownOf(d, n, down)
    BY <1>3
  <1>5. Below(d, n) = down[N]
    BY Zenon DEF Below, DownOf
  <1>6. down = [k \in 0..N |-> IF k = 0 THEN {n} ELSE Once(down[k - 1])]
    BY <1>4, Zenon DEF DownOf
  <1> HIDE DEF down, Once, U, near, N
  <1>7. down[0] = {n} /\ \A k \in 1..N : down[k] = Once(down[k - 1])
    <2>1. 0 \in 0..N /\ \A k \in 1..N : k \in 0..N /\ k # 0
      BY <1>1
    <2>2. \A k \in 0..N : down[k] = IF k = 0 THEN {n} ELSE Once(down[k - 1])
      BY <1>6
    <2>3. QED
      BY <2>1, <2>2
  <1>8. \A k \in 1..N : down[k - 1] \in SUBSET U => down[k] = Spread(near, down[k - 1])
    BY <1>2, <1>7
  <1>9. Cardinality(U) <= N
    BY <1>1
  <1>10. IsClosure(U, near, {n}, down[N])
    BY <1>1, <1>7, <1>8, <1>9, Saturates
  <1>11. QED
    BY <1>5, <1>10 DEF U, near

\* In the words of documents.
LEMMA BelowIs ==
  ASSUME NEW d, Linking(d), NEW n \in Ids(d)
  PROVE  /\ Below(d, n) \subseteq Ids(d) /\ n \in Below(d, n)
         /\ \A m \in Below(d, n) : Owned(d, m) \subseteq Below(d, n)
         /\ \A S : n \in S /\ (\A m \in S \cap Ids(d) : Owned(d, m) \subseteq S)
                     => Below(d, n) \subseteq S
PROOF
  <1> DEFINE B == Below(d, n)
  <1>1. /\ B \in SUBSET Ids(d) /\ {n} \subseteq B /\ Closed(Owners(d), B)
        /\ \A S \in SUBSET Ids(d) : {n} \subseteq S /\ Closed(Owners(d), S) => B \subseteq S
    BY BelowIsClosure DEF IsClosure
  <1> HIDE DEF B
  <1>2. \A m \in B : Owned(d, m) \subseteq B
    BY <1>1 DEF Closed, Owners
  <1>3. ASSUME NEW S, n \in S, \A m \in S \cap Ids(d) : Owned(d, m) \subseteq S
        PROVE  B \subseteq S
    <2> DEFINE T == S \cap Ids(d)
    <2>1. T \in SUBSET Ids(d) /\ {n} \subseteq T
      BY <1>3
    <2>2. Closed(Owners(d), T)
      BY <1>3 DEF Closed, Owners, Linking
    <2>3. B \subseteq T
      BY <1>1, <2>1, <2>2
    <2>4. QED
      BY <2>3
  <1>4. QED
    BY <1>1, <1>2, <1>3 DEF B

\* Whatever is below n is n or owned below n.
LEMMA BelowOwned ==
  ASSUME NEW d, Linking(d), NEW n \in Ids(d), NEW m \in Below(d, n), m # n
  PROVE  \E o \in Below(d, n) : m \in Owned(d, o)
PROOF
  <1> DEFINE S == {n} \cup {k \in Ids(d) : \E o \in Below(d, n) : k \in Owned(d, o)}
  <1>1. n \in S /\ S \subseteq Below(d, n)
    BY BelowIs
  <1>2. \A k \in S \cap Ids(d) : Owned(d, k) \subseteq S
    BY <1>1 DEF Linking
  <1> HIDE DEF S
  <1>3. Below(d, n) \subseteq S
    BY <1>1, <1>2, BelowIs
  <1>4. QED
    BY <1>3 DEF S

----------------------------------------------------------------------------
(* Child lists. *)

LEMMA Listed ==
  ASSUME NEW E, NEW s \in Seq(E)
  PROVE  /\ Len(s) \in Nat /\ DOMAIN s = 1..Len(s) /\ ToSet(s) \subseteq E
         /\ (s = <<>>) <=> (ToSet(s) = {})
         /\ \A i \in DOMAIN s : s[i] \in ToSet(s)
PROOF
  <1>1. Len(s) \in Nat /\ DOMAIN s = 1..Len(s) /\ \A i \in 1..Len(s) : s[i] \in E
    BY LenProperties, ElementOfSeq
  <1>2. s = <<>> <=> Len(s) = 0
    BY EmptySeq
  <1>3. ToSet(s) \subseteq E /\ \A i \in 1..Len(s) : s[i] \in ToSet(s)
    BY <1>1 DEF ToSet
  <1>4. CASE Len(s) = 0
    <2>1. ToSet(s) = {}
      BY <1>1, <1>4 DEF ToSet
    <2>2. QED
      BY <1>1, <1>2, <1>3, <1>4, <2>1
  <1>5. CASE Len(s) # 0
    <2>1. 1 \in 1..Len(s)
      BY <1>1, <1>5
    <2>2. s[1] \in ToSet(s)
      BY <1>3, <2>1
    <2>3. QED
      BY <1>1, <1>2, <1>3, <1>5, <2>2
  <1>6. QED
    BY <1>4, <1>5

LEMMA WithoutIs ==
  ASSUME NEW E, NEW s \in Seq(E), NEW gone
  PROVE  /\ Without(s, gone) \in Seq(E) /\ ToSet(Without(s, gone)) = ToSet(s) \ gone
         /\ IsInjective(s) => IsInjective(Without(s, gone))
PROOF
  <1> DEFINE t == Without(s, gone)
             k == Len(t)
             n == Len(s)
  <1>1. PICK g : KeptAt(s, gone, n, t, g)
    BY WithoutPlaces
  <1>2. t \in Seq(E)
    BY WithoutKeeps
  <1>3. k \in Nat /\ DOMAIN t = 1..k /\ n \in Nat /\ DOMAIN s = 1..n
    BY <1>2, LenProperties
  <1> HIDE DEF t
  <1>4. /\ g \in [1..k -> 1..n]
        /\ \A i \in 1..k : t[i] = s[g[i]] /\ s[g[i]] \notin gone
        /\ \A i, j \in 1..k : i < j => g[i] < g[j]
        /\ \A m \in 1..n : s[m] \notin gone => \E i \in 1..k : g[i] = m
    BY <1>1 DEF KeptAt
  <1> HIDE DEF k, n
  <1>5. ToSet(t) = ToSet(s) \ gone
    <2>1. \A x \in ToSet(t) : x \in ToSet(s) \ gone
      BY <1>3, <1>4 DEF ToSet
    <2>2. ASSUME NEW x \in ToSet(s) \ gone
          PROVE  x \in ToSet(t)
      <3>1. PICK m \in 1..n : s[m] = x
        BY <1>3 DEF ToSet
      <3>2. PICK i \in 1..k : g[i] = m
        BY <1>4, <3>1
      <3>3. QED
        BY <1>3, <1>4, <3>1, <3>2 DEF ToSet
    <2>3. QED
      BY <2>1, <2>2
  <1>6. ASSUME IsInjective(s), NEW i \in 1..k, NEW j \in 1..k, t[i] = t[j]
        PROVE  i = j
    <2>1. g[i] = g[j]
      BY <1>3, <1>4, <1>6 DEF IsInjective
    <2>2. g[i] \in Nat /\ g[j] \in Nat /\ ~(g[i] < g[j]) /\ ~(g[j] < g[i])
      BY <1>3, <1>4, <2>1
    <2>3. i \in Nat /\ j \in Nat
      OBVIOUS
    <2>4. QED
      BY <1>4, <2>2, <2>3
  <1>7. QED
    BY <1>2, <1>3, <1>5, <1>6 DEF IsInjective, t

LEMMA JoinedIs ==
  ASSUME NEW E, NEW s \in Seq(E), NEW t \in Seq(E)
  PROVE  /\ s \o t \in Seq(E) /\ ToSet(s \o t) = ToSet(s) \cup ToSet(t)
         /\ IsInjective(s) /\ IsInjective(t) /\ ToSet(s) \cap ToSet(t) = {}
              => IsInjective(s \o t)
PROOF
  <1> DEFINE u == s \o t
             m == Len(s)
             n == Len(t)
  <1>1. /\ u \in Seq(E) /\ Len(u) = m + n /\ DOMAIN u = 1..(m + n)
        /\ m \in Nat /\ n \in Nat /\ DOMAIN s = 1..m /\ DOMAIN t = 1..n
        /\ \A i \in 1..(m + n) : u[i] = IF i <= m THEN s[i] ELSE t[i - m]
    BY ConcatProperties, LenProperties
  <1> HIDE DEF u, m, n
  <1>2. ASSUME NEW i \in 1..(m + n)
        PROVE  \/ i \in 1..m /\ u[i] = s[i] /\ u[i] \in ToSet(s)
               \/ i \notin 1..m /\ i - m \in 1..n /\ u[i] = t[i - m] /\ u[i] \in ToSet(t)
    <2>1. CASE i <= m
      <3>1. i \in 1..m /\ u[i] = s[i]
        BY <1>1, <2>1
      <3>2. QED
        BY <1>1, <3>1 DEF ToSet
    <2>2. CASE ~(i <= m)
      <3>1. i \notin 1..m /\ i - m \in 1..n /\ u[i] = t[i - m]
        BY <1>1, <2>2
      <3>2. QED
        BY <1>1, <3>1 DEF ToSet
    <2>3. QED
      BY <2>1, <2>2
  <1>3. ASSUME NEW i \in 1..m
        PROVE  i \in 1..(m + n) /\ u[i] = s[i]
    BY <1>1
  <1>4. ASSUME NEW i \in 1..n
        PROVE  i + m \in 1..(m + n) /\ u[i + m] = t[i]
    <2>1. i \in Nat /\ i + m \in 1..(m + n) /\ ~(i + m <= m) /\ (i + m) - m = i
      BY <1>1
    <2>2. QED
      BY <1>1, <2>1
  <1>5. ToSet(u) = ToSet(s) \cup ToSet(t)
    <2>1. ToSet(u) \subseteq ToSet(s) \cup ToSet(t)
      BY <1>1, <1>2 DEF ToSet
    <2>2. ToSet(s) \subseteq ToSet(u)
      BY <1>1, <1>3 DEF ToSet
    <2>3. ToSet(t) \subseteq ToSet(u)
      BY <1>1, <1>4 DEF ToSet
    <2>4. QED
      BY <2>1, <2>2, <2>3
  <1>6. ASSUME IsInjective(s), IsInjective(t), ToSet(s) \cap ToSet(t) = {},
               NEW i \in 1..(m + n), NEW j \in 1..(m + n), u[i] = u[j]
        PROVE  i = j
    <2>1. CASE i \in 1..m /\ j \in 1..m
      BY <1>1, <1>2, <1>6, <2>1 DEF IsInjective
    <2>2. CASE i \notin 1..m /\ j \notin 1..m
      <3>1. i - m \in 1..n /\ j - m \in 1..n /\ t[i - m] = t[j - m]
        BY <1>2, <1>6, <2>2
      <3>2. i - m = j - m
        BY <1>1, <1>6, <3>1 DEF IsInjective
      <3>3. QED
        BY <1>1, <3>2
    <2>3. CASE (i \in 1..m /\ j \notin 1..m) \/ (i \notin 1..m /\ j \in 1..m)
      <3>1. u[i] \in ToSet(s) \cap ToSet(t)
        BY <1>2, <1>6, <2>3
      <3>2. QED
        BY <1>6, <3>1
    <2>4. QED
      BY <2>1, <2>2, <2>3
  <1>7. QED
    BY <1>1, <1>5, <1>6 DEF IsInjective, u

LEMMA PartIs ==
  ASSUME NEW E, NEW s \in Seq(E), NEW a \in 1..(Len(s) + 1), NEW b \in 0..Len(s)
  PROVE  LET t == SubSeq(s, a, b)
         IN  /\ t \in Seq(E) /\ ToSet(t) = {s[i] : i \in a..b}
             /\ IsInjective(s) => IsInjective(t)
PROOF
  <1> DEFINE t == SubSeq(s, a, b)
             n == Len(s)
             k == IF a <= b THEN b - a + 1 ELSE 0
  <1>1. n \in Nat /\ DOMAIN s = 1..n
    BY LenProperties
  <1>2. t \in Seq(E) /\ Len(t) = k /\ DOMAIN t = 1..k
    BY <1>1, SubSeqProperties, LenProperties
  <1>3. \A i \in 1..k : t[i] = s[a + i - 1]
    BY <1>1, SubSeqProperties
  <1> HIDE DEF t
  <1>4. ToSet(t) = {s[i] : i \in a..b}
    <2>1. \A i \in 1..k : a + i - 1 \in a..b
      BY <1>1
    <2>2. \A i \in a..b : i - a + 1 \in 1..k /\ a + (i - a + 1) - 1 = i
      BY <1>1
    <2> HIDE DEF k
    <2>3. ToSet(t) \subseteq {s[i] : i \in a..b}
      BY <1>2, <1>3, <2>1 DEF ToSet
    <2>4. \A i \in a..b : s[i] \in ToSet(t)
      BY <1>2, <1>3, <2>2 DEF ToSet
    <2>5. QED
      BY <2>3, <2>4
  <1>5. ASSUME IsInjective(s), NEW i \in 1..k, NEW j \in 1..k, t[i] = t[j]
        PROVE  i = j
    <2>1. a + i - 1 \in 1..n /\ a + j - 1 \in 1..n
      BY <1>1
    <2>2. s[a + i - 1] = s[a + j - 1]
      BY <1>3, <1>5
    <2>3. a + i - 1 = a + j - 1
      BY <1>1, <1>5, <2>1, <2>2 DEF IsInjective
    <2>4. QED
      BY <2>3
  <1>6. QED
    BY <1>2, <1>4, <1>5 DEF IsInjective, t

\* An insertion into a list, wherever.
LEMMA SplicedIs ==
  ASSUME NEW E, NEW s \in Seq(E), NEW some \in Seq(E), NEW before
  PROVE  LET t == Spliced(s, before, some)
         IN  /\ t \in Seq(E) /\ ToSet(t) = ToSet(s) \cup ToSet(some)
             /\ IsInjective(s) /\ IsInjective(some) /\ ToSet(s) \cap ToSet(some) = {}
                  => IsInjective(t)
PROOF
  <1> DEFINE at == CHOOSE i \in DOMAIN s : s[i] = before
             n == Len(s)
             l == SubSeq(s, 1, at - 1)
             r == SubSeq(s, at, n)
  <1>1. CASE before \notin ToSet(s)
    BY <1>1, JoinedIs DEF Spliced
  <1>2. CASE before \in ToSet(s)
    <2>1. n \in Nat /\ DOMAIN s = 1..n
      BY LenProperties
    <2>2. at \in 1..n
      BY <1>2, <2>1 DEF ToSet
    <2>3. Spliced(s, before, some) = (l \o some) \o r
      BY <1>2 DEF Spliced
    <2> HIDE DEF at
    <2>4. 1 \in 1..(n + 1) /\ at - 1 \in 0..n /\ at \in 1..(n + 1) /\ n \in 0..n
      BY <2>1, <2>2
    <2>5. /\ l \in Seq(E) /\ ToSet(l) = {s[i] : i \in 1..(at - 1)}
          /\ IsInjective(s) => IsInjective(l)
      BY <2>4, PartIs
    <2>6. /\ r \in Seq(E) /\ ToSet(r) = {s[i] : i \in at..n}
          /\ IsInjective(s) => IsInjective(r)
      BY <2>4, PartIs
    <2> HIDE DEF l, r
    <2>7. ToSet(l) \cup ToSet(r) = ToSet(s)
      <3>1. \A i \in 1..n : i \in 1..(at - 1) \/ i \in at..n
        BY <2>1, <2>2
      <3>2. \A i \in 1..(at - 1) : i \in 1..n
        BY <2>1, <2>2
      <3>3. \A i \in at..n : i \in 1..n
        BY <2>1, <2>2
      <3>4. QED
        BY <2>1, <2>5, <2>6, <3>1, <3>2, <3>3 DEF ToSet
    <2>8. IsInjective(s) => ToSet(l) \cap ToSet(r) = {}
      <3>1. ASSUME IsInjective(s), NEW i \in 1..(at - 1), NEW j \in at..n, s[i] = s[j]
            PROVE  FALSE
        BY <2>1, <2>2, <3>1 DEF IsInjective
      <3>2. QED
        BY <2>5, <2>6, <3>1
    <2>9. /\ l \o some \in Seq(E) /\ ToSet(l \o some) = ToSet(l) \cup ToSet(some)
          /\ IsInjective(l) /\ IsInjective(some) /\ ToSet(l) \cap ToSet(some) = {}
               => IsInjective(l \o some)
      BY <2>5, JoinedIs
    <2> DEFINE h == l \o some
    <2> HIDE DEF h
    <2>10. /\ h \o r \in Seq(E) /\ ToSet(h \o r) = ToSet(h) \cup ToSet(r)
           /\ IsInjective(h) /\ IsInjective(r) /\ ToSet(h) \cap ToSet(r) = {}
                => IsInjective(h \o r)
      BY <2>6, <2>9, JoinedIs DEF h
    <2>11. ToSet(h \o r) = ToSet(s) \cup ToSet(some)
      BY <2>7, <2>9, <2>10 DEF h
    <2>12. ASSUME IsInjective(s), IsInjective(some), ToSet(s) \cap ToSet(some) = {}
           PROVE  IsInjective(h \o r)
      <3>1. ToSet(l) \subseteq ToSet(s) /\ ToSet(r) \subseteq ToSet(s)
        BY <2>7
      <3>2. ToSet(h) \cap ToSet(r) = {} /\ IsInjective(h)
        BY <2>5, <2>8, <2>9, <2>12, <3>1 DEF h
      <3>3. QED
        BY <2>6, <2>10, <2>12, <3>2
    <2>13. QED
      BY <2>3, <2>10, <2>11, <2>12 DEF h
  <1>3. QED
    BY <1>1, <1>2

----------------------------------------------------------------------------
(* A sound document, and what keeps it so. *)

\* Each node is deeper than whoever owns it.
Deepens(d, depth) ==
  /\ depth \in [Ids(d) -> Nat]
  /\ \A n \in Ids(d) : \A m \in Owned(d, n) : depth[n] < depth[m]

\* The child list of n holds exactly the nodes that name n as their parent.
ListsChildren(d, n) ==
  /\ IsInjective(Kids(d, n))
  /\ ToSet(Kids(d, n)) = {m \in Ids(d) : ParentOf(d, m) = n}

Placed(d, n) ==
  ParentOf(d, n) # None =>
    ParentOf(d, n) \in Ids(d) /\ IsParent(d, ParentOf(d, n)) /\ IsChild(d, n)

Hosts(d, n) ==
  d.nodes[n].contents # None =>
    /\ d.nodes[n].contents \in Ids(d)
    /\ d.nodes[n].kind = "template" /\ IsFragment(d, d.nodes[n].contents)
    /\ \A m \in Ids(d) \ {n} : d.nodes[m].contents # d.nodes[n].contents

\* One element at most, and no text.
TopOK(d) ==
  /\ \A m, n \in ToSet(Kids(d, Root)) : IsElement(d, m) /\ IsElement(d, n) => m = n
  /\ \A n \in ToSet(Kids(d, Root)) : d.nodes[n].kind # "text"

Sound(d) ==
  /\ d \in Documents /\ d.changed \subseteq Ids(d)
  /\ Root \in Ids(d) /\ d.nodes[Root].kind = "document"
  /\ \A n \in Ids(d) : ListsChildren(d, n) /\ Placed(d, n) /\ Hosts(d, n)
  /\ \E depth : Deepens(d, depth)
  /\ TopOK(d)

LEMMA SoundLinks ==
  ASSUME NEW d, Sound(d)
  PROVE  Linking(d) /\ \A n \in Ids(d) : ToSet(Kids(d, n)) \subseteq Ids(d)
BY DEF Sound, Linking, Owned, ListsChildren, Hosts

\* Nothing is below what it owns.
LEMMA SoundIsAcyclic ==
  ASSUME NEW d, Sound(d), NEW n \in Ids(d), NEW m \in Owned(d, n)
  PROVE  n \notin Below(d, m)
PROOF
  <1>1. PICK depth : Deepens(d, depth)
    BY DEF Sound
  <1>2. m \in Ids(d) /\ Linking(d)
    BY SoundLinks DEF Linking
  <1> DEFINE S == {k \in Ids(d) : depth[m] <= depth[k]}
  <1>3. depth[n] \in Nat /\ depth[m] \in Nat /\ depth[n] < depth[m]
    BY <1>1, <1>2 DEF Deepens
  <1>4. m \in S
    BY <1>2, <1>3
  <1>5. ASSUME NEW k \in S \cap Ids(d), NEW o \in Owned(d, k)
        PROVE  o \in S
    <2>1. o \in Ids(d) /\ depth[k] < depth[o] /\ depth[k] \in Nat /\ depth[o] \in Nat
      BY <1>1, <1>2 DEF Deepens, Linking
    <2>2. QED
      BY <1>3, <2>1
  <1>6. n \notin S
    BY <1>3
  <1> HIDE DEF S
  <1>7. Below(d, m) \subseteq S
    BY <1>2, <1>4, <1>5, BelowIs
  <1>8. QED
    BY <1>6, <1>7

\* What the properties say of it.
LEMMA SoundIsForest ==
  ASSUME NEW d, Sound(d)
  PROVE  IsForest(d)
PROOF
  <1>1. /\ d \in Documents /\ Root \in Ids(d) /\ Linking(d)
        /\ \A n \in Ids(d) : ListsChildren(d, n) /\ Placed(d, n) /\ Hosts(d, n)
    BY SoundLinks DEF Sound
  <1>2. ASSUME NEW n \in Ids(d)
        PROVE  /\ IsInjective(Kids(d, n))
               /\ ToSet(Kids(d, n)) = {m \in Ids(d) : ParentOf(d, m) = n}
               /\ Kids(d, n) # <<>> => IsParent(d, n)
               /\ \A m \in ToSet(Kids(d, n)) \cup ({d.nodes[n].contents} \ {None}) :
                    n \notin Below(d, m)
               /\ ~IsChild(d, n) => ParentOf(d, n) = None
               /\ d.nodes[n].contents # None =>
                    /\ d.nodes[n].kind = "template"
                    /\ IsFragment(d, d.nodes[n].contents)
                    /\ \A m \in Ids(d) \ {n} : d.nodes[m].contents # d.nodes[n].contents
    <2>1. ListsChildren(d, n) /\ Placed(d, n) /\ Hosts(d, n)
      BY <1>1
    <2>2. Kids(d, n) # <<>> => IsParent(d, n)
      <3>1. SUFFICES ASSUME Kids(d, n) # <<>>
                     PROVE  IsParent(d, n)
        OBVIOUS
      <3>2. Kids(d, n) \in Seq(Nat) /\ n # None
        BY <1>1, ArenaIs
      <3>3. ToSet(Kids(d, n)) # {}
        BY <3>1, <3>2, Listed
      <3>4. PICK m \in Ids(d) : ParentOf(d, m) = n
        BY <2>1, <3>3 DEF ListsChildren
      <3>5. QED
        BY <1>1, <3>2, <3>4 DEF Placed
    <2>3. \A m \in Owned(d, n) : n \notin Below(d, m)
      BY SoundIsAcyclic
    <2>4. QED
      BY <2>1, <2>2, <2>3 DEF Owned, ListsChildren, Placed, Hosts
  <1>3. Cardinality({n \in ToSet(Kids(d, Root)) : IsElement(d, n)}) <= 1
    <2> DEFINE some == {n \in ToSet(Kids(d, Root)) : IsElement(d, n)}
    <2>1. \A m, n \in some : m = n
      BY DEF Sound, TopOK
    <2> HIDE DEF some
    <2>2. CASE some = {}
      BY <2>2, FS_EmptySet DEF some
    <2>3. CASE some # {}
      <3>1. PICK x : some = {x}
        BY <2>1, <2>3
      <3>2. Cardinality(some) = 1
        BY <3>1, FS_Singleton
      <3>3. QED
        BY <3>2 DEF some
    <2>4. QED
      BY <2>2, <2>3
  <1>4. \A n \in ToSet(Kids(d, Root)) : d.nodes[n].kind # "text"
    BY DEF Sound, TopOK
  <1>5. QED
    BY <1>2, <1>3, <1>4 DEF IsForest

\* The same nodes with other links.
Same(d, e) ==
  /\ e \in Documents /\ Ids(e) = Ids(d)
  /\ \A n \in Ids(d) : /\ e.nodes[n].kind = d.nodes[n].kind
                       /\ e.nodes[n].contents = d.nodes[n].contents

LEMMA KindsSame ==
  ASSUME NEW d, NEW e, Same(d, e), NEW n \in Ids(d)
  PROVE  /\ IsElement(e, n) = IsElement(d, n) /\ IsFragment(e, n) = IsFragment(d, n)
         /\ IsParent(e, n) = IsParent(d, n) /\ IsChild(e, n) = IsChild(d, n)
BY DEF Same, IsElement, IsFragment, IsParent, IsChild

LEMMA HostsSame ==
  ASSUME NEW d, NEW e, Same(d, e), \A n \in Ids(d) : Hosts(d, n)
  PROVE  \A n \in Ids(e) : Hosts(e, n)
BY KindsSame DEF Same, Hosts

\* Nodes are taken off p.
Taken(d, e, p, gone) ==
  /\ Same(d, e) /\ p \in Ids(d) /\ gone = {n \in gone : n \in Ids(d) /\ ParentOf(d, n) = p}
  /\ e.changed = d.changed \cup gone
  /\ \A n \in Ids(d) :
       /\ ParentOf(e, n) = IF n \in gone THEN None ELSE ParentOf(d, n)
       /\ Kids(e, n) = IF n = p THEN Without(Kids(d, p), gone) ELSE Kids(d, n)

\* e has no owner that d has not.
Fewer(d, e) == Same(d, e) /\ \A n \in Ids(d) : Owned(e, n) \subseteq Owned(d, n)

LEMMA TakenKeeps ==
  ASSUME NEW d, NEW e, NEW p, NEW gone, Sound(d), Taken(d, e, p, gone)
  PROVE  Sound(e) /\ Fewer(d, e)
PROOF
  <1>1. /\ Same(d, e) /\ p \in Ids(d) /\ gone \subseteq Ids(d) /\ Ids(e) = Ids(d)
        /\ \A n \in gone : ParentOf(d, n) = p
        /\ e.changed = d.changed \cup gone
    BY DEF Taken, Same
  <1>2. \A n \in Ids(d) :
          /\ ParentOf(e, n) = IF n \in gone THEN None ELSE ParentOf(d, n)
          /\ Kids(e, n) = IF n = p THEN Without(Kids(d, p), gone) ELSE Kids(d, n)
    BY DEF Taken
  <1>3. /\ d \in Documents /\ d.changed \subseteq Ids(d)
        /\ Root \in Ids(d) /\ d.nodes[Root].kind = "document"
        /\ \A n \in Ids(d) : ListsChildren(d, n) /\ Placed(d, n) /\ Hosts(d, n)
        /\ TopOK(d)
    BY DEF Sound
  <1>4. \A n \in Ids(d) : Kids(d, n) \in Seq(Nat) /\ n # None
    BY <1>3, ArenaIs
  <1>5. ASSUME NEW n \in Ids(d)
        PROVE  /\ IsInjective(Kids(e, n))
               /\ ToSet(Kids(e, n)) = ToSet(Kids(d, n)) \ gone
    <2>1. Kids(d, n) \in Seq(Nat) /\ IsInjective(Kids(d, n)) /\ ListsChildren(d, n)
      BY <1>3, <1>4 DEF ListsChildren
    <2>2. CASE n = p
      BY <1>2, <2>1, <2>2, WithoutIs
    <2>3. CASE n # p
      <3>1. ToSet(Kids(d, n)) \cap gone = {}
        BY <1>1, <2>1, <2>3 DEF ListsChildren
      <3>2. QED
        BY <1>2, <2>1, <2>3, <3>1
    <2>4. QED
      BY <2>2, <2>3
  <1>6. \A n \in Ids(d) : ListsChildren(e, n)
    BY <1>1, <1>2, <1>3, <1>4, <1>5 DEF ListsChildren
  <1>7. \A n \in Ids(d) : Placed(e, n)
    <2>1. \A n \in Ids(d) : ParentOf(e, n) # None => ParentOf(e, n) = ParentOf(d, n)
      BY <1>2
    <2>2. QED
      BY <1>1, <1>3, <2>1, KindsSame DEF Placed
  <1>8. Fewer(d, e)
    BY <1>1, <1>5 DEF Fewer, Owned, Same
  <1>9. \E depth : Deepens(e, depth)
    <2>1. PICK depth : Deepens(d, depth)
      BY DEF Sound
    <2>2. Deepens(e, depth)
      BY <1>1, <1>8, <2>1 DEF Deepens, Fewer
    <2>3. QED
      BY <2>2
  <1>10. TopOK(e)
    <2>1. ToSet(Kids(e, Root)) \subseteq ToSet(Kids(d, Root)) /\ ToSet(Kids(d, Root)) \subseteq Ids(d)
      BY <1>3, <1>5 DEF ListsChildren
    <2>2. QED
      BY <1>1, <1>3, <2>1, KindsSame DEF TopOK, Same
  <1>11. \A n \in Ids(e) : Hosts(e, n)
    BY <1>1, <1>3, HostsSame
  <1>12. e.nodes[Root].kind = "document" /\ e \in Documents
    BY <1>1, <1>3 DEF Same
  <1>13. QED
    BY <1>1, <1>3, <1>6, <1>7, <1>8, <1>9, <1>10, <1>11, <1>12 DEF Sound

----------------------------------------------------------------------------
(* Taking nodes off. *)

LEMMA ArenaMade ==
  ASSUME NEW N \in Nat, NEW e, e = [nodes |-> e.nodes, changed |-> e.changed],
         e.nodes \in [1..N -> NodeData], e.changed \in SUBSET Nat
  PROVE  e \in Documents /\ Ids(e) = 1..N /\ Len(e.nodes) = N
BY DEF Documents, Ids

LEMMA NotOwnChild ==
  ASSUME NEW d, Sound(d), NEW n \in Ids(d)
  PROVE  ParentOf(d, n) # n /\ n \notin Owned(d, n)
PROOF
  <1>1. n \notin Owned(d, n)
    <2>1. SUFFICES ASSUME n \in Owned(d, n)
                   PROVE  FALSE
      OBVIOUS
    <2>2. n \notin Below(d, n) /\ n \in Below(d, n)
      BY <2>1, SoundIsAcyclic, SoundLinks, BelowIs
    <2>3. QED
      BY <2>2
  <1>2. ParentOf(d, n) # n
    <2>1. ToSet(Kids(d, n)) = {m \in Ids(d) : ParentOf(d, m) = n}
      BY DEF Sound, ListsChildren
    <2>2. QED
      BY <1>1, <2>1 DEF Owned
  <1>3. QED
    BY <1>1, <1>2

LEMMA DetachedAllIs ==
  ASSUME NEW d, Sound(d), NEW p \in Ids(d), NEW some \in SUBSET Ids(d)
  PROVE  Taken(d, DetachedAll(d, p, some), p, {n \in some : ParentOf(d, n) = p})
PROOF
  <1> DEFINE gone == {n \in some : ParentOf(d, n) = p}
             N == Len(d.nodes)
             f == [n \in Ids(d) |->
                     IF n \in gone THEN [d.nodes[n] EXCEPT !.parent = None]
                     ELSE IF n = p THEN [d.nodes[n] EXCEPT !.children = Without(@, gone)]
                     ELSE d.nodes[n]]
             e == DetachedAll(d, p, some)
  <1>1. /\ d \in Documents /\ Ids(d) = 1..N /\ N \in Nat /\ Ids(d) \subseteq Nat
        /\ \A n \in Ids(d) : d.nodes[n] \in NodeData /\ Kids(d, n) \in Seq(Nat)
        /\ d.changed \cup gone \in SUBSET Nat
    BY ArenaIs DEF Sound
  <1>2. e = [nodes |-> f, changed |-> d.changed \cup gone]
    BY DEF DetachedAll
  <1>3. ParentOf(d, p) # p
    BY NotOwnChild
  <1>4. Without(Kids(d, p), gone) \in Seq(Nat)
    BY <1>1, WithoutIs
  <1>5. \A n \in Ids(d) :
          /\ f[n].kind = d.nodes[n].kind /\ f[n].contents = d.nodes[n].contents
          /\ f[n].parent = IF n \in gone THEN None ELSE d.nodes[n].parent
          /\ f[n].children = IF n = p THEN Without(Kids(d, p), gone) ELSE d.nodes[n].children
          /\ f[n] \in NodeData
    BY <1>1, <1>3, <1>4 DEF NodeData, Kids, ParentOf, None
  <1>6. f \in [1..N -> NodeData]
    BY <1>1, <1>5
  <1> HIDE DEF f, gone, e
  <1>7. e \in Documents /\ Ids(e) = Ids(d) /\ e.nodes = f /\ e.changed = d.changed \cup gone
    <2>1. e = [nodes |-> e.nodes, changed |-> e.changed]
          /\ e.nodes = f /\ e.changed = d.changed \cup gone
      BY <1>2
    <2>2. QED
      BY <1>1, <1>6, <2>1, ArenaMade
  <1>8. Same(d, e)
    BY <1>5, <1>7 DEF Same
  <1>9. gone = {n \in gone : n \in Ids(d) /\ ParentOf(d, n) = p}
    BY DEF gone
  <1>10. Taken(d, e, p, gone)
    BY <1>5, <1>7, <1>8, <1>9 DEF Taken, ParentOf, Kids
  <1>11. QED
    BY <1>10 DEF gone, e

LEMMA DetachedIs ==
  ASSUME NEW d, Sound(d), NEW n \in Ids(d), ParentOf(d, n) # None
  PROVE  Taken(d, Detached(d, n), ParentOf(d, n), {n})
PROOF
  <1> DEFINE p == ParentOf(d, n)
             N == Len(d.nodes)
             f == [d.nodes EXCEPT ![p].children = Without(@, {n}), ![n].parent = None]
             e == Detached(d, n)
  <1>1. /\ d \in Documents /\ Ids(d) = 1..N /\ N \in Nat /\ Ids(d) \subseteq Nat
        /\ \A k \in Ids(d) : d.nodes[k] \in NodeData /\ Kids(d, k) \in Seq(Nat)
        /\ d.nodes \in Seq(NodeData) /\ d.changed \cup {n} \in SUBSET Nat
    BY ArenaIs DEF Sound
  <1>2. e = [nodes |-> f, changed |-> d.changed \cup {n}]
    BY DEF Detached
  <1>3. p \in Ids(d) /\ p # n
    BY NotOwnChild DEF Sound, Placed
  <1>4. Without(Kids(d, p), {n}) \in Seq(Nat)
    BY <1>1, <1>3, WithoutIs
  <1> DEFINE r == Without(Kids(d, p), {n})
             a == [d.nodes[p] EXCEPT !.children = r]
             b == [d.nodes[n] EXCEPT !.parent = None]
             g == [d.nodes EXCEPT ![p] = a]
  <1> HIDE DEF p
  <1>5. f = [k \in 1..N |-> IF k = n THEN b ELSE IF k = p THEN a ELSE d.nodes[k]]
    <2>1. DOMAIN d.nodes = 1..N
      BY <1>1 DEF Ids
    <2>2. g = [k \in 1..N |-> IF k = p THEN a ELSE d.nodes[k]]
      <3> HIDE DEF a
      <3>1. QED
        BY <2>1
    <2>3. f = [g EXCEPT ![n].parent = None]
      BY DEF Kids
    <2>4. g[n] = d.nodes[n]
      <3> HIDE DEF a, g
      <3>1. QED
        BY <1>1, <1>3, <2>2
    <2>5. f = [g EXCEPT ![n] = b]
      <3> HIDE DEF g, f
      <3>1. QED
        BY <2>3, <2>4
    <2> HIDE DEF a, b, g, f
    <2>6. QED
      BY <2>2, <2>5
  <1> HIDE DEF f, r
  <1>6. \A k \in Ids(d) :
          /\ f[k].kind = d.nodes[k].kind /\ f[k].contents = d.nodes[k].contents
          /\ f[k].parent = IF k \in {n} THEN None ELSE d.nodes[k].parent
          /\ f[k].children = IF k = p THEN r ELSE d.nodes[k].children
          /\ f[k] \in NodeData
    <2>1. /\ d.nodes[n] \in NodeData /\ d.nodes[p] \in NodeData /\ r \in Seq(Nat)
          /\ n \in 1..N /\ p \in 1..N /\ Ids(d) = 1..N
      BY <1>1, <1>3, <1>4 DEF r
    <2>2. /\ b.kind = d.nodes[n].kind /\ b.contents = d.nodes[n].contents
          /\ b.parent = None /\ b.children = d.nodes[n].children /\ b \in NodeData
      BY <2>1 DEF NodeData, None
    <2>3. /\ a.kind = d.nodes[p].kind /\ a.contents = d.nodes[p].contents
          /\ a.parent = d.nodes[p].parent /\ a.children = r /\ a \in NodeData
      BY <2>1 DEF NodeData
    <2> HIDE DEF a, b
    <2>4. \A k \in 1..N : f[k] = IF k = n THEN b ELSE IF k = p THEN a ELSE d.nodes[k]
      BY <1>5
    <2>5. QED
      BY <1>1, <1>3, <2>1, <2>2, <2>3, <2>4
  <1>7. f \in [1..N -> NodeData]
    <2> HIDE DEF a, b
    <2>1. QED
      BY <1>1, <1>5, <1>6
  <1> HIDE DEF e
  <1>8. e \in Documents /\ Ids(e) = Ids(d) /\ e.nodes = f /\ e.changed = d.changed \cup {n}
    <2>1. e = [nodes |-> e.nodes, changed |-> e.changed]
          /\ e.nodes = f /\ e.changed = d.changed \cup {n}
      BY <1>2
    <2>2. QED
      BY <1>1, <1>7, <2>1, ArenaMade
  <1>9. Same(d, e)
    BY <1>6, <1>8 DEF Same
  <1>10. {n} = {k \in {n} : k \in Ids(d) /\ ParentOf(d, k) = p}
    BY DEF p
  <1>11. Taken(d, e, p, {n})
    BY <1>3, <1>6, <1>8, <1>9, <1>10 DEF Taken, ParentOf, Kids, r
  <1>12. QED
    BY <1>11 DEF p, e

LEMMA SameSelf == ASSUME NEW d \in Documents PROVE Same(d, d) /\ Fewer(d, d)
BY DEF Same, Fewer

LEMMA DetachedKeeps ==
  ASSUME NEW d, Sound(d), NEW n \in Ids(d)
  PROVE  LET e == Detached(d, n)
         IN  /\ Sound(e) /\ Fewer(d, e) /\ ParentOf(e, n) = None
             /\ Kids(e, n) = Kids(d, n)
             /\ \A k \in Ids(d) \ {n} : ParentOf(e, k) = ParentOf(d, k)
PROOF
  <1> DEFINE e == Detached(d, n)
             p == ParentOf(d, n)
  <1>1. CASE p = None
    <2>1. e = d /\ d \in Documents
      BY <1>1 DEF Detached, Sound
    <2>2. QED
      BY <1>1, <2>1, SameSelf
  <1>2. CASE p # None
    <2>1. Taken(d, e, p, {n}) /\ p # n
      BY <1>2, DetachedIs, NotOwnChild
    <2>2. Sound(e) /\ Fewer(d, e)
      BY <2>1, TakenKeeps
    <2> HIDE DEF e
    <2>3. QED
      BY <2>1, <2>2 DEF Taken, e
  <1>3. QED
    BY <1>1, <1>2

----------------------------------------------------------------------------
(* Putting a node in. *)

PutIn(d, e, p, n, before) ==
  /\ Same(d, e)
  /\ e.changed = d.changed \cup ToSet(Moved(d, n))
  /\ \A k \in Ids(d) :
       /\ ParentOf(e, k) = IF k \in ToSet(Moved(d, n)) THEN p ELSE ParentOf(d, k)
       /\ Kids(e, k) = IF k = p THEN Spliced(Kids(d, p), before, Moved(d, n))
                       ELSE IF k = n /\ IsFragment(d, n) THEN <<>> ELSE Kids(d, k)

LEMMA MovedAre ==
  ASSUME NEW d, Sound(d), NEW n \in Ids(d)
  PROVE  /\ Moved(d, n) \in Seq(Nat) /\ IsInjective(Moved(d, n))
         /\ ToSet(Moved(d, n)) \subseteq Ids(d)
         /\ IsFragment(d, n) => ToSet(Moved(d, n)) = {m \in Ids(d) : ParentOf(d, m) = n}
         /\ ~IsFragment(d, n) => ToSet(Moved(d, n)) = {n}
PROOF
  <1>1. n \in Nat /\ Kids(d, n) \in Seq(Nat) /\ ListsChildren(d, n)
    BY ArenaIs DEF Sound
  <1>2. CASE IsFragment(d, n)
    BY <1>1, <1>2 DEF Moved, ListsChildren
  <1>3. CASE ~IsFragment(d, n)
    <2>1. Moved(d, n) = <<n>>
      BY <1>3 DEF Moved
    <2>2. <<n>> \in Seq(Nat) /\ DOMAIN <<n>> = {1} /\ <<n>>[1] = n
      BY <1>1
    <2>3. ToSet(<<n>>) = {n} /\ IsInjective(<<n>>)
      BY <2>2 DEF ToSet, IsInjective
    <2>4. QED
      BY <1>3, <2>1, <2>2, <2>3
  <1>4. QED
    BY <1>2, <1>3

LEMMA LinkedIs ==
  ASSUME NEW d, Sound(d), NEW p \in Ids(d), NEW n \in Ids(d), p # n, NEW before
  PROVE  PutIn(d, Linked(d, p, n, before), p, n, before)
PROOF
  <1> DEFINE N == Len(d.nodes)
             moved == Moved(d, n)
             M == ToSet(moved)
             list == Spliced(Kids(d, p), before, moved)
             c == [d.nodes[n] EXCEPT !.children = <<>>]
             a == [d.nodes[p] EXCEPT !.children = list]
             emptied == IF IsFragment(d, n) THEN [d.nodes EXCEPT ![n].children = <<>>]
                        ELSE d.nodes
             linked == [emptied EXCEPT ![p].children = Spliced(@, before, moved)]
             f == [k \in DOMAIN linked |->
                     IF k \in M THEN [linked[k] EXCEPT !.parent = p] ELSE linked[k]]
             e == Linked(d, p, n, before)
             Emp(k) == k = n /\ IsFragment(d, n)
  <1>1. /\ d \in Documents /\ Ids(d) = 1..N /\ N \in Nat /\ Ids(d) \subseteq Nat
        /\ DOMAIN d.nodes = 1..N
        /\ \A k \in Ids(d) : d.nodes[k] \in NodeData /\ Kids(d, k) \in Seq(Nat)
        /\ d.changed \in SUBSET Nat /\ d.changed \subseteq Nat
    BY ArenaIs DEF Sound, Ids, Documents
  <1>2. moved \in Seq(Nat) /\ M \subseteq Ids(d)
    BY MovedAre
  <1>3. list \in Seq(Nat)
    BY <1>1, <1>2, SplicedIs
  <1>4. e = [nodes |-> f, changed |-> d.changed \cup M]
    BY DEF Linked
  <1> HIDE DEF moved, M, e
  <1>5. emptied = [k \in 1..N |-> IF Emp(k) THEN c ELSE d.nodes[k]]
    <2>1. CASE IsFragment(d, n)
      <3>1. emptied = [d.nodes EXCEPT ![n] = c]
        BY <2>1
      <3> HIDE DEF c
      <3>2. [d.nodes EXCEPT ![n] = c] = [k \in 1..N |-> IF k = n THEN c ELSE d.nodes[k]]
        BY <1>1
      <3>3. QED
        BY <2>1, <3>1, <3>2
    <2>2. CASE ~IsFragment(d, n)
      <3>1. d.nodes = [k \in 1..N |-> d.nodes[k]]
        <4>1. d.nodes \in [1..N -> NodeData]
          BY <1>1, LenProperties DEF Documents
        <4>2. QED
          BY <4>1
      <3> HIDE DEF c
      <3>2. QED
        BY <2>2, <3>1
    <2>3. QED
      BY <2>1, <2>2
  <1>6. linked = [k \in 1..N |-> IF k = p THEN a ELSE IF Emp(k) THEN c ELSE d.nodes[k]]
    <2>1. emptied[p] = d.nodes[p]
      <3> HIDE DEF c, emptied
      <3>1. QED
        BY <1>1, <1>5
    <2>2. linked = [emptied EXCEPT ![p] = a]
      <3> HIDE DEF emptied
      <3>1. QED
        BY <2>1 DEF Kids
    <2> HIDE DEF emptied, linked, a, c
    <2>3. [emptied EXCEPT ![p] = a] = [k \in 1..N |-> IF k = p THEN a ELSE emptied[k]]
      BY <1>5
    <2>4. \A k \in 1..N : emptied[k] = IF Emp(k) THEN c ELSE d.nodes[k]
      BY <1>5
    <2>5. QED
      BY <2>2, <2>3, <2>4
  <1>7. /\ c.kind = d.nodes[n].kind /\ c.contents = d.nodes[n].contents
        /\ c.parent = d.nodes[n].parent /\ c.children = <<>> /\ c \in NodeData
    <2> DEFINE none == <<>>
    <2>1. none \in Seq(Nat) /\ d.nodes[n] \in NodeData
      BY <1>1
    <2> HIDE DEF none
    <2>2. c = [d.nodes[n] EXCEPT !.children = none]
      BY DEF none
    <2> HIDE DEF c
    <2>3. QED
      BY <2>1, <2>2 DEF NodeData, none
  <1>8. /\ a.kind = d.nodes[p].kind /\ a.contents = d.nodes[p].contents
        /\ a.parent = d.nodes[p].parent /\ a.children = list /\ a \in NodeData
    BY <1>1, <1>3 DEF NodeData
  <1> HIDE DEF emptied, list, a, c
  <1>9. /\ DOMAIN linked = 1..N
        /\ \A k \in 1..N :
             /\ linked[k].kind = d.nodes[k].kind /\ linked[k].contents = d.nodes[k].contents
             /\ linked[k].parent = d.nodes[k].parent
             /\ linked[k].children = IF k = p THEN list ELSE IF Emp(k) THEN <<>>
                                     ELSE d.nodes[k].children
             /\ linked[k] \in NodeData
    <2> HIDE DEF linked
    <2>1. \A k \in 1..N : linked[k] = IF k = p THEN a ELSE IF Emp(k) THEN c ELSE d.nodes[k]
      BY <1>6
    <2>2. DOMAIN linked = 1..N
      BY <1>6
    <2>3. QED
      BY <1>1, <1>7, <1>8, <2>1, <2>2
  <1> HIDE DEF linked
  <1>10. ASSUME NEW k \in 1..N
         PROVE  /\ f[k].kind = d.nodes[k].kind /\ f[k].contents = d.nodes[k].contents
                /\ f[k].parent = IF k \in M THEN p ELSE d.nodes[k].parent
                /\ f[k].children = IF k = p THEN list ELSE IF Emp(k) THEN <<>>
                                   ELSE d.nodes[k].children
                /\ f[k] \in NodeData
    <2>1. f[k] = IF k \in M THEN [linked[k] EXCEPT !.parent = p] ELSE linked[k]
      BY <1>9
    <2>2. linked[k] \in NodeData /\ p \in Nat
      BY <1>1, <1>9
    <2> DEFINE b == [linked[k] EXCEPT !.parent = p]
    <2>3. /\ b.kind = linked[k].kind /\ b.contents = linked[k].contents
          /\ b.parent = p /\ b.children = linked[k].children /\ b \in NodeData
      BY <2>2 DEF NodeData
    <2> HIDE DEF b, f, Emp
    <2>4. CASE k \in M
      <3>1. f[k] = b
        BY <2>1, <2>4 DEF b
      <3>2. QED
        BY <1>9, <2>3, <2>4, <3>1
    <2>5. CASE k \notin M
      <3>1. f[k] = linked[k]
        BY <2>1, <2>5
      <3>2. QED
        BY <1>9, <2>5, <3>1
    <2>6. QED
      BY <2>4, <2>5
  <1>11. f \in [1..N -> NodeData]
    BY <1>9, <1>10
  <1> HIDE DEF f
  <1>12. e \in Documents /\ Ids(e) = Ids(d) /\ e.nodes = f /\ e.changed = d.changed \cup M
    <2>1. e = [nodes |-> e.nodes, changed |-> e.changed]
          /\ e.nodes = f /\ e.changed = d.changed \cup M
      BY <1>4
    <2>2. d.changed \cup M \in SUBSET Nat
      BY <1>1, <1>2
    <2>3. QED
      BY <1>1, <1>11, <2>1, <2>2, ArenaMade
  <1>13. Same(d, e)
    BY <1>1, <1>10, <1>12 DEF Same
  <1>14. \A k \in Ids(d) :
           /\ ParentOf(e, k) = IF k \in M THEN p ELSE ParentOf(d, k)
           /\ Kids(e, k) = IF k = p THEN list ELSE IF Emp(k) THEN <<>> ELSE Kids(d, k)
    BY <1>1, <1>10, <1>12 DEF ParentOf, Kids
  <1>15. QED
    BY <1>12, <1>13, <1>14 DEF PutIn, M, moved, list, e

\* n may go into p, and not below itself: it is in B, which p is not.
Fits(d, p, n, B) ==
  /\ p \in Ids(d) /\ n \in Ids(d) /\ p # n /\ IsParent(d, p)
  /\ IsFragment(d, n) \/ (IsChild(d, n) /\ ParentOf(d, n) = None)
  /\ n \in B /\ p \notin B /\ \A k \in B \cap Ids(d) : Owned(d, k) \subseteq B

\* Where n may go into the document itself.
FitsTop(d, n) ==
  LET moved == ToSet(Moved(d, n))
  IN  /\ \A m \in moved : d.nodes[m].kind # "text"
      /\ \A k, m \in moved : IsElement(d, k) /\ IsElement(d, m) => k = m
      /\ \A k \in moved, m \in ToSet(Kids(d, Root)) : ~(IsElement(d, k) /\ IsElement(d, m))

LEMMA PutInKeeps ==
  ASSUME NEW d, NEW e, NEW p, NEW n, NEW before, NEW B,
         Sound(d), PutIn(d, e, p, n, before), Fits(d, p, n, B), p = Root => FitsTop(d, n)
  PROVE  Sound(e)
PROOF
  <1> DEFINE moved == Moved(d, n)
             M == ToSet(moved)
             list == Spliced(Kids(d, p), before, moved)
             Emp(k) == k = n /\ IsFragment(d, n)
  <1>1. /\ Same(d, e) /\ Ids(e) = Ids(d) /\ p \in Ids(d) /\ n \in Ids(d) /\ p # n
        /\ e.changed = d.changed \cup M
    BY DEF PutIn, Same, Fits
  <1>2. \A k \in Ids(d) :
          /\ ParentOf(e, k) = IF k \in M THEN p ELSE ParentOf(d, k)
          /\ Kids(e, k) = IF k = p THEN list ELSE IF Emp(k) THEN <<>> ELSE Kids(d, k)
    BY DEF PutIn
  <1>3. /\ d \in Documents /\ d.changed \subseteq Ids(d)
        /\ Root \in Ids(d) /\ d.nodes[Root].kind = "document"
        /\ \A k \in Ids(d) : ListsChildren(d, k) /\ Placed(d, k) /\ Hosts(d, k)
        /\ TopOK(d)
    BY DEF Sound
  <1>4. \A k \in Ids(d) : Kids(d, k) \in Seq(Nat) /\ k # None
    BY <1>3, ArenaIs
  <1>5. /\ moved \in Seq(Nat) /\ IsInjective(moved) /\ M \subseteq Ids(d)
        /\ IsFragment(d, n) => M = {m \in Ids(d) : ParentOf(d, m) = n}
        /\ ~IsFragment(d, n) => M = {n}
    BY <1>1, MovedAre
  <1> HIDE DEF moved, M
  <1>6. \A m \in M : ParentOf(d, m) = IF IsFragment(d, n) THEN n ELSE None
    BY <1>5 DEF Fits
  <1>7. ToSet(Kids(d, p)) \cap M = {}
    BY <1>1, <1>3, <1>4, <1>6 DEF ListsChildren
  <1>8. IsInjective(list) /\ ToSet(list) = ToSet(Kids(d, p)) \cup M
    <2>1. Kids(d, p) \in Seq(Nat) /\ IsInjective(Kids(d, p))
      BY <1>1, <1>3, <1>4 DEF ListsChildren
    <2>2. QED
      BY <1>5, <1>7, <2>1, SplicedIs DEF M
  <1>9. IsInjective(<<>>) /\ ToSet(<<>>) = {}
    BY DEF IsInjective, ToSet
  <1> HIDE DEF list
  <1>10. ASSUME NEW k \in Ids(d)
         PROVE  /\ IsInjective(Kids(e, k))
                /\ ToSet(Kids(e, k)) = IF k = p THEN ToSet(Kids(d, p)) \cup M
                                       ELSE IF Emp(k) THEN {} ELSE ToSet(Kids(d, k))
    BY <1>2, <1>3, <1>8, <1>9 DEF ListsChildren
  <1>11. ASSUME NEW k \in Ids(d)
         PROVE  ListsChildren(e, k)
    <2>1. ToSet(Kids(d, k)) = {m \in Ids(d) : ParentOf(d, m) = k}
      BY <1>3 DEF ListsChildren
    <2>2. CASE k = p
      <3>1. \A m \in Ids(d) : ParentOf(e, m) = p <=> m \in M \/ ParentOf(d, m) = p
        BY <1>2
      <3>2. QED
        BY <1>1, <1>5, <1>10, <2>1, <2>2, <3>1 DEF ListsChildren
    <2>3. CASE k # p /\ Emp(k)
      <3>1. \A m \in Ids(d) : ParentOf(e, m) # k
        BY <1>1, <1>2, <1>5, <2>3
      <3>2. QED
        BY <1>1, <1>10, <2>3, <3>1 DEF ListsChildren
    <2>4. CASE k # p /\ ~Emp(k)
      <3>1. \A m \in M : ParentOf(d, m) # k
        BY <1>4, <1>6, <2>4
      <3>2. \A m \in Ids(d) : ParentOf(e, m) = k <=> ParentOf(d, m) = k
        BY <1>2, <2>4, <3>1
      <3>3. QED
        BY <1>1, <1>10, <2>1, <2>4, <3>2 DEF ListsChildren
    <2>5. QED
      BY <2>2, <2>3, <2>4
  <1>12. ASSUME NEW k \in Ids(d)
         PROVE  Placed(e, k)
    <2>1. CASE k \in M
      <3>1. IsChild(d, k)
        <4>1. CASE IsFragment(d, n)
          BY <1>1, <1>3, <1>4, <1>6, <2>1, <4>1 DEF Placed
        <4>2. CASE ~IsFragment(d, n)
          BY <1>5, <2>1, <4>2 DEF Fits
        <4>3. QED
          BY <4>1, <4>2
      <3>2. IsParent(d, p)
        BY DEF Fits
      <3>3. QED
        BY <1>1, <1>2, <2>1, <3>1, <3>2, KindsSame DEF Placed
    <2>2. CASE k \notin M
      BY <1>1, <1>2, <1>3, <2>2, KindsSame DEF Placed
    <2>3. QED
      BY <2>1, <2>2
  <1>13. \E depth : Deepens(e, depth)
    <2>1. PICK depth : Deepens(d, depth)
      BY DEF Sound
    <2>2. /\ depth \in [Ids(d) -> Nat]
          /\ \A k \in Ids(d) : \A m \in Owned(d, k) : depth[k] < depth[m]
      BY <2>1 DEF Deepens
    <2> DEFINE deep == [k \in Ids(d) |-> IF k \in B THEN depth[k] + depth[p] + 1 ELSE depth[k]]
    <2>3. deep \in [Ids(d) -> Nat]
      BY <1>1, <2>2
    <2>4. \A k \in Ids(d) : deep[k] = IF k \in B THEN depth[k] + depth[p] + 1 ELSE depth[k]
      OBVIOUS
    <2> HIDE DEF deep
    <2>5. p \notin B /\ n \in B /\ \A k \in B \cap Ids(d) : Owned(d, k) \subseteq B
      BY DEF Fits
    <2>6. M \subseteq B
      <3>1. CASE IsFragment(d, n)
        <4>1. M = ToSet(Kids(d, n))
          BY <3>1 DEF M, moved, Moved
        <4>2. QED
          BY <1>1, <2>5, <4>1 DEF Owned
      <3>2. CASE ~IsFragment(d, n)
        BY <1>5, <2>5, <3>2
      <3>3. QED
        BY <3>1, <3>2
    <2>7. \A k \in Ids(d) : Owned(d, k) \subseteq Ids(d)
      BY SoundLinks DEF Linking
    <2>8. ASSUME NEW k \in Ids(d), NEW m \in Owned(d, k)
          PROVE  deep[k] < deep[m]
      <3>1. m \in Ids(d) /\ depth[k] \in Nat /\ depth[m] \in Nat /\ depth[p] \in Nat
            /\ depth[k] < depth[m]
        BY <1>1, <2>2, <2>7
      <3>2. k \in B => m \in B
        BY <2>5
      <3>3. QED
        BY <2>4, <3>1, <3>2
    <2>9. ASSUME NEW m \in M
          PROVE  deep[p] < deep[m]
      <3>1. m \in Ids(d) /\ m \in B /\ depth[m] \in Nat /\ depth[p] \in Nat
        BY <1>1, <1>5, <2>2, <2>6
      <3>2. QED
        BY <1>1, <2>4, <2>5, <3>1
    <2>10. ASSUME NEW k \in Ids(d), NEW m \in Owned(e, k)
           PROVE  deep[k] < deep[m]
      <3>1. m \in Owned(d, k) \/ (k = p /\ m \in M)
        BY <1>1, <1>10 DEF Owned, Same
      <3>2. QED
        BY <2>8, <2>9, <3>1
    <2>11. Deepens(e, deep)
      BY <1>1, <2>3, <2>10 DEF Deepens
    <2>12. QED
      BY <2>11
  <1>14. TopOK(e)
    <2>1. ToSet(Kids(d, Root)) \subseteq Ids(d)
      BY <1>3 DEF ListsChildren
    <2>2. CASE p = Root
      <3>1. /\ \A m \in M : d.nodes[m].kind # "text"
            /\ \A k, m \in M : IsElement(d, k) /\ IsElement(d, m) => k = m
            /\ \A k \in M, m \in ToSet(Kids(d, Root)) : ~(IsElement(d, k) /\ IsElement(d, m))
        BY <2>2 DEF FitsTop, M, moved
      <3>2. ToSet(Kids(e, Root)) = ToSet(Kids(d, Root)) \cup M
        BY <1>3, <1>10, <2>2
      <3>3. \A k \in ToSet(Kids(e, Root)) : k \in Ids(d) /\ IsElement(e, k) = IsElement(d, k)
              /\ e.nodes[k].kind = d.nodes[k].kind
        BY <1>1, <1>5, <2>1, <3>2, KindsSame DEF Same
      <3>4. QED
        BY <1>3, <3>1, <3>2, <3>3 DEF TopOK
    <2>3. CASE p # Root
      <3>1. ToSet(Kids(e, Root)) \subseteq ToSet(Kids(d, Root))
        BY <1>3, <1>10, <2>3
      <3>2. QED
        BY <1>1, <1>3, <2>1, <3>1, KindsSame DEF TopOK, Same
    <2>4. QED
      BY <2>2, <2>3
  <1>15. \A k \in Ids(e) : Hosts(e, k)
    BY <1>1, <1>3, HostsSame
  <1>16. QED
    <2>1. e \in Documents /\ e.nodes[Root].kind = "document" /\ e.changed \subseteq Ids(e)
      BY <1>1, <1>3, <1>5 DEF Same
    <2>2. QED
      BY <1>1, <1>3, <1>11, <1>12, <1>13, <1>14, <1>15, <2>1 DEF Sound

----------------------------------------------------------------------------
(* Steps from one sound document to another. *)

\* Nodes stay, keep their kind and contents, and are noted when they move.
Grown(d, e) ==
  /\ Ids(d) \subseteq Ids(e) /\ d.changed \subseteq e.changed
  /\ \A k \in Ids(d) :
       /\ e.nodes[k].kind = d.nodes[k].kind
       /\ e.nodes[k].contents = d.nodes[k].contents
       /\ k \notin e.changed => ParentOf(e, k) = ParentOf(d, k)

LEMMA GrownSelf == ASSUME NEW d PROVE Grown(d, d)
BY DEF Grown

LEMMA GrownOn ==
  ASSUME NEW d, NEW e, NEW f, Grown(d, e), Grown(e, f)
  PROVE  Grown(d, f)
PROOF
  <1>1. Ids(d) \subseteq Ids(e) /\ Ids(e) \subseteq Ids(f)
        /\ d.changed \subseteq e.changed /\ e.changed \subseteq f.changed
    BY DEF Grown
  <1>2. ASSUME NEW k \in Ids(d)
        PROVE  /\ f.nodes[k].kind = d.nodes[k].kind
               /\ k \notin f.changed => /\ ParentOf(f, k) = ParentOf(d, k)
                                        /\ f.nodes[k].contents = d.nodes[k].contents
    BY <1>1 DEF Grown
  <1>3. QED
    BY <1>1, <1>2 DEF Grown

LEMMA FewerOn ==
  ASSUME NEW d, NEW e, NEW f, Fewer(d, e), Fewer(e, f)
  PROVE  Fewer(d, f)
BY DEF Fewer, Same

LEMMA TakenGrows ==
  ASSUME NEW d, NEW e, NEW p, NEW gone, Taken(d, e, p, gone)
  PROVE  Grown(d, e)
BY DEF Taken, Same, Grown

LEMMA DetachedGrows ==
  ASSUME NEW d, Sound(d), NEW n \in Ids(d)
  PROVE  Grown(d, Detached(d, n))
PROOF
  <1>1. CASE ParentOf(d, n) = None
    BY <1>1, GrownSelf DEF Detached
  <1>2. CASE ParentOf(d, n) # None
    BY <1>2, DetachedIs, TakenGrows
  <1>3. QED
    BY <1>1, <1>2

LEMMA PutInGrows ==
  ASSUME NEW d, NEW e, NEW p, NEW n, NEW before, PutIn(d, e, p, n, before)
  PROVE  Grown(d, e)
BY DEF PutIn, Same, Grown

\* Validity, without the place that was asked for.
MayGo(d, p, n, exclude) ==
  /\ IsParent(d, p) /\ ~IsInclusiveAncestor(d, n, p) /\ d.nodes[n].kind # "document"
  /\ p = Root => FitsDocument(d, n, exclude)

LEMMA OneAtMost ==
  ASSUME NEW S, IsFiniteSet(S), Cardinality(S) <= 1
  PROVE  \A x, y \in S : x = y
PROOF
  <1>1. SUFFICES ASSUME NEW x \in S, NEW y \in S, x # y
                 PROVE  FALSE
    OBVIOUS
  <1>2. IsFiniteSet(S \ {x}) /\ Cardinality(S \ {x}) = Cardinality(S) - 1 /\ Cardinality(S) \in Nat
    BY <1>1, FS_RemoveElement, FS_CardinalityType
  <1>3. Cardinality(S \ {x}) = 0
    BY <1>2, FS_CardinalityType
  <1>4. S \ {x} = {}
    BY <1>2, <1>3, FS_EmptySet
  <1>5. QED
    BY <1>1, <1>4

\* Below a node that may go into p, p is not: not even when its ancestors
\* are not looked at.
LEMMA NotBelow ==
  ASSUME NEW d, Sound(d), NEW p \in Ids(d), NEW n \in Ids(d), ~IsInclusiveAncestor(d, n, p)
  PROVE  p # n /\ p \notin Below(d, n)
PROOF
  <1>1. p # n
    BY DEF IsInclusiveAncestor
  <1>2. SUFFICES ASSUME p \in Below(d, n)
                 PROVE  FALSE
    BY <1>1
  <1>3. IsElement(d, p) /\ ParentOf(d, p) = None
    BY <1>2 DEF IsInclusiveAncestor
  <1>4. Linking(d)
    BY SoundLinks
  <1>5. PICK o \in Below(d, n) : p \in Owned(d, o)
    BY <1>1, <1>2, <1>4, BelowOwned
  <1>6. o \in Ids(d) /\ ListsChildren(d, o) /\ Hosts(d, o) /\ None \notin Ids(d)
    BY <1>4, <1>5, BelowIs, ArenaIs DEF Sound
  <1>7. CASE p \in ToSet(Kids(d, o))
    BY <1>3, <1>6, <1>7 DEF ListsChildren
  <1>8. CASE p = d.nodes[o].contents
    BY <1>3, <1>6, <1>8, ArenaIs DEF Hosts, IsElement, IsFragment
  <1>9. QED
    BY <1>5, <1>7, <1>8 DEF Owned

LEMMA MayGoFits ==
  ASSUME NEW d, Sound(d), NEW e, Sound(e), Fewer(d, e), NEW p \in Ids(d), NEW n \in Ids(d),
         NEW exclude, MayGo(d, p, n, exclude), IsFragment(d, n) \/ ParentOf(e, n) = None,
         exclude = None \/ (exclude \in Ids(d) /\ ParentOf(e, exclude) # Root)
  PROVE  Fits(e, p, n, Below(d, n)) /\ (p = Root => FitsTop(e, n))
PROOF
  <1>1. /\ Same(d, e) /\ Ids(e) = Ids(d) /\ Linking(d)
        /\ \A k \in Ids(d) : Owned(e, k) \subseteq Owned(d, k)
    BY SoundLinks DEF Fewer, Same
  <1>2. p # n /\ p \notin Below(d, n)
    BY NotBelow DEF MayGo
  <1>3. /\ Below(d, n) \subseteq Ids(d) /\ n \in Below(d, n)
        /\ \A m \in Below(d, n) : Owned(d, m) \subseteq Below(d, n)
    BY <1>1, BelowIs
  <1>4. IsParent(e, p) /\ (IsFragment(e, n) \/ (IsChild(e, n) /\ ParentOf(e, n) = None))
    BY <1>1, KindsSame DEF MayGo, IsFragment, IsChild
  <1>5. Fits(e, p, n, Below(d, n))
    BY <1>1, <1>2, <1>3, <1>4 DEF Fits
  <1>6. ASSUME p = Root
        PROVE  FitsTop(e, n)
    <2> DEFINE M == ToSet(Moved(d, n))
               L == ToSet(Moved(e, n))
    <2>1. FitsDocument(d, n, exclude)
      BY <1>6 DEF MayGo
    <2>2. L \subseteq M /\ M \subseteq Ids(d)
      <3>1. CASE IsFragment(d, n)
        <4>1. L = ToSet(Kids(e, n)) /\ M = ToSet(Kids(d, n))
          BY <1>1, <3>1, KindsSame DEF Moved
        <4>2. d.nodes[n].contents = None
          BY <3>1 DEF Sound, Hosts, IsFragment
        <4>3. QED
          BY <1>1, <4>1, <4>2, SoundLinks DEF Owned
      <3>2. CASE ~IsFragment(d, n)
        BY <1>1, <3>2, KindsSame, MovedAre
      <3>3. QED
        BY <3>1, <3>2
    <2>3. ToSet(Kids(e, Root)) \subseteq ToSet(Kids(d, Root)) \ {exclude}
      <3>1. d.nodes[Root].kind = "document" /\ Root \in Ids(d) /\ Hosts(d, Root)
            /\ ListsChildren(e, Root) /\ None \notin Ids(d)
        BY <1>1, ArenaIs DEF Sound
      <3>2. ToSet(Kids(e, Root)) \subseteq ToSet(Kids(d, Root))
        BY <1>1, <3>1 DEF Hosts, Owned
      <3>3. exclude \notin ToSet(Kids(e, Root))
        BY <1>1, <3>1 DEF ListsChildren
      <3>4. QED
        BY <3>2, <3>3
    <2> DEFINE elements == {m \in M : IsElement(d, m)}
    <2>4. /\ \A m \in M : d.nodes[m].kind # "text"
          /\ Cardinality(elements) <= 1
          /\ elements # {} => \A m \in ToSet(Kids(d, Root)) \ {exclude} : ~IsElement(d, m)
      BY <2>1 DEF FitsDocument, HasElementExcluding
    <2>5. IsFiniteSet(elements)
      <3>1. IsFiniteSet(Ids(d)) /\ elements \subseteq Ids(d)
        BY <2>2, ArenaIs DEF Sound
      <3>2. QED
        BY <3>1, FS_Subset
    <2>6. \A k, m \in elements : k = m
      BY <2>4, <2>5, OneAtMost
    <2>7. \A k \in Ids(d) : /\ IsElement(e, k) = IsElement(d, k)
                            /\ e.nodes[k].kind = d.nodes[k].kind
      BY <1>1, KindsSame DEF Same
    <2> HIDE DEF M
    <2>8. /\ \A m \in L : e.nodes[m].kind # "text"
          /\ \A k, m \in L : IsElement(e, k) /\ IsElement(e, m) => k = m
      BY <2>2, <2>4, <2>6, <2>7
    <2>9. \A m \in ToSet(Kids(e, Root)) : m \in Ids(d)
      BY <1>1, SoundLinks DEF Sound
    <2>10. \A k \in L, m \in ToSet(Kids(e, Root)) : ~(IsElement(e, k) /\ IsElement(e, m))
      BY <2>2, <2>3, <2>4, <2>7, <2>9
    <2>11. QED
      BY <2>8, <2>10 DEF FitsTop
  <1>7. QED
    BY <1>5, <1>6

\* A change of links that leaves the document sound.
Relinked(d, e) == Sound(e) /\ Grown(d, e) /\ Ids(e) = Ids(d)

LEMMA LinkedKeeps ==
  ASSUME NEW d, NEW e, Sound(e), Relinked(d, e), NEW p, NEW n, NEW before, NEW B,
         Fits(e, p, n, B), p = Root => FitsTop(e, n)
  PROVE  Relinked(d, Linked(e, p, n, before))
PROOF
  <1> DEFINE f == Linked(e, p, n, before)
  <1>1. p \in Ids(e) /\ n \in Ids(e) /\ p # n
    BY DEF Fits
  <1>2. PutIn(e, f, p, n, before)
    BY <1>1, LinkedIs
  <1> HIDE DEF f
  <1>3. Sound(f)
    BY <1>2, PutInKeeps
  <1>4. Grown(e, f)
    BY <1>2, PutInGrows
  <1>5. Grown(d, f)
    BY <1>4, GrownOn DEF Relinked
  <1>6. Ids(f) = Ids(e)
    BY <1>2 DEF PutIn, Same
  <1>7. QED
    BY <1>3, <1>5, <1>6 DEF Relinked, f

LEMMA PreInsertedKeeps ==
  ASSUME NEW d, Sound(d), NEW p \in Ids(d), NEW n \in Ids(d), NEW before, MayGo(d, p, n, None)
  PROVE  Relinked(d, PreInserted(d, p, n, before))
PROOF
  <1> DEFINE e == Detached(d, n)
             reference == IF before # None /\ before = n THEN NextSibling(d, n) ELSE before
  <1>1. Sound(e) /\ Fewer(d, e) /\ ParentOf(e, n) = None
    BY DetachedKeeps
  <1>2. Grown(d, e)
    BY DetachedGrows
  <1> HIDE DEF e
  <1>3. Fits(e, p, n, Below(d, n)) /\ (p = Root => FitsTop(e, n))
    BY <1>1, MayGoFits
  <1>4. Relinked(d, e)
    BY <1>1, <1>2 DEF Relinked, Fewer, Same
  <1>5. PreInserted(d, p, n, before) = Linked(e, p, n, reference)
    BY DEF PreInserted, e
  <1> HIDE DEF reference
  <1>6. QED
    BY <1>1, <1>3, <1>4, <1>5, LinkedKeeps

\* The child that is replaced is taken off first.
LEMMA ReplacedKeeps ==
  ASSUME NEW d, Sound(d), NEW p \in Ids(d), NEW n \in Ids(d), NEW child \in Ids(d),
         MayGo(d, p, n, child)
  PROVE  Relinked(d, Replaced(d, p, n, child))
PROOF
  <1> DEFINE e == Detached(d, child)
             f == Detached(e, n)
             next == NextSibling(d, child)
             reference == IF next = n THEN NextSibling(d, n) ELSE next
  <1>1. CASE n = child
    <2>1. Replaced(d, p, n, child) = d
      BY <1>1 DEF Replaced
    <2>2. QED
      BY <2>1, GrownSelf DEF Relinked
  <1>2. CASE n # child
    <2>1. Sound(e) /\ Fewer(d, e) /\ ParentOf(e, child) = None /\ Grown(d, e) /\ Ids(e) = Ids(d)
      BY DetachedKeeps, DetachedGrows DEF Fewer, Same
    <2> HIDE DEF e
    <2>2. /\ Sound(f) /\ Fewer(e, f) /\ ParentOf(f, n) = None /\ Grown(e, f) /\ Ids(f) = Ids(d)
          /\ ParentOf(f, child) = ParentOf(e, child)
      <3>1. n \in Ids(e) /\ child \in Ids(e) \ {n}
        BY <1>2, <2>1
      <3>2. /\ Sound(f) /\ Fewer(e, f) /\ ParentOf(f, n) = None /\ Grown(e, f)
            /\ \A k \in Ids(e) \ {n} : ParentOf(f, k) = ParentOf(e, k)
        BY <2>1, <3>1, DetachedKeeps, DetachedGrows
      <3>3. Ids(f) = Ids(e)
        BY <3>2 DEF Fewer, Same
      <3>4. QED
        BY <2>1, <3>1, <3>2, <3>3
    <2> HIDE DEF f
    <2>3. Fewer(d, f) /\ Grown(d, f) /\ ParentOf(f, child) # Root
      BY <2>1, <2>2, FewerOn, GrownOn DEF None, Root
    <2>4. Fits(f, p, n, Below(d, n)) /\ (p = Root => FitsTop(f, n))
      BY <2>2, <2>3, MayGoFits
    <2>5. Relinked(d, f)
      BY <2>2, <2>3 DEF Relinked
    <2>6. Replaced(d, p, n, child) = Linked(f, p, n, reference)
      BY <1>2 DEF Replaced, e, f
    <2> HIDE DEF reference
    <2>7. QED
      BY <2>2, <2>4, <2>5, <2>6, LinkedKeeps
  <1>3. QED
    BY <1>1, <1>2

LEMMA DetachedAllKeeps ==
  ASSUME NEW d, NEW e, Relinked(d, e), NEW p \in Ids(d), NEW some \in SUBSET Ids(d)
  PROVE  Relinked(d, DetachedAll(e, p, some))
PROOF
  <1> DEFINE f == DetachedAll(e, p, some)
             gone == {n \in some : ParentOf(e, n) = p}
  <1>1. Sound(e) /\ Grown(d, e) /\ Ids(e) = Ids(d)
    BY DEF Relinked
  <1>2. Taken(e, f, p, gone)
    BY <1>1, DetachedAllIs
  <1> HIDE DEF f, gone
  <1>3. Sound(f) /\ Fewer(e, f) /\ Grown(e, f)
    BY <1>1, <1>2, TakenKeeps, TakenGrows
  <1>4. QED
    BY <1>1, <1>3, GrownOn DEF Relinked, Fewer, Same, f

LEMMA PreRemovedKeeps ==
  ASSUME NEW d, Sound(d), NEW n \in Ids(d)
  PROVE  Relinked(d, PreRemoved(d, n))
BY DetachedKeeps, DetachedGrows DEF PreRemoved, Relinked, Fewer, Same

LEMMA EmptiedKeeps ==
  ASSUME NEW d, Sound(d), NEW p \in Ids(d)
  PROVE  /\ Relinked(d, Emptied(d, p)) /\ Fewer(d, Emptied(d, p))
         /\ ToSet(Kids(Emptied(d, p), p)) = {}
PROOF
  <1> DEFINE e == Emptied(d, p)
             some == ToSet(Kids(d, p))
             gone == {n \in some : ParentOf(d, n) = p}
  <1>1. some \in SUBSET Ids(d) /\ gone = some
    BY SoundLinks DEF Sound, ListsChildren
  <1>2. Taken(d, e, p, some)
    BY <1>1, DetachedAllIs DEF Emptied
  <1>3. Kids(e, p) = Without(Kids(d, p), some)
    BY <1>2 DEF Taken
  <1>4. ToSet(Kids(e, p)) = {}
    BY <1>3, WithoutIs, ArenaIs DEF Sound
  <1> HIDE DEF e
  <1>5. Sound(e) /\ Fewer(d, e) /\ Grown(d, e)
    BY <1>2, TakenKeeps, TakenGrows
  <1>6. QED
    BY <1>4, <1>5 DEF Relinked, Fewer, Same, e

----------------------------------------------------------------------------
(* New nodes. *)

Blank(d, e) ==
  /\ e \in Documents /\ Ids(d) \subseteq Ids(e) /\ e.changed = d.changed
  /\ \A k \in Ids(d) : e.nodes[k] = d.nodes[k]
  /\ \A k \in Ids(e) \ Ids(d) :
       ParentOf(e, k) = None /\ Kids(e, k) = <<>> /\ e.nodes[k].contents = None

LEMMA BlankGrows ==
  ASSUME NEW d, NEW e, Blank(d, e)
  PROVE  Grown(d, e)
BY DEF Blank, Grown, ParentOf

\* Nodes without links do no harm.
LEMMA BlankKeeps ==
  ASSUME NEW d, NEW e, Sound(d), Blank(d, e)
  PROVE  Sound(e)
PROOF
  <1>1. /\ d \in Documents /\ e \in Documents /\ Ids(d) \subseteq Ids(e)
        /\ e.changed = d.changed /\ d.changed \subseteq Ids(d)
        /\ Root \in Ids(d) /\ d.nodes[Root].kind = "document"
        /\ None \notin Ids(d) /\ None \notin Ids(e)
    BY ArenaIs DEF Blank, Sound
  <1>2. \A k \in Ids(d) : e.nodes[k] = d.nodes[k]
    BY DEF Blank
  <1>3. \A k \in Ids(d) : /\ ParentOf(e, k) = ParentOf(d, k) /\ Kids(e, k) = Kids(d, k)
                          /\ Owned(e, k) = Owned(d, k)
    BY <1>2 DEF ParentOf, Kids, Owned
  <1>4. \A k \in Ids(d) :
          /\ IsElement(e, k) = IsElement(d, k) /\ IsFragment(e, k) = IsFragment(d, k)
          /\ IsParent(e, k) = IsParent(d, k) /\ IsChild(e, k) = IsChild(d, k)
    BY <1>2 DEF IsElement, IsFragment, IsParent, IsChild
  <1>5. IsInjective(<<>>) /\ ToSet(<<>>) = {}
    BY DEF IsInjective, ToSet
  <1>6. \A k \in Ids(e) \ Ids(d) :
          /\ ParentOf(e, k) = None /\ Kids(e, k) = <<>> /\ e.nodes[k].contents = None
          /\ Owned(e, k) = {}
    BY <1>5 DEF Blank, Owned
  <1>7. \A k \in Ids(d) : ListsChildren(d, k) /\ Placed(d, k) /\ Hosts(d, k)
    BY DEF Sound
  <1>8. ASSUME NEW k \in Ids(e)
        PROVE  ListsChildren(e, k)
    <2>1. \A m \in Ids(e) : ParentOf(e, m) = k => m \in Ids(d) /\ ParentOf(d, m) = k
      BY <1>1, <1>3, <1>6
    <2>2. CASE k \in Ids(d)
      BY <1>1, <1>3, <1>7, <2>1, <2>2 DEF ListsChildren
    <2>3. CASE k \notin Ids(d)
      <3>1. \A m \in Ids(d) : ParentOf(d, m) # k
        BY <1>1, <1>7, <2>3 DEF Placed
      <3>2. QED
        BY <1>5, <1>6, <2>1, <2>3, <3>1 DEF ListsChildren
    <2>4. QED
      BY <2>2, <2>3
  <1>9. \A k \in Ids(e) : Placed(e, k)
    BY <1>1, <1>3, <1>4, <1>6, <1>7 DEF Placed
  <1>10. \A k \in Ids(e) : Hosts(e, k)
    BY <1>1, <1>2, <1>4, <1>6, <1>7 DEF Hosts
  <1>11. \E depth : Deepens(e, depth)
    <2>1. PICK depth : Deepens(d, depth)
      BY DEF Sound
    <2> DEFINE deep == [k \in Ids(e) |-> IF k \in Ids(d) THEN depth[k] ELSE 0]
    <2>2. \A k \in Ids(d) : Owned(d, k) \subseteq Ids(d)
      BY SoundLinks DEF Linking
    <2>3. Deepens(e, deep)
      BY <1>1, <1>3, <1>6, <2>1, <2>2 DEF Deepens
    <2>4. QED
      BY <2>3
  <1>12. TopOK(e)
    <2>1. \A k \in ToSet(Kids(d, Root)) : k \in Ids(d)
      BY <1>1, SoundLinks
    <2>2. TopOK(d)
      BY DEF Sound
    <2>3. QED
      BY <1>1, <1>2, <1>3, <1>4, <2>1, <2>2 DEF TopOK
  <1>13. QED
    BY <1>1, <1>2, <1>8, <1>9, <1>10, <1>11, <1>12 DEF Sound

LEMMA NewIs ==
  ASSUME NEW kind \in NodeKinds
  PROVE  /\ New(kind) \in NodeData /\ New(kind).kind = kind /\ New(kind).parent = None
         /\ New(kind).children = <<>> /\ New(kind).contents = None
PROOF
  <1> DEFINE none == <<>>
  <1>1. none \in Seq(Nat)
    BY EmptySeq
  <1>2. New(kind) = [kind |-> kind, parent |-> None, children |-> none, contents |-> None]
    BY DEF New
  <1> HIDE DEF none
  <1>3. QED
    BY <1>1, <1>2 DEF NodeData, None, none

\* e is d with a number of nodes of a kind.
With(d, count, kind, e) ==
  e = [nodes |-> d.nodes \o [i \in 1..count |-> New(kind)], changed |-> d.changed]

LEMMA Renodes ==
  ASSUME NEW d \in Documents, NEW s
  PROVE  [d EXCEPT !.nodes = s] = [nodes |-> s, changed |-> d.changed]
BY DEF Documents

LEMMA ManyAdded ==
  ASSUME NEW d, Sound(d), NEW kind \in NodeKinds, NEW count \in Nat,
         NEW e, With(d, count, kind, e)
  PROVE  /\ Blank(d, e) /\ Len(e.nodes) = Len(d.nodes) + count
         /\ \A k \in Ids(e) \ Ids(d) : e.nodes[k].kind = kind
PROOF
  <1> DEFINE s == [i \in 1..count |-> New(kind)]
             a == d.nodes
  <1>1. New(kind) \in NodeData
    BY NewIs
  <1>2. s \in Seq(NodeData) /\ Len(s) = count /\ \A i \in 1..count : s[i] = New(kind)
    BY <1>1, IsASeq
  <1>3. a \in Seq(NodeData) /\ Len(a) \in Nat /\ Ids(d) = 1..Len(a)
    BY ArenaIs DEF Sound
  <1> HIDE DEF s, a
  <1>4. /\ a \o s \in Seq(NodeData) /\ Len(a \o s) = Len(a) + count
        /\ \A i \in 1..(Len(a) + count) : (a \o s)[i] = IF i <= Len(a) THEN a[i] ELSE s[i - Len(a)]
    BY <1>2, <1>3, ConcatProperties
  <1>5. e.nodes = a \o s /\ e.changed = d.changed
    BY DEF a, s, With
  <1>6. d.changed \in SUBSET Nat
    BY DEF Sound, Documents
  <1>7. e \in Documents
    <2>1. e = [nodes |-> e.nodes, changed |-> e.changed]
      BY DEF With
    <2>2. e.nodes \in Seq(NodeData) /\ e.changed \in SUBSET Nat
      BY <1>4, <1>5, <1>6
    <2>3. QED
      BY <2>1, <2>2 DEF Documents
  <1>8. Ids(e) = 1..(Len(a) + count)
    BY <1>3, <1>4, <1>5, <1>7, ArenaIs
  <1>9. \A k \in Ids(d) : k \in Ids(e) /\ e.nodes[k] = d.nodes[k]
    BY <1>3, <1>4, <1>5, <1>8 DEF a
  <1>10. \A k \in Ids(e) \ Ids(d) : e.nodes[k] = New(kind)
    <2>1. SUFFICES ASSUME NEW k \in Ids(e), k \notin Ids(d)
                   PROVE  e.nodes[k] = New(kind)
      OBVIOUS
    <2>2. k \in 1..(Len(a) + count) /\ ~(k <= Len(a)) /\ k - Len(a) \in 1..count
      BY <1>3, <1>8, <2>1
    <2>3. QED
      BY <1>2, <1>4, <1>5, <2>2
  <1>11. Blank(d, e)
    BY <1>5, <1>7, <1>9, <1>10, NewIs DEF Blank, ParentOf, Kids
  <1>12. QED
    BY <1>4, <1>5, <1>10, <1>11, NewIs DEF a

LEMMA AddedIs ==
  ASSUME NEW d, Sound(d), NEW kind \in NodeKinds
  PROVE  LET e == Added(d, kind)
         IN  /\ Blank(d, e) /\ Len(e.nodes) = Len(d.nodes) + 1 /\ Newest(e) = Len(d.nodes) + 1
             /\ Ids(e) = Ids(d) \cup {Newest(e)} /\ Newest(e) \notin Ids(d)
             /\ e.nodes[Newest(e)].kind = kind
PROOF
  <1> DEFINE e == Added(d, kind)
             a == d.nodes
             x == New(kind)
             N == Len(a)
  <1>1. a \in Seq(NodeData) /\ N \in Nat /\ Ids(d) = 1..N /\ d \in Documents
    BY ArenaIs DEF Sound
  <1>2. x \in NodeData
    BY NewIs
  <1>3. e = [nodes |-> Append(a, x), changed |-> d.changed]
    BY <1>1 DEF Added, Documents
  <1> HIDE DEF a, x, e
  <1>4. /\ Append(a, x) \in Seq(NodeData) /\ Len(Append(a, x)) = N + 1
        /\ \A i \in 1..N : Append(a, x)[i] = a[i]
        /\ Append(a, x)[N + 1] = x
    BY <1>1, <1>2, AppendProperties
  <1>5. d.changed \in SUBSET Nat
    BY <1>1 DEF Documents
  <1>6. e \in Documents
    BY <1>3, <1>4, <1>5 DEF Documents
  <1>7. Ids(e) = 1..(N + 1) /\ Len(e.nodes) = N + 1 /\ e.changed = d.changed
    BY <1>3, <1>4, <1>6, ArenaIs
  <1>8. \A k \in Ids(d) : k \in Ids(e) /\ e.nodes[k] = d.nodes[k]
    BY <1>1, <1>3, <1>4, <1>7 DEF a
  <1>9. Ids(e) = Ids(d) \cup {N + 1} /\ N + 1 \notin Ids(d) /\ e.nodes[N + 1] = x
    BY <1>1, <1>3, <1>4, <1>7
  <1>10. Blank(d, e)
    BY <1>6, <1>7, <1>8, <1>9, NewIs DEF Blank, ParentOf, Kids, x
  <1>11. QED
    BY <1>7, <1>9, <1>10, NewIs DEF Newest, a, e, x

\* Template t gets the new fragment g.
Hosted(d, e, t, g) ==
  /\ e \in Documents /\ Ids(e) = Ids(d) \cup {g} /\ g \notin Ids(d)
  /\ e.changed = d.changed \cup {t}
  /\ \A k \in Ids(d) : /\ e.nodes[k].kind = d.nodes[k].kind
                       /\ ParentOf(e, k) = ParentOf(d, k) /\ Kids(e, k) = Kids(d, k)
                       /\ e.nodes[k].contents = IF k = t THEN g ELSE d.nodes[k].contents
  /\ e.nodes[g] = New("fragment")

LEMMA HostedGrows ==
  ASSUME NEW d, NEW e, NEW f, NEW t, NEW g, Grown(d, e), Hosted(e, f, t, g), t \notin Ids(d)
  PROVE  Grown(d, f)
BY DEF Hosted, Grown

LEMMA WithContentsIs ==
  ASSUME NEW d, Sound(d), NEW t \in Ids(d)
  PROVE  /\ Hosted(d, WithContents(d, t), t, Len(d.nodes) + 1)
         /\ Len(WithContents(d, t).nodes) = Len(d.nodes) + 1
PROOF
  <1> DEFINE N == Len(d.nodes)
             g == N + 1
             x == New("fragment")
             a == [d.nodes EXCEPT ![t].contents = g]
             e == WithContents(d, t)
  <1>1. /\ d \in Documents /\ Ids(d) = 1..N /\ N \in Nat /\ d.nodes \in Seq(NodeData)
        /\ \A k \in Ids(d) : d.nodes[k] \in NodeData
    BY ArenaIs DEF Sound
  <1>2. "fragment" \in NodeKinds
    BY DEF NodeKinds
  <1>3. x \in NodeData
    BY <1>2, NewIs
  <1>4. e = [nodes |-> Append(a, x), changed |-> d.changed \cup {t}]
    BY DEF WithContents
  <1>5. a \in [1..N -> NodeData]
        /\ \A k \in 1..N : a[k] = IF k = t THEN [d.nodes[t] EXCEPT !.contents = g] ELSE d.nodes[k]
    <2>1. DOMAIN d.nodes = 1..N
      BY <1>1 DEF Ids
    <2>2. DOMAIN a = 1..N
          /\ \A k \in 1..N : a[k] = IF k = t THEN [d.nodes[t] EXCEPT !.contents = g] ELSE d.nodes[k]
      BY <1>1, <2>1
    <2>3. [d.nodes[t] EXCEPT !.contents = g] \in NodeData
      <3>1. d.nodes[t] \in NodeData /\ g \in Nat
        BY <1>1
      <3> HIDE DEF g
      <3>2. QED
        BY <3>1 DEF NodeData
    <2>4. a = [k \in 1..N |-> a[k]]
      BY <2>1
    <2> HIDE DEF a
    <2>5. \A k \in 1..N : a[k] \in NodeData
      BY <1>1, <2>2, <2>3
    <2>6. QED
      BY <2>2, <2>4, <2>5
  <1> HIDE DEF a, x, e
  <1>6. a \in Seq(NodeData) /\ Len(a) = N
    BY <1>1, <1>5, LenProperties, SeqDef
  <1>7. /\ Append(a, x) \in Seq(NodeData) /\ Len(Append(a, x)) = N + 1
        /\ \A i \in 1..N : Append(a, x)[i] = a[i]
        /\ Append(a, x)[N + 1] = x
    BY <1>3, <1>6, AppendProperties
  <1>8. d.changed \cup {t} \in SUBSET Nat
    BY <1>1, ArenaIs DEF Documents
  <1>9. e \in Documents
    BY <1>4, <1>7, <1>8 DEF Documents
  <1>10. Ids(e) = 1..(N + 1) /\ Len(e.nodes) = N + 1 /\ e.changed = d.changed \cup {t}
    BY <1>4, <1>7, <1>9, ArenaIs
  <1>11. e.nodes[g] = x /\ \A k \in Ids(d) : e.nodes[k] = a[k]
    BY <1>1, <1>4, <1>7
  <1>12. [d.nodes[t] EXCEPT !.contents = g].kind = d.nodes[t].kind
         /\ [d.nodes[t] EXCEPT !.contents = g].parent = d.nodes[t].parent
         /\ [d.nodes[t] EXCEPT !.contents = g].children = d.nodes[t].children
         /\ [d.nodes[t] EXCEPT !.contents = g].contents = g
    BY <1>1 DEF NodeData
  <1> DEFINE b == [d.nodes[t] EXCEPT !.contents = g]
  <1> HIDE DEF b
  <1>13. \A k \in Ids(d) : e.nodes[k] = IF k = t THEN b ELSE d.nodes[k]
    BY <1>1, <1>5, <1>11 DEF b
  <1>14. /\ b.kind = d.nodes[t].kind /\ b.parent = d.nodes[t].parent
         /\ b.children = d.nodes[t].children /\ b.contents = g
    BY <1>12 DEF b
  <1>15. Ids(e) = Ids(d) \cup {g} /\ g \notin Ids(d)
    BY <1>1, <1>10
  <1>16. \A k \in Ids(d) : /\ e.nodes[k].kind = d.nodes[k].kind
                           /\ ParentOf(e, k) = ParentOf(d, k) /\ Kids(e, k) = Kids(d, k)
                           /\ e.nodes[k].contents = IF k = t THEN g ELSE d.nodes[k].contents
    BY <1>13, <1>14 DEF ParentOf, Kids
  <1>17. QED
    BY <1>9, <1>10, <1>11, <1>15, <1>16 DEF Hosted, e, x

LEMMA HostedKeeps ==
  ASSUME NEW d, NEW e, NEW t, NEW g, Sound(d), Hosted(d, e, t, g), t \in Ids(d),
         d.nodes[t].kind = "template"
  PROVE  Sound(e)
PROOF
  <1>1. /\ d \in Documents /\ e \in Documents /\ Ids(e) = Ids(d) \cup {g} /\ g \notin Ids(d)
        /\ e.changed = d.changed \cup {t} /\ d.changed \subseteq Ids(d)
        /\ Root \in Ids(d) /\ d.nodes[Root].kind = "document"
        /\ None \notin Ids(d) /\ None \notin Ids(e) /\ g # None
    BY ArenaIs DEF Hosted, Sound
  <1>2. \A k \in Ids(d) : /\ e.nodes[k].kind = d.nodes[k].kind
                          /\ ParentOf(e, k) = ParentOf(d, k) /\ Kids(e, k) = Kids(d, k)
                          /\ e.nodes[k].contents = IF k = t THEN g ELSE d.nodes[k].contents
    BY DEF Hosted
  <1>3. \A k \in Ids(d) :
          /\ IsElement(e, k) = IsElement(d, k) /\ IsFragment(e, k) = IsFragment(d, k)
          /\ IsParent(e, k) = IsParent(d, k) /\ IsChild(e, k) = IsChild(d, k)
    BY <1>2 DEF IsElement, IsFragment, IsParent, IsChild
  <1>4. IsInjective(<<>>) /\ ToSet(<<>>) = {}
    BY DEF IsInjective, ToSet
  <1>5. "fragment" \in NodeKinds
    BY DEF NodeKinds
  <1>6. /\ ParentOf(e, g) = None /\ Kids(e, g) = <<>> /\ e.nodes[g].contents = None
        /\ e.nodes[g].kind = "fragment" /\ IsFragment(e, g)
    BY <1>5, NewIs DEF Hosted, ParentOf, Kids, IsFragment
  <1>7. \A k \in Ids(d) : ListsChildren(d, k) /\ Placed(d, k) /\ Hosts(d, k)
    BY DEF Sound
  <1>8. ASSUME NEW k \in Ids(e)
        PROVE  ListsChildren(e, k)
    <2>1. \A m \in Ids(e) : ParentOf(e, m) = k => m \in Ids(d) /\ ParentOf(d, m) = k
      BY <1>1, <1>2, <1>6
    <2>2. CASE k \in Ids(d)
      BY <1>1, <1>2, <1>7, <2>1, <2>2 DEF ListsChildren
    <2>3. CASE k = g
      <3>1. \A m \in Ids(d) : ParentOf(d, m) # k
        BY <1>1, <1>7, <2>3 DEF Placed
      <3>2. QED
        BY <1>4, <1>6, <2>1, <2>3, <3>1 DEF ListsChildren
    <2>4. QED
      BY <1>1, <2>2, <2>3
  <1>9. \A k \in Ids(e) : Placed(e, k)
    BY <1>1, <1>2, <1>3, <1>6, <1>7 DEF Placed
  <1>10. ASSUME NEW k \in Ids(e)
         PROVE  Hosts(e, k)
    <2>1. CASE k = t
      <3>1. \A m \in Ids(d) : d.nodes[m].contents # g
        BY <1>1, <1>7 DEF Hosts
      <3>2. \A m \in Ids(e) \ {k} : e.nodes[m].contents # g
        BY <1>1, <1>2, <1>6, <2>1, <3>1
      <3>3. QED
        BY <1>1, <1>2, <1>6, <2>1, <3>2 DEF Hosts
    <2>2. CASE k = g
      BY <1>6, <2>2 DEF Hosts
    <2>3. CASE k \in Ids(d) /\ k # t
      <3>1. Hosts(d, k) /\ e.nodes[k].contents = d.nodes[k].contents
        BY <1>2, <1>7, <2>3
      <3>2. \A m \in Ids(e) : e.nodes[m].contents
                                = IF m = t THEN g ELSE IF m = g THEN None ELSE d.nodes[m].contents
        BY <1>1, <1>2, <1>6
      <3>3. QED
        BY <1>1, <1>2, <1>3, <2>3, <3>1, <3>2 DEF Hosts
    <2>4. QED
      BY <1>1, <2>1, <2>2, <2>3
  <1>11. \E depth : Deepens(e, depth)
    <2>1. PICK depth : Deepens(d, depth)
      BY DEF Sound
    <2> DEFINE deep == [k \in Ids(e) |-> IF k \in Ids(d) THEN depth[k] ELSE depth[t] + 1]
    <2>2. \A k \in Ids(d) : Owned(d, k) \subseteq Ids(d)
      BY SoundLinks DEF Linking
    <2>3. \A k \in Ids(d) : depth[k] \in Nat /\ \A m \in Owned(d, k) : depth[k] < depth[m]
      BY <2>1 DEF Deepens
    <2>4. deep \in [Ids(e) -> Nat]
      BY <1>1, <2>3
    <2>5. \A k \in Ids(d) : deep[k] = depth[k] /\ deep[g] = depth[t] + 1
      BY <1>1
    <2> HIDE DEF deep
    <2>6. ASSUME NEW k \in Ids(e), NEW m \in Owned(e, k)
          PROVE  deep[k] < deep[m]
      <3>1. CASE k = g
        BY <1>4, <1>6, <3>1 DEF Owned
      <3>2. CASE k \in Ids(d) /\ m \in Owned(d, k)
        BY <2>2, <2>3, <2>5, <3>2
      <3>3. CASE k = t /\ m = g
        BY <2>3, <2>5, <3>3
      <3>4. k = g \/ (k \in Ids(d) /\ m \in Owned(d, k)) \/ (k = t /\ m = g)
        BY <1>1, <1>2 DEF Owned
      <3>5. QED
        BY <3>1, <3>2, <3>3, <3>4
    <2>7. Deepens(e, deep)
      BY <2>4, <2>6 DEF Deepens
    <2>8. QED
      BY <2>7
  <1>12. TopOK(e)
    <2>1. \A k \in ToSet(Kids(d, Root)) : k \in Ids(d)
      BY <1>1, SoundLinks
    <2>2. TopOK(d)
      BY DEF Sound
    <2>3. QED
      BY <1>1, <1>2, <1>3, <2>1, <2>2 DEF TopOK
  <1>13. QED
    BY <1>1, <1>2, <1>8, <1>9, <1>10, <1>11, <1>12 DEF Sound

\* A new node is put where its kind may go, but not into the document itself.
LEMMA NewFits ==
  ASSUME NEW d, Sound(d), NEW p \in Ids(d), NEW n \in Ids(d), p # n, IsParent(d, p),
         IsChild(d, n), ParentOf(d, n) = None, Owned(d, n) = {}
  PROVE  Fits(d, p, n, {n})
BY DEF Fits

\* What is made of markup or text, one node of a kind at most.
Room(kinds) == IF kinds = {} THEN 0 ELSE IF kinds = {"template"} THEN 2 ELSE 1

LEMMA FilledKeeps ==
  ASSUME NEW d, Sound(d), NEW p \in Ids(d), IsElement(d, p) \/ IsFragment(d, p),
         NEW kinds,
         kinds = {} \/ \E kind \in NodeKinds \ {"document", "fragment"} : kinds = {kind}
  PROVE  LET f == Filled(d, p, kinds)
         IN  Sound(f) /\ Grown(d, f) /\ Len(f.nodes) = Len(d.nodes) + Room(kinds)
PROOF
  <1> DEFINE e == Emptied(d, p)
             kind == CHOOSE k \in kinds : TRUE
             made == Added(e, kind)
             n == Newest(made)
             put == Linked(made, p, n, None)
             f == Filled(d, p, kinds)
  <1>1. Sound(e) /\ Grown(d, e) /\ Ids(e) = Ids(d) /\ Same(d, e)
    BY EmptiedKeeps DEF Relinked, Fewer
  <1>2. Len(e.nodes) = Len(d.nodes) /\ Len(d.nodes) \in Nat
    BY <1>1, ArenaIs DEF Sound
  <1>3. CASE kinds = {}
    <2>1. f = e /\ Room(kinds) = 0
      BY <1>3 DEF Filled, Room
    <2> HIDE DEF e, f
    <2>2. QED
      BY <1>1, <1>2, <2>1 DEF f
  <1>4. CASE kinds # {}
    <2> HIDE DEF e
    <2>1. kind \in NodeKinds \ {"document", "fragment"} /\ kinds = {kind}
      BY <1>4
    <2>2. kind \in NodeKinds /\ kind # "document" /\ kind # "fragment"
      BY <2>1
    <2> HIDE DEF kind
    <2>3. /\ Blank(e, made) /\ Len(made.nodes) = Len(d.nodes) + 1
          /\ Ids(made) = Ids(d) \cup {n} /\ n \notin Ids(d) /\ made.nodes[n].kind = kind
      BY <1>1, <1>2, <2>2, AddedIs
    <2> HIDE DEF made, n
    <2>4. Sound(made) /\ Grown(e, made)
      BY <1>1, <2>3, BlankKeeps, BlankGrows
    <2>5. /\ ParentOf(made, n) = None /\ Owned(made, n) = {} /\ IsChild(made, n)
      <3>1. ParentOf(made, n) = None /\ Kids(made, n) = <<>> /\ made.nodes[n].contents = None
        BY <1>1, <2>3 DEF Blank
      <3>2. ToSet(<<>>) = {}
        BY DEF ToSet
      <3>3. QED
        BY <2>2, <2>3, <3>1, <3>2 DEF Owned, IsChild
    <2>6. IsParent(made, p) /\ p # Root
      <3>1. made.nodes[p].kind = d.nodes[p].kind
        BY <1>1, <2>4 DEF Grown
      <3>2. d.nodes[Root].kind = "document"
        BY DEF Sound
      <3>3. QED
        BY <3>1, <3>2 DEF IsParent, IsElement, IsFragment
    <2>7. Fits(made, p, n, {n})
      BY <2>3, <2>4, <2>5, <2>6, NewFits
    <2>8. Relinked(made, made)
      BY <2>4, GrownSelf DEF Relinked
    <2>9. Relinked(made, put)
      BY <2>4, <2>6, <2>7, <2>8, LinkedKeeps
    <2> HIDE DEF put
    <2>10. Sound(put) /\ Grown(d, put) /\ Ids(put) = Ids(made) /\ Grown(made, put)
      BY <1>1, <2>4, <2>9, GrownOn DEF Relinked
    <2>11. Len(put.nodes) = Len(d.nodes) + 1
      BY <2>3, <2>4, <2>10, ArenaIs DEF Sound
    <2>12. f = IF kind = "template" THEN WithContents(put, n) ELSE put
      BY <1>4 DEF Filled, e, kind, made, put, n
    <2>13. CASE kind # "template"
      <3>1. f = put /\ Room(kinds) = 1
        BY <1>4, <2>1, <2>12, <2>13 DEF Room
      <3> HIDE DEF f
      <3>2. QED
        BY <2>10, <2>11, <3>1 DEF f
    <2>14. CASE kind = "template"
      <3>1. n \in Ids(put) /\ put.nodes[n].kind = "template"
        BY <2>3, <2>10, <2>14 DEF Grown
      <3>2. f = WithContents(put, n) /\ Room(kinds) = 2
        BY <1>4, <2>1, <2>12, <2>14 DEF Room
      <3> HIDE DEF f
      <3>3. Hosted(put, f, n, Len(put.nodes) + 1) /\ Len(f.nodes) = Len(put.nodes) + 1
        BY <2>10, <3>1, <3>2, WithContentsIs
      <3>4. Sound(f) /\ Grown(d, f)
        BY <2>3, <2>10, <3>1, <3>3, HostedKeeps, HostedGrows
      <3>5. Len(f.nodes) = Len(d.nodes) + Room(kinds)
        BY <1>2, <2>11, <3>2, <3>3
      <3>6. QED
        BY <3>4, <3>5 DEF f
    <2>15. QED
      BY <2>13, <2>14
  <1>5. QED
    BY <1>3, <1>4

----------------------------------------------------------------------------
(* One node of several arguments. *)

\* The document has its texts and the fragment: what each argument makes of it.
GatherStep(holder, n, sofar) ==
  IF sofar.ok /\ MayPreInsert(sofar.doc, holder, n, None)
  THEN [sofar EXCEPT !.doc = PreInserted(sofar.doc, holder, n, None)]
  ELSE [sofar EXCEPT !.ok = FALSE]

FilledOf(first, holder, given, count, f) ==
  f = [k \in 0..count |-> IF k = 0 THEN first ELSE GatherStep(holder, given[k], f[k - 1])]

Gathering(d, holder) ==
  {r \in [doc : Documents, node : {holder}, ok : BOOLEAN] : Relinked(d, r.doc)}

LEMMA GatherStepKeeps ==
  ASSUME NEW d, NEW holder \in Ids(d), NEW n \in Ids(d), NEW r \in Gathering(d, holder)
  PROVE  GatherStep(holder, n, r) \in Gathering(d, holder)
PROOF
  <1>1. /\ r \in [doc : Documents, node : {holder}, ok : BOOLEAN]
        /\ Relinked(d, r.doc)
    BY DEF Gathering
  <1>2. CASE r.ok /\ MayPreInsert(r.doc, holder, n, None)
    <2> DEFINE e == PreInserted(r.doc, holder, n, None)
    <2>1. MayGo(r.doc, holder, n, None)
      BY <1>2 DEF MayPreInsert, MayInsert, MayGo
    <2>2. Relinked(r.doc, e)
      BY <1>1, <2>1, PreInsertedKeeps DEF Relinked
    <2>3. GatherStep(holder, n, r) = [r EXCEPT !.doc = e]
      BY <1>2 DEF GatherStep
    <2> HIDE DEF e
    <2>4. Relinked(d, e) /\ e \in Documents
      BY <1>1, <2>2, GrownOn DEF Relinked, Sound
    <2>5. [r EXCEPT !.doc = e] \in [doc : Documents, node : {holder}, ok : BOOLEAN]
          /\ [r EXCEPT !.doc = e].doc = e
      BY <1>1, <2>4
    <2>6. QED
      BY <2>3, <2>4, <2>5 DEF Gathering
  <1>3. CASE ~(r.ok /\ MayPreInsert(r.doc, holder, n, None))
    <2>1. GatherStep(holder, n, r) = [r EXCEPT !.ok = FALSE]
      BY <1>3 DEF GatherStep
    <2>2. [r EXCEPT !.ok = FALSE] \in [doc : Documents, node : {holder}, ok : BOOLEAN]
          /\ [r EXCEPT !.ok = FALSE].doc = r.doc
      BY <1>1
    <2>3. QED
      BY <1>1, <2>1, <2>2 DEF Gathering
  <1>4. QED
    BY <1>2, <1>3

LEMMA FilledExists ==
  ASSUME NEW d, NEW holder \in Ids(d), NEW count \in Nat, NEW given \in [1..count -> Ids(d)],
         NEW first \in Gathering(d, holder)
  PROVE  \E f : FilledOf(first, holder, given, count, f)
PROOF
  <1> DEFINE V == Gathering(d, holder)
             F == [k \in 1..count |-> [r \in V |-> GatherStep(holder, given[k], r)]]
  <1>1. F \in [1..count -> [V -> V]]
    BY GatherStepKeeps
  <1>2. \A k \in 1..count : \A r \in V : F[k][r] = GatherStep(holder, given[k], r)
    OBVIOUS
  <1>3. first \in V
    OBVIOUS
  <1> HIDE DEF F, V
  <1>4. PICK it \in [0..count -> V] : it[0] = first /\ \A k \in 1..count : it[k] = F[k][it[k - 1]]
    <2>1. \E it : Running(V, first, count, F, it)
      BY <1>1, <1>3, RepeatedRuns
    <2>2. QED
      BY <2>1 DEF Running
  <1>5. ASSUME NEW k \in 0..count
        PROVE  it[k] = IF k = 0 THEN first ELSE GatherStep(holder, given[k], it[k - 1])
    <2>1. CASE k = 0
      BY <1>4, <2>1
    <2>2. CASE k # 0
      <3>1. k \in 1..count /\ k - 1 \in 0..count
        BY <2>2
      <3>2. it[k - 1] \in V /\ it[k] = F[k][it[k - 1]]
        BY <1>4, <3>1
      <3>3. QED
        BY <1>2, <2>2, <3>1, <3>2
    <2>3. QED
      BY <2>1, <2>2
  <1>6. it = [k \in 0..count |-> IF k = 0 THEN first ELSE GatherStep(holder, given[k], it[k - 1])]
    BY <1>4, <1>5
  <1>7. QED
    BY <1>6, Zenon DEF FilledOf

LEMMA FilledIs ==
  ASSUME NEW d, NEW holder \in Ids(d), NEW count \in Nat, NEW given \in [1..count -> Ids(d)],
         NEW first \in Gathering(d, holder), NEW f, FilledOf(first, holder, given, count, f)
  PROVE  f[count] \in Gathering(d, holder)
PROOF
  <1> DEFINE V == Gathering(d, holder)
  <1>1. \A k \in 0..count : f[k] = IF k = 0 THEN first ELSE GatherStep(holder, given[k], f[k - 1])
    <2>1. f = [k \in 0..count |-> IF k = 0 THEN first ELSE GatherStep(holder, given[k], f[k - 1])]
      BY Zenon DEF FilledOf
    <2>2. QED
      BY <2>1
  <1>2. f[0] \in V
    BY <1>1
  <1>3. ASSUME NEW k \in 1..count, f[k - 1] \in V
        PROVE  f[k] \in V
    <2>1. f[k] = GatherStep(holder, given[k], f[k - 1]) /\ given[k] \in Ids(d)
      BY <1>1
    <2>2. QED
      BY <1>3, <2>1, GatherStepKeeps
  <1> HIDE DEF V
  <1>4. \A k \in 0..count : f[k] \in V
    BY <1>2, <1>3, RepeatsWithin
  <1>5. QED
    BY <1>4 DEF V

\* The arguments of a call: nodes, and None for a string.
ItemsOf(d) == UNION {[1..k -> Ids(d) \cup {None}] : k \in Nat}

Texts(items) == Cardinality({i \in DOMAIN items : items[i] = None})

LEMMA ItemsAre ==
  ASSUME NEW d, NEW items \in ItemsOf(d)
  PROVE  /\ Len(items) \in Nat /\ items \in [1..Len(items) -> Ids(d) \cup {None}]
         /\ Texts(items) \in Nat
         /\ \A i \in 1..Len(items) : items[i] = None =>
              Cardinality({j \in 1..i : items[j] = None}) \in 1..Texts(items)
PROOF
  <1>1. PICK k \in Nat : items \in [1..k -> Ids(d) \cup {None}]
    BY DEF ItemsOf
  <1>2. items \in Seq(Ids(d) \cup {None})
    BY <1>1, SeqDef
  <1>3. Len(items) = k /\ DOMAIN items = 1..k
    BY <1>1, <1>2, LenProperties
  <1> DEFINE S == {i \in 1..k : items[i] = None}
             T(i) == {j \in 1..i : items[j] = None}
  <1>4. IsFiniteSet(S) /\ Cardinality(S) \in Nat
    <2>1. IsFiniteSet(1..k) /\ S \in SUBSET (1..k)
      BY <1>1, FS_Interval
    <2> HIDE DEF S
    <2>2. QED
      BY <2>1, FS_Subset, FS_CardinalityType
  <1>5. ASSUME NEW i \in 1..k, items[i] = None
        PROVE  Cardinality(T(i)) \in 1..Cardinality(S)
    <2>1. T(i) \subseteq S /\ i \in T(i)
      BY <1>5
    <2> HIDE DEF S
    <2>2. IsFiniteSet(T(i)) /\ Cardinality(T(i)) <= Cardinality(S) /\ Cardinality(T(i)) \in Nat
      BY <1>4, <2>1, FS_Subset, FS_CardinalityType
    <2>3. Cardinality(T(i)) # 0
      BY <2>1, <2>2, FS_EmptySet
    <2>4. QED
      BY <1>4, <2>2, <2>3
  <1>6. Texts(items) = Cardinality(S)
    BY <1>3 DEF Texts
  <1>7. QED
    BY <1>1, <1>3, <1>4, <1>5, <1>6

\* What the arguments become: the texts made of strings first, then the
\* fragment, which takes them one by one.
GatheredFrom(items, made, base) ==
  LET g      == Gathered(items)
      given  == Indices(items)
      count  == Len(items)
      holder == Len(doc.nodes) + Texts(items) + 1
  IN  /\ Blank(doc, made) /\ Sound(made) /\ Grown(doc, made)
      /\ Ids(made) = 1..(Len(doc.nodes) + Texts(items))
      /\ Len(made.nodes) = Len(doc.nodes) + Texts(items)
      /\ \A k \in Ids(made) \ Ids(doc) : made.nodes[k].kind = "text"
      /\ given \in [1..count -> Ids(made)]
      /\ \A i \in 1..count : IF items[i] # None THEN given[i] = items[i] ELSE given[i] \notin Ids(doc)
      /\ count = 1 => g = [doc |-> made, node |-> given[1], ok |-> TRUE]
      /\ count # 1 =>
           /\ Blank(made, base) /\ Sound(base) /\ Grown(doc, base)
           /\ Ids(base) = Ids(made) \cup {holder} /\ holder \notin Ids(made)
           /\ Len(base.nodes) = Len(made.nodes) + 1
           /\ IsFragment(base, holder)
           /\ \E f : /\ FilledOf([doc |-> base, node |-> holder, ok |-> TRUE], holder, given,
                                 count, f)
                    /\ g = f[count]

LEMMA GatheredIs ==
  ASSUME Sound(doc), NEW items \in ItemsOf(doc)
  PROVE  \E made, base : GatheredFrom(items, made, base)
PROOF
  <1> DEFINE texts == Texts(items)
             count == Len(items)
             given == Indices(items)
             more == [i \in 1..texts |-> New("text")]
             made == [doc EXCEPT !.nodes = @ \o more]
             base == Added(made, "fragment")
             holder == Len(doc.nodes) + texts + 1
             first == [doc |-> base, node |-> holder, ok |-> TRUE]
             f == CHOOSE h : FilledOf(first, holder, given, count, h)
             g == Gathered(items)
  <1>1. /\ count \in Nat /\ items \in [1..count -> Ids(doc) \cup {None}] /\ texts \in Nat
        /\ \A i \in 1..count : items[i] = None =>
             Cardinality({j \in 1..i : items[j] = None}) \in 1..texts
    BY ItemsAre
  <1>2. doc \in Documents /\ Ids(doc) = 1..Len(doc.nodes) /\ Len(doc.nodes) \in Nat
    BY ArenaIs DEF Sound
  <1>3. With(doc, texts, "text", made)
    <2> HIDE DEF more
    <2>1. made = [nodes |-> doc.nodes \o more, changed |-> doc.changed]
      BY <1>2, Renodes
    <2> HIDE DEF made
    <2>2. QED
      BY <2>1 DEF With, more
  <1>4. "text" \in NodeKinds /\ "fragment" \in NodeKinds
    BY DEF NodeKinds
  <1>5. Blank(doc, made) /\ Len(made.nodes) = Len(doc.nodes) + texts
    <2> HIDE DEF made, texts
    <2>1. QED
      BY <1>1, <1>3, <1>4, ManyAdded
  <1>6. g = IF Len(items) = 1 THEN [doc |-> made, node |-> given[1], ok |-> TRUE]
            ELSE f[count]
    BY Zenon DEF Gathered, FilledOf, GatherStep, Texts
  <1>7. given \in [1..count -> 1..(Len(doc.nodes) + texts)]
    <2>1. given = [i \in 1..count |->
                     IF items[i] # None THEN items[i]
                     ELSE Len(doc.nodes) + Cardinality({j \in 1..i : items[j] = None})]
      BY <1>1 DEF Indices
    <2>2. ASSUME NEW i \in 1..count
          PROVE  given[i] \in 1..(Len(doc.nodes) + texts)
      <3>1. CASE items[i] # None
        <4>1. given[i] = items[i] /\ items[i] \in 1..Len(doc.nodes)
          BY <1>1, <1>2, <2>1, <3>1
        <4> HIDE DEF given, texts
        <4>2. QED
          BY <1>1, <1>2, <4>1
      <3>2. CASE items[i] = None
        <4> DEFINE c == Cardinality({j \in 1..i : items[j] = None})
        <4>1. given[i] = Len(doc.nodes) + c /\ c \in 1..texts
          BY <1>1, <2>1, <3>2
        <4> HIDE DEF given, texts, c
        <4>2. QED
          BY <1>1, <1>2, <4>1
      <3>3. QED
        BY <3>1, <3>2
    <2> HIDE DEF given, texts
    <2>3. QED
      BY <2>1, <2>2
  <1> HIDE DEF made, given, texts, count, g
  <1>8. Sound(made) /\ Grown(doc, made) /\ Ids(made) = 1..(Len(doc.nodes) + texts)
    BY <1>5, BlankKeeps, BlankGrows, ArenaIs DEF Sound
  <1>9. \A i \in 1..count : IF items[i] # None THEN given[i] = items[i] ELSE given[i] \notin Ids(doc)
    <2>1. given = [i \in 1..count |->
                     IF items[i] # None THEN items[i]
                     ELSE Len(doc.nodes) + Cardinality({j \in 1..i : items[j] = None})]
      BY <1>1 DEF Indices, given
    <2>2. ASSUME NEW i \in 1..count, items[i] = None
          PROVE  given[i] \notin Ids(doc)
      <3> DEFINE c == Cardinality({j \in 1..i : items[j] = None})
      <3>1. given[i] = Len(doc.nodes) + c /\ c \in 1..texts
        BY <1>1, <2>1, <2>2
      <3> HIDE DEF given, texts, c
      <3>2. QED
        BY <1>1, <1>2, <3>1
    <2>3. QED
      BY <2>1, <2>2
  <1>10. \A k \in Ids(made) \ Ids(doc) : made.nodes[k].kind = "text"
    BY <1>1, <1>3, <1>4, ManyAdded
  <1>11. ASSUME count # 1
         PROVE  /\ Blank(made, base) /\ Sound(base) /\ Grown(doc, base)
                /\ Ids(base) = Ids(made) \cup {holder} /\ holder \notin Ids(made)
                /\ Len(base.nodes) = Len(made.nodes) + 1
                /\ IsFragment(base, holder)
                /\ FilledOf(first, holder, given, count, f) /\ g = f[count]
    <2>1. g = f[count]
      BY <1>6, <1>11 DEF count
    <2>2. /\ Blank(made, base) /\ Len(base.nodes) = Len(made.nodes) + 1 /\ Newest(base) = holder
          /\ Ids(base) = Ids(made) \cup {holder} /\ holder \notin Ids(made)
          /\ IsFragment(base, holder)
      BY <1>4, <1>5, <1>8, AddedIs DEF IsFragment
    <2> HIDE DEF base, holder
    <2>3. Sound(base) /\ Grown(doc, base)
      BY <1>8, <2>2, BlankKeeps, BlankGrows, GrownOn
    <2>4. given \in [1..count -> Ids(base)] /\ holder \in Ids(base)
      BY <1>7, <1>8, <2>2
    <2>5. first \in Gathering(base, holder)
      <3>1. Relinked(base, base) /\ base \in Documents
        BY <2>3, GrownSelf DEF Relinked, Sound
      <3>2. QED
        BY <3>1 DEF Gathering
    <2> HIDE DEF first
    <2>6. \E h : FilledOf(first, holder, given, count, h)
      BY <1>1, <2>4, <2>5, FilledExists
    <2>7. FilledOf(first, holder, given, count, f)
      BY <2>6
    <2> HIDE DEF f
    <2>8. QED
      BY <2>1, <2>2, <2>3, <2>7
  <1>12. count = 1 => g = [doc |-> made, node |-> given[1], ok |-> TRUE]
    BY <1>6 DEF count
  <1> HIDE DEF base, f
  <1>13. GatheredFrom(items, made, base)
    BY <1>5, <1>7, <1>8, <1>9, <1>10, <1>11, <1>12
       DEF GatheredFrom, g, given, count, texts, holder, first
  <1>14. QED
    BY <1>13

LEMMA GatheredKeeps ==
  ASSUME Sound(doc), NEW items \in ItemsOf(doc)
  PROVE  LET g == Gathered(items)
         IN  /\ Sound(g.doc) /\ Grown(doc, g.doc) /\ g.node \in Ids(g.doc)
             /\ Len(g.doc.nodes) = Len(doc.nodes) + Additional(items)
PROOF
  <1> DEFINE g == Gathered(items)
             given == Indices(items)
             count == Len(items)
             texts == Texts(items)
             holder == Len(doc.nodes) + texts + 1
  <1>1. PICK made, base : GatheredFrom(items, made, base)
    BY GatheredIs
  <1>2. count \in Nat /\ texts \in Nat /\ Len(doc.nodes) \in Nat
    BY ItemsAre, ArenaIs DEF Sound
  <1> HIDE DEF given, texts, g
  <1>3. /\ Sound(made) /\ Grown(doc, made) /\ Ids(made) = 1..(Len(doc.nodes) + texts)
        /\ given \in [1..count -> Ids(made)]
    BY <1>1 DEF GatheredFrom, given, texts
  <1>4. Len(made.nodes) = Len(doc.nodes) + texts
    BY <1>1 DEF GatheredFrom, texts
  <1>5. CASE count = 1
    <2>1. g = [doc |-> made, node |-> given[1], ok |-> TRUE]
      BY <1>1, <1>5 DEF GatheredFrom, g, given
    <2>2. Additional(items) = texts
      BY <1>2, <1>5 DEF Additional, texts, Texts
    <2>3. given[1] \in Ids(made)
      BY <1>3, <1>5
    <2>4. g.doc = made /\ g.node = given[1]
      BY <2>1
    <2>5. QED
      BY <1>3, <1>4, <2>2, <2>3, <2>4 DEF g
  <1>6. CASE count # 1
    <2> DEFINE first == [doc |-> base, node |-> holder, ok |-> TRUE]
    <2>1. /\ Sound(base) /\ Grown(doc, base) /\ Ids(base) = Ids(made) \cup {holder}
          /\ Len(base.nodes) = Len(made.nodes) + 1
          /\ \E f : FilledOf(first, holder, given, count, f) /\ g = f[count]
      BY <1>1, <1>6 DEF GatheredFrom, g, given, texts
    <2>2. Additional(items) = texts + 1
      BY <1>6 DEF Additional, texts, Texts
    <2> HIDE DEF holder
    <2>3. given \in [1..count -> Ids(base)] /\ holder \in Ids(base)
      BY <1>3, <2>1
    <2>4. first \in Gathering(base, holder)
      <3>1. Relinked(base, base) /\ base \in Documents
        BY <2>1, GrownSelf DEF Relinked, Sound
      <3>2. QED
        BY <3>1 DEF Gathering
    <2> HIDE DEF first
    <2>5. g \in Gathering(base, holder)
      BY <1>2, <2>1, <2>3, <2>4, FilledIs
    <2>6. g.node = holder /\ Relinked(base, g.doc)
      BY <2>5 DEF Gathering
    <2>7. Sound(g.doc) /\ Grown(doc, g.doc) /\ Ids(g.doc) = Ids(base)
      BY <2>1, <2>6, GrownOn DEF Relinked
    <2>8. Len(g.doc.nodes) = Len(base.nodes)
      BY <2>1, <2>7, ArenaIs DEF Sound
    <2>9. QED
      <3>1. Len(g.doc.nodes) = (Len(doc.nodes) + texts) + 1
        BY <1>4, <2>1, <2>8
      <3>2. (Len(doc.nodes) + texts) + 1 = Len(doc.nodes) + (texts + 1)
        <4> DEFINE a == Len(doc.nodes)
        <4>1. a \in Nat /\ texts \in Nat
          BY <1>2
        <4> HIDE DEF a
        <4>2. (a + texts) + 1 = a + (texts + 1)
          BY <4>1
        <4>3. QED
          BY <4>2 DEF a
      <3>3. Len(g.doc.nodes) = Len(doc.nodes) + Additional(items)
        BY <2>2, <3>1, <3>2
      <3>4. QED
        BY <2>3, <2>6, <2>7, <3>3 DEF g
  <1>7. QED
    BY <1>5, <1>6

----------------------------------------------------------------------------
(* Copies. *)

LEMMA SetToSeqIs ==
  ASSUME NEW S, IsFiniteSet(S)
  PROVE  /\ SetToSeq(S) \in Seq(S) /\ Len(SetToSeq(S)) = Cardinality(S)
         /\ IsInjective(SetToSeq(S)) /\ ToSet(SetToSeq(S)) = S
PROOF
  <1> DEFINE n == Cardinality(S)
             f == SetToSeq(S)
  <1>1. n \in Nat /\ ExistsBijection(1..n, S)
    BY FS_CardinalityType
  <1>2. \E h \in [1..n -> S] : IsInjective(h)
    BY <1>1 DEF ExistsBijection, Bijection, Injection
  <1>3. f \in [1..n -> S] /\ IsInjective(f)
    BY <1>2 DEF SetToSeq
  <1> HIDE DEF f
  <1>4. f \in Seq(S) /\ Len(f) = n /\ DOMAIN f = 1..n
    BY <1>1, <1>3, SeqDef, LenProperties
  <1>5. IsFiniteSet(1..n) /\ Cardinality(1..n) = n
    BY <1>1, FS_Interval
  <1>6. f \in Injection(1..n, S)
    BY <1>3 DEF Injection
  <1> HIDE DEF n
  <1>7. f \in Surjection(1..n, S)
    BY <1>5, <1>6, FS_Injection DEF n
  <1>8. ToSet(f) = S
    BY <1>3, <1>4, <1>7 DEF Surjection, ToSet
  <1>9. QED
    BY <1>3, <1>4, <1>8 DEF f, n

\* The copy of what is copied, and nothing for the rest.
CopyOf(copy, m) == IF m \in DOMAIN copy THEN copy[m] ELSE None

\* e is d with a copy of n and of C around it.
CopiedInto(d, e, n, deep, C, copy) ==
  /\ e \in Documents /\ Ids(d) \subseteq Ids(e)
  /\ copy \in [C -> Ids(e) \ Ids(d)] /\ IsInjective(copy)
  /\ \A k \in Ids(e) \ Ids(d) : \E m \in C : k = copy[m]
  /\ \A k \in Ids(d) : e.nodes[k] = d.nodes[k]
  /\ e.changed \subseteq Ids(e) /\ d.changed \subseteq e.changed
  /\ e.changed \subseteq d.changed \cup (Ids(e) \ Ids(d))
  /\ \A m \in C :
       /\ e.nodes[copy[m]].kind = d.nodes[m].kind
       /\ ParentOf(e, copy[m]) = IF m = n \/ ~deep THEN None ELSE CopyOf(copy, ParentOf(d, m))
       /\ e.nodes[copy[m]].contents = CopyOf(copy, d.nodes[m].contents)
       /\ Kids(e, copy[m]) = IF deep THEN [i \in DOMAIN Kids(d, m) |-> CopyOf(copy, Kids(d, m)[i])]
                             ELSE <<>>

LEMMA CopiedIs ==
  ASSUME NEW d, Sound(d), NEW n \in Ids(d), NEW deep \in BOOLEAN
  PROVE  LET C == Copied(d, n, deep)
         IN  /\ n \in C /\ C \subseteq Ids(d)
             /\ deep => \A m \in C : Owned(d, m) \subseteq C
             /\ deep => \A m \in C \ {n} : \E o \in C : m \in Owned(d, o)
             /\ deep => \A m \in C : n \notin Owned(d, m)
PROOF
  <1> DEFINE C == Copied(d, n, deep)
  <1>1. Linking(d)
    BY SoundLinks
  <1>2. CASE deep
    <2>1. C = Below(d, n)
      BY <1>2 DEF Copied
    <2>2. C \subseteq Ids(d) /\ n \in C /\ \A m \in C : Owned(d, m) \subseteq C
      BY <1>1, <2>1, BelowIs
    <2>3. \A m \in C \ {n} : \E o \in C : m \in Owned(d, o)
      BY <1>1, <2>1, BelowOwned
    <2>4. ASSUME NEW m \in C, n \in Owned(d, m)
          PROVE  FALSE
      <3>1. m \notin Below(d, n)
        BY <2>2, <2>4, SoundIsAcyclic
      <3>2. QED
        BY <2>1, <3>1
    <2>5. QED
      BY <2>2, <2>3, <2>4
  <1>3. CASE ~deep
    <2>1. C = {n} \cup ({d.nodes[n].contents} \ {None})
      BY <1>3 DEF Copied
    <2>2. Hosts(d, n)
      BY DEF Sound
    <2>3. QED
      BY <1>3, <2>1, <2>2 DEF Hosts
  <1>4. QED
    BY <1>2, <1>3

LEMMA ClonedIs ==
  ASSUME NEW d, Sound(d), NEW n \in Ids(d), NEW deep \in BOOLEAN
  PROVE  LET C == Copied(d, n, deep)
             e == Cloned(d, n, deep)
         IN  /\ \E copy : CopiedInto(d, e, n, deep, C, copy)
             /\ Len(e.nodes) = Len(d.nodes) + Cardinality(C)
             /\ Cardinality(C) \in Nat /\ Cardinality(C) > 0
PROOF
  <1> DEFINE C == Copied(d, n, deep)
             L == Len(d.nodes)
             rest == SetToSeq(C \ {n})
             order == <<n>> \o rest
             copy == [m \in ToSet(order) |-> L + CHOOSE i \in DOMAIN order : order[i] = m]
             Of(m) == IF m \in ToSet(order) THEN copy[m] ELSE None
             Node(m) == [kind     |-> d.nodes[m].kind,
                         parent   |-> IF m = n \/ ~deep THEN None ELSE Of(ParentOf(d, m)),
                         children |-> IF deep THEN [i \in DOMAIN Kids(d, m) |-> Of(Kids(d, m)[i])]
                                      ELSE <<>>,
                         contents |-> Of(d.nodes[m].contents)]
             copies == [i \in DOMAIN order |-> Node(order[i])]
             noted == {copy[m] : m \in {k \in ToSet(order) :
                                          \/ Node(k).parent # None
                                          \/ Node(k).contents # None}}
             e == Cloned(d, n, deep)
             c == Cardinality(C)
  <1>1. e = [nodes |-> d.nodes \o copies, changed |-> d.changed \cup noted]
    BY DEF Cloned
  <1>2. /\ d \in Documents /\ Ids(d) = 1..L /\ L \in Nat /\ Ids(d) \subseteq Nat /\ IsFiniteSet(Ids(d))
        /\ d.nodes \in Seq(NodeData)
        /\ \A k \in Ids(d) : d.nodes[k] \in NodeData /\ Kids(d, k) \in Seq(Nat)
                             /\ d.nodes[k].kind \in NodeKinds
    BY ArenaIs DEF Sound
  <1>3. n \in C /\ C \subseteq Ids(d)
    BY CopiedIs
  <1> HIDE DEF C
  <1>4. IsFiniteSet(C) /\ c \in Nat /\ c > 0
    <2>1. IsFiniteSet(C) /\ c \in Nat
      BY <1>2, <1>3, FS_Subset, FS_CardinalityType
    <2>2. c # 0
      BY <1>3, <2>1, FS_EmptySet
    <2>3. QED
      BY <2>1, <2>2
  <1>a. Len(d.nodes) = L /\ Cardinality(C) = c
    OBVIOUS
  <1> HIDE DEF c, L
  <1>5. order \in Seq(Nat) /\ Len(order) = c /\ IsInjective(order) /\ ToSet(order) = C
    <2>1. IsFiniteSet(C \ {n}) /\ Cardinality(C \ {n}) = c - 1
      BY <1>3, <1>4, <1>a, FS_RemoveElement
    <2>2. rest \in Seq(C \ {n}) /\ Len(rest) = c - 1 /\ IsInjective(rest) /\ ToSet(rest) = C \ {n}
      BY <2>1, SetToSeqIs
    <2> DEFINE one == <<n>>
    <2>3. one \in Seq(C) /\ Len(one) = 1 /\ ToSet(one) = {n} /\ IsInjective(one)
      BY <1>3 DEF ToSet, IsInjective
    <2> HIDE DEF rest, one
    <2>4. rest \in Seq(C)
      BY <2>2
    <2>5. /\ one \o rest \in Seq(C) /\ ToSet(one \o rest) = ToSet(one) \cup ToSet(rest)
          /\ IsInjective(one) /\ IsInjective(rest) /\ ToSet(one) \cap ToSet(rest) = {}
               => IsInjective(one \o rest)
      BY <2>3, <2>4, JoinedIs
    <2>6. Len(one \o rest) = c
      BY <1>4, <2>2, <2>3, <2>4, ConcatProperties
    <2>7. ToSet(one \o rest) = C /\ IsInjective(one \o rest)
      BY <1>3, <2>2, <2>3, <2>5
    <2>8. one \o rest \in Seq(Nat)
      BY <1>2, <1>3, <2>5
    <2>9. QED
      BY <2>6, <2>7, <2>8 DEF one
  <1> HIDE DEF order
  <1>6. DOMAIN order = 1..c /\ \A i \in 1..c : order[i] \in C
    BY <1>5, LenProperties, Listed
  <1>7. ASSUME NEW m \in C
        PROVE  \E i \in 1..c : order[i] = m /\ copy[m] = L + i
    <2>1. \E i \in DOMAIN order : order[i] = m
      BY <1>5 DEF ToSet
    <2>2. copy[m] = L + (CHOOSE i \in DOMAIN order : order[i] = m)
      BY <1>5
    <2>3. QED
      BY <1>6, <2>1, <2>2
  <1>8. DOMAIN copy = C
    BY <1>5
  <1>9. \A m : Of(m) = CopyOf(copy, m)
    BY <1>5, <1>8 DEF CopyOf
  <1> HIDE DEF copy, Of
  <1>10. \A i \in 1..c : copy[order[i]] = L + i
    BY <1>5, <1>6, <1>7 DEF IsInjective
  <1>11. \A m \in C : copy[m] \in (L + 1)..(L + c)
    BY <1>2, <1>4, <1>7
  <1>12. IsInjective(copy)
    <2>1. SUFFICES ASSUME NEW a \in C, NEW b \in C, copy[a] = copy[b]
                   PROVE  a = b
      BY <1>8 DEF IsInjective
    <2>2. PICK i \in 1..c : order[i] = a /\ copy[a] = L + i
      BY <1>7
    <2>3. PICK j \in 1..c : order[j] = b /\ copy[b] = L + j
      BY <1>7
    <2>4. i = j
      <3>1. L + i = L + j
        BY <2>1, <2>2, <2>3
      <3>2. L \in Nat /\ i \in Nat /\ j \in Nat
        BY <1>2, <1>4
      <3>3. QED
        BY ONLY <3>1, <3>2
    <2>5. QED
      BY <2>2, <2>3, <2>4
  <1>13. \A m : Of(m) \in Nat
    <2>1. \A m \in C : copy[m] \in Nat
      BY <1>2, <1>4, <1>11
    <2>2. QED
      BY <1>8, <1>9, <2>1 DEF CopyOf, None
  <1>14. ASSUME NEW m \in C
         PROVE  /\ Node(m) \in NodeData /\ Node(m).kind = d.nodes[m].kind
                /\ Node(m).parent = IF m = n \/ ~deep THEN None ELSE Of(ParentOf(d, m))
                /\ Node(m).contents = Of(d.nodes[m].contents)
                /\ Node(m).children = IF deep THEN [i \in DOMAIN Kids(d, m) |-> Of(Kids(d, m)[i])]
                                      ELSE <<>>
    <2> DEFINE kids == IF deep THEN [i \in DOMAIN Kids(d, m) |-> Of(Kids(d, m)[i])] ELSE <<>>
               up == IF m = n \/ ~deep THEN None ELSE Of(ParentOf(d, m))
               in == Of(d.nodes[m].contents)
    <2>1. kids \in Seq(Nat)
      <3>1. CASE deep
        <4>1. Kids(d, m) \in Seq(Nat)
          BY <1>2, <1>3
        <4>2. Len(Kids(d, m)) \in Nat /\ DOMAIN Kids(d, m) = 1..Len(Kids(d, m))
          BY <4>1, LenProperties
        <4> DEFINE N == Len(Kids(d, m))
                   h == [i \in 1..N |-> Of(Kids(d, m)[i])]
        <4>3. h \in [1..N -> Nat]
          BY <1>13
        <4> HIDE DEF h, N
        <4>4. h \in Seq(Nat)
          BY <4>2, <4>3, SeqDef DEF N
        <4>5. kids = h
          BY <3>1, <4>2 DEF h, N
        <4>6. QED
          BY <4>4, <4>5
      <3>2. CASE ~deep
        <4> DEFINE none == <<>>
        <4>1. none \in Seq(Nat)
          BY EmptySeq
        <4>2. QED
          BY <3>2, <4>1
      <3>3. QED
        BY <3>1, <3>2
    <2>2. up \in Nat /\ in \in Nat /\ d.nodes[m].kind \in NodeKinds
      BY <1>2, <1>3, <1>13 DEF None
    <2>3. Node(m) = [kind |-> d.nodes[m].kind, parent |-> up, children |-> kids, contents |-> in]
      OBVIOUS
    <2> HIDE DEF kids, up, in, Node
    <2>4. /\ Node(m) \in NodeData /\ Node(m).kind = d.nodes[m].kind /\ Node(m).parent = up
          /\ Node(m).contents = in /\ Node(m).children = kids
      BY <2>1, <2>2, <2>3 DEF NodeData
    <2>5. QED
      BY <2>4 DEF kids, up, in
  <1> HIDE DEF Node
  <1>15. copies \in Seq(NodeData) /\ Len(copies) = c /\ \A i \in 1..c : copies[i] = Node(order[i])
    <2>1. copies \in [1..c -> NodeData] /\ \A i \in 1..c : copies[i] = Node(order[i])
      BY <1>6, <1>14
    <2> HIDE DEF copies
    <2>2. QED
      BY <1>4, <2>1, SeqDef, LenProperties
  <1> HIDE DEF copies
  <1> DEFINE a == d.nodes
  <1>b. a \in Seq(NodeData) /\ Len(a) = L
    BY <1>2, <1>a
  <1> HIDE DEF a
  <1>16. /\ a \o copies \in Seq(NodeData) /\ Len(a \o copies) = L + c
         /\ \A i \in 1..(L + c) : (a \o copies)[i] = IF i <= L THEN a[i] ELSE copies[i - L]
    BY <1>2, <1>4, <1>15, <1>b, ConcatProperties
  <1>17. noted \subseteq (L + 1)..(L + c)
    BY <1>5, <1>11
  <1> HIDE DEF noted
  <1>18. e.nodes = a \o copies /\ e.changed = d.changed \cup noted
    BY <1>1 DEF a
  <1>19. e \in Documents
    <2>1. e = [nodes |-> e.nodes, changed |-> e.changed]
      BY <1>1
    <2>2. d.changed \in SUBSET Nat /\ (L + 1)..(L + c) \subseteq Nat
      BY <1>2, <1>4 DEF Documents
    <2>3. e.nodes \in Seq(NodeData) /\ e.changed \in SUBSET Nat
      BY <1>16, <1>17, <1>18, <2>2
    <2>4. QED
      BY <2>1, <2>3 DEF Documents
  <1> HIDE DEF e
  <1>20. Ids(e) = 1..(L + c) /\ Len(e.nodes) = L + c
    BY <1>16, <1>18, <1>19, ArenaIs
  <1>21. \A k \in Ids(d) : k \in Ids(e) /\ e.nodes[k] = d.nodes[k]
    BY <1>2, <1>4, <1>16, <1>18, <1>20 DEF a
  <1>22. Ids(e) \ Ids(d) = (L + 1)..(L + c)
    BY <1>2, <1>4, <1>20
  <1>23. ASSUME NEW m \in C
         PROVE  e.nodes[copy[m]] = Node(m)
    <2>1. PICK i \in 1..c : order[i] = m /\ copy[m] = L + i
      BY <1>7
    <2>2. L + i \in 1..(L + c) /\ ~(L + i <= L) /\ (L + i) - L = i
      BY <1>2, <1>4
    <2>3. e.nodes[L + i] = copies[i]
      BY <1>16, <1>18, <2>2
    <2>4. QED
      BY <1>15, <2>1, <2>3
  <1>24. copy \in [C -> Ids(e) \ Ids(d)]
    <2>1. copy = [m \in ToSet(order) |-> copy[m]]
      BY DEF copy
    <2>2. QED
      BY <1>5, <1>11, <1>22, <2>1
  <1>25. ASSUME NEW k \in Ids(e) \ Ids(d)
         PROVE  \E m \in C : k = copy[m]
    <2>1. k - L \in 1..c /\ L + (k - L) = k
      BY <1>2, <1>4, <1>22
    <2>2. QED
      BY <1>6, <1>10, <2>1
  <1>26. /\ e.changed \subseteq Ids(e) /\ d.changed \subseteq e.changed
         /\ e.changed \subseteq d.changed \cup (Ids(e) \ Ids(d))
    BY <1>17, <1>18, <1>21, <1>22 DEF Sound
  <1>27. ASSUME NEW m \in C
         PROVE  /\ e.nodes[copy[m]].kind = d.nodes[m].kind
                /\ ParentOf(e, copy[m]) = IF m = n \/ ~deep THEN None
                                          ELSE CopyOf(copy, ParentOf(d, m))
                /\ e.nodes[copy[m]].contents = CopyOf(copy, d.nodes[m].contents)
                /\ Kids(e, copy[m])
                     = IF deep THEN [i \in DOMAIN Kids(d, m) |-> CopyOf(copy, Kids(d, m)[i])]
                       ELSE <<>>
    BY <1>9, <1>14, <1>23 DEF ParentOf, Kids
  <1>28. CopiedInto(d, e, n, deep, C, copy)
    BY <1>12, <1>19, <1>21, <1>24, <1>25, <1>26, <1>27 DEF CopiedInto
  <1>29. QED
    BY <1>4, <1>20, <1>28, <1>a DEF C, e

LEMMA CopiedGrows ==
  ASSUME NEW d, NEW e, NEW n, NEW deep, NEW C, NEW copy, CopiedInto(d, e, n, deep, C, copy)
  PROVE  Grown(d, e)
BY DEF CopiedInto, Grown, ParentOf

\* A copy is as deep as what it was made of.
LEMMA CopiedKeeps ==
  ASSUME NEW d, Sound(d), NEW n \in Ids(d), NEW deep \in BOOLEAN, NEW e, NEW copy,
         CopiedInto(d, e, n, deep, Copied(d, n, deep), copy)
  PROVE  Sound(e)
PROOF
  <1> DEFINE C == Copied(d, n, deep)
  <1>1. /\ d \in Documents /\ d.changed \subseteq Ids(d) /\ Linking(d)
        /\ Root \in Ids(d) /\ d.nodes[Root].kind = "document" /\ TopOK(d)
        /\ \A k \in Ids(d) : ListsChildren(d, k) /\ Placed(d, k) /\ Hosts(d, k)
        /\ None \notin Ids(d)
        /\ \A k \in Ids(d) : ToSet(Kids(d, k)) \subseteq Ids(d)
    BY SoundLinks, ArenaIs DEF Sound
  <1>2. /\ n \in C /\ C \subseteq Ids(d)
        /\ deep => \A m \in C : Owned(d, m) \subseteq C
        /\ deep => \A m \in C \ {n} : \E o \in C : m \in Owned(d, o)
        /\ deep => \A m \in C : n \notin Owned(d, m)
    BY CopiedIs
  <1> HIDE DEF C
  <1>3. /\ e \in Documents /\ Ids(d) \subseteq Ids(e) /\ e.changed \subseteq Ids(e)
        /\ copy \in [C -> Ids(e) \ Ids(d)] /\ IsInjective(copy)
        /\ \A k \in Ids(e) \ Ids(d) : \E m \in C : k = copy[m]
        /\ \A k \in Ids(d) : e.nodes[k] = d.nodes[k]
    BY DEF CopiedInto, C
  <1>4. \A m \in C :
       /\ e.nodes[copy[m]].kind = d.nodes[m].kind
       /\ ParentOf(e, copy[m]) = IF m = n \/ ~deep THEN None ELSE CopyOf(copy, ParentOf(d, m))
       /\ e.nodes[copy[m]].contents = CopyOf(copy, d.nodes[m].contents)
       /\ Kids(e, copy[m]) = IF deep THEN [i \in DOMAIN Kids(d, m) |-> CopyOf(copy, Kids(d, m)[i])]
                             ELSE <<>>
    BY DEF CopiedInto, C
  <1>5. None \notin Ids(e)
    BY <1>3, ArenaIs
  <1>6. \A m \in C : copy[m] \in Ids(e) /\ copy[m] \notin Ids(d) /\ copy[m] # None
    BY <1>3, <1>5
  <1>7. \A a, b \in C : copy[a] = copy[b] => a = b
    BY <1>3 DEF IsInjective
  <1>8. \A x : CopyOf(copy, x) = IF x \in C THEN copy[x] ELSE None
    BY <1>3 DEF CopyOf
  <1>9. \A k \in Ids(d) :
          /\ ParentOf(e, k) = ParentOf(d, k) /\ Kids(e, k) = Kids(d, k) /\ Owned(e, k) = Owned(d, k)
          /\ e.nodes[k].contents = d.nodes[k].contents /\ e.nodes[k].kind = d.nodes[k].kind
    BY <1>3 DEF ParentOf, Kids, Owned
  <1>10. \A k \in Ids(d) :
          /\ IsElement(e, k) = IsElement(d, k) /\ IsFragment(e, k) = IsFragment(d, k)
          /\ IsParent(e, k) = IsParent(d, k) /\ IsChild(e, k) = IsChild(d, k)
    BY <1>9 DEF IsElement, IsFragment, IsParent, IsChild
  <1>11. \A m \in C :
          /\ IsElement(e, copy[m]) = IsElement(d, m) /\ IsFragment(e, copy[m]) = IsFragment(d, m)
          /\ IsParent(e, copy[m]) = IsParent(d, m) /\ IsChild(e, copy[m]) = IsChild(d, m)
    BY <1>4 DEF IsElement, IsFragment, IsParent, IsChild
  <1>12. \A k \in Ids(e) : k \in Ids(d) \/ \E m \in C : k = copy[m]
    BY <1>3
  <1>13. IsInjective(<<>>) /\ ToSet(<<>>) = {}
    BY DEF IsInjective, ToSet
  <1>a. \A m \in C : ParentOf(e, copy[m]) = IF m = n \/ ~deep \/ ParentOf(d, m) \notin C THEN None
                                            ELSE copy[ParentOf(d, m)]
    BY <1>4, <1>8
  <1>b. \A m \in C : e.nodes[copy[m]].contents = IF d.nodes[m].contents \in C
                                                 THEN copy[d.nodes[m].contents] ELSE None
    BY <1>4, <1>8
  <1>c. \A k \in Ids(d) : k # None
    BY <1>1
  <1>14. ASSUME NEW m \in C
         PROVE  /\ IsInjective(Kids(e, copy[m]))
                /\ ToSet(Kids(e, copy[m])) = IF deep THEN {copy[x] : x \in ToSet(Kids(d, m))} ELSE {}
                /\ deep => ToSet(Kids(d, m)) \subseteq C
    <2>1. CASE ~deep
      BY <1>4, <1>13, <2>1
    <2>2. CASE deep
      <3>1. ToSet(Kids(d, m)) \subseteq C
        BY <1>2, <2>2 DEF Owned
      <3> DEFINE s == Kids(d, m)
                 t == Kids(e, copy[m])
      <3>2. t = [i \in DOMAIN s |-> CopyOf(copy, s[i])]
        BY <1>4, <2>2
      <3>3. \A i \in DOMAIN s : s[i] \in ToSet(s)
        BY DEF ToSet
      <3>4. IsInjective(s)
        BY <1>1, <1>2 DEF ListsChildren
      <3> HIDE DEF s, t
      <3>5. DOMAIN t = DOMAIN s /\ \A i \in DOMAIN s : s[i] \in C /\ t[i] = copy[s[i]]
        BY <1>8, <3>1, <3>2, <3>3 DEF s
      <3>6. IsInjective(t)
        BY <1>7, <3>4, <3>5 DEF IsInjective
      <3>7. ToSet(t) = {copy[x] : x \in ToSet(s)}
        BY <3>5 DEF ToSet
      <3>8. QED
        BY <2>2, <3>1, <3>6, <3>7 DEF s, t
    <2>3. QED
      BY <2>1, <2>2
  <1>15. ASSUME NEW k \in Ids(e)
         PROVE  ListsChildren(e, k)
    <2>1. CASE k \in Ids(d)
      <3>1. \A m \in C : ParentOf(e, copy[m]) # k
        BY <1>6, <1>a, <1>c, <2>1
      <3>2. \A m \in Ids(e) : ParentOf(e, m) = k <=> m \in Ids(d) /\ ParentOf(d, m) = k
        BY <1>9, <1>12, <3>1
      <3>3. ListsChildren(d, k)
        BY <1>1, <2>1
      <3>4. QED
        BY <1>3, <1>9, <2>1, <3>2, <3>3 DEF ListsChildren
    <2>2. CASE k \notin Ids(d)
      <3>1. PICK m \in C : k = copy[m]
        BY <1>12, <2>2
      <3>2. \A y \in Ids(d) : ParentOf(e, y) # k
        <4>1. \A y \in Ids(d) : ParentOf(d, y) \in Ids(d) \/ ParentOf(d, y) = None
          BY <1>1 DEF Placed
        <4>2. k # None
          BY <1>5
        <4>3. QED
          BY <1>9, <2>2, <4>1, <4>2
      <3>3. ASSUME NEW x \in C
            PROVE  ParentOf(e, copy[x]) = k <=> deep /\ x # n /\ ParentOf(d, x) = m
        BY <1>6, <1>7, <1>a, <3>1
      <3>4. ASSUME NEW x \in C, deep
            PROVE  x # n /\ ParentOf(d, x) = m <=> x \in ToSet(Kids(d, m))
        <4>1. ListsChildren(d, m) /\ n \notin Owned(d, m)
          BY <1>1, <1>2, <3>4
        <4>2. QED
          BY <1>2, <4>1 DEF ListsChildren, Owned
      <3>5. CASE deep
        <4>1. \A y \in Ids(e) : ParentOf(e, y) = k
                                  <=> \E x \in ToSet(Kids(d, m)) : y = copy[x]
          BY <1>7, <1>12, <1>14, <3>2, <3>3, <3>4, <3>5
        <4>2. ToSet(Kids(e, k)) = {copy[x] : x \in ToSet(Kids(d, m))} /\ IsInjective(Kids(e, k))
          BY <1>14, <3>1, <3>5
        <4>3. {copy[x] : x \in ToSet(Kids(d, m))} \subseteq Ids(e)
          BY <1>6, <1>14, <3>5
        <4>4. QED
          BY <4>1, <4>2, <4>3 DEF ListsChildren
      <3>6. CASE ~deep
        <4>1. \A y \in Ids(e) : ParentOf(e, y) # k
          BY <1>12, <3>2, <3>3, <3>6
        <4>2. ToSet(Kids(e, k)) = {} /\ IsInjective(Kids(e, k))
          BY <1>14, <3>1, <3>6
        <4>3. QED
          BY <4>1, <4>2 DEF ListsChildren
      <3>7. QED
        BY <3>5, <3>6
    <2>3. QED
      BY <2>1, <2>2
  <1>16. ASSUME NEW k \in Ids(e)
         PROVE  Placed(e, k)
    <2>1. CASE k \in Ids(d)
      BY <1>1, <1>3, <1>9, <1>10, <2>1 DEF Placed
    <2>2. CASE k \notin Ids(d)
      <3>1. PICK m \in C : k = copy[m]
        BY <1>12, <2>2
      <3>2. SUFFICES ASSUME ParentOf(e, k) # None
                     PROVE  ParentOf(e, k) \in Ids(e) /\ IsParent(e, ParentOf(e, k)) /\ IsChild(e, k)
        BY DEF Placed
      <3>3. ParentOf(d, m) \in C /\ ParentOf(e, k) = copy[ParentOf(d, m)]
        BY <1>4, <1>8, <3>1, <3>2
      <3>4. IsParent(d, ParentOf(d, m)) /\ IsChild(d, m)
        BY <1>1, <1>2, <3>3 DEF Placed
      <3>5. QED
        BY <1>6, <1>11, <3>1, <3>3, <3>4
    <2>3. QED
      BY <2>1, <2>2
  <1>17. ASSUME NEW k \in Ids(e)
         PROVE  Hosts(e, k)
    <2>1. SUFFICES ASSUME e.nodes[k].contents # None
                   PROVE  /\ e.nodes[k].contents \in Ids(e)
                          /\ e.nodes[k].kind = "template" /\ IsFragment(e, e.nodes[k].contents)
                          /\ \A m \in Ids(e) \ {k} : e.nodes[m].contents # e.nodes[k].contents
      BY DEF Hosts
    <2>2. CASE k \in Ids(d)
      <3> DEFINE x == d.nodes[k].contents
      <3>1. e.nodes[k].contents = x /\ x # None /\ Hosts(d, k)
        BY <1>1, <1>9, <2>1, <2>2
      <3> HIDE DEF x
      <3>2. /\ x \in Ids(d) /\ d.nodes[k].kind = "template" /\ IsFragment(d, x)
            /\ \A m \in Ids(d) \ {k} : d.nodes[m].contents # x
        BY <3>1 DEF Hosts, x
      <3>3. \A m \in C : e.nodes[copy[m]].contents # x
        BY <1>6, <1>b, <1>c, <3>2
      <3>4. \A m \in Ids(e) \ {k} : e.nodes[m].contents # x
        BY <1>9, <1>12, <3>2, <3>3
      <3>5. QED
        BY <1>3, <1>9, <1>10, <2>2, <3>1, <3>2, <3>4
    <2>3. CASE k \notin Ids(d)
      <3>1. PICK m \in C : k = copy[m]
        BY <1>12, <2>3
      <3> DEFINE x == d.nodes[m].contents
      <3>2. x \in C /\ e.nodes[k].contents = copy[x]
        BY <1>4, <1>8, <2>1, <3>1
      <3>3. x # None /\ Hosts(d, m)
        BY <1>1, <1>2, <3>2
      <3> HIDE DEF x
      <3>4. /\ d.nodes[m].kind = "template" /\ IsFragment(d, x)
            /\ \A y \in Ids(d) \ {m} : d.nodes[y].contents # x
        BY <3>3 DEF Hosts, x
      <3>5. \A y \in Ids(d) : e.nodes[y].contents # copy[x]
        BY <1>1, <1>6, <1>9, <3>2 DEF Hosts
      <3>6. \A y \in C : e.nodes[copy[y]].contents = copy[x] => y = m
        <4>1. SUFFICES ASSUME NEW y \in C, e.nodes[copy[y]].contents = copy[x]
                       PROVE  y = m
          OBVIOUS
        <4>2. CopyOf(copy, d.nodes[y].contents) = copy[x]
          BY <1>4, <4>1
        <4>3. d.nodes[y].contents \in C /\ copy[d.nodes[y].contents] = copy[x]
          BY <1>6, <1>8, <3>2, <4>2
        <4>4. d.nodes[y].contents = x
          BY <1>7, <3>2, <4>3
        <4>5. QED
          BY <1>2, <3>4, <4>4
      <3>7. \A y \in Ids(e) \ {k} : e.nodes[y].contents # copy[x]
        BY <1>12, <3>1, <3>5, <3>6
      <3>8. QED
        BY <1>4, <1>6, <1>11, <3>1, <3>2, <3>4, <3>7
    <2>4. QED
      BY <2>2, <2>3
  <1>18. \E depth : Deepens(e, depth)
    <2>1. PICK depth : Deepens(d, depth)
      BY DEF Sound
    <2>2. \A k \in Ids(d) : depth[k] \in Nat /\ \A m \in Owned(d, k) : depth[k] < depth[m]
      BY <2>1 DEF Deepens
    <2> DEFINE From(k) == CHOOSE m \in C : k = copy[m]
               deep2 == [k \in Ids(e) |-> IF k \in Ids(d) THEN depth[k] ELSE depth[From(k)]]
    <2>3. \A k \in Ids(e) \ Ids(d) : From(k) \in C
      BY <1>3
    <2>4. \A m \in C : From(copy[m]) = m
      BY <1>7
    <2>5. deep2 \in [Ids(e) -> Nat]
      BY <1>2, <2>2, <2>3
    <2>6. /\ \A k \in Ids(d) : deep2[k] = depth[k]
          /\ \A m \in C : deep2[copy[m]] = depth[m]
      BY <1>3, <1>6, <2>4
    <2> HIDE DEF deep2
    <2>7. ASSUME NEW k \in Ids(e), NEW x \in Owned(e, k)
          PROVE  deep2[k] < deep2[x]
      <3>1. CASE k \in Ids(d)
        <4>1. x \in Owned(d, k) /\ x \in Ids(d)
          BY <1>1, <1>9, <3>1 DEF Linking
        <4>2. QED
          BY <2>2, <2>6, <3>1, <4>1
      <3>2. CASE k \notin Ids(d)
        <4>1. PICK m \in C : k = copy[m]
          BY <1>12, <3>2
        <4>2. \E y \in Owned(d, m) : y \in C /\ x = copy[y]
          <5>1. CASE x \in ToSet(Kids(e, k))
            <6>1. deep /\ ToSet(Kids(e, k)) = {copy[y] : y \in ToSet(Kids(d, m))}
                  /\ ToSet(Kids(d, m)) \subseteq C
              BY <1>14, <4>1, <5>1
            <6>2. QED
              BY <5>1, <6>1 DEF Owned
          <5>2. CASE x = e.nodes[k].contents /\ x # None
            <6>1. d.nodes[m].contents \in C /\ x = copy[d.nodes[m].contents]
              BY <1>4, <1>8, <4>1, <5>2
            <6>2. d.nodes[m].contents \in Owned(d, m)
              BY <1>1, <1>2, <6>1 DEF Owned
            <6>3. QED
              BY <6>1, <6>2
          <5>3. QED
            BY <5>1, <5>2 DEF Owned
        <4>3. QED
          BY <1>2, <2>2, <2>6, <4>1, <4>2
      <3>3. QED
        BY <3>1, <3>2
    <2>8. Deepens(e, deep2)
      BY <2>5, <2>7 DEF Deepens
    <2>9. QED
      BY <2>8
  <1>19. TopOK(e)
    BY <1>1, <1>9, <1>10 DEF TopOK
  <1>20. QED
    BY <1>1, <1>3, <1>9, <1>15, <1>16, <1>17, <1>18, <1>19 DEF Sound

LEMMA ClonedKeeps ==
  ASSUME NEW d, Sound(d), NEW n \in Ids(d), NEW deep \in BOOLEAN
  PROVE  LET e == Cloned(d, n, deep)
         IN  /\ Sound(e) /\ Grown(d, e)
             /\ Len(e.nodes) = Len(d.nodes) + Cardinality(Copied(d, n, deep))
             /\ Len(d.nodes) + 1 \in Ids(e)
PROOF
  <1> DEFINE e == Cloned(d, n, deep)
             c == Cardinality(Copied(d, n, deep))
  <1>1. /\ \E copy : CopiedInto(d, e, n, deep, Copied(d, n, deep), copy)
        /\ Len(e.nodes) = Len(d.nodes) + c /\ c \in Nat /\ c > 0
    BY ClonedIs
  <1> HIDE DEF e, c
  <1>2. Sound(e) /\ Grown(d, e)
    BY <1>1, CopiedKeeps, CopiedGrows
  <1>3. Ids(e) = 1..Len(e.nodes) /\ Len(d.nodes) \in Nat
    BY <1>2, ArenaIs DEF Sound
  <1>4. Len(d.nodes) + 1 \in Ids(e)
    BY <1>1, <1>3
  <1>5. QED
    BY <1>1, <1>2, <1>4 DEF e, c

----------------------------------------------------------------------------
(* The walks of the collector and of script. *)

SolvesTraced(f) ==
  f = [k \in 0..MaxNodes |->
         IF k = 0 THEN (Roots \cup kept) \cap Cached
         ELSE LET found == f[k - 1]
              IN  found \cup
                    ((UNION {{records[n].parent, records[n].contents} \cup records[n].children :
                               n \in found}) \cap Cached)]

\* What a record keeps alive.
EdgesOf(recs, n) == {recs[n].parent, recs[n].contents} \cup recs[n].children
Holds(recs) == [n \in DOMAIN recs |-> EdgesOf(recs, n) \cap DOMAIN recs]

LEMMA TracedIsClosure ==
  ASSUME IsFiniteSet(Cached), Cardinality(Cached) <= MaxNodes
  PROVE  IsClosure(Cached, Holds(records), (Roots \cup kept) \cap Cached, Traced)
PROOF
  <1> DEFINE U == Cached
             near == Holds(records)
             N == MaxNodes
             start == (Roots \cup kept) \cap Cached
             Once(S) == S \cup
                    ((UNION {{records[n].parent, records[n].contents} \cup records[n].children :
                               n \in S}) \cap Cached)
             down == CHOOSE f : SolvesTraced(f)
  <1>1. /\ N \in Nat /\ near \in [U -> SUBSET U] /\ start \in SUBSET U
        /\ IsFiniteSet(U) /\ Cardinality(U) <= N
    BY MaxNodesAssumption DEF Holds, Cached
  <1>2. ASSUME NEW S \in SUBSET U
        PROVE  Once(S) = Spread(near, S)
    <2>1. \A m \in S : near[m] = EdgesOf(records, m) \cap Cached
      BY DEF Holds, Cached
    <2> HIDE DEF near
    <2>2. UNION {near[m] : m \in S} = (UNION {EdgesOf(records, m) : m \in S}) \cap Cached
      BY <2>1
    <2>3. QED
      BY <2>2 DEF Spread, EdgesOf
  <1>3. \E f : SolvesTraced(f)
    <2> HIDE DEF near, U, N, start
    <2>1. PICK it : Spreads(U, near, start, N, it)
      BY <1>1, SpreadExists
    <2>2. /\ it \in [0..N -> SUBSET U]
          /\ it[0] = start /\ \A k \in 1..N : it[k] = Spread(near, it[k - 1])
      BY <2>1 DEF Spreads
    <2>3. ASSUME NEW k \in 0..N
          PROVE  it[k] = IF k = 0 THEN start ELSE Once(it[k - 1])
      <3>1. CASE k = 0
        BY <2>2, <3>1
      <3>2. CASE k # 0
        <4>1. k \in 1..N /\ k - 1 \in 0..N
          BY <1>1, <3>2
        <4>2. it[k - 1] \in SUBSET U /\ it[k] = Spread(near, it[k - 1])
          BY <2>2, <4>1
        <4> HIDE DEF Once
        <4>3. QED
          BY <1>2, <3>2, <4>2
      <3>3. QED
        BY <3>1, <3>2
    <2>4. it = [k \in 0..N |-> IF k = 0 THEN start ELSE Once(it[k - 1])]
      <3> HIDE DEF Once
      <3>1. QED
        BY <2>2, <2>3
    <2>5. QED
      BY <2>4, Zenon DEF SolvesTraced, N, start
  <1>4. SolvesTraced(down)
    BY <1>3
  <1>5. Traced = down[N]
    BY Zenon DEF Traced, SolvesTraced
  <1>6. down = [k \in 0..N |-> IF k = 0 THEN start ELSE Once(down[k - 1])]
    BY <1>4, Zenon DEF SolvesTraced
  <1> HIDE DEF down, Once, U, near, N, start
  <1>7. down[0] = start /\ \A k \in 1..N : down[k] = Once(down[k - 1])
    <2>1. 0 \in 0..N /\ \A k \in 1..N : k \in 0..N /\ k # 0
      BY <1>1
    <2>2. \A k \in 0..N : down[k] = IF k = 0 THEN start ELSE Once(down[k - 1])
      BY <1>6
    <2>3. QED
      BY <2>1, <2>2
  <1>8. \A k \in 1..N : down[k - 1] \in SUBSET U => down[k] = Spread(near, down[k - 1])
    BY <1>2, <1>7
  <1>9. IsClosure(U, near, start, down[N])
    BY <1>1, <1>7, <1>8, Saturates
  <1>10. QED
    BY <1>5, <1>9 DEF U, near, start

SolvesReach(d, from, f) ==
  f = [k \in 0..MaxNodes |->
         IF k = 0 THEN from
         ELSE LET found == f[k - 1]
              IN  found \cup UNION {({d.nodes[n].parent, d.nodes[n].contents} \ {None})
                                      \cup ToSet(Kids(d, n)) : n \in found}]

\* Where script can go from a node.
Near(d, n) == ({d.nodes[n].parent, d.nodes[n].contents} \ {None}) \cup ToSet(Kids(d, n))
Neighbours(d) == [n \in Ids(d) |-> Near(d, n)]

LEMMA NearBy ==
  ASSUME NEW d, Sound(d), NEW n \in Ids(d)
  PROVE  Near(d, n) \subseteq Ids(d)
PROOF
  <1>1. ParentOf(d, n) # None => ParentOf(d, n) \in Ids(d)
    BY DEF Sound, Placed
  <1>2. d.nodes[n].contents # None => d.nodes[n].contents \in Ids(d)
    BY DEF Sound, Hosts
  <1>3. ToSet(Kids(d, n)) \subseteq Ids(d)
    BY SoundLinks
  <1>4. QED
    BY <1>1, <1>2, <1>3 DEF Near, ParentOf

LEMMA ReachIsClosure ==
  ASSUME NEW d, Sound(d), Len(d.nodes) <= MaxNodes, NEW from \in SUBSET Ids(d)
  PROVE  IsClosure(Ids(d), Neighbours(d), from, Reach(d, from))
PROOF
  <1> DEFINE U == Ids(d)
             near == Neighbours(d)
             N == MaxNodes
             Once(S) == S \cup UNION {({d.nodes[n].parent, d.nodes[n].contents} \ {None})
                                        \cup ToSet(Kids(d, n)) : n \in S}
             down == CHOOSE f : SolvesReach(d, from, f)
  <1>1. /\ N \in Nat /\ near \in [U -> SUBSET U] /\ from \in SUBSET U
        /\ IsFiniteSet(U) /\ Cardinality(U) <= N
    BY MaxNodesAssumption, NearBy, ArenaIs DEF Neighbours, Sound
  <1>2. ASSUME NEW S \in SUBSET U
        PROVE  Once(S) = Spread(near, S)
    <2>1. \A m \in S : near[m] = Near(d, m)
      BY DEF Neighbours
    <2> HIDE DEF near
    <2>2. UNION {near[m] : m \in S} = UNION {Near(d, m) : m \in S}
      BY <2>1
    <2>3. QED
      BY <2>2 DEF Spread, Near
  <1>3. \E f : SolvesReach(d, from, f)
    <2> HIDE DEF near, U, N
    <2>1. PICK it : Spreads(U, near, from, N, it)
      BY <1>1, SpreadExists
    <2>2. /\ it \in [0..N -> SUBSET U]
          /\ it[0] = from /\ \A k \in 1..N : it[k] = Spread(near, it[k - 1])
      BY <2>1 DEF Spreads
    <2>3. ASSUME NEW k \in 0..N
          PROVE  it[k] = IF k = 0 THEN from ELSE Once(it[k - 1])
      <3>1. CASE k = 0
        BY <2>2, <3>1
      <3>2. CASE k # 0
        <4>1. k \in 1..N /\ k - 1 \in 0..N
          BY <1>1, <3>2
        <4>2. it[k - 1] \in SUBSET U /\ it[k] = Spread(near, it[k - 1])
          BY <2>2, <4>1
        <4> HIDE DEF Once
        <4>3. QED
          BY <1>2, <3>2, <4>2
      <3>3. QED
        BY <3>1, <3>2
    <2>4. it = [k \in 0..N |-> IF k = 0 THEN from ELSE Once(it[k - 1])]
      <3> HIDE DEF Once
      <3>1. QED
        BY <2>2, <2>3
    <2>5. QED
      BY <2>4, Zenon DEF SolvesReach, N
  <1>4. SolvesReach(d, from, down)
    BY <1>3
  <1>5. Reach(d, from) = down[N]
    BY Zenon DEF Reach, SolvesReach
  <1>6. down = [k \in 0..N |-> IF k = 0 THEN from ELSE Once(down[k - 1])]
    BY <1>4, Zenon DEF SolvesReach
  <1> HIDE DEF down, Once, U, near, N
  <1>7. down[0] = from /\ \A k \in 1..N : down[k] = Once(down[k - 1])
    <2>1. 0 \in 0..N /\ \A k \in 1..N : k \in 0..N /\ k # 0
      BY <1>1
    <2>2. \A k \in 0..N : down[k] = IF k = 0 THEN from ELSE Once(down[k - 1])
      BY <1>6
    <2>3. QED
      BY <2>1, <2>2
  <1>8. \A k \in 1..N : down[k - 1] \in SUBSET U => down[k] = Spread(near, down[k - 1])
    BY <1>2, <1>7
  <1>9. IsClosure(U, near, from, down[N])
    BY <1>1, <1>7, <1>8, Saturates
  <1>10. QED
    BY <1>5, <1>9 DEF U, near

----------------------------------------------------------------------------
(* The component a record is restored with. *)

Halts(recs, m) == ParentOf(doc, m) \in DOMAIN recs \cup {None}
SolvesTop(recs, f) ==
  f = [m \in Ids(doc) |->
         IF ParentOf(doc, m) \in DOMAIN recs \cup {None} THEN m ELSE f[ParentOf(doc, m)]]

\* The ancestors of m up to the one where the walk halts.
Rises(recs, S) == \A x \in S : ~Halts(recs, x) => ParentOf(doc, x) \in S
Tops(recs, m) ==
  {t \in Ids(doc) : /\ Halts(recs, t)
                    /\ \A S \in SUBSET Ids(doc) : m \in S /\ Rises(recs, S) => t \in S}
Some(S) == CHOOSE t : t \in S

LEMMA TopExists ==
  ASSUME Sound(doc), NEW recs
  PROVE  \E f : SolvesTop(recs, f)
PROOF
  <1> DEFINE f == [m \in Ids(doc) |-> Some(Tops(recs, m))]
  <1>1. ASSUME NEW m \in Ids(doc), Halts(recs, m)
        PROVE  f[m] = m
    <2>1. {m} \in SUBSET Ids(doc) /\ Rises(recs, {m})
      BY <1>1 DEF Rises
    <2>2. Tops(recs, m) = {m}
      BY <1>1, <2>1 DEF Tops
    <2>3. QED
      BY <2>2 DEF Some
  <1>2. ASSUME NEW m \in Ids(doc), ~Halts(recs, m)
        PROVE  f[m] = f[ParentOf(doc, m)]
    <2> DEFINE p == ParentOf(doc, m)
    <2>1. p \in Ids(doc)
      BY <1>2 DEF Halts, Sound, Placed
    <2> HIDE DEF p
    <2>2. ASSUME NEW t \in Ids(doc), Halts(recs, t)
          PROVE  (\A S \in SUBSET Ids(doc) : m \in S /\ Rises(recs, S) => t \in S)
                   <=> (\A S \in SUBSET Ids(doc) : p \in S /\ Rises(recs, S) => t \in S)
      <3>1. ASSUME NEW S \in SUBSET Ids(doc), m \in S, Rises(recs, S)
            PROVE  p \in S
        BY <1>2, <3>1 DEF Rises, p
      <3>2. ASSUME NEW S \in SUBSET Ids(doc), p \in S, Rises(recs, S)
            PROVE  S \cup {m} \in SUBSET Ids(doc) /\ Rises(recs, S \cup {m})
        BY <3>2 DEF Rises, p
      <3>3. t # m
        BY <1>2, <2>2
      <3>4. QED
        BY <3>1, <3>2, <3>3
    <2>3. Tops(recs, m) = Tops(recs, p)
      BY <2>2 DEF Tops
    <2>4. f[m] = Some(Tops(recs, m)) /\ f[p] = Some(Tops(recs, p))
      BY <2>1
    <2>5. QED
      BY <2>3, <2>4 DEF p
  <1> DEFINE g == [m \in Ids(doc) |-> IF Halts(recs, m) THEN m ELSE f[ParentOf(doc, m)]]
  <1>3. f = g
    <2>1. f = [m \in Ids(doc) |-> f[m]]
      OBVIOUS
    <2> HIDE DEF f
    <2>2. QED
      BY <1>1, <1>2, <2>1
  <1> HIDE DEF f
  <1>4. SolvesTop(recs, f)
    BY <1>3, Zenon DEF SolvesTop, Halts
  <1>5. QED
    BY <1>4

LEMMA ComponentIs ==
  ASSUME Sound(doc), NEW recs, NEW n \in Ids(doc)
  PROVE  \E t \in Ids(doc) : /\ Component(recs, n) = Below(doc, t)
                             /\ n \in Below(doc, t) /\ Halts(recs, t)
PROOF
  <1> DEFINE top == CHOOSE f : SolvesTop(recs, f)
  <1>1. SolvesTop(recs, top)
    BY TopExists
  <1>2. Component(recs, n) = Below(doc, top[n])
    BY Zenon DEF Component, SolvesTop
  <1>3. top = [m \in Ids(doc) |->
                 IF ParentOf(doc, m) \in DOMAIN recs \cup {None} THEN m
                 ELSE top[ParentOf(doc, m)]]
    BY <1>1, Zenon DEF SolvesTop
  <1> HIDE DEF top
  <1>4. \A m \in Ids(doc) : top[m] = IF Halts(recs, m) THEN m ELSE top[ParentOf(doc, m)]
    BY <1>3 DEF Halts
  <1>5. PICK depth : Deepens(doc, depth)
    BY DEF Sound
  <1>6. ASSUME NEW m \in Ids(doc), ~Halts(recs, m)
        PROVE  /\ ParentOf(doc, m) \in Ids(doc) /\ m \in Owned(doc, ParentOf(doc, m))
               /\ depth[ParentOf(doc, m)] < depth[m]
    <2>1. ParentOf(doc, m) \in Ids(doc)
      BY <1>6 DEF Halts, Sound, Placed
    <2>2. m \in ToSet(Kids(doc, ParentOf(doc, m)))
      BY <2>1 DEF Sound, ListsChildren
    <2>3. QED
      BY <1>5, <2>1, <2>2 DEF Owned, Deepens
  <1> DEFINE P(m) == /\ top[m] \in Ids(doc) /\ m \in Below(doc, top[m]) /\ Halts(recs, top[m])
             Good == {k \in Nat : \A m \in Ids(doc) : depth[m] <= k => P(m)}
  <1>7. ASSUME NEW m \in Ids(doc), ~Halts(recs, m) => P(ParentOf(doc, m))
        PROVE  P(m)
    <2>1. CASE Halts(recs, m)
      BY <1>4, <2>1, SoundLinks, BelowIs
    <2>2. CASE ~Halts(recs, m)
      <3>1. top[m] = top[ParentOf(doc, m)] /\ P(ParentOf(doc, m))
        BY <1>4, <1>7, <2>2
      <3>2. Owned(doc, ParentOf(doc, m)) \subseteq Below(doc, top[m])
        BY <3>1, SoundLinks, BelowIs
      <3>3. QED
        BY <1>6, <2>2, <3>1, <3>2
    <2>3. QED
      BY <2>1, <2>2
  <1>8. \A m \in Ids(doc) : depth[m] \in Nat
    BY <1>5 DEF Deepens
  <1> HIDE DEF P
  <1>9. 0 \in Good
    <2>1. ASSUME NEW m \in Ids(doc), depth[m] <= 0
          PROVE  P(m)
      BY <1>6, <1>7, <1>8, <2>1
    <2>2. QED
      BY <2>1
  <1>10. ASSUME NEW k \in Nat, k \in Good
         PROVE  k + 1 \in Good
    <2>1. ASSUME NEW m \in Ids(doc), depth[m] <= k + 1
          PROVE  P(m)
      <3>1. ~Halts(recs, m) => ParentOf(doc, m) \in Ids(doc) /\ depth[ParentOf(doc, m)] <= k
        BY <1>6, <1>8, <2>1
      <3>2. QED
        BY <1>7, <1>10, <3>1
    <2>2. QED
      BY <2>1
  <1> HIDE DEF Good
  <1>11. Nat \subseteq Good
    BY <1>9, <1>10, Naturally
  <1>12. P(n)
    <2>1. depth[n] \in Good /\ depth[n] <= depth[n]
      BY <1>8, <1>11
    <2>2. QED
      BY <2>1 DEF Good
  <1>13. QED
    BY <1>2, <1>12 DEF P

----------------------------------------------------------------------------
(* Every call keeps the document sound. *)

LEMMA RelinkedSelf ==
  ASSUME NEW d, Sound(d)
  PROVE  Relinked(d, d)
BY GrownSelf DEF Relinked

\* A text is split next to itself: its parent is no Document, which has none.
LEMMA SplitKeeps ==
  ASSUME NEW d, Sound(d), NEW n \in Ids(d), d.nodes[n].kind = "text"
  PROVE  LET made == Added(d, "text")
             p    == ParentOf(d, n)
             e    == IF p = None THEN made
                     ELSE PreInserted(made, p, Newest(made), NextSibling(d, n))
         IN  /\ Sound(e) /\ Grown(d, e) /\ Len(e.nodes) = Len(d.nodes) + 1
             /\ Newest(made) \in Ids(e)
PROOF
  <1> DEFINE made == Added(d, "text")
             p == ParentOf(d, n)
             next == NextSibling(d, n)
             new == Newest(made)
             put == PreInserted(made, p, new, next)
  <1>1. "text" \in NodeKinds
    BY DEF NodeKinds
  <1>2. /\ Blank(d, made) /\ Len(made.nodes) = Len(d.nodes) + 1
        /\ Ids(made) = Ids(d) \cup {new} /\ new \notin Ids(d) /\ made.nodes[new].kind = "text"
    BY <1>1, AddedIs
  <1> HIDE DEF made, new, next
  <1>3. Sound(made) /\ Grown(d, made) /\ new \in Ids(made)
    BY <1>2, BlankKeeps, BlankGrows
  <1>4. ASSUME p # None
        PROVE  /\ Sound(put) /\ Grown(d, put) /\ Len(put.nodes) = Len(d.nodes) + 1
               /\ new \in Ids(put)
    <2>1. p \in Ids(d) /\ IsParent(d, p) /\ n \in ToSet(Kids(d, p))
      BY <1>4 DEF Sound, Placed, ListsChildren
    <2>2. p # Root
      BY <2>1 DEF Sound, TopOK
    <2>3. p \in Ids(made) /\ p # new /\ IsParent(made, p)
      BY <1>2, <1>3, <2>1 DEF Grown, IsParent, IsElement
    <2>4. Owned(made, new) = {}
      <3>1. Kids(made, new) = <<>> /\ made.nodes[new].contents = None
        BY <1>2 DEF Blank
      <3>2. ToSet(<<>>) = {}
        BY DEF ToSet
      <3>3. QED
        BY <3>1, <3>2 DEF Owned
    <2>5. Below(made, new) \subseteq {new}
      <3> DEFINE S == {new}
      <3>1. new \in S /\ \A m \in S \cap Ids(made) : Owned(made, m) \subseteq S
        BY <2>4
      <3> HIDE DEF S
      <3>2. Below(made, new) \subseteq S
        BY <1>3, <3>1, SoundLinks, BelowIs
      <3>3. QED
        BY <3>2 DEF S
    <2>6. MayGo(made, p, new, None)
      BY <1>2, <2>2, <2>3, <2>5 DEF MayGo, IsInclusiveAncestor
    <2>7. Relinked(made, put)
      BY <1>3, <2>3, <2>6, PreInsertedKeeps
    <2> HIDE DEF put
    <2>8. Sound(put) /\ Grown(d, put) /\ Ids(put) = Ids(made)
      BY <1>3, <2>7, GrownOn DEF Relinked
    <2>9. QED
      BY <1>2, <1>3, <2>8, ArenaIs DEF Sound
  <1> HIDE DEF put
  <1>5. QED
    BY <1>2, <1>3, <1>4 DEF made, new, next, put

LEMMA FinishedKeeps ==
  ASSUME Sound(doc), NEW c, c.parent \in Ids(doc), c.node \in Ids(doc), c.this \in Ids(doc)
  PROVE  Relinked(doc, Finished(c))
PROOF
  <1> DEFINE A == c.op = "replaceWith" /\ StillChild(c) /\ MayReplace(doc, c.parent, c.node, c.this)
             B == c.op = "replaceChildren" /\ MayPreInsert(doc, c.parent, c.node, None)
             C == /\ c.op # "replaceChildren" /\ ~(c.op = "replaceWith" /\ StillChild(c))
                  /\ MayPreInsert(doc, c.parent, c.node, Reference(c))
  <1>1. A => Relinked(doc, Replaced(doc, c.parent, c.node, c.this))
    <2>1. A => MayGo(doc, c.parent, c.node, c.this)
      BY DEF MayReplace, MayInsert, MayGo
    <2>2. QED
      BY <2>1, ReplacedKeeps
  <1>2. B => Relinked(doc, ReplacedAll(c.parent, c.node))
    <2>1. B => MayGo(doc, c.parent, c.node, None)
      BY DEF MayPreInsert, MayInsert, MayGo
    <2>2. B => Relinked(doc, PreInserted(doc, c.parent, c.node, None))
      BY <2>1, PreInsertedKeeps
    <2>3. ToSet(Kids(doc, c.parent)) \ {c.node} \in SUBSET Ids(doc)
      BY SoundLinks
    <2>4. QED
      BY <2>2, <2>3, DetachedAllKeeps DEF ReplacedAll
  <1>3. C => Relinked(doc, PreInserted(doc, c.parent, c.node, Reference(c)))
    <2>1. C => MayGo(doc, c.parent, c.node, None)
      BY DEF MayPreInsert, MayInsert, MayGo
    <2>2. QED
      BY <2>1, PreInsertedKeeps
  <1>4. Relinked(doc, doc)
    BY RelinkedSelf
  <1>5. Finished(c) = CASE A -> Replaced(doc, c.parent, c.node, c.this)
                        [] B -> ReplacedAll(c.parent, c.node)
                        [] C -> PreInserted(doc, c.parent, c.node, Reference(c))
                        [] OTHER -> doc
    BY Zenon DEF Finished
  <1>6. A => ~B /\ ~C
    OBVIOUS
  <1>7. B => ~C
    OBVIOUS
  <1> HIDE DEF A, B, C
  <1>8. QED
    BY <1>1, <1>2, <1>3, <1>4, <1>5, <1>6, <1>7

----------------------------------------------------------------------------
(* Calls. *)

\* A call has exactly these fields.
Fields == {"then", "op", "args", "this", "parent", "node", "viable", "gathered", "asked",
           "sheets"}
IsCall(c) == c = [f \in Fields |-> c[f]]

\* What a call names is in the arena, and a template that waits for its
\* contents has room for them.
Names(d, c) ==
  /\ c.args \subseteq Ids(d)
  /\ c.then = "contents" => /\ c.node \in Ids(d) /\ d.nodes[c.node].kind = "template"
                             /\ Len(d.nodes) < MaxNodes
  /\ c.then = "wrap" => c.node \in Ids(d)
  /\ c.then = "place" => {c.node, c.parent, c.this} \subseteq Ids(d)

\* b is a, but for the sheets replaced, and for what the places of a call
\* that returns are asked for.
Continues(a, b) ==
  /\ IsCall(b) /\ b.args = a.args /\ b.then = a.then /\ b.node = a.node
  /\ b.gathered = a.gathered
  /\ b.then = "place" => b.parent = a.parent /\ b.this = a.this

LEMMA FollowsNames ==
  ASSUME NEW d, NEW a, NEW b, Names(d, a), Continues(a, b)
  PROVE  Names(d, b)
BY DEF Names, Continues

\* One field is set at a time.
SetTo(c, f, v) == [c EXCEPT ![f] = v]

LEMMA FieldSet ==
  ASSUME NEW c, IsCall(c), NEW f \in Fields, NEW v
  PROVE  LET e == SetTo(c, f, v)
         IN  IsCall(e) /\ e[f] = v /\ \A g \in Fields \ {f} : e[g] = c[g]
PROOF
  <1>1. \A g \in Fields : SetTo(c, f, v)[g] = IF g = f THEN v ELSE c[g]
    BY DEF SetTo, IsCall
  <1>2. IsCall(SetTo(c, f, v))
    BY DEF SetTo, IsCall
  <1>3. QED
    BY <1>1, <1>2

LEMMA SheetsNoted ==
  ASSUME NEW c, IsCall(c), NEW S
  PROVE  Continues(c, [c EXCEPT !.sheets = S]) /\ [c EXCEPT !.sheets = S].sheets = S
PROOF
  <1>1. [c EXCEPT !.sheets = S] = SetTo(c, "sheets", S)
    BY Zenon DEF SetTo
  <1>2. QED
    BY <1>1, FieldSet DEF Fields, Continues

\* The fields of a call, in order.
AsCall(then, op, args, this, parent, node, viable, gathered, asked, sheets) ==
  [then |-> then, op |-> op, args |-> args, this |-> this, parent |-> parent, node |-> node,
   viable |-> viable, gathered |-> gathered, asked |-> asked, sheets |-> sheets]

LEMMA AsCallIs ==
  ASSUME NEW t, NEW o, NEW a, NEW th, NEW p, NEW n, NEW vi, NEW g, NEW as, NEW sh
  PROVE  IsCall(AsCall(t, o, a, th, p, n, vi, g, as, sh))
BY DEF AsCall, IsCall, Fields

LEMMA NoCallIs ==
  /\ IsCall(NoCall) /\ NoCall.then = "none" /\ NoCall.args = {} /\ NoCall.gathered = FALSE
  /\ NoCall.parent = None /\ NoCall.sheets = {}
  /\ \A d : Names(d, NoCall)
PROOF
  <1> DEFINE none == <<>>
  <1> HIDE DEF none
  <1>1. NoCall = AsCall("none", "none", {}, None, None, None, None, FALSE, none, {})
    BY Zenon DEF NoCall, AsCall, none
  <1>2. /\ IsCall(NoCall) /\ NoCall.then = "none" /\ NoCall.args = {}
        /\ NoCall.gathered = FALSE /\ NoCall.parent = None /\ NoCall.sheets = {}
    BY <1>1, AsCallIs DEF AsCall
  <1>3. QED
    BY <1>2 DEF Names

\* A call that has not come to its end.
Lasts(c) == c.then # "none"

LEMMA ReturningIs ==
  ASSUME NEW args
  PROVE  LET c == Returning(args)
         IN  /\ IsCall(c) /\ c.then = "return" /\ c.args = args /\ c.gathered = FALSE
             /\ c.parent = None /\ Lasts(c)
PROOF
  <1>1. Returning(args) = SetTo(SetTo(NoCall, "then", "return"), "args", args)
    BY Zenon DEF Returning, SetTo
  <1>2. QED
    BY <1>1, NoCallIs, FieldSet DEF Fields, Lasts

LEMMA WrappingIs ==
  ASSUME NEW args, NEW m
  PROVE  LET c == Wrapping(args, m)
         IN  /\ IsCall(c) /\ c.then = "wrap" /\ c.args = args /\ c.node = m
             /\ c.gathered = FALSE /\ c.parent = None /\ Lasts(c)
             /\ \A d : args \subseteq Ids(d) /\ m \in Ids(d) => Names(d, c)
PROOF
  <1> DEFINE c == Wrapping(args, m)
  <1>1. Wrapping(args, m)
          = SetTo(SetTo(SetTo(NoCall, "then", "wrap"), "args", args), "node", m)
    BY Zenon DEF Wrapping, SetTo
  <1>2. /\ IsCall(c) /\ c.then = "wrap" /\ c.args = args /\ c.node = m
        /\ c.gathered = FALSE /\ c.parent = None
    BY <1>1, NoCallIs, FieldSet DEF Fields
  <1> HIDE DEF c
  <1>3. \A d : args \subseteq Ids(d) /\ m \in Ids(d) => Names(d, c)
    BY <1>2 DEF Names
  <1>4. Lasts(c)
    BY <1>2 DEF Lasts
  <1>5. QED
    BY <1>2, <1>3, <1>4 DEF c

LEMMA ThenIs ==
  ASSUME NEW c, IsCall(c), NEW next
  PROVE  LET e == [c EXCEPT !.then = next]
         IN  /\ IsCall(e) /\ e.then = next /\ e.args = c.args /\ e.node = c.node
             /\ e.gathered = c.gathered /\ e.parent = c.parent
PROOF
  <1>1. [c EXCEPT !.then = next] = SetTo(c, "then", next)
    BY Zenon DEF SetTo
  <1>2. QED
    BY <1>1, FieldSet DEF Fields

LEMMA StartedIs ==
  ASSUME NEW op, NEW this, NEW items
  PROVE  LET c == Started(op, this, items)
         IN  /\ IsCall(c) /\ c.then = "place" /\ c.args = (ToSet(items) \ {None}) \cup {this}
             /\ c.this = this /\ c.node = Gathered(items).node /\ c.op = op
             /\ c.parent = (IF op \in ParentOps THEN this ELSE ParentOf(doc, this))
             /\ c.gathered = (Len(items) # 1) /\ Lasts(c)
PROOF
  <1> DEFINE args == (ToSet(items) \ {None}) \cup {this}
             p == IF op \in ParentOps THEN this ELSE ParentOf(doc, this)
             given == ToSet(items) \ {None}
             viable == CASE op = "before" -> ViablePrevious(this, given)
                         [] op \in {"after", "replaceWith"} -> ViableNext(this, given)
                         [] OTHER -> None
             asked == Asked(op, this, p, items)
             node == Gathered(items).node
             gathered == Len(items) # 1
  <1>1. Started(op, this, items)
          = AsCall("place", op, args, this, p, node, viable, gathered, asked, {})
    BY Zenon DEF Started, AsCall
  <1> HIDE DEF args, p, viable, asked, node, gathered
  <1>2. QED
    BY <1>1, AsCallIs DEF AsCall, Lasts, args, p, node, gathered

PlacedCall(args, p, asked, g) ==
  [Returning(args) EXCEPT !.parent = p, !.asked = asked, !.gathered = g]

LEMMA PlacedCallIs ==
  ASSUME NEW args, NEW g, NEW p, NEW asked
  PROVE  LET e == PlacedCall(args, p, asked, g)
         IN  /\ IsCall(e) /\ e.then = "return" /\ e.args = args /\ e.gathered = g
             /\ e.parent = p /\ e.asked = asked /\ Lasts(e)
PROOF
  <1> DEFINE a == Returning(args)
             b == SetTo(a, "parent", p)
             d == SetTo(b, "asked", asked)
             e == SetTo(d, "gathered", g)
  <1>1. PlacedCall(args, p, asked, g) = e
    BY Zenon DEF PlacedCall, SetTo
  <1>2. IsCall(a) /\ a.then = "return" /\ a.args = args
    BY ReturningIs
  <1> HIDE DEF a
  <1>3. IsCall(b) /\ b.then = "return" /\ b.args = args /\ b.parent = p
    BY <1>2, FieldSet DEF Fields
  <1> HIDE DEF b
  <1>4. IsCall(d) /\ d.then = "return" /\ d.args = args /\ d.parent = p /\ d.asked = asked
    BY <1>3, FieldSet DEF Fields
  <1> HIDE DEF d
  <1>5. /\ IsCall(e) /\ e.then = "return" /\ e.args = args /\ e.parent = p
        /\ e.asked = asked /\ e.gathered = g
    BY <1>4, FieldSet DEF Fields
  <1> HIDE DEF e
  <1>6. QED
    BY <1>1, <1>5 DEF Lasts

----------------------------------------------------------------------------
(* The invariant. *)

ArenaOK == Sound(doc) /\ Len(doc.nodes) <= MaxNodes
GraphOK ==
  /\ known \in Nat /\ known <= Len(doc.nodes)
  /\ todo \subseteq Ids(doc) /\ Cached \subseteq Ids(doc)
  /\ {Root} \cup held \cup kept \subseteq Cached
CallOK == IsCall(call) /\ Names(doc, call)
DomInv == ArenaOK /\ GraphOK /\ CallOK

LEMMA GrownNames ==
  ASSUME NEW d, NEW e, Grown(d, e), Len(e.nodes) = Len(d.nodes), NEW c, Names(d, c)
  PROVE  Names(e, c)
BY DEF Grown, Names

LEMMA IdsGrow ==
  ASSUME NEW d, NEW e, d \in Documents, e \in Documents, Ids(d) \subseteq Ids(e)
  PROVE  Len(d.nodes) <= Len(e.nodes) /\ Len(d.nodes) \in Nat /\ Len(e.nodes) \in Nat
PROOF
  <1>1. /\ Len(d.nodes) \in Nat /\ Len(e.nodes) \in Nat
        /\ Ids(d) = 1..Len(d.nodes) /\ Ids(e) = 1..Len(e.nodes)
    BY ArenaIs
  <1> DEFINE L == Len(d.nodes)
             M == Len(e.nodes)
  <1> HIDE DEF L, M
  <1>2. L \in Nat /\ M \in Nat /\ 1..L \subseteq 1..M
    BY <1>1 DEF L, M
  <1>3. L <= M
    <2>1. CASE L = 0
      BY <1>2, <2>1
    <2>2. CASE L # 0
      <3>1. L \in 1..L
        BY <1>2, <2>2
      <3>2. L \in 1..M
        BY <1>2, <3>1
      <3>3. QED
        BY <1>2, <3>2
    <2>3. QED
      BY <2>1, <2>2
  <1>4. QED
    BY <1>2, <1>3 DEF L, M

LEMMA BorrowKeeps ==
  ASSUME DomInv, NEW new, NEW next, NEW moved, BorrowNoting(new, next, moved),
         Sound(new), Ids(doc) \subseteq Ids(new), Len(new.nodes) <= MaxNodes,
         IsCall(next), Names(new, next)
  PROVE  DomInv'
PROOF
  <1>1. doc' = new /\ UNCHANGED <<records, known, todo, kept, held>>
    BY DEF BorrowNoting, graphVars
  <1>2. call' = [next EXCEPT !.sheets = SheetsReplaced(new, moved)]
    BY DEF BorrowNoting
  <1>3. Continues(next, call')
    BY <1>2, SheetsNoted
  <1>4. CallOK'
    BY <1>1, <1>3, FollowsNames DEF CallOK, Continues
  <1>5. Len(doc.nodes) <= Len(new.nodes) /\ Len(doc.nodes) \in Nat /\ Len(new.nodes) \in Nat
    BY IdsGrow DEF DomInv, ArenaOK, Sound
  <1>6. GraphOK'
    BY <1>1, <1>5 DEF GraphOK, DomInv, Cached
  <1>7. ArenaOK'
    BY <1>1 DEF ArenaOK
  <1>8. QED
    BY <1>4, <1>6, <1>7 DEF DomInv

LEMMA ReachableIs ==
  ASSUME DomInv
  PROVE  Roots \subseteq Ids(doc) /\ Reachable \subseteq Ids(doc) /\ Roots \subseteq Reachable
PROOF
  <1>1. Roots \in SUBSET Ids(doc)
    BY DEF DomInv, GraphOK, CallOK, Names, Roots, ArenaOK, Sound
  <1>2. QED
    BY <1>1, ReachIsClosure DEF DomInv, ArenaOK, Reachable, IsClosure

----------------------------------------------------------------------------
(* The steps of the collector and of synchronize. *)

Before(recs, n) == IF n \in DOMAIN recs THEN recs[n] ELSE NoEdges
Adopted(recs, some) == {m \in some : Before(recs, m).parent # ParentOf(doc, m)}

LEMMA RefreshedIs ==
  ASSUME NEW recs, NEW some
  PROVE  LET r == Refreshed(recs, some)
             adopted == Adopted(recs, some)
         IN  /\ DOMAIN r = DOMAIN recs \cup some
             /\ \A n \in DOMAIN r :
                  /\ r[n].parent = IF n \in some THEN ParentOf(doc, n)
                                   ELSE Before(recs, n).parent
                  /\ r[n].contents = IF n \in some THEN doc.nodes[n].contents
                                     ELSE Before(recs, n).contents
                  /\ r[n].children = (Before(recs, n).children \ adopted)
                                       \cup {m \in adopted : ParentOf(doc, m) = n}
PROOF
  <1> DEFINE live == DOMAIN recs \cup some
             before == [n \in live |-> IF n \in DOMAIN recs THEN recs[n] ELSE NoEdges]
             adopted == {n \in some : before[n].parent # ParentOf(doc, n)}
             r == Refreshed(recs, some)
  <1>1. \A n \in live : before[n] = Before(recs, n)
    BY DEF Before
  <1>2. adopted = Adopted(recs, some)
    BY <1>1 DEF Adopted
  <1>3. r = [n \in live |->
               [parent   |-> IF n \in some THEN ParentOf(doc, n) ELSE before[n].parent,
                children |-> (before[n].children \ adopted)
                               \cup {m \in adopted : ParentOf(doc, m) = n},
                contents |-> IF n \in some THEN doc.nodes[n].contents
                             ELSE before[n].contents]]
    BY Zenon DEF Refreshed
  <1> HIDE DEF before, adopted
  <1>4. DOMAIN r = live
    BY <1>3
  <1>5. ASSUME NEW n \in live
        PROVE  /\ r[n].parent = IF n \in some THEN ParentOf(doc, n) ELSE Before(recs, n).parent
               /\ r[n].contents = IF n \in some THEN doc.nodes[n].contents
                                  ELSE Before(recs, n).contents
               /\ r[n].children = (Before(recs, n).children \ adopted)
                                    \cup {m \in adopted : ParentOf(doc, m) = n}
    BY <1>1, <1>3
  <1> HIDE DEF r, live
  <1>6. QED
    BY <1>2, <1>4, <1>5 DEF r, live

LEMMA ComponentWithin ==
  ASSUME Sound(doc), NEW recs, NEW n \in Ids(doc)
  PROVE  n \in Component(recs, n) /\ Component(recs, n) \subseteq Ids(doc)
BY ComponentIs, SoundLinks, BelowIs

LEMMA LinksWithin ==
  ASSUME NEW d, Sound(d), NEW n \in Ids(d)
  PROVE  {ParentOf(d, n), d.nodes[n].contents} \subseteq Ids(d) \cup {None}
BY DEF Sound, Placed, Hosts

LEMMA TouchedWithin ==
  ASSUME Sound(doc), NEW recs, NEW n \in Ids(doc)
  PROVE  Touched(recs, n) \subseteq Ids(doc)
PROOF
  <1> DEFINE some == {ParentOf(doc, n), doc.nodes[n].contents} \ (DOMAIN recs \cup {None})
  <1>1. some \subseteq Ids(doc)
    BY LinksWithin
  <1> HIDE DEF some
  <1>2. \A m \in some : Component(recs, m) \subseteq Ids(doc)
    BY <1>1, ComponentWithin
  <1>3. {n} \cup (UNION {Component(recs, m) : m \in some}) \subseteq Ids(doc)
    BY <1>2
  <1>4. Below(doc, n) \subseteq Ids(doc)
    BY SoundLinks, BelowIs
  <1>5. QED
    BY <1>3, <1>4 DEF Touched, some

LEMMA TracedIs ==
  ASSUME DomInv
  PROVE  /\ Traced \subseteq Cached /\ Roots \cap Cached \subseteq Traced
         /\ kept \subseteq Traced /\ {Root} \cup held \subseteq Traced
         /\ \A n \in Traced : EdgesOf(records, n) \cap Cached \subseteq Traced
         /\ DOMAIN Survivors = Traced /\ \A n \in Traced : Survivors[n] = records[n]
PROOF
  <1>1. IsFiniteSet(Cached) /\ Cardinality(Cached) <= MaxNodes
    <2>1. Cached \subseteq Ids(doc) /\ Len(doc.nodes) <= MaxNodes
      BY DEF DomInv, GraphOK, ArenaOK
    <2>2. IsFiniteSet(Ids(doc)) /\ Cardinality(Ids(doc)) = Len(doc.nodes)
      BY ArenaIs DEF DomInv, ArenaOK, Sound
    <2>3. /\ IsFiniteSet(Cached) /\ Cardinality(Cached) \in Nat
          /\ Cardinality(Cached) <= Cardinality(Ids(doc)) /\ Cardinality(Ids(doc)) \in Nat
      BY <2>1, <2>2, FS_Subset, FS_CardinalityType
    <2> DEFINE x == Cardinality(Cached)
               y == Len(doc.nodes)
    <2>4. x \in Nat /\ y \in Nat /\ x <= y /\ y <= MaxNodes
      BY <2>1, <2>2, <2>3
    <2> HIDE DEF x, y
    <2>5. x <= MaxNodes
      BY <2>4, MaxNodesAssumption
    <2>6. QED
      BY <2>3, <2>5 DEF x
  <1>2. IsClosure(Cached, Holds(records), (Roots \cup kept) \cap Cached, Traced)
    BY <1>1, TracedIsClosure
  <1>3. Traced \subseteq Cached /\ (Roots \cup kept) \cap Cached \subseteq Traced
    BY <1>2 DEF IsClosure
  <1>4. \A n \in Traced : EdgesOf(records, n) \cap Cached \subseteq Traced
    BY <1>2, <1>3 DEF IsClosure, Closed, Holds, Cached
  <1>5. {Root} \cup held \cup kept \subseteq Cached /\ {Root} \cup held \subseteq Roots
    BY DEF DomInv, GraphOK, Roots
  <1>6. DOMAIN Survivors = Traced /\ \A n \in Traced : Survivors[n] = records[n]
    BY DEF Survivors
  <1>7. QED
    BY <1>3, <1>4, <1>5, <1>6

\* What is left in the arena of a step that only touches the records.
LEMMA GraphStepKeeps ==
  ASSUME DomInv, UNCHANGED doc, known' = known, todo' \subseteq todo,
         DOMAIN records' \subseteq Ids(doc), {Root} \cup held' \cup kept' \subseteq DOMAIN records',
         CallOK'
  PROVE  DomInv'
BY DEF DomInv, GraphOK, ArenaOK, Cached

LEMMA CollectKeeps ==
  ASSUME DomInv, Collect
  PROVE  DomInv'
PROOF
  <1>1. records' = Survivors /\ UNCHANGED <<doc, known, todo, kept, held, call>>
    BY DEF Collect
  <1>2. DOMAIN records' = Traced
    BY <1>1, TracedIs
  <1>3. CallOK'
    BY <1>1 DEF DomInv, CallOK
  <1>4. Traced \subseteq Ids(doc)
    BY TracedIs DEF DomInv, GraphOK
  <1>5. QED
    BY <1>1, <1>2, <1>3, <1>4, TracedIs, GraphStepKeeps

\* The notes are taken away.
LEMMA UnnotedSound ==
  ASSUME NEW d, Sound(d), NEW e \in Documents, e.nodes = d.nodes, e.changed = {}
  PROVE  Sound(e) /\ Ids(e) = Ids(d) /\ Len(e.nodes) = Len(d.nodes)
PROOF
  <1>1. /\ Ids(e) = Ids(d) /\ Len(e.nodes) = Len(d.nodes)
        /\ \A n : ParentOf(e, n) = ParentOf(d, n) /\ Kids(e, n) = Kids(d, n)
                  /\ IsElement(e, n) = IsElement(d, n) /\ IsFragment(e, n) = IsFragment(d, n)
                  /\ IsParent(e, n) = IsParent(d, n) /\ IsChild(e, n) = IsChild(d, n)
                  /\ Owned(e, n) = Owned(d, n)
    BY DEF Ids, ParentOf, Kids, IsElement, IsFragment, IsParent, IsChild, Owned
  <1>2. \A n \in Ids(d) : /\ ListsChildren(e, n) = ListsChildren(d, n)
                          /\ Placed(e, n) = Placed(d, n) /\ Hosts(e, n) = Hosts(d, n)
    BY <1>1 DEF ListsChildren, Placed, Hosts
  <1>3. \A depth : Deepens(d, depth) => Deepens(e, depth)
    BY <1>1 DEF Deepens
  <1>4. TopOK(e)
    BY <1>1 DEF Sound, TopOK
  <1>5. QED
    BY <1>1, <1>2, <1>3, <1>4 DEF Sound

LEMMA ReturnedIs ==
  ASSUME NEW c, IsCall(c), c.then = "return"
  PROVE  Continues(c, [c EXCEPT !.parent = None, !.asked = <<>>, !.sheets = {}])
PROOF
  <1> DEFINE none == <<>>
             b == SetTo(c, "parent", None)
             d == SetTo(b, "asked", none)
             e == SetTo(d, "sheets", {})
  <1>1. [c EXCEPT !.parent = None, !.asked = <<>>, !.sheets = {}] = e
    BY Zenon DEF SetTo
  <1> HIDE DEF none
  <1>2. /\ IsCall(b) /\ b.then = c.then /\ b.args = c.args /\ b.node = c.node
        /\ b.gathered = c.gathered
    BY FieldSet DEF Fields
  <1> HIDE DEF b
  <1>3. /\ IsCall(d) /\ d.then = c.then /\ d.args = c.args /\ d.node = c.node
        /\ d.gathered = c.gathered
    BY <1>2, FieldSet DEF Fields
  <1> HIDE DEF d
  <1>4. /\ IsCall(e) /\ e.then = c.then /\ e.args = c.args /\ e.node = c.node
        /\ e.gathered = c.gathered
    BY <1>3, FieldSet DEF Fields
  <1> HIDE DEF e
  <1>5. Continues(c, e)
    BY <1>4 DEF Continues
  <1>6. QED
    BY <1>1, <1>5

\* What the call is for stays.
LEMMA StartSyncCalls ==
  ASSUME DomInv, StartSync
  PROVE  Continues(call, call')
PROOF
  <1> DEFINE back == [call EXCEPT !.parent = None, !.asked = <<>>, !.sheets = {}]
             other == [call EXCEPT !.sheets = {}]
  <1>1. IsCall(call)
    BY DEF DomInv, CallOK
  <1>2. call.then = "return" => Continues(call, back)
    BY <1>1, ReturnedIs
  <1>3. Continues(call, other)
    BY <1>1, SheetsNoted
  <1>4. Continues(call, call)
    BY <1>1 DEF Continues
  <1>5. call' = CASE call.then = "return" -> back
                  [] call.then = "place" -> call
                  [] OTHER -> other
    BY Zenon DEF StartSync
  <1> HIDE DEF back, other
  <1>6. QED
    BY <1>2, <1>3, <1>4, <1>5

LEMMA StartSyncKeeps ==
  ASSUME DomInv, StartSync
  PROVE  DomInv'
PROOF
  <1> DEFINE changed == doc.changed \cup (known + 1 .. Len(doc.nodes))
  <1>1. /\ todo' = changed /\ kept' = changed \cap Cached /\ known' = Len(doc.nodes)
        /\ doc' = [doc EXCEPT !.changed = {}] /\ UNCHANGED <<records, held>>
    BY DEF StartSync, SyncRoots
  <1>2. Sound(doc) /\ doc \in Documents /\ Ids(doc) = 1..Len(doc.nodes) /\ Len(doc.nodes) \in Nat
    BY ArenaIs DEF DomInv, ArenaOK, Sound
  <1>3. doc' = [nodes |-> doc.nodes, changed |-> {}]
    BY <1>1, <1>2 DEF Documents
  <1>4. doc'.nodes = doc.nodes /\ doc'.changed = {} /\ doc' \in Documents
    BY <1>2, <1>3 DEF Documents
  <1>5. Sound(doc') /\ Ids(doc') = Ids(doc) /\ Len(doc'.nodes) = Len(doc.nodes)
    BY <1>2, <1>4, UnnotedSound
  <1>6. changed \subseteq Ids(doc)
    BY <1>2 DEF DomInv, GraphOK, Sound
  <1>7. GraphOK'
    <2>1. known' \in Nat /\ known' <= Len(doc'.nodes)
      <3> DEFINE L == Len(doc.nodes)
                 M == Len(doc'.nodes)
      <3>1. known' = L /\ M = L /\ L \in Nat
        BY <1>1, <1>2, <1>5
      <3> HIDE DEF L, M
      <3>2. known' \in Nat /\ known' <= M
        BY <3>1
      <3>3. QED
        BY <3>2 DEF M
    <2>2. Cached \subseteq Ids(doc) /\ {Root} \cup held \cup kept \subseteq Cached
      BY DEF DomInv, GraphOK
    <2> HIDE DEF changed
    <2>3. /\ todo' \subseteq Ids(doc') /\ Cached' \subseteq Ids(doc')
          /\ {Root} \cup held' \cup kept' \subseteq Cached'
      BY <1>1, <1>5, <1>6, <2>2 DEF Cached
    <2>4. QED
      BY <2>1, <2>3 DEF GraphOK
  <1>8. Continues(call, call')
    BY StartSyncCalls
  <1>9. Names(doc, call')
    BY <1>8, FollowsNames DEF DomInv, CallOK
  <1>10. CallOK'
    BY <1>4, <1>5, <1>8, <1>9 DEF CallOK, Names, Continues
  <1>11. QED
    BY <1>1, <1>5, <1>7, <1>10 DEF DomInv, ArenaOK

LEMMA RecordedKeeps ==
  ASSUME DomInv, NEW n \in Ids(doc)
  PROVE  /\ Cached \cup {n} \subseteq DOMAIN Recorded(n)
         /\ DOMAIN Recorded(n) \subseteq Ids(doc)
PROOF
  <1>1. CASE n \in Cached
    BY <1>1 DEF Recorded, DomInv, GraphOK, Cached
  <1>2. CASE n \notin Cached
    <2>1. DOMAIN Recorded(n) = Cached \cup Component(records, n)
      BY <1>2, RefreshedIs DEF Recorded, Cached
    <2>2. QED
      BY <2>1, ComponentWithin DEF DomInv, ArenaOK, GraphOK
  <1>3. QED
    BY <1>1, <1>2

LEMMA SyncNodeKeeps ==
  ASSUME DomInv, NEW n \in Ids(doc), SyncNode(n)
  PROVE  DomInv'
PROOF
  <1> DEFINE some == Touched(records, n)
             lost == UNION {Component(Survivors, m) :
                              m \in {ParentOf(doc, k) : k \in some}
                                       \ (Traced \cup some \cup {None})}
  <1>1. /\ todo' \subseteq todo /\ kept' \subseteq kept /\ UNCHANGED <<doc, known, held>>
        /\ call' = call \/ call' = NoCall
    BY DEF SyncNode
  <1>2. /\ Sound(doc) /\ Cached \subseteq Ids(doc) /\ {Root} \cup held \cup kept \subseteq Cached
    BY DEF DomInv, ArenaOK, GraphOK
  <1>3. some \subseteq Ids(doc)
    BY <1>2, TouchedWithin
  <1>4. lost \subseteq Ids(doc)
    <2> DEFINE above == {ParentOf(doc, k) : k \in some} \ (Traced \cup some \cup {None})
    <2>1. above \subseteq Ids(doc)
      BY <1>2, <1>3, LinksWithin
    <2> HIDE DEF above
    <2>2. \A m \in above : Component(Survivors, m) \subseteq Ids(doc)
      BY <1>2, <2>1, ComponentWithin
    <2>3. UNION {Component(Survivors, m) : m \in above} \subseteq Ids(doc)
      BY <2>2
    <2>4. QED
      BY <2>3 DEF above
  <1>5. \/ records' = Refreshed(records, some)
        \/ records' = Refreshed(Survivors, some \cup lost)
    BY Zenon DEF SyncNode
  <1> HIDE DEF some, lost
  <1>6. DOMAIN records' = Cached \cup some \/ DOMAIN records' = Traced \cup (some \cup lost)
    <2>1. \A recs, more : DOMAIN Refreshed(recs, more) = DOMAIN recs \cup more
      BY RefreshedIs
    <2>2. DOMAIN Survivors = Traced
      BY TracedIs
    <2>3. QED
      BY <1>5, <2>1, <2>2 DEF Cached
  <1>7. /\ DOMAIN records' \subseteq Ids(doc)
        /\ {Root} \cup held' \cup kept' \subseteq DOMAIN records'
    BY <1>1, <1>2, <1>3, <1>4, <1>6, TracedIs
  <1>8. CallOK'
    BY <1>1, NoCallIs DEF DomInv, CallOK
  <1>9. QED
    BY <1>1, <1>7, <1>8, GraphStepKeeps

----------------------------------------------------------------------------
(* The borrows of script. *)

\* What a borrow leaves is sound, grown from what was there, within the limit,
\* and known to the call that goes on.  A call that ends has changed nothing.
Lawful(new, next) ==
  /\ Sound(new) /\ Grown(doc, new) /\ Len(new.nodes) <= MaxNodes
  /\ IsCall(next) /\ Names(new, next) /\ (Lasts(next) \/ new = doc)
Borrowed == \E new, next, moved : BorrowNoting(new, next, moved) /\ Lawful(new, next)

LEMMA BorrowedKeeps ==
  ASSUME DomInv, Borrowed
  PROVE  DomInv'
PROOF
  <1>1. PICK new, next, moved : BorrowNoting(new, next, moved) /\ Lawful(new, next)
    BY DEF Borrowed
  <1>2. QED
    BY <1>1, BorrowKeeps DEF Lawful, Grown

LEMMA BorrowIs ==
  ASSUME NEW new, NEW next, Borrow(new, next) \/ Gather(new, next), Lawful(new, next)
  PROVE  Borrowed
BY DEF Borrow, Gather, Borrowed

LEMMA RelinkedLawful ==
  ASSUME DomInv, NEW new, Relinked(doc, new), NEW next, IsCall(next), Names(doc, next),
         Lasts(next) \/ new = doc
  PROVE  Lawful(new, next)
PROOF
  <1>1. Sound(new) /\ Grown(doc, new) /\ Ids(new) = Ids(doc)
    BY DEF Relinked
  <1>2. Len(new.nodes) = Len(doc.nodes)
    <2> DEFINE L == Len(new.nodes)
               M == Len(doc.nodes)
    <2>1. L \in Nat /\ M \in Nat /\ L <= M /\ M <= L
      BY <1>1, IdsGrow DEF DomInv, ArenaOK, Sound
    <2> HIDE DEF L, M
    <2>2. L = M
      BY <2>1
    <2>3. QED
      BY <2>2 DEF L, M
  <1>3. Names(new, next)
    BY <1>1, <1>2, GrownNames
  <1>4. QED
    BY <1>1, <1>2, <1>3 DEF Lawful, DomInv, ArenaOK

LEMMA ReturningNames ==
  ASSUME NEW d, NEW args \in SUBSET Ids(d)
  PROVE  IsCall(Returning(args)) /\ Names(d, Returning(args)) /\ Lasts(Returning(args))
BY ReturningIs DEF Names

LEMMA InsertBeforeBorrows ==
  ASSUME DomInv, NEW p \in Ids(doc), NEW n \in Ids(doc), NEW before \in ToSet(Kids(doc, p)) \cup {None},
         InsertBefore(p, n, before)
  PROVE  Borrowed
PROOF
  <1> DEFINE new == PreInserted(doc, p, n, before)
             args == {p, n, before} \ {None}
  <1>1. MayGo(doc, p, n, None) /\ Borrow(new, Returning(args))
    BY DEF InsertBefore, MayPreInsert, MayInsert, MayGo
  <1>2. Sound(doc)
    BY DEF DomInv, ArenaOK
  <1>3. Relinked(doc, new)
    BY <1>1, <1>2, PreInsertedKeeps
  <1>4. args \in SUBSET Ids(doc)
    BY <1>2, SoundLinks
  <1> HIDE DEF new, args
  <1>5. QED
    BY <1>1, <1>3, <1>4, ReturningNames, RelinkedLawful, BorrowIs

LEMMA RemoveChildBorrows ==
  ASSUME DomInv, NEW n \in Ids(doc), RemoveChild(n)
  PROVE  Borrowed
PROOF
  <1> DEFINE new == PreRemoved(doc, n)
             args == {n, ParentOf(doc, n)}
  <1>1. ParentOf(doc, n) # None /\ Borrow(new, Returning(args))
    BY DEF RemoveChild
  <1>2. Sound(doc)
    BY DEF DomInv, ArenaOK
  <1>3. Relinked(doc, new)
    BY <1>2, PreRemovedKeeps
  <1>4. args \in SUBSET Ids(doc)
    BY <1>1, <1>2, LinksWithin
  <1> HIDE DEF new, args
  <1>5. QED
    BY <1>1, <1>3, <1>4, ReturningNames, RelinkedLawful, BorrowIs

LEMMA ReplaceChildBorrows ==
  ASSUME DomInv, NEW p \in Ids(doc), NEW n \in Ids(doc), NEW child \in Ids(doc),
         ReplaceChild(p, n, child)
  PROVE  Borrowed
PROOF
  <1> DEFINE new == Replaced(doc, p, n, child)
             args == {p, n, child}
  <1>1. MayGo(doc, p, n, child) /\ Borrow(new, Returning(args))
    BY DEF ReplaceChild, MayReplace, MayInsert, MayGo
  <1>2. Sound(doc)
    BY DEF DomInv, ArenaOK
  <1>3. Relinked(doc, new)
    BY <1>1, <1>2, ReplacedKeeps
  <1>4. args \in SUBSET Ids(doc)
    OBVIOUS
  <1> HIDE DEF new, args
  <1>5. QED
    BY <1>1, <1>3, <1>4, ReturningNames, RelinkedLawful, BorrowIs

\* Texts and markup put at most one node, with its contents, in place of the
\* children.
LEMMA FilledLawful ==
  ASSUME DomInv, NEW p \in Ids(doc), NEW q \in Ids(doc), IsElement(doc, q) \/ IsFragment(doc, q),
         NEW kinds,
         kinds = {} \/ \E kind \in NodeKinds \ {"document", "fragment"} : kinds = {kind},
         NEW room \in Nat, room = Room(kinds), FitsBudget(room)
  PROVE  Lawful(Filled(doc, q, kinds), Returning({p}))
PROOF
  <1> DEFINE f == Filled(doc, q, kinds)
  <1>1. Sound(f) /\ Grown(doc, f) /\ Len(f.nodes) = Len(doc.nodes) + Room(kinds)
    BY FilledKeeps DEF DomInv, ArenaOK
  <1> HIDE DEF f
  <1>2. Len(f.nodes) <= MaxNodes
    BY <1>1 DEF FitsBudget
  <1>3. {p} \in SUBSET Ids(f)
    BY <1>1 DEF Grown
  <1>4. IsCall(Returning({p})) /\ Names(f, Returning({p})) /\ Lasts(Returning({p}))
    BY <1>3, ReturningNames
  <1>5. QED
    BY <1>1, <1>2, <1>4 DEF Lawful, f

LEMMA SetTextContentBorrows ==
  ASSUME DomInv, NEW p \in Ids(doc), NEW kinds \in {{}, {"text"}}, SetTextContent(p, kinds)
  PROVE  Borrowed
PROOF
  <1> DEFINE room == Cardinality(kinds)
  <1>1. /\ IsElement(doc, p) /\ FitsBudget(room)
        /\ Borrow(Filled(doc, p, kinds), Returning({p}))
    BY DEF SetTextContent
  <1>2. room \in Nat /\ room = Room(kinds)
    <2>1. CASE kinds = {}
      BY <2>1, FS_EmptySet DEF Room
    <2>2. CASE kinds = {"text"}
      <3>1. room = 1
        BY <2>2, FS_Singleton
      <3>2. kinds # {} /\ kinds # {"template"}
        BY <2>2
      <3>3. QED
        BY <3>1, <3>2 DEF Room
    <2>3. QED
      BY <2>1, <2>2
  <1>3. kinds = {} \/ \E kind \in NodeKinds \ {"document", "fragment"} : kinds = {kind}
    BY DEF NodeKinds
  <1> HIDE DEF room
  <1>4. Lawful(Filled(doc, p, kinds), Returning({p}))
    BY <1>1, <1>2, <1>3, FilledLawful
  <1>5. QED
    BY <1>1, <1>4, BorrowIs

LEMMA SetInnerHTMLBorrows ==
  ASSUME DomInv, NEW p \in Ids(doc), NEW kinds \in {{}} \cup {{k} : k \in Kinds \ {"fragment"}},
         SetInnerHTML(p, kinds)
  PROVE  Borrowed
PROOF
  <1> DEFINE room == Cardinality(kinds) + Cardinality(kinds \cap {"template"})
             q == MarkupTarget(doc, p)
  <1>1. /\ IsElement(doc, p) /\ FitsBudget(room)
        /\ Borrow(Filled(doc, q, kinds), Returning({p}))
    BY DEF SetInnerHTML
  <1>2. kinds = {} \/ \E kind \in NodeKinds \ {"document", "fragment"} : kinds = {kind}
    BY ScriptAssumption DEF NodeKinds
  <1>3. room \in Nat /\ room = Room(kinds)
    <2>1. Cardinality({}) = 0 /\ \A k : Cardinality({k}) = 1
      BY FS_EmptySet, FS_Singleton
    <2>2. CASE kinds = {}
      <3>1. kinds \cap {"template"} = {}
        BY <2>2
      <3>2. QED
        BY <2>1, <2>2, <3>1 DEF Room
    <2>3. CASE kinds = {"template"}
      <3>1. kinds \cap {"template"} = {"template"}
        BY <2>3
      <3>2. Cardinality(kinds) = 1 /\ Cardinality(kinds \cap {"template"}) = 1
        BY <2>1, <2>3, <3>1
      <3>3. Room(kinds) = 2
        BY <2>3 DEF Room
      <3>4. QED
        BY <3>2, <3>3
    <2>4. CASE kinds # {} /\ kinds # {"template"}
      <3>1. PICK k : kinds = {k} /\ k # "template"
        BY <1>2, <2>4
      <3>2. kinds \cap {"template"} = {}
        BY <3>1
      <3>3. Cardinality(kinds) = 1 /\ Cardinality(kinds \cap {"template"}) = 0
        BY <2>1, <3>1, <3>2
      <3>4. Room(kinds) = 1
        BY <2>4 DEF Room
      <3>5. QED
        BY <3>3, <3>4
    <2>5. QED
      BY <2>2, <2>3, <2>4
  <1>4. q \in Ids(doc) /\ (IsElement(doc, q) \/ IsFragment(doc, q))
    BY <1>1 DEF MarkupTarget, DomInv, ArenaOK, Sound, Hosts
  <1> HIDE DEF room, q
  <1>5. Lawful(Filled(doc, q, kinds), Returning({p}))
    BY <1>1, <1>2, <1>3, <1>4, FilledLawful
  <1>6. QED
    BY <1>1, <1>5, BorrowIs

LEMMA CreateBorrows ==
  ASSUME DomInv, NEW kind \in Kinds, Create(kind)
  PROVE  Borrowed
PROOF
  <1> DEFINE new == Added(doc, kind)
             node == Len(doc.nodes) + 1
             w == Wrapping({}, node)
             next == [w EXCEPT !.then = IF kind = "template" THEN "contents" ELSE "wrap"]
  <1>1. /\ Borrow(new, next) /\ Len(doc.nodes) + 1 <= MaxNodes
        /\ kind = "template" => node < MaxNodes
    <2>1. /\ Borrow(new, next)
          /\ Len(doc.nodes) + (IF kind = "template" THEN 2 ELSE 1) <= MaxNodes
      BY DEF Create, FitsBudget
    <2>2. Len(doc.nodes) \in Nat /\ MaxNodes \in Nat
      BY MaxNodesAssumption, ArenaIs DEF DomInv, ArenaOK, Sound
    <2> DEFINE L == Len(doc.nodes)
               few == IF kind = "template" THEN 2 ELSE 1
    <2>3. few \in {1, 2} /\ L \in Nat /\ L + few <= MaxNodes
      BY <2>1, <2>2
    <2> HIDE DEF L, few
    <2>4. L + 1 <= MaxNodes /\ (few = 2 => L + 1 < MaxNodes)
      BY <2>2, <2>3
    <2>5. QED
      BY <2>1, <2>4 DEF L, few
  <1>2. kind \in NodeKinds
    BY ScriptAssumption DEF NodeKinds
  <1>3. Sound(doc)
    BY DEF DomInv, ArenaOK
  <1>4. /\ Blank(doc, new) /\ Len(new.nodes) = node /\ Newest(new) = node
        /\ Ids(new) = Ids(doc) \cup {Newest(new)} /\ new.nodes[Newest(new)].kind = kind
    BY <1>2, <1>3, AddedIs
  <1> HIDE DEF new, node
  <1>5. Sound(new) /\ Grown(doc, new)
    BY <1>3, <1>4, BlankKeeps, BlankGrows
  <1>6. IsCall(w) /\ w.args = {} /\ w.node = node
    BY WrappingIs
  <1> HIDE DEF w
  <1>7. /\ IsCall(next) /\ next.args = {} /\ next.node = node
        /\ next.then = IF kind = "template" THEN "contents" ELSE "wrap"
    BY <1>6, ThenIs
  <1> HIDE DEF next
  <1>8. Names(new, next)
    BY <1>1, <1>4, <1>7 DEF Names
  <1>9. Len(new.nodes) <= MaxNodes
    BY <1>1, <1>4 DEF node
  <1>10. QED
    BY <1>1, <1>5, <1>7, <1>8, <1>9, BorrowIs DEF Lawful, Lasts

LEMMA CloneNodeBorrows ==
  ASSUME DomInv, NEW n \in Ids(doc), NEW deep \in BOOLEAN, CloneNode(n, deep)
  PROVE  Borrowed
PROOF
  <1> DEFINE new == Cloned(doc, n, deep)
             node == Len(doc.nodes) + 1
             args == {n}
             w == Wrapping(args, node)
             count == Cardinality(Copied(doc, n, deep))
  <1>1. Borrow(new, w) /\ Len(doc.nodes) + count <= MaxNodes
    BY DEF CloneNode, FitsBudget
  <1>2. /\ Sound(new) /\ Grown(doc, new) /\ Len(new.nodes) = Len(doc.nodes) + count
        /\ node \in Ids(new)
    BY ClonedKeeps DEF DomInv, ArenaOK
  <1> HIDE DEF args, node
  <1>3. /\ IsCall(w) /\ Lasts(w)
        /\ args \subseteq Ids(new) /\ node \in Ids(new) => Names(new, w)
    BY WrappingIs
  <1>4. args \subseteq Ids(new)
    BY <1>2 DEF Grown, args
  <1> HIDE DEF new, w, count
  <1>5. QED
    BY <1>1, <1>2, <1>3, <1>4, BorrowIs DEF Lawful

LEMMA SplitTextBorrows ==
  ASSUME DomInv, NEW n \in Ids(doc), SplitText(n)
  PROVE  Borrowed
PROOF
  <1> DEFINE made == Added(doc, "text")
             p == ParentOf(doc, n)
             new == IF p = None THEN made
                    ELSE PreInserted(made, p, Newest(made), NextSibling(doc, n))
             node == Newest(made)
             args == {n}
             w == Wrapping(args, node)
  <1>1. Borrow(new, w) /\ Len(doc.nodes) + 1 <= MaxNodes /\ doc.nodes[n].kind = "text"
    BY Zenon DEF SplitText, FitsBudget
  <1>2. /\ Sound(new) /\ Grown(doc, new) /\ Len(new.nodes) = Len(doc.nodes) + 1
        /\ node \in Ids(new)
    BY <1>1, SplitKeeps DEF DomInv, ArenaOK
  <1> HIDE DEF node, args
  <1>3. /\ IsCall(w) /\ Lasts(w)
        /\ args \subseteq Ids(new) /\ node \in Ids(new) => Names(new, w)
    BY WrappingIs
  <1>4. args \subseteq Ids(new)
    BY <1>2 DEF Grown, args
  <1> HIDE DEF new, w
  <1>5. QED
    BY <1>1, <1>2, <1>3, <1>4, BorrowIs DEF Lawful

LEMMA PlaceBorrows ==
  ASSUME DomInv, NEW c, {c.parent, c.node, c.this} \subseteq Ids(doc), c.args \subseteq Ids(doc),
         Place(c)
  PROVE  Borrowed
PROOF
  <1> DEFINE new == Finished(c)
             next == PlacedCall(c.args, c.parent, c.asked, c.gathered)
  <1>1. Borrow(new, next)
    BY Zenon DEF Place, PlacedCall
  <1>2. Relinked(doc, new)
    BY FinishedKeeps DEF DomInv, ArenaOK
  <1>3. IsCall(next) /\ next.then = "return" /\ next.args = c.args /\ Lasts(next)
    BY PlacedCallIs
  <1> HIDE DEF new, next
  <1>4. Names(doc, next)
    BY <1>3 DEF Names
  <1>5. QED
    BY <1>1, <1>2, <1>3, <1>4, RelinkedLawful, BorrowIs

LEMMA PlaceNodeBorrows ==
  ASSUME DomInv, PlaceNode
  PROVE  Borrowed
PROOF
  <1>1. call.then = "place" /\ (Place(call) \/ Borrow(doc, NoCall))
    BY DEF PlaceNode
  <1>2. {call.parent, call.node, call.this} \subseteq Ids(doc) /\ call.args \subseteq Ids(doc)
    BY <1>1 DEF DomInv, CallOK, Names
  <1>3. Relinked(doc, doc)
    BY RelinkedSelf DEF DomInv, ArenaOK
  <1>4. CASE Borrow(doc, NoCall)
    BY <1>3, <1>4, NoCallIs, RelinkedLawful, BorrowIs
  <1>5. QED
    BY <1>1, <1>2, <1>4, PlaceBorrows

\* Several arguments are made one node before it is placed.
LEMMA GatheredLawful ==
  ASSUME DomInv, NEW op, NEW items \in ItemsOf(doc), NEW this \in Ids(doc),
         op \in ParentOps \/ ParentOf(doc, this) # None, FitsBudget(Additional(items))
  PROVE  LET g == Gathered(items)
             c == Started(op, this, items)
         IN  /\ Lawful(g.doc, c) /\ Lawful(g.doc, Returning(c.args))
             /\ Additional(items) = 0 => c.node \in Ids(doc)
             /\ {c.parent, c.this} \subseteq Ids(doc) /\ c.args \subseteq Ids(doc)
PROOF
  <1> DEFINE g == Gathered(items)
             c == Started(op, this, items)
             more == Additional(items)
  <1>1. /\ Sound(g.doc) /\ Grown(doc, g.doc) /\ g.node \in Ids(g.doc)
        /\ Len(g.doc.nodes) = Len(doc.nodes) + more
    BY GatheredKeeps DEF DomInv, ArenaOK
  <1>2. /\ IsCall(c) /\ c.then = "place" /\ c.args = (ToSet(items) \ {None}) \cup {this}
        /\ c.this = this /\ c.node = g.node /\ Lasts(c)
        /\ c.parent = (IF op \in ParentOps THEN this ELSE ParentOf(doc, this))
    BY StartedIs
  <1>3. Len(doc.nodes) + more <= MaxNodes
    BY DEF FitsBudget
  <1> HIDE DEF g, c, more
  <1>4. {c.parent, c.this} \subseteq Ids(doc)
    BY <1>2, LinksWithin DEF DomInv, ArenaOK
  <1>5. c.args \subseteq Ids(doc)
    <2>1. items \in [1..Len(items) -> Ids(doc) \cup {None}] /\ Len(items) \in Nat
      BY ItemsAre
    <2>2. ToSet(items) \subseteq Ids(doc) \cup {None}
      BY <2>1 DEF ToSet
    <2>3. QED
      BY <1>2, <2>2
  <1>6. Names(g.doc, c)
    BY <1>1, <1>2, <1>4, <1>5 DEF Names, Grown
  <1>7. Len(g.doc.nodes) <= MaxNodes
    BY <1>1, <1>3
  <1>8. /\ IsCall(Returning(c.args)) /\ Names(g.doc, Returning(c.args))
        /\ Lasts(Returning(c.args))
    <2>1. c.args \in SUBSET Ids(g.doc)
      BY <1>6 DEF Names
    <2>2. QED
      BY <2>1, ReturningNames
  <1>9. more = 0 => c.node \in Ids(doc)
    <2>1. /\ Ids(doc) = 1..Len(doc.nodes) /\ Ids(g.doc) = 1..Len(g.doc.nodes)
          /\ Len(doc.nodes) \in Nat
      BY <1>1, ArenaIs DEF DomInv, ArenaOK, Sound
    <2> DEFINE L == Len(doc.nodes)
               M == Len(g.doc.nodes)
    <2>2. L \in Nat /\ M = L + more
      BY <1>1, <2>1
    <2> HIDE DEF L, M
    <2>3. more = 0 => M = L
      BY <2>2
    <2>4. QED
      BY <1>1, <1>2, <2>1, <2>3 DEF L, M
  <1>10. QED
    BY <1>1, <1>2, <1>4, <1>5, <1>6, <1>7, <1>8, <1>9 DEF Lawful, g, c, more

LEMMA VariadicBorrows ==
  ASSUME DomInv, NEW items \in Items, NEW this \in Ids(doc), NEW op, Variadic(op, this, items)
  PROVE  Borrowed
PROOF
  <1> DEFINE g == Gathered(items)
             c == Started(op, this, items)
  <1>1. /\ op \in ParentOps \/ ParentOf(doc, this) # None
        /\ FitsBudget(Additional(items))
        /\ \/ Additional(items) = 0 /\ Place(c)
           \/ Gather(g.doc, c)
           \/ Gather(g.doc, Returning(c.args))
    BY Zenon DEF Variadic
  <1>2. items \in ItemsOf(doc)
    <2>1. PICK k \in 0..MaxItems : items \in [1..k -> Reachable \cup {None}]
      BY DEF Items
    <2>2. k \in Nat /\ items \in [1..k -> Ids(doc) \cup {None}]
      BY <2>1, ReachableIs, ScriptAssumption
    <2>3. QED
      BY <2>2 DEF ItemsOf
  <1>3. /\ Lawful(g.doc, c) /\ Lawful(g.doc, Returning(c.args))
        /\ Additional(items) = 0 => c.node \in Ids(doc)
        /\ {c.parent, c.this} \subseteq Ids(doc) /\ c.args \subseteq Ids(doc)
    BY <1>1, <1>2, GatheredLawful
  <1> HIDE DEF g, c
  <1>4. CASE Additional(items) = 0 /\ Place(c)
    <2>1. {c.parent, c.node, c.this} \subseteq Ids(doc)
      BY <1>3, <1>4
    <2>2. QED
      BY <1>3, <1>4, <2>1, PlaceBorrows
  <1>5. QED
    BY <1>1, <1>3, <1>4, BorrowIs

LEMMA SetFragmentTextBorrows ==
  ASSUME DomInv, NEW p \in Ids(doc), NEW empty \in BOOLEAN, SetFragmentText(p, empty)
  PROVE  Borrowed
PROOF
  <1>1. CASE empty /\ Borrow(Emptied(doc, p), Returning({p}))
    <2>1. Relinked(doc, Emptied(doc, p))
      BY EmptiedKeeps DEF DomInv, ArenaOK
    <2>2. QED
      BY <1>1, <2>1, ReturningNames, RelinkedLawful, BorrowIs
  <1>2. CASE /\ FitsBudget(1)
             /\ Borrow(Added(doc, "text"), Started("replaceChildren", p, <<None>>))
    <2> DEFINE items == <<None>>
               new == Added(doc, "text")
               c == Started("replaceChildren", p, items)
    <2>1. items \in ItemsOf(doc) /\ Additional(items) = 1
      <3>1. items \in [1..1 -> Ids(doc) \cup {None}] /\ Len(items) = 1 /\ DOMAIN items = 1..1
        OBVIOUS
      <3>2. {i \in DOMAIN items : items[i] = None} = {1}
        BY <3>1
      <3>3. Cardinality({1}) = 1
        BY FS_Singleton
      <3> HIDE DEF items
      <3>4. items \in ItemsOf(doc)
        BY <3>1 DEF ItemsOf
      <3>5. QED
        BY <3>1, <3>2, <3>3, <3>4 DEF Additional
    <2>2. "replaceChildren" \in ParentOps
      BY DEF ParentOps
    <2>3. "text" \in NodeKinds
      BY DEF NodeKinds
    <2>4. Sound(doc)
      BY DEF DomInv, ArenaOK
    <2>5. Blank(doc, new) /\ Len(new.nodes) = Len(doc.nodes) + 1
      BY <2>3, <2>4, AddedIs
    <2> HIDE DEF new, c, items
    <2>6. Sound(new) /\ Grown(doc, new)
      BY <2>4, <2>5, BlankKeeps, BlankGrows
    <2>7. Lawful(Gathered(items).doc, c)
      BY <1>2, <2>1, <2>2, GatheredLawful DEF c
    <2>8. Len(Gathered(items).doc.nodes) = Len(doc.nodes) + 1
      BY <2>1, <2>4, GatheredKeeps
    <2>9. Ids(new) = Ids(Gathered(items).doc) /\ Len(new.nodes) <= MaxNodes
      BY <2>5, <2>6, <2>7, <2>8, ArenaIs DEF Lawful, Sound
    <2>10. Names(new, c) /\ IsCall(c) /\ Lasts(c)
      BY <2>7, <2>9, StartedIs DEF Lawful, Names, c
    <2>11. QED
      BY <1>2, <2>6, <2>9, <2>10, BorrowIs DEF Lawful, new, c, items
  <1>3. QED
    BY <1>1, <1>2 DEF SetFragmentText

\* A borrow of script, or a step that touches the records alone.
LEMMA ScriptIs ==
  ASSUME DomInv, Script
  PROVE  \/ Borrowed
         \/ \E n \in Ids(doc) : Hold(n)
         \/ \E n \in held : Drop(n)
PROOF
  <1>1. Reachable \subseteq Ids(doc)
    BY ReachableIs
  <1>2. CASE Mutates
    <2>1. ASSUME NEW p \in Reachable, NEW n \in Reachable,
                 NEW before \in ToSet(Kids(doc, p)) \cup {None}, InsertBefore(p, n, before)
          PROVE  Borrowed
      BY <1>1, <2>1, InsertBeforeBorrows
    <2>2. ASSUME NEW n \in Reachable, RemoveChild(n)
          PROVE  Borrowed
      BY <1>1, <2>2, RemoveChildBorrows
    <2>3. ASSUME NEW p \in Reachable, NEW n \in Reachable, NEW child \in Reachable,
                 ReplaceChild(p, n, child)
          PROVE  Borrowed
      BY <1>1, <2>3, ReplaceChildBorrows
    <2>4. ASSUME NEW p \in Reachable, NEW kinds \in {{}, {"text"}}, SetTextContent(p, kinds)
          PROVE  Borrowed
      BY <1>1, <2>4, SetTextContentBorrows
    <2>5. ASSUME NEW p \in Reachable, NEW kinds \in {{}} \cup {{k} : k \in Kinds \ {"fragment"}},
                 SetInnerHTML(p, kinds)
          PROVE  Borrowed
      BY <1>1, <2>5, SetInnerHTMLBorrows
    <2>6. ASSUME NEW items \in Items, NEW this \in Reachable, NEW op, Variadic(op, this, items)
          PROVE  Borrowed
      BY <1>1, <2>6, VariadicBorrows
    <2>7. ASSUME NEW p \in Reachable, NEW empty \in BOOLEAN, SetFragmentText(p, empty)
          PROVE  Borrowed
      BY <1>1, <2>7, SetFragmentTextBorrows
    <2>8. QED
      BY <1>2, <2>1, <2>2, <2>3, <2>4, <2>5, <2>6, <2>7 DEF Mutates
  <1>3. CASE Makes
    <2>1. ASSUME NEW n \in Reachable, NEW deep \in BOOLEAN, CloneNode(n, deep)
          PROVE  Borrowed
      BY <1>1, <2>1, CloneNodeBorrows
    <2>2. ASSUME NEW n \in Reachable, SplitText(n)
          PROVE  Borrowed
      BY <1>1, <2>2, SplitTextBorrows
    <2>3. QED
      BY <1>3, <2>1, <2>2, CreateBorrows DEF Makes
  <1>4. QED
    BY <1>1, <1>2, <1>3 DEF Script

\* A template gets its contents in a borrow of its own.
LEMMA AddContentsIs ==
  ASSUME DomInv, AddContents
  PROVE  LET t == call.node
             new == WithContents(doc, t)
         IN  /\ BorrowNoting(new, Wrapping({}, t), new.changed \cap Ids(doc))
             /\ t \in Ids(doc) /\ doc.nodes[t].kind = "template" /\ Len(doc.nodes) < MaxNodes
             /\ Hosted(doc, new, t, Len(doc.nodes) + 1)
             /\ Sound(new) /\ Ids(doc) \subseteq Ids(new)
             /\ Len(new.nodes) = Len(doc.nodes) + 1
             /\ IsCall(Wrapping({}, t)) /\ Lasts(Wrapping({}, t))
             /\ Names(new, Wrapping({}, t))
PROOF
  <1> DEFINE t == call.node
             new == WithContents(doc, t)
             args == {}
             w == Wrapping(args, t)
  <1>1. call.then = "contents" /\ BorrowNoting(new, w, new.changed \cap Ids(doc))
    BY DEF AddContents, Borrow
  <1>2. /\ t \in Ids(doc) /\ doc.nodes[t].kind = "template" /\ Sound(doc)
        /\ Len(doc.nodes) < MaxNodes
    BY <1>1 DEF DomInv, CallOK, Names, ArenaOK
  <1> HIDE DEF t
  <1>3. Hosted(doc, new, t, Len(doc.nodes) + 1) /\ Len(new.nodes) = Len(doc.nodes) + 1
    BY <1>2, WithContentsIs
  <1> HIDE DEF new, args
  <1>4. Sound(new) /\ Ids(doc) \subseteq Ids(new)
    BY <1>2, <1>3, HostedKeeps DEF Hosted
  <1>5. IsCall(w) /\ Lasts(w) /\ (args \subseteq Ids(new) /\ t \in Ids(new) => Names(new, w))
    BY WrappingIs
  <1>6. args \subseteq Ids(new) /\ t \in Ids(new)
    BY <1>2, <1>4 DEF args
  <1> HIDE DEF w
  <1>7. QED
    BY <1>1, <1>2, <1>3, <1>4, <1>5, <1>6 DEF t, new, args, w

LEMMA AddContentsKeeps ==
  ASSUME DomInv, AddContents
  PROVE  DomInv'
PROOF
  <1> DEFINE new == WithContents(doc, call.node)
             w == Wrapping({}, call.node)
  <1>1. /\ BorrowNoting(new, w, new.changed \cap Ids(doc)) /\ Len(doc.nodes) < MaxNodes
        /\ Sound(new) /\ Ids(doc) \subseteq Ids(new) /\ Len(new.nodes) = Len(doc.nodes) + 1
        /\ IsCall(w) /\ Names(new, w)
    BY AddContentsIs
  <1> HIDE DEF new, w
  <1>2. Len(new.nodes) <= MaxNodes
    <2> DEFINE L == Len(doc.nodes)
               M == Len(new.nodes)
    <2>1. L \in Nat /\ MaxNodes \in Nat /\ M = L + 1 /\ L < MaxNodes
      BY <1>1, MaxNodesAssumption, ArenaIs DEF DomInv, ArenaOK, Sound
    <2> HIDE DEF L, M
    <2>2. M <= MaxNodes
      BY <2>1
    <2>3. QED
      BY <2>2 DEF M
  <1>3. QED
    BY <1>1, <1>2, BorrowKeeps

LEMMA HoldKeeps ==
  ASSUME DomInv, NEW n \in Ids(doc), Hold(n)
  PROVE  DomInv'
PROOF
  <1>1. records' = Recorded(n) /\ held' = held \cup {n} /\ UNCHANGED <<doc, known, todo, kept, call>>
    BY DEF Hold
  <1>2. Cached \cup {n} \subseteq DOMAIN records' /\ DOMAIN records' \subseteq Ids(doc)
    BY <1>1, RecordedKeeps
  <1>3. {Root} \cup held' \cup kept' \subseteq DOMAIN records'
    BY <1>1, <1>2 DEF DomInv, GraphOK
  <1>4. CallOK'
    BY <1>1 DEF DomInv, CallOK
  <1>5. QED
    BY <1>1, <1>2, <1>3, <1>4, GraphStepKeeps

LEMMA DropKeeps ==
  ASSUME DomInv, NEW n \in held, Drop(n)
  PROVE  DomInv'
BY DEF Drop, graphVars, DomInv, ArenaOK, GraphOK, CallOK, Cached

LEMMA WrapKeeps ==
  ASSUME DomInv, Wrap
  PROVE  DomInv'
PROOF
  <1>1. /\ call.then = "wrap" /\ records' = Recorded(call.node) /\ held' = held \cup {call.node}
        /\ call' = NoCall /\ UNCHANGED <<doc, known, todo, kept>>
    BY DEF Wrap
  <1>2. call.node \in Ids(doc)
    BY <1>1 DEF DomInv, CallOK, Names
  <1>3. /\ Cached \cup {call.node} \subseteq DOMAIN records'
        /\ DOMAIN records' \subseteq Ids(doc)
    BY <1>1, <1>2, RecordedKeeps
  <1>4. {Root} \cup held' \cup kept' \subseteq DOMAIN records'
    BY <1>1, <1>3 DEF DomInv, GraphOK
  <1>5. CallOK'
    BY <1>1, NoCallIs DEF CallOK
  <1>6. QED
    BY <1>1, <1>3, <1>4, <1>5, GraphStepKeeps

LEMMA NothingToSyncKeeps ==
  ASSUME DomInv, NothingToSync
  PROVE  DomInv'
PROOF
  <1>1. call' = NoCall /\ UNCHANGED <<doc, records, known, todo, kept, held>>
    BY DEF NothingToSync, graphVars
  <1>2. CallOK'
    BY <1>1, NoCallIs DEF CallOK
  <1>3. QED
    BY <1>1, <1>2 DEF DomInv, ArenaOK, GraphOK, Cached

LEMMA DomInit ==
  ASSUME Init
  PROVE  DomInv
PROOF
  <1> DEFINE none == <<>>
             two == <<2>>
             three == <<3>>
             a == [kind |-> "document", parent |-> None, children |-> two, contents |-> None]
             b == [kind |-> "element", parent |-> Root, children |-> three, contents |-> None]
             c == [kind |-> "element", parent |-> 2, children |-> none, contents |-> None]
  <1>1. two \in Seq(Nat) /\ three \in Seq(Nat) /\ none \in Seq(Nat)
    OBVIOUS
  <1>2. ToSet(two) = {2} /\ ToSet(three) = {3} /\ ToSet(none) = {}
    BY DEF ToSet
  <1>3. IsInjective(two) /\ IsInjective(three) /\ IsInjective(none)
    BY DEF IsInjective
  <1>4. /\ doc = [nodes |-> <<a, b, c>>, changed |-> {}]
        /\ known = 3 /\ todo = {} /\ kept = {} /\ held = {} /\ call = NoCall
        /\ DOMAIN records = 1..3
    <2> DEFINE x == [New("document") EXCEPT !.children = <<2>>]
               y == [New("element") EXCEPT !.parent = Root, !.children = <<3>>]
               z == [New("element") EXCEPT !.parent = 2]
    <2>1. /\ doc = [nodes |-> <<x, y, z>>, changed |-> {}]
          /\ known = 3 /\ todo = {} /\ kept = {} /\ held = {} /\ call = NoCall
      BY Zenon DEF Init
    <2>2. DOMAIN records = 1..3
      BY DEF Init
    <2>3. \A kind : New(kind) = [kind |-> kind, parent |-> None, children |-> none,
                                contents |-> None]
      BY DEF New
    <2> HIDE DEF none, two, three
    <2>4. x = a
      BY <2>3 DEF two
    <2>5. z = c
      BY <2>3
    <2>6. y = b
      <3> DEFINE e == New("element")
      <3>1. e = [kind |-> "element", parent |-> None, children |-> none, contents |-> None]
        BY <2>3
      <3> HIDE DEF e
      <3>2. [e EXCEPT !.parent = Root]
              = [kind |-> "element", parent |-> Root, children |-> none, contents |-> None]
        BY <3>1
      <3> DEFINE f == [e EXCEPT !.parent = Root]
      <3> HIDE DEF f
      <3>3. f = [kind |-> "element", parent |-> Root, children |-> none, contents |-> None]
        BY <3>2 DEF f
      <3>4. [f EXCEPT !.children = three] = b
        BY <3>3
      <3>5. y = [f EXCEPT !.children = three]
        BY Zenon DEF e, f, three
      <3>6. QED
        BY <3>4, <3>5
    <2>7. QED
      BY <2>1, <2>2, <2>4, <2>5, <2>6
  <1> HIDE DEF none, two, three
  <1>5. {"document", "element"} \subseteq NodeKinds
    BY DEF NodeKinds
  <1>6. a \in NodeData /\ b \in NodeData /\ c \in NodeData
    BY <1>1, <1>5 DEF NodeData, None, Root
  <1>7. /\ a.kind = "document" /\ a.parent = None /\ a.children = two /\ a.contents = None
        /\ b.kind = "element" /\ b.parent = Root /\ b.children = three /\ b.contents = None
        /\ c.kind = "element" /\ c.parent = 2 /\ c.children = none /\ c.contents = None
    OBVIOUS
  <1> HIDE DEF a, b, c
  <1>8. /\ doc \in Documents /\ Len(doc.nodes) = 3 /\ Ids(doc) = {1, 2, 3}
        /\ doc.nodes[1] = a /\ doc.nodes[2] = b /\ doc.nodes[3] = c /\ doc.changed = {}
    BY <1>4, <1>6 DEF Documents, Ids
  <1>9. /\ ParentOf(doc, 1) = None /\ ParentOf(doc, 2) = 1 /\ ParentOf(doc, 3) = 2
        /\ Kids(doc, 1) = two /\ Kids(doc, 2) = three /\ Kids(doc, 3) = none
        /\ \A n \in Ids(doc) : doc.nodes[n].contents = None
    BY <1>7, <1>8 DEF ParentOf, Kids, Root
  <1>10. \A n \in Ids(doc) : ListsChildren(doc, n)
    BY <1>2, <1>3, <1>8, <1>9 DEF ListsChildren, None
  <1>11. \A n \in Ids(doc) : Placed(doc, n) /\ Hosts(doc, n)
    BY <1>7, <1>8, <1>9 DEF Placed, Hosts, IsParent, IsChild, IsElement, None
  <1>12. \E depth : Deepens(doc, depth)
    <2> DEFINE depth == [n \in {1, 2, 3} |-> n]
    <2>1. /\ Owned(doc, 1) = {2} /\ Owned(doc, 2) = {3} /\ Owned(doc, 3) = {}
      BY <1>2, <1>8, <1>9 DEF Owned
    <2>2. Deepens(doc, depth)
      BY <1>8, <2>1 DEF Deepens
    <2>3. QED
      BY <2>2
  <1>13. TopOK(doc)
    BY <1>2, <1>7, <1>8, <1>9 DEF TopOK, Root
  <1>14. Sound(doc)
    BY <1>7, <1>8, <1>10, <1>11, <1>12, <1>13 DEF Sound, Root
  <1>15. ArenaOK
    BY <1>8, <1>14, PageAssumption DEF ArenaOK
  <1>16. GraphOK
    BY <1>4, <1>8 DEF GraphOK, Cached, Root
  <1>17. CallOK
    BY <1>4, NoCallIs DEF CallOK
  <1>18. QED
    BY <1>15, <1>16, <1>17 DEF DomInv

LEMMA DomStep ==
  ASSUME DomInv, [Next]_vars
  PROVE  DomInv'
PROOF
  <1>1. CASE Script
    BY <1>1, ScriptIs, BorrowedKeeps, HoldKeeps, DropKeeps
  <1>2. CASE AddContents
    BY <1>2, AddContentsKeeps
  <1>3. CASE Wrap
    BY <1>3, WrapKeeps
  <1>4. CASE PlaceNode
    BY <1>4, PlaceNodeBorrows, BorrowedKeeps
  <1>5. CASE Synchronize
    <2>1. ASSUME NEW n \in todo, SyncNode(n)
          PROVE  DomInv'
      BY <2>1, SyncNodeKeeps DEF DomInv, GraphOK
    <2>2. QED
      BY <1>5, <2>1, StartSyncKeeps, NothingToSyncKeeps DEF Synchronize
  <1>6. CASE Collect
    BY <1>6, CollectKeeps
  <1>7. CASE UNCHANGED vars
    BY <1>7 DEF vars, DomInv, ArenaOK, GraphOK, CallOK, Cached
  <1>8. QED
    BY <1>1, <1>2, <1>3, <1>4, <1>5, <1>6, <1>7 DEF Next

\* In every state of every run the arena is sound.
THEOREM DomAlways == Spec => []DomInv
PROOF
  <1>1. Init => DomInv
    BY DomInit
  <1>2. DomInv /\ [Next]_vars => DomInv'
    BY DomStep
  <1>3. QED
    BY <1>1, <1>2, PTL DEF Spec

\* The arena stays a forest with one document element within the node limit.
THEOREM TreeIsAlwaysForest == Spec => []TreeIsForest
PROOF
  <1>1. DomInv => TreeIsForest
    BY SoundIsForest DEF DomInv, ArenaOK, GraphOK, Sound, TreeIsForest
  <1>2. QED
    BY <1>1, DomAlways, PTL

----------------------------------------------------------------------------
(* What is below a node, seen from there. *)

\* The parent of a node below t is below t, but for that of t itself.
LEMMA ParentBelow ==
  ASSUME NEW d, Sound(d), NEW t \in Ids(d), NEW m \in Below(d, t), m # t
  PROVE  ParentOf(d, m) \in Below(d, t) \cup {None}
PROOF
  <1>1. PICK o \in Below(d, t) : m \in Owned(d, o)
    BY SoundLinks, BelowOwned
  <1>2. o \in Ids(d) /\ m \in Ids(d)
    BY <1>1, SoundLinks, BelowIs
  <1>3. CASE m \in ToSet(Kids(d, o))
    BY <1>1, <1>2, <1>3 DEF Sound, ListsChildren
  <1>4. CASE m = d.nodes[o].contents /\ m # None
    BY <1>2, <1>4 DEF Sound, Hosts, Placed, IsFragment, IsChild
  <1>5. QED
    BY <1>1, <1>3, <1>4 DEF Owned

\* So is the host of contents below t.
LEMMA HostBelow ==
  ASSUME NEW d, Sound(d), NEW t \in Ids(d), NEW k \in Ids(d),
         d.nodes[k].contents \in Below(d, t), d.nodes[k].contents # t
  PROVE  k \in Below(d, t)
PROOF
  <1> DEFINE m == d.nodes[k].contents
  <1>1. PICK o \in Below(d, t) : m \in Owned(d, o)
    BY SoundLinks, BelowOwned
  <1>2. o \in Ids(d) /\ m \in Ids(d)
    BY <1>1, SoundLinks, BelowIs
  <1>3. m # None
    BY <1>2, ArenaIs DEF Sound
  <1>4. IsFragment(d, m) /\ ~IsChild(d, m)
    BY <1>3 DEF Sound, Hosts, IsFragment, IsChild
  <1>5. m \notin ToSet(Kids(d, o))
    BY <1>2, <1>3, <1>4, ArenaIs DEF Sound, ListsChildren, Placed
  <1>6. d.nodes[o].contents = m
    BY <1>1, <1>5 DEF Owned
  <1>7. QED
    BY <1>1, <1>2, <1>3, <1>6 DEF Sound, Hosts

\* A fragment nobody names as parent is all there is below it.
LEMMA BelowEmpty ==
  ASSUME NEW d, Sound(d), NEW k \in Ids(d), NEW c, c = d.nodes[k].contents, c # None,
         \A m \in Ids(d) : ParentOf(d, m) # c
  PROVE  Below(d, c) = {c}
PROOF
  <1>1. c \in Ids(d) /\ IsFragment(d, c)
    BY DEF Sound, Hosts
  <1>2. ToSet(Kids(d, c)) = {}
    BY <1>1 DEF Sound, ListsChildren
  <1>3. d.nodes[c].contents = None
    BY <1>1 DEF Sound, Hosts, IsFragment
  <1>4. Owned(d, c) = {}
    BY <1>2, <1>3 DEF Owned
  <1> DEFINE S == {c}
  <1>5. c \in S /\ \A m \in S \cap Ids(d) : Owned(d, m) \subseteq S
    BY <1>4
  <1> HIDE DEF S
  <1>6. Below(d, c) \subseteq S /\ c \in Below(d, c)
    BY <1>1, <1>5, SoundLinks, BelowIs
  <1>7. QED
    BY <1>6 DEF S

----------------------------------------------------------------------------
(* Records that follow the arena but for the nodes of P. *)

Links(d, n) == {ParentOf(d, n), d.nodes[n].contents}
SameLinks(d, recs, n) ==
  recs[n].parent = ParentOf(d, n) /\ recs[n].contents = d.nodes[n].contents

\* A node is listed by the one record that names it as its child's parent, and
\* what a record names has a record.
ListsOwn(recs) ==
  \A n \in DOMAIN recs : recs[n].children = {m \in DOMAIN recs : recs[m].parent = n}
Whole(recs) ==
  \A n \in DOMAIN recs : {recs[n].parent, recs[n].contents} \subseteq DOMAIN recs \cup {None}

Fresh(d, recs, P)    == \A n \in DOMAIN recs \ P : SameLinks(d, recs, n)
Complete(d, live, P) == \A n \in Ids(d) \ P : ParentOf(d, n) \in live => n \in live

\* Contents with a record are known to their host's; without one they are empty.
Contained(d, recs) ==
  \A n \in DOMAIN recs :
    LET c == d.nodes[n].contents
    IN  /\ c \in DOMAIN recs => recs[n].contents = c
        /\ c # None /\ c \notin DOMAIN recs => \A m \in Ids(d) : ParentOf(d, m) # c

IsRecord(r) == r = [parent |-> r.parent, children |-> r.children, contents |-> r.contents]

Follow(d, recs, P) ==
  /\ \A n \in DOMAIN recs : IsRecord(recs[n])
  /\ ListsOwn(recs) /\ Whole(recs)
  /\ Fresh(d, recs, P) /\ Complete(d, DOMAIN recs, P) /\ Contained(d, recs)

\* What a refresh of T needs, and leaves to be done in Q.
LEMMA RefreshedFollows ==
  ASSUME Sound(doc), NEW recs, DOMAIN recs \subseteq Ids(doc), NEW T \in SUBSET Ids(doc),
         NEW P, NEW Q, Follow(doc, recs, P),
         \A m \in T : Links(doc, m) \subseteq DOMAIN recs \cup T \cup {None},
         Complete(doc, DOMAIN recs \cup T, Q),
         \A k \in DOMAIN recs \ T : doc.nodes[k].contents \notin T \ DOMAIN recs,
         (P \ Q) \cap (DOMAIN recs \cup T) \subseteq T
  PROVE  Follow(doc, Refreshed(recs, T), Q)
PROOF
  <1> DEFINE r == Refreshed(recs, T)
             live == DOMAIN recs \cup T
  <1>1. /\ DOMAIN r = live
        /\ \A n \in live :
             /\ r[n].parent = IF n \in T THEN ParentOf(doc, n) ELSE Before(recs, n).parent
             /\ r[n].contents = IF n \in T THEN doc.nodes[n].contents
                                ELSE Before(recs, n).contents
             /\ r[n].children = (Before(recs, n).children \ Adopted(recs, T))
                                  \cup {m \in Adopted(recs, T) : ParentOf(doc, m) = n}
    BY RefreshedIs
  <1>2. \A n \in live : IsRecord(r[n])
    <2> DEFINE before == [n \in live |-> IF n \in DOMAIN recs THEN recs[n] ELSE NoEdges]
               adopted == {n \in T : before[n].parent # ParentOf(doc, n)}
    <2>1. r = [n \in live |->
                 [parent   |-> IF n \in T THEN ParentOf(doc, n) ELSE before[n].parent,
                  children |-> (before[n].children \ adopted)
                                 \cup {m \in adopted : ParentOf(doc, m) = n},
                  contents |-> IF n \in T THEN doc.nodes[n].contents
                               ELSE before[n].contents]]
      BY Zenon DEF Refreshed
    <2> DEFINE parent(n) == IF n \in T THEN ParentOf(doc, n) ELSE before[n].parent
               children(n) == (before[n].children \ adopted)
                                \cup {m \in adopted : ParentOf(doc, m) = n}
               contents(n) == IF n \in T THEN doc.nodes[n].contents ELSE before[n].contents
    <2>2. r = [n \in live |-> [parent |-> parent(n), children |-> children(n),
                               contents |-> contents(n)]]
      BY <2>1
    <2> HIDE DEF before, adopted, live, r, parent, children, contents
    <2>3. \A n \in live : r[n] = [parent |-> parent(n), children |-> children(n),
                                  contents |-> contents(n)]
      BY <2>2
    <2>4. \A a, b, c : IsRecord([parent |-> a, children |-> b, contents |-> c])
      BY DEF IsRecord
    <2>5. QED
      BY <2>3, <2>4
  <1> HIDE DEF r
  <1>3. \A n \in live \ T : n \in DOMAIN recs /\ r[n].parent = recs[n].parent
                            /\ r[n].contents = recs[n].contents
    BY <1>1 DEF Before
  <1>4. \A n \in T : r[n].parent = ParentOf(doc, n) /\ r[n].contents = doc.nodes[n].contents
    BY <1>1
  <1>5. None \notin live
    BY ArenaIs DEF Sound
  <1>6. ListsOwn(r)
    <2>1. ASSUME NEW n \in live
          PROVE  Before(recs, n).children = {m \in live : Before(recs, m).parent = n}
      <3>1. n # None
        BY <1>5
      <3>2. \A m \in live \ DOMAIN recs : Before(recs, m).parent # n
        BY <3>1 DEF Before, NoEdges
      <3>3. CASE n \in DOMAIN recs
        BY <3>2, <3>3 DEF Before, Follow, ListsOwn
      <3>4. CASE n \notin DOMAIN recs
        <4>1. \A m \in DOMAIN recs : Before(recs, m).parent # n
          BY <3>1, <3>4 DEF Before, Follow, Whole
        <4>2. Before(recs, n).children = {}
          BY <3>4 DEF Before, NoEdges
        <4>3. QED
          BY <3>2, <4>1, <4>2
      <3>5. QED
        BY <3>3, <3>4
    <2>2. \A m : m \in Adopted(recs, T) <=> m \in T /\ Before(recs, m).parent # ParentOf(doc, m)
      BY DEF Adopted
    <2>3. \A m \in live : r[m].parent = IF m \in T THEN ParentOf(doc, m) ELSE Before(recs, m).parent
      BY <1>1
    <2>4. ASSUME NEW n \in live
          PROVE  r[n].children = {m \in live : r[m].parent = n}
      <3>1. r[n].children = (Before(recs, n).children \ Adopted(recs, T))
                               \cup {m \in Adopted(recs, T) : ParentOf(doc, m) = n}
        BY <1>1
      <3>2. QED
        BY <2>1, <2>2, <2>3, <3>1
    <2>5. QED
      BY <1>1, <2>4 DEF ListsOwn
  <1>7. Whole(r)
    BY <1>1, <1>3, <1>4 DEF Whole, Follow, Links
  <1>8. Fresh(doc, r, Q)
    BY <1>1, <1>3, <1>4 DEF Fresh, SameLinks, Follow
  <1>9. Contained(doc, r)
    <2>1. ASSUME NEW k \in live, doc.nodes[k].contents \in live
          PROVE  r[k].contents = doc.nodes[k].contents
      BY <1>3, <1>4, <2>1 DEF Follow, Contained
    <2>2. ASSUME NEW k \in live, doc.nodes[k].contents # None,
                 doc.nodes[k].contents \notin live
          PROVE  \A m \in Ids(doc) : ParentOf(doc, m) # doc.nodes[k].contents
      <3>1. k \notin T
        BY <2>2 DEF Links
      <3>2. k \in DOMAIN recs /\ doc.nodes[k].contents \notin DOMAIN recs
        BY <2>2, <3>1
      <3>3. QED
        BY <2>2, <3>2 DEF Follow, Contained
    <2>3. QED
      BY <1>1, <2>1, <2>2 DEF Contained
  <1>10. QED
    BY <1>1, <1>2, <1>6, <1>7, <1>8, <1>9 DEF Follow, r

\* A refresh takes nodes with records, B, and all that is below the nodes of X.
LEMMA PiecesFollow ==
  ASSUME Sound(doc), NEW recs, DOMAIN recs \subseteq Ids(doc), NEW X \in SUBSET Ids(doc),
         NEW B \in SUBSET DOMAIN recs, NEW T, T = B \cup (UNION {Below(doc, t) : t \in X}),
         NEW P, NEW Q, Follow(doc, recs, P),
         \A t \in X : ParentOf(doc, t) \in DOMAIN recs \cup T \cup {None},
         \A b \in B : Links(doc, b) \subseteq DOMAIN recs \cup T \cup {None},
         \A k \in DOMAIN recs \ T, t \in X : doc.nodes[k].contents = t => t \in DOMAIN recs,
         \A n \in Ids(doc) \ Q : ParentOf(doc, n) \in DOMAIN recs => n \in DOMAIN recs \cup T,
         (P \ Q) \cap (DOMAIN recs \cup T) \subseteq T
  PROVE  Follow(doc, Refreshed(recs, T), Q)
PROOF
  <1>1. \A t \in X : /\ Below(doc, t) \subseteq Ids(doc) /\ Below(doc, t) \subseteq T
                     /\ \A m \in Below(doc, t) : Owned(doc, m) \subseteq Below(doc, t)
    BY SoundLinks, BelowIs
  <1>2. \A m \in T : m \in B \/ \E t \in X : m \in Below(doc, t)
    OBVIOUS
  <1>3. T \in SUBSET Ids(doc)
    BY <1>1, <1>2
  <1>4. ASSUME NEW m \in T
        PROVE  Links(doc, m) \subseteq DOMAIN recs \cup T \cup {None}
    <2>1. CASE m \in B
      BY <2>1
    <2>2. CASE \E t \in X : m \in Below(doc, t)
      <3>1. PICK t \in X : m \in Below(doc, t)
        BY <2>2
      <3>2. ParentOf(doc, m) \in DOMAIN recs \cup T \cup {None}
        BY <1>1, <3>1, ParentBelow
      <3>3. doc.nodes[m].contents \in T \cup {None}
        BY <1>1, <3>1 DEF Owned
      <3>4. QED
        BY <3>2, <3>3 DEF Links
    <2>3. QED
      BY <1>2, <2>1, <2>2
  <1>5. Complete(doc, DOMAIN recs \cup T, Q)
    <2>1. ASSUME NEW n \in Ids(doc) \ Q, ParentOf(doc, n) \in DOMAIN recs \cup T
          PROVE  n \in DOMAIN recs \cup T
      <3>1. CASE ParentOf(doc, n) \in DOMAIN recs
        BY <3>1
      <3>2. CASE ParentOf(doc, n) \in T \ DOMAIN recs
        <4>1. PICK t \in X : ParentOf(doc, n) \in Below(doc, t)
          BY <1>2, <3>2
        <4>2. ParentOf(doc, n) \in Ids(doc)
          BY <1>1, <4>1
        <4>3. n \in Owned(doc, ParentOf(doc, n))
          BY <4>2 DEF Sound, ListsChildren, Owned
        <4>4. QED
          BY <1>1, <4>1, <4>3
      <3>3. QED
        BY <2>1, <3>1, <3>2
    <2>2. QED
      BY <2>1 DEF Complete
  <1>6. ASSUME NEW k \in DOMAIN recs \ T, doc.nodes[k].contents \in T \ DOMAIN recs
        PROVE  FALSE
    <2>1. PICK t \in X : doc.nodes[k].contents \in Below(doc, t)
      BY <1>2, <1>6
    <2>2. doc.nodes[k].contents # t
      BY <1>6
    <2>3. k \in Below(doc, t)
      BY <2>1, <2>2, HostBelow
    <2>4. QED
      BY <1>1, <1>6, <2>3
  <1>7. \A k \in DOMAIN recs \ T : doc.nodes[k].contents \notin T \ DOMAIN recs
    BY <1>6
  <1>8. QED
    BY <1>3, <1>4, <1>5, <1>7, RefreshedFollows

\* What is left of records that follow the arena follows it.
LEMMA SurvivorsFollow ==
  ASSUME DomInv, NEW P, Follow(doc, records, P)
  PROVE  Follow(doc, Survivors, P)
PROOF
  <1>1. /\ Traced \subseteq Cached /\ DOMAIN Survivors = Traced
        /\ \A n \in Traced : Survivors[n] = records[n]
        /\ \A n \in Traced : EdgesOf(records, n) \cap Cached \subseteq Traced
    BY TracedIs
  <1> DEFINE s == Survivors
             live == Traced
  <1> HIDE DEF s, live
  <1>2. /\ live \subseteq DOMAIN records /\ DOMAIN s = live
        /\ \A n \in live : s[n] = records[n]
        /\ \A n \in live : EdgesOf(records, n) \cap DOMAIN records \subseteq live
    BY <1>1 DEF s, live, Cached
  <1>3. Cached \subseteq Ids(doc) /\ None \notin Ids(doc)
    BY ArenaIs DEF DomInv, GraphOK, ArenaOK, Sound
  <1>4. \A n \in DOMAIN s : IsRecord(s[n])
    BY <1>2 DEF Follow
  <1>5. ListsOwn(s)
    <2>1. ASSUME NEW n \in live
          PROVE  records[n].children = {m \in live : records[m].parent = n}
      <3>1. records[n].children = {m \in DOMAIN records : records[m].parent = n}
        BY <1>2 DEF Follow, ListsOwn
      <3>2. records[n].children \subseteq live
        BY <1>2, <3>1 DEF EdgesOf
      <3>3. QED
        BY <1>2, <3>1, <3>2
    <2>2. QED
      BY <1>2, <2>1 DEF ListsOwn
  <1>6. Whole(s)
    BY <1>2 DEF Whole, Follow, EdgesOf
  <1>7. Fresh(doc, s, P)
    BY <1>2 DEF Fresh, Follow, SameLinks
  <1>8. Complete(doc, live, P)
    <2>1. ASSUME NEW n \in Ids(doc) \ P, ParentOf(doc, n) \in live
          PROVE  n \in live
      <3>1. n \in DOMAIN records
        BY <1>2, <2>1 DEF Follow, Complete
      <3>2. records[n].parent = ParentOf(doc, n)
        BY <2>1, <3>1 DEF Follow, Fresh, SameLinks
      <3>3. n \in records[ParentOf(doc, n)].children
        BY <1>2, <2>1, <3>1, <3>2 DEF Follow, ListsOwn
      <3>4. QED
        BY <1>2, <2>1, <3>1, <3>3 DEF EdgesOf
    <2>2. QED
      BY <2>1 DEF Complete
  <1>9. Contained(doc, s)
    <2>1. ASSUME NEW k \in live
          PROVE  LET c == doc.nodes[k].contents
                 IN  /\ c \in live => s[k].contents = c
                     /\ c # None /\ c \notin live => \A m \in Ids(doc) : ParentOf(doc, m) # c
      <3> DEFINE c == doc.nodes[k].contents
      <3>1. /\ c \in DOMAIN records => records[k].contents = c
            /\ c # None /\ c \notin DOMAIN records => \A m \in Ids(doc) : ParentOf(doc, m) # c
        BY <1>2 DEF Follow, Contained
      <3>2. c \in DOMAIN records => c \in live
        BY <1>2, <3>1 DEF EdgesOf
      <3>3. QED
        BY <1>2, <3>1, <3>2
    <2>2. QED
      BY <1>2, <2>1 DEF Contained
  <1>10. QED
    BY <1>2, <1>4, <1>5, <1>6, <1>7, <1>8, <1>9 DEF Follow, s

\* So do the records after one is looked up between calls.
LEMMA RecordedFollows ==
  ASSUME DomInv, Follow(doc, records, {}), NEW n \in Ids(doc)
  PROVE  Follow(doc, Recorded(n), {})
PROOF
  <1>1. CASE n \in Cached
    BY <1>1 DEF Recorded
  <1>2. CASE n \notin Cached
    <2>1. Sound(doc) /\ DOMAIN records \subseteq Ids(doc)
      BY DEF DomInv, ArenaOK, GraphOK, Cached
    <2>2. PICK t \in Ids(doc) : /\ Component(records, n) = Below(doc, t)
                                /\ n \in Below(doc, t) /\ Halts(records, t)
      BY <2>1, ComponentIs
    <2> DEFINE X == {t}
               B == {}
               T == Below(doc, t)
    <2>3. T = B \cup (UNION {Below(doc, x) : x \in X})
      OBVIOUS
    <2>4. X \in SUBSET Ids(doc) /\ B \in SUBSET DOMAIN records
      OBVIOUS
    <2>5. \A x \in X : ParentOf(doc, x) \in DOMAIN records \cup T \cup {None}
      BY <2>2 DEF Halts
    <2>6. \A k \in DOMAIN records \ T, x \in X :
            doc.nodes[k].contents = x => x \in DOMAIN records
      <3>1. ASSUME NEW k \in DOMAIN records, doc.nodes[k].contents = t
            PROVE  t \in DOMAIN records
        <4>1. records[k].contents = t
          BY <3>1 DEF Follow, Fresh, SameLinks
        <4>2. QED
          BY <2>1, <4>1, ArenaIs DEF Follow, Whole, Sound
      <3>2. QED
        BY <3>1
    <2>7. \A m \in Ids(doc) \ {} :
            ParentOf(doc, m) \in DOMAIN records => m \in DOMAIN records \cup T
      BY DEF Follow, Complete
    <2>8. \A b \in B : Links(doc, b) \subseteq DOMAIN records \cup T \cup {None}
      OBVIOUS
    <2> HIDE DEF X, B, T
    <2>9. Follow(doc, Refreshed(records, T), {})
      BY <2>1, <2>3, <2>4, <2>5, <2>6, <2>7, <2>8, PiecesFollow
    <2>10. QED
      BY <1>2, <2>2, <2>9 DEF Recorded, T
  <1>3. QED
    BY <1>1, <1>2

----------------------------------------------------------------------------
(* A round of synchronize. *)

\* X are the tops of the components of M.
TopsOf(recs, M, X) ==
  /\ X \in SUBSET Ids(doc)
  /\ (UNION {Component(recs, m) : m \in M}) = UNION {Below(doc, t) : t \in X}
  /\ M \subseteq UNION {Below(doc, t) : t \in X}
  /\ \A t \in X : Halts(recs, t) /\ \E m \in M : m \in Below(doc, t)

LEMMA ComponentsAre ==
  ASSUME Sound(doc), NEW recs, NEW M \in SUBSET Ids(doc)
  PROVE  \E X : TopsOf(recs, M, X)
PROOF
  <1> DEFINE X == {t \in Ids(doc) : /\ Halts(recs, t)
                                    /\ \E m \in M : /\ Component(recs, m) = Below(doc, t)
                                                    /\ m \in Below(doc, t)}
  <1>1. \A m \in M : \E t \in X : Component(recs, m) = Below(doc, t) /\ m \in Below(doc, t)
    BY ComponentIs
  <1>2. \A t \in X : /\ Halts(recs, t)
                     /\ \E m \in M : Component(recs, m) = Below(doc, t) /\ m \in Below(doc, t)
    OBVIOUS
  <1>3. X \in SUBSET Ids(doc)
    OBVIOUS
  <1> HIDE DEF X
  <1>4. (UNION {Component(recs, m) : m \in M}) = UNION {Below(doc, t) : t \in X}
    BY <1>1, <1>2
  <1>5. M \subseteq UNION {Below(doc, t) : t \in X}
    BY <1>1
  <1>6. TopsOf(recs, M, X)
    BY <1>2, <1>3, <1>4, <1>5 DEF TopsOf
  <1>7. QED
    BY <1>6

\* What a round refreshes: n, if it has a record, and all below some nodes.
Kept(n) == {n} \cap Cached
LEMMA TouchedIs ==
  ASSUME Sound(doc), NEW n \in Ids(doc)
  PROVE  LET T == Touched(records, n)
         IN  \E X \in SUBSET Ids(doc) :
               /\ T = Kept(n) \cup (UNION {Below(doc, t) : t \in X})
               /\ \A t \in X : Halts(records, t)
               /\ n \in Cached => /\ Links(doc, n) \subseteq Cached \cup T \cup {None}
                                  /\ \A t \in X : \E m \in Links(doc, n) \ (Cached \cup {None}) :
                                                     m \in Below(doc, t)
               /\ n \notin Cached => /\ \A t \in X : t = n /\ ParentOf(doc, n) \in Cached
                                     /\ ParentOf(doc, n) \in Cached => n \in T
PROOF
  <1> DEFINE T == Touched(records, n)
             M == Links(doc, n) \ (Cached \cup {None})
  <1>1. CASE n \in Cached
    <2>1. T = {n} \cup UNION {Component(records, m) : m \in M}
      BY <1>1 DEF Touched, Links, Cached
    <2>2. M \in SUBSET Ids(doc)
      BY LinksWithin DEF Links
    <2> HIDE DEF T
    <2>3. PICK X : TopsOf(records, M, X)
      BY <2>2, ComponentsAre, Zenon
    <2>4. T = Kept(n) \cup (UNION {Below(doc, t) : t \in X})
      BY <1>1, <2>1, <2>3 DEF Kept, TopsOf
    <2>5. Links(doc, n) \subseteq Cached \cup T \cup {None}
      BY <2>3, <2>4 DEF TopsOf
    <2> HIDE DEF M
    <2>6. /\ X \in SUBSET Ids(doc)
          /\ \A t \in X : Halts(records, t) /\ \E m \in M : m \in Below(doc, t)
      BY <2>3 DEF TopsOf
    <2>7. QED
      BY <1>1, <2>4, <2>5, <2>6 DEF T, M
  <1>2. CASE n \notin Cached /\ ParentOf(doc, n) \in Cached
    <2> DEFINE X == {n}
    <2>1. T = Below(doc, n)
      BY <1>2 DEF Touched, Cached
    <2>2. T = Kept(n) \cup (UNION {Below(doc, t) : t \in X}) /\ n \in T
      BY <1>2, <2>1, SoundLinks, BelowIs DEF Kept
    <2>3. \A t \in X : Halts(records, t) /\ t = n
      BY <1>2 DEF Halts, Cached
    <2>4. X \in SUBSET Ids(doc)
      OBVIOUS
    <2> HIDE DEF X, T
    <2>5. QED
      BY <1>2, <2>2, <2>3, <2>4 DEF T
  <1>3. CASE n \notin Cached /\ ParentOf(doc, n) \notin Cached
    <2> DEFINE X == {}
    <2>1. T = {}
      BY <1>3 DEF Touched, Cached
    <2>2. T = Kept(n) \cup (UNION {Below(doc, t) : t \in X})
      BY <1>3, <2>1 DEF Kept
    <2>3. X \in SUBSET Ids(doc) /\ \A t \in X : FALSE
      OBVIOUS
    <2> HIDE DEF X, T
    <2>4. QED
      BY <1>3, <2>2, <2>3 DEF T
  <1>4. QED
    BY <1>1, <1>2, <1>3

Lost(recs, some) ==
  UNION {Component(recs, m) : m \in {ParentOf(doc, k) : k \in some}
                                      \ (DOMAIN recs \cup some \cup {None})}

\* A round leaves one node less to look at, whatever records the collector
\* has left.
LEMMA RoundFollows ==
  ASSUME DomInv, Follow(doc, records, todo), NEW n \in todo,
         NEW recs, DOMAIN recs \subseteq Cached, Follow(doc, recs, todo),
         n \in Cached => n \in DOMAIN recs,
         \A k \in DOMAIN recs :
           doc.nodes[k].contents \in Cached => doc.nodes[k].contents \in DOMAIN recs
  PROVE  LET some == Touched(records, n)
         IN  Follow(doc, Refreshed(recs, some \cup Lost(recs, some)), todo \ {n})
PROOF
  <1> DEFINE some == Touched(records, n)
             lost == Lost(recs, some)
             T == some \cup lost
             live == DOMAIN recs
             above == {ParentOf(doc, k) : k \in some} \ (live \cup some \cup {None})
  <1>1. /\ Sound(doc) /\ Cached \subseteq Ids(doc) /\ todo \subseteq Ids(doc) /\ n \in Ids(doc)
        /\ None \notin Ids(doc)
    BY ArenaIs DEF DomInv, ArenaOK, GraphOK, Sound
  <1>2. some \subseteq Ids(doc)
    BY <1>1, TouchedWithin
  <1>3. PICK X \in SUBSET Ids(doc) :
          /\ some = Kept(n) \cup (UNION {Below(doc, t) : t \in X})
          /\ \A t \in X : Halts(records, t)
          /\ n \in Cached => /\ Links(doc, n) \subseteq Cached \cup some \cup {None}
                             /\ \A t \in X : \E m \in Links(doc, n) \ (Cached \cup {None}) :
                                                m \in Below(doc, t)
          /\ n \notin Cached => /\ \A t \in X : t = n /\ ParentOf(doc, n) \in Cached
                                /\ ParentOf(doc, n) \in Cached => n \in some
    BY <1>1, TouchedIs
  <1>4. lost = UNION {Component(recs, m) : m \in above}
    BY DEF Lost
  <1> HIDE DEF some, lost
  <1>5. above \in SUBSET Ids(doc)
    BY <1>1, <1>2, LinksWithin
  <1>6. \A k \in some : ParentOf(doc, k) \in live \cup some \cup {None} \cup above
    OBVIOUS
  <1>7. \A m \in above : m \notin live /\ \E k \in some : m = ParentOf(doc, k)
    OBVIOUS
  <1> HIDE DEF above
  <1>8. PICK Y :
          /\ Y \in SUBSET Ids(doc)
          /\ (UNION {Component(recs, m) : m \in above}) = UNION {Below(doc, t) : t \in Y}
          /\ above \subseteq UNION {Below(doc, t) : t \in Y}
          /\ \A t \in Y : Halts(recs, t) /\ \E m \in above : m \in Below(doc, t)
    <2>1. PICK Y : TopsOf(recs, above, Y)
      BY <1>1, <1>5, ComponentsAre
    <2>2. QED
      BY <2>1 DEF TopsOf
  <1> DEFINE Z == X \cup Y
             B == Kept(n)
             Q == todo \ {n}
  <1>9. T = B \cup (UNION {Below(doc, t) : t \in Z})
    BY <1>3, <1>4, <1>8
  <1>10. Z \in SUBSET Ids(doc) /\ B \in SUBSET live
    BY <1>8 DEF Kept
  <1>11. above \subseteq lost
    BY <1>4, <1>8
  <1>12. \A k \in some : ParentOf(doc, k) \in live \cup T \cup {None}
    BY <1>6, <1>11
  <1>13. \A t \in Z : ParentOf(doc, t) \in live \cup T \cup {None}
    <2>1. ASSUME NEW t \in X
          PROVE  t \in some
      BY <1>1, <1>3, <2>1, SoundLinks, BelowIs
    <2>2. ASSUME NEW t \in Y
          PROVE  ParentOf(doc, t) \in live \cup {None}
      BY <1>8, <2>2 DEF Halts
    <2>3. QED
      BY <1>12, <2>1, <2>2
  <1>14. \A b \in B : Links(doc, b) \subseteq live \cup T \cup {None}
    <2>1. ASSUME n \in Cached
          PROVE  Links(doc, n) \subseteq live \cup T \cup {None}
      <3>1. n \in some /\ n \in live
        BY <1>3, <2>1 DEF Kept
      <3>2. ParentOf(doc, n) \in live \cup T \cup {None}
        BY <1>12, <3>1
      <3>3. doc.nodes[n].contents \in live \cup T \cup {None}
        BY <1>3, <2>1, <3>1 DEF Links
      <3>4. QED
        BY <3>2, <3>3 DEF Links
    <2>2. QED
      BY <2>1 DEF Kept
  <1>15. ASSUME NEW k \in live \ T, NEW t \in Z, doc.nodes[k].contents = t, t \notin live
         PROVE  FALSE
    <2>1. t \in Ids(doc) /\ t # None /\ t \notin Cached /\ k \in Cached /\ k \in Ids(doc)
      BY <1>1, <1>10, <1>15
    <2>2. \A m \in Ids(doc) : ParentOf(doc, m) # t
      BY <1>15, <2>1 DEF Follow, Contained, Cached
    <2>3. Below(doc, t) = {t}
      BY <1>1, <1>15, <2>1, <2>2, BelowEmpty
    <2>4. CASE t \in Y
      <3>1. PICK m \in above : m \in Below(doc, t)
        BY <1>8, <2>4
      <3>2. QED
        BY <1>2, <1>7, <2>2, <2>3, <3>1
    <2>5. CASE t \in X /\ n \in Cached
      <3>1. PICK m \in Links(doc, n) : m \in Below(doc, t)
        BY <1>3, <2>5
      <3>2. m = t
        BY <2>3, <3>1
      <3>3. doc.nodes[n].contents = t
        BY <1>1, <2>2, <3>1, <3>2 DEF Links
      <3>4. k = n
        BY <1>1, <1>15, <2>1, <3>3 DEF Sound, Hosts
      <3>5. n \in T
        BY <1>3, <2>5 DEF Kept
      <3>6. QED
        BY <1>15, <3>4, <3>5
    <2>6. CASE t \in X /\ n \notin Cached
      <3>1. t = n /\ ParentOf(doc, n) \in Cached
        BY <1>3, <2>6
      <3>2. ParentOf(doc, t) # None /\ IsFragment(doc, t)
        BY <1>1, <1>15, <2>1, <3>1 DEF Sound, Hosts
      <3>3. QED
        BY <1>1, <2>1, <3>2 DEF Sound, Placed, IsFragment, IsChild
    <2>7. QED
      BY <1>15, <2>4, <2>5, <2>6
  <1>16. \A m \in Ids(doc) \ Q : ParentOf(doc, m) \in live => m \in live \cup T
    <2>1. ASSUME NEW m \in Ids(doc) \ todo, ParentOf(doc, m) \in live
          PROVE  m \in live
      BY <2>1 DEF Follow, Complete
    <2>2. ASSUME ParentOf(doc, n) \in live
          PROVE  n \in live \cup T
      BY <1>3, <2>2
    <2>3. QED
      BY <2>1, <2>2
  <1>17. (todo \ Q) \cap (live \cup T) \subseteq T
    <2>1. ASSUME n \in live
          PROVE  n \in T
      BY <1>3, <2>1 DEF Kept
    <2>2. QED
      BY <2>1
  <1>18. \A k \in live \ T, t \in Z : doc.nodes[k].contents = t => t \in live
    BY <1>15
  <1>19. live \subseteq Ids(doc)
    BY <1>1
  <1> HIDE DEF T, Z, B, Q
  <1>20. Follow(doc, Refreshed(recs, T), Q)
    BY <1>1, <1>9, <1>10, <1>13, <1>14, <1>16, <1>17, <1>18, <1>19, PiecesFollow
  <1>21. QED
    BY <1>20 DEF T, Q, lost, some

----------------------------------------------------------------------------
(* The invariant: what the records may still lack is yet to be looked at. *)

Pending == doc.changed \cup todo \cup (known + 1 .. Len(doc.nodes))

FollowInv ==
  /\ Follow(doc, records, Pending)
  /\ \A n \in (todo \cap Cached) \ kept : SameLinks(doc, records, n)
  /\ todo # {} => doc.changed = {} /\ known = Len(doc.nodes)
  /\ Lasts(call) \/ Synced

\* Nothing is pending when the records have been synchronised.
LEMMA NonePending ==
  ASSUME DomInv, Synced
  PROVE  Pending = {}
PROOF
  <1>1. todo = {} /\ doc.changed = {} /\ known = Len(doc.nodes) /\ known \in Nat
    BY DEF Synced, DomInv, GraphOK
  <1>2. known + 1 .. known = {}
    BY <1>1
  <1>3. QED
    BY <1>1, <1>2 DEF Pending

LEMMA TodoPending ==
  ASSUME DomInv, FollowInv, todo # {}
  PROVE  Pending = todo
PROOF
  <1>1. doc.changed = {} /\ known = Len(doc.nodes) /\ known \in Nat
    BY DEF FollowInv, DomInv, GraphOK
  <1>2. known + 1 .. known = {}
    BY <1>1
  <1>3. QED
    BY <1>1, <1>2 DEF Pending

\* The collector takes the record of a changed node only when it is up to date.
LEMMA TouchedLives ==
  ASSUME DomInv, FollowInv, NEW n \in todo, n \in Cached, Touched(records, n) \ Cached # {}
  PROVE  n \in Traced
PROOF
  <1>1. CASE n \in kept
    BY <1>1, TracedIs
  <1>2. CASE n \notin kept
    <2>1. SameLinks(doc, records, n)
      BY <1>2 DEF FollowInv
    <2>2. {ParentOf(doc, n), doc.nodes[n].contents} \subseteq Cached \cup {None}
      BY <2>1 DEF SameLinks, FollowInv, Follow, Whole, Cached
    <2>3. Touched(records, n) = {n}
      <3> DEFINE M == {ParentOf(doc, n), doc.nodes[n].contents} \ (DOMAIN records \cup {None})
      <3>1. M = {}
        BY <2>2 DEF Cached
      <3>2. Touched(records, n) = {n} \cup UNION {Component(records, m) : m \in M}
        BY DEF Touched, Cached
      <3> HIDE DEF M
      <3>3. QED
        BY <3>1, <3>2
    <2>4. QED
      BY <2>3
  <1>3. QED
    BY <1>1, <1>2

\* A record that is restored alone has nothing to restore above it.
LEMMA NoneLost ==
  ASSUME DomInv, NEW n \in Ids(doc)
  PROVE  Lost(records, Touched(records, n)) = {}
PROOF
  <1> DEFINE T == Touched(records, n)
             M == {ParentOf(doc, k) : k \in T} \ (DOMAIN records \cup T \cup {None})
  <1>1. Sound(doc)
    BY DEF DomInv, ArenaOK
  <1>2. PICK X \in SUBSET Ids(doc) :
          /\ T = Kept(n) \cup (UNION {Below(doc, t) : t \in X})
          /\ \A t \in X : Halts(records, t)
          /\ n \in Cached => Links(doc, n) \subseteq Cached \cup T \cup {None}
    BY <1>1, TouchedIs
  <1> HIDE DEF T
  <1>3. ASSUME NEW k \in T
        PROVE  ParentOf(doc, k) \in Cached \cup T \cup {None}
    <2>1. CASE k \in Kept(n)
      BY <1>2, <2>1 DEF Kept, Links
    <2>2. CASE \E t \in X : k \in Below(doc, t)
      <3>1. PICK t \in X : k \in Below(doc, t)
        BY <2>2
      <3>2. CASE k = t
        BY <1>2, <3>1, <3>2 DEF Halts, Cached
      <3>3. CASE k # t
        BY <1>1, <1>2, <3>1, <3>3, ParentBelow
      <3>4. QED
        BY <3>2, <3>3
    <2>3. QED
      BY <1>2, <2>1, <2>2
  <1>4. M = {}
    BY <1>3 DEF Cached
  <1>5. Lost(records, T) = UNION {Component(records, m) : m \in M}
    BY DEF Lost
  <1> HIDE DEF M
  <1>6. QED
    BY <1>4, <1>5 DEF T

\* A step that leaves the arena and its notes alone.
LEMMA StillPending ==
  ASSUME UNCHANGED <<doc, known, todo>>
  PROVE  Pending' = Pending
BY DEF Pending

\* The links of a record after a refresh.
LEMMA RefreshedLinks ==
  ASSUME NEW recs, NEW T, NEW k \in DOMAIN Refreshed(recs, T)
  PROVE  /\ k \in DOMAIN recs \cup T
         /\ Refreshed(recs, T)[k].parent
              = (IF k \in T THEN ParentOf(doc, k) ELSE Before(recs, k).parent)
         /\ Refreshed(recs, T)[k].contents
              = (IF k \in T THEN doc.nodes[k].contents ELSE Before(recs, k).contents)
PROOF
  <1> DEFINE r == Refreshed(recs, T)
             live == DOMAIN recs \cup T
  <1>1. /\ DOMAIN r = live
        /\ \A n \in live :
             /\ r[n].parent = IF n \in T THEN ParentOf(doc, n) ELSE Before(recs, n).parent
             /\ r[n].contents = IF n \in T THEN doc.nodes[n].contents
                                ELSE Before(recs, n).contents
             /\ r[n].children = (Before(recs, n).children \ Adopted(recs, T))
                                  \cup {m \in Adopted(recs, T) : ParentOf(doc, m) = n}
    BY RefreshedIs
  <1> HIDE DEF r
  <1>2. k \in live
    BY <1>1 DEF r
  <1>3. QED
    BY <1>1, <1>2 DEF r

LEMMA SyncNodeFollows ==
  ASSUME DomInv, FollowInv, NEW n \in todo, SyncNode(n)
  PROVE  FollowInv'
PROOF
  <1> DEFINE some == Touched(records, n)
             lost == UNION {Component(Survivors, m) :
                              m \in {ParentOf(doc, k) : k \in some}
                                       \ (Traced \cup some \cup {None})}
  <1>1. /\ todo' = todo \ {n} /\ kept' = (IF todo' = {} THEN {} ELSE kept)
        /\ call' = (IF todo' = {} /\ call.then = "return" THEN NoCall ELSE call)
        /\ UNCHANGED <<doc, known>>
    BY DEF SyncNode
  <1>2. /\ n \in Ids(doc) /\ DOMAIN records = Cached /\ None \notin Ids(doc)
        /\ DOMAIN Survivors = Traced /\ Traced \subseteq Cached
    BY TracedIs, ArenaIs DEF DomInv, ArenaOK, GraphOK, Cached, Sound
  <1>3. Pending = todo /\ doc.changed = {} /\ known = Len(doc.nodes) /\ known \in Nat
    BY TodoPending DEF FollowInv, DomInv, GraphOK
  <1>4. Follow(doc, records, todo)
    BY <1>3 DEF FollowInv
  <1>5. \/ records' = Refreshed(records, some)
        \/ /\ some \ Cached # {}
           /\ records' = Refreshed(Survivors, some \cup lost)
    BY Zenon DEF SyncNode
  <1>6. lost = Lost(Survivors, some)
    BY <1>2 DEF Lost
  <1> HIDE DEF lost
  <1>7. \E recs, T : /\ records' = Refreshed(recs, T) /\ Follow(doc, records', todo \ {n})
                     /\ DOMAIN recs \subseteq Cached
                     /\ \A k \in DOMAIN recs : recs[k] = records[k]
    <2>1. CASE records' = Refreshed(records, some)
      <3>1. some = some \cup Lost(records, some)
        BY <1>2, NoneLost
      <3>2. Follow(doc, Refreshed(records, some \cup Lost(records, some)), todo \ {n})
        BY <1>2, <1>4, RoundFollows
      <3> HIDE DEF some
      <3>3. Follow(doc, records', todo \ {n})
        BY <2>1, <3>1, <3>2
      <3>4. QED
        BY <1>2, <2>1, <3>3
    <2>2. CASE some \ Cached # {} /\ records' = Refreshed(Survivors, some \cup lost)
      <3> DEFINE s == Survivors
      <3>1. Follow(doc, s, todo)
        BY <1>4, SurvivorsFollow
      <3>2. n \in Cached => n \in DOMAIN s
        BY <1>2, <2>2, TouchedLives
      <3>3. ASSUME NEW k \in DOMAIN s, doc.nodes[k].contents \in Cached
            PROVE  doc.nodes[k].contents \in DOMAIN s
        <4>1. k \in Traced /\ k \in DOMAIN records
          BY <1>2, <3>3
        <4>2. records[k].contents = doc.nodes[k].contents
          BY <1>2, <1>4, <3>3, <4>1 DEF Follow, Contained
        <4>3. doc.nodes[k].contents \in EdgesOf(records, k) \cap Cached
          BY <3>3, <4>2 DEF EdgesOf
        <4>4. QED
          BY <1>2, <4>1, <4>3, TracedIs
      <3>4. DOMAIN s \subseteq Cached /\ \A k \in DOMAIN s : s[k] = records[k]
        BY <1>2, TracedIs
      <3> HIDE DEF s
      <3>5. Follow(doc, Refreshed(s, some \cup Lost(s, some)), todo \ {n})
        BY <1>4, <3>1, <3>2, <3>3, <3>4, RoundFollows
      <3> HIDE DEF some
      <3>6. records' = Refreshed(s, some \cup lost) /\ lost = Lost(s, some)
        BY <1>6, <2>2 DEF s
      <3>7. QED
        BY <3>4, <3>5, <3>6
    <2>3. QED
      BY <1>5, <2>1, <2>2
  <1>8. Pending' = todo \ {n}
    <2>1. known' + 1 .. Len(doc'.nodes) = {}
      <3>1. known + 1 .. known = {}
        BY <1>3
      <3>2. known' = known /\ Len(doc'.nodes) = known
        BY <1>1, <1>3
      <3>3. QED
        BY <3>1, <3>2
    <2>2. QED
      BY <1>1, <1>3, <2>1 DEF Pending
  <1>9. Follow(doc, records, Pending)'
    BY <1>1, <1>7, <1>8
  <1>10. ASSUME NEW k \in (todo' \cap Cached') \ kept'
         PROVE  SameLinks(doc', records', k)
    <2>1. k \in todo /\ k \notin kept /\ k \in DOMAIN records'
      BY <1>1, <1>10 DEF Cached
    <2>2. PICK recs, T : /\ records' = Refreshed(recs, T)
                         /\ DOMAIN recs \subseteq Cached
                         /\ \A j \in DOMAIN recs : recs[j] = records[j]
      BY <1>7
    <2>3. /\ k \in DOMAIN recs \cup T
          /\ records'[k].parent = (IF k \in T THEN ParentOf(doc, k) ELSE Before(recs, k).parent)
          /\ records'[k].contents = (IF k \in T THEN doc.nodes[k].contents
                                     ELSE Before(recs, k).contents)
      <3>1. k \in DOMAIN Refreshed(recs, T)
        BY <2>1, <2>2
      <3>2. QED
        BY <2>2, <3>1, RefreshedLinks
    <2>4. CASE k \in T
      BY <1>1, <2>3, <2>4 DEF SameLinks
    <2>5. CASE k \notin T
      <3>1. k \in DOMAIN recs /\ k \in Cached
        BY <2>2, <2>3, <2>5
      <3>2. SameLinks(doc, records, k)
        BY <2>1, <3>1 DEF FollowInv
      <3>3. records'[k].parent = records[k].parent /\ records'[k].contents = records[k].contents
        BY <2>2, <2>3, <2>5, <3>1 DEF Before
      <3>4. QED
        BY <1>1, <3>2, <3>3 DEF SameLinks
    <2>6. QED
      BY <2>4, <2>5
  <1>11. Lasts(call') \/ Synced'
    <2>1. CASE todo' = {}
      BY <1>1, <1>3, <2>1 DEF Synced
    <2>2. CASE todo' # {}
      <3>1. Lasts(call)
        BY DEF FollowInv, Synced
      <3>2. QED
        BY <1>1, <2>2, <3>1
    <2>3. QED
      BY <2>1, <2>2
  <1>12. todo' # {} => doc'.changed = {} /\ known' = Len(doc'.nodes)
    BY <1>1, <1>3
  <1>13. QED
    BY <1>9, <1>10, <1>11, <1>12 DEF FollowInv

----------------------------------------------------------------------------
(* The other steps. *)

\* Records that follow the arena follow one that has grown, but for what is
\* noted and for the new nodes.
LEMMA GrownFollows ==
  ASSUME DomInv, Follow(doc, records, {}), NEW new, Sound(new), Grown(doc, new)
  PROVE  Follow(new, records, new.changed \cup (Ids(new) \ Ids(doc)))
PROOF
  <1> DEFINE P == new.changed \cup (Ids(new) \ Ids(doc))
  <1>1. DOMAIN records \subseteq Ids(doc) /\ None \notin Ids(doc)
    BY ArenaIs DEF DomInv, ArenaOK, GraphOK, Cached, Sound
  <1>2. \A n \in DOMAIN records : SameLinks(doc, records, n)
    BY DEF Follow, Fresh
  <1>3. Fresh(new, records, P)
    BY <1>1, <1>2 DEF Fresh, SameLinks, Grown
  <1>4. Complete(new, DOMAIN records, P)
    <2>1. \A n \in Ids(new) \ P : n \in Ids(doc) /\ ParentOf(new, n) = ParentOf(doc, n)
      BY DEF Grown
    <2>2. QED
      BY <2>1 DEF Complete, Follow
  <1>5. Contained(new, records)
    <2>1. \A n \in DOMAIN records : /\ new.nodes[n].contents = records[n].contents
                                    /\ records[n].contents \in DOMAIN records \cup {None}
      BY <1>1, <1>2 DEF Grown, SameLinks, Follow, Whole
    <2>2. QED
      BY <1>1, <2>1 DEF Contained
  <1>6. QED
    BY <1>3, <1>4, <1>5 DEF Follow

\* A template that gets its contents is noted.
LEMMA HostedFollows ==
  ASSUME DomInv, Follow(doc, records, {}), NEW new, NEW t \in Ids(doc), NEW g,
         Hosted(doc, new, t, g)
  PROVE  Follow(new, records, new.changed \cup (Ids(new) \ Ids(doc)))
PROOF
  <1> DEFINE P == new.changed \cup (Ids(new) \ Ids(doc))
  <1>1. /\ DOMAIN records \subseteq Ids(doc) /\ None \notin Ids(doc) /\ Sound(doc)
    BY ArenaIs DEF DomInv, ArenaOK, GraphOK, Cached, Sound
  <1>2. \A n \in DOMAIN records : SameLinks(doc, records, n)
    BY DEF Follow, Fresh
  <1>3. /\ Ids(new) = Ids(doc) \cup {g} /\ g \notin Ids(doc) /\ t \in P /\ g \in P
        /\ \A k \in Ids(doc) : /\ ParentOf(new, k) = ParentOf(doc, k)
                               /\ new.nodes[k].contents = IF k = t THEN g
                                                          ELSE doc.nodes[k].contents
        /\ ParentOf(new, g) = None /\ g # None
    <2>1. new \in Documents /\ new.nodes[g] = New("fragment")
      BY DEF Hosted
    <2>2. New("fragment").parent = None
      BY DEF New
    <2>3. g \in Ids(new) /\ None \notin Ids(new)
      BY <2>1, ArenaIs DEF Hosted
    <2>4. QED
      BY <2>1, <2>2, <2>3 DEF Hosted, ParentOf
  <1> HIDE DEF P
  <1>4. Fresh(new, records, P)
    BY <1>1, <1>2, <1>3 DEF Fresh, SameLinks
  <1>5. Complete(new, DOMAIN records, P)
    BY <1>3 DEF Complete, Follow
  <1>6. Contained(new, records)
    <2>1. \A n \in DOMAIN records \ {t} :
            /\ new.nodes[n].contents = records[n].contents
            /\ records[n].contents \in DOMAIN records \cup {None}
      BY <1>1, <1>2, <1>3 DEF SameLinks, Follow, Whole
    <2>2. t \in DOMAIN records =>
            new.nodes[t].contents = g /\ g \notin DOMAIN records
      BY <1>1, <1>3
    <2>3. \A m \in Ids(new) : ParentOf(new, m) # g
      BY <1>1, <1>3, LinksWithin
    <2>4. QED
      BY <1>1, <2>1, <2>2, <2>3 DEF Contained
  <1>7. QED
    BY <1>4, <1>5, <1>6 DEF Follow, P

\* A borrow of script, between calls or between two parts of a call.
LEMMA BorrowFollows ==
  ASSUME DomInv, FollowInv, Synced, NEW new, NEW next, NEW moved,
         BorrowNoting(new, next, moved), Sound(new), Ids(doc) \subseteq Ids(new),
         Follow(doc, records, {}) =>
           Follow(new, records, new.changed \cup (Ids(new) \ Ids(doc))),
         IsCall(next), Lasts(next) \/ new = doc
  PROVE  FollowInv'
PROOF
  <1>1. doc' = new /\ UNCHANGED <<records, known, todo, kept>>
    BY DEF BorrowNoting, graphVars
  <1>2. todo = {} /\ doc.changed = {} /\ known = Len(doc.nodes) /\ Pending = {}
    BY NonePending DEF Synced
  <1>3. Follow(doc, records, {})
    BY <1>2 DEF FollowInv
  <1>4. Pending' = new.changed \cup (Ids(new) \ Ids(doc))
    <2>1. /\ Ids(doc) = 1..Len(doc.nodes) /\ Ids(new) = 1..Len(new.nodes)
          /\ Len(doc.nodes) \in Nat /\ Len(new.nodes) \in Nat
      BY ArenaIs DEF DomInv, ArenaOK, Sound
    <2> DEFINE L == Len(doc.nodes)
               M == Len(new.nodes)
    <2>2. Ids(new) \ Ids(doc) = (1..M) \ (1..L) /\ L \in Nat /\ M \in Nat
      BY <2>1
    <2>3. Pending' = new.changed \cup (L + 1 .. M)
      BY <1>1, <1>2 DEF Pending
    <2> HIDE DEF L, M
    <2>4. (1..M) \ (1..L) = L + 1 .. M
      BY <2>2
    <2>5. QED
      BY <2>2, <2>3, <2>4
  <1>5. Follow(doc, records, Pending)'
    BY <1>1, <1>3, <1>4
  <1>6. Lasts(call') \/ Synced'
    <2>1. Continues(next, call')
      BY SheetsNoted DEF BorrowNoting
    <2>2. CASE Lasts(next)
      BY <2>1, <2>2 DEF Lasts, Continues
    <2>3. CASE new = doc
      BY <1>1, <1>2, <2>3 DEF Synced
    <2>4. QED
      BY <2>2, <2>3
  <1>7. QED
    BY <1>1, <1>2, <1>5, <1>6 DEF FollowInv

LEMMA BorrowedFollows ==
  ASSUME DomInv, FollowInv, Synced, Borrowed
  PROVE  FollowInv'
PROOF
  <1>1. PICK new, next, moved : BorrowNoting(new, next, moved) /\ Lawful(new, next)
    BY DEF Borrowed
  <1>2. Sound(new) /\ Grown(doc, new) /\ IsCall(next) /\ (Lasts(next) \/ new = doc)
    BY <1>1 DEF Lawful
  <1>3. Ids(doc) \subseteq Ids(new)
    BY <1>2 DEF Grown
  <1>4. Follow(doc, records, {}) => Follow(new, records, new.changed \cup (Ids(new) \ Ids(doc)))
    BY <1>2, GrownFollows
  <1>5. QED
    BY <1>1, <1>2, <1>3, <1>4, BorrowFollows

LEMMA AddContentsFollows ==
  ASSUME DomInv, FollowInv, AddContents
  PROVE  FollowInv'
PROOF
  <1> DEFINE t == call.node
             new == WithContents(doc, t)
             w == Wrapping({}, t)
  <1>1. /\ BorrowNoting(new, w, new.changed \cap Ids(doc)) /\ t \in Ids(doc)
        /\ Hosted(doc, new, t, Len(doc.nodes) + 1)
        /\ Sound(new) /\ Ids(doc) \subseteq Ids(new) /\ IsCall(w) /\ Lasts(w)
    BY AddContentsIs
  <1>2. Synced
    BY DEF AddContents
  <1> HIDE DEF t, new, w
  <1>3. Follow(doc, records, {}) => Follow(new, records, new.changed \cup (Ids(new) \ Ids(doc)))
    BY <1>1, HostedFollows
  <1>4. QED
    BY <1>1, <1>2, <1>3, BorrowFollows

\* A node is looked up, by script or for a call that comes to its end.
LEMMA LookedUpFollows ==
  ASSUME DomInv, FollowInv, Synced, NEW n \in Ids(doc), records' = Recorded(n),
         UNCHANGED <<doc, known, todo, kept>>
  PROVE  FollowInv'
PROOF
  <1>1. Pending = {} /\ Pending' = Pending
    BY NonePending, StillPending
  <1>2. Follow(doc, records', {})
    BY <1>1, RecordedFollows DEF FollowInv
  <1>3. Follow(doc, records, Pending)'
    BY <1>1, <1>2
  <1>4. Synced' /\ todo' = {}
    BY DEF Synced
  <1>5. QED
    BY <1>3, <1>4 DEF FollowInv

LEMMA CollectFollows ==
  ASSUME DomInv, FollowInv, Collect
  PROVE  FollowInv'
PROOF
  <1>1. records' = Survivors /\ UNCHANGED <<doc, known, todo, kept, call>> /\ todo = {}
    BY DEF Collect, DetachesRules
  <1>2. Follow(doc, Survivors, Pending)
    BY SurvivorsFollow DEF FollowInv
  <1>3. Follow(doc, records, Pending)'
    BY <1>1, <1>2, StillPending
  <1>4. QED
    BY <1>1, <1>3 DEF FollowInv, Synced, Lasts

LEMMA StartSyncFollows ==
  ASSUME DomInv, FollowInv, StartSync
  PROVE  FollowInv'
PROOF
  <1> DEFINE changed == doc.changed \cup (known + 1 .. Len(doc.nodes))
  <1>1. /\ todo = {} /\ ~Synced /\ todo' = changed /\ kept' = changed \cap Cached
        /\ known' = Len(doc.nodes) /\ doc' = [doc EXCEPT !.changed = {}]
        /\ UNCHANGED records
    BY DEF StartSync, SyncRoots
  <1>2. doc \in Documents /\ Len(doc.nodes) \in Nat
    BY ArenaIs DEF DomInv, ArenaOK, Sound
  <1>3. doc'.nodes = doc.nodes /\ doc'.changed = {}
    BY <1>1, <1>2 DEF Documents
  <1>4. Pending' = Pending
    <2>1. Len(doc.nodes) + 1 .. Len(doc.nodes) = {}
      <3> DEFINE L == Len(doc.nodes)
      <3> HIDE DEF L
      <3>1. L \in Nat => L + 1 .. L = {}
        OBVIOUS
      <3>2. QED
        BY <1>2, <3>1 DEF L
    <2>2. Pending' = changed
      BY <1>1, <1>3, <2>1 DEF Pending
    <2>3. QED
      BY <1>1, <2>2 DEF Pending
  <1>5. Follow(doc', records, Pending)
    BY <1>3 DEF FollowInv, Follow, Fresh, SameLinks, Complete, Contained, Ids, ParentOf
  <1>6. Follow(doc, records, Pending)'
    BY <1>1, <1>4, <1>5
  <1>7. Lasts(call')
    <2>1. Lasts(call)
      BY <1>1 DEF FollowInv
    <2>2. Continues(call, call')
      BY StartSyncCalls
    <2>3. QED
      BY <2>1, <2>2 DEF Lasts, Continues
  <1>8. \A n \in (todo' \cap Cached') \ kept' : SameLinks(doc', records', n)
    BY <1>1 DEF Cached
  <1>9. QED
    BY <1>1, <1>3, <1>6, <1>7, <1>8 DEF FollowInv

LEMMA FollowInit ==
  ASSUME Init
  PROVE  FollowInv
PROOF
  <1>1. DomInv
    BY DomInit
  <1>2. /\ known = 3 /\ todo = {} /\ call = NoCall /\ doc.changed = {} /\ Len(doc.nodes) = 3
    <2> DEFINE x == [New("document") EXCEPT !.children = <<2>>]
               y == [New("element") EXCEPT !.parent = Root, !.children = <<3>>]
               z == [New("element") EXCEPT !.parent = 2]
    <2>1. /\ doc = [nodes |-> <<x, y, z>>, changed |-> {}]
          /\ known = 3 /\ todo = {} /\ call = NoCall
      BY Zenon DEF Init
    <2> HIDE DEF x, y, z
    <2>2. QED
      BY <2>1
  <1>3. Synced /\ Pending = {}
    BY <1>1, <1>2, NonePending DEF Synced
  <1>4. /\ DOMAIN records = 1..3 /\ Ids(doc) = 1..3
        /\ \A n \in 1..3 : records[n] = [parent   |-> ParentOf(doc, n),
                                         children |-> ToSet(Kids(doc, n)),
                                         contents |-> None]
    <2>1. records = [n \in 1..3 |-> [parent   |-> ParentOf(doc, n),
                                     children |-> ToSet(Kids(doc, n)),
                                     contents |-> None]]
      BY Zenon DEF Init, ParentOf, Kids
    <2>2. Ids(doc) = 1..3
      BY <1>1, <1>2, ArenaIs DEF DomInv, ArenaOK, Sound
    <2>3. QED
      BY <2>1, <2>2
  <1>5. \A n \in 1..3 : doc.nodes[n].contents = None
    <2> DEFINE none == <<>>
               x == [New("document") EXCEPT !.children = <<2>>]
               y == [New("element") EXCEPT !.parent = Root, !.children = <<3>>]
               z == [New("element") EXCEPT !.parent = 2]
    <2>1. doc = [nodes |-> <<x, y, z>>, changed |-> {}]
      BY Zenon DEF Init
    <2>2. \A kind : New(kind) = [kind |-> kind, parent |-> None, children |-> none,
                                contents |-> None]
      BY DEF New
    <2> HIDE DEF none
    <2>3. x.contents = None /\ y.contents = None /\ z.contents = None
      BY <2>2
    <2> HIDE DEF x, y, z
    <2>4. doc.nodes[1] = x /\ doc.nodes[2] = y /\ doc.nodes[3] = z
      BY <2>1
    <2>5. 1..3 = {1, 2, 3}
      OBVIOUS
    <2>6. QED
      BY <2>3, <2>4, <2>5
  <1>6. Sound(doc) /\ None \notin Ids(doc)
    BY <1>1, ArenaIs DEF DomInv, ArenaOK, Sound
  <1>7. \A n \in 1..3 : SameLinks(doc, records, n) /\ IsRecord(records[n])
    BY <1>4, <1>5 DEF SameLinks, IsRecord
  <1>8. \A n \in 1..3 : records[n].children = {m \in 1..3 : ParentOf(doc, m) = n}
    BY <1>4, <1>6 DEF Sound, ListsChildren
  <1>9. ListsOwn(records)
    BY <1>4, <1>7, <1>8 DEF ListsOwn, SameLinks
  <1>10. Whole(records)
    BY <1>4, <1>5, <1>6, <1>7, LinksWithin DEF Whole, SameLinks
  <1>11. /\ Fresh(doc, records, {}) /\ Complete(doc, DOMAIN records, {})
         /\ Contained(doc, records)
    BY <1>4, <1>5, <1>6, <1>7 DEF Fresh, Complete, Contained
  <1>12. Follow(doc, records, Pending)
    BY <1>3, <1>4, <1>7, <1>9, <1>10, <1>11 DEF Follow
  <1>13. QED
    BY <1>2, <1>3, <1>12 DEF FollowInv

LEMMA FollowStep ==
  ASSUME DomInv, FollowInv, [Next]_vars
  PROVE  FollowInv'
PROOF
  <1>1. CASE Script
    <2>1. Synced
      BY <1>1, NoCallIs DEF Script, Idle, FollowInv, Lasts
    <2>2. ASSUME NEW n \in Ids(doc), Hold(n)
          PROVE  FollowInv'
      BY <2>1, <2>2, LookedUpFollows DEF Hold
    <2>3. ASSUME NEW n \in held, Drop(n)
          PROVE  FollowInv'
      <3>1. UNCHANGED <<doc, records, known, todo, kept, call>>
        BY <2>3 DEF Drop, graphVars
      <3>2. QED
        BY <3>1, StillPending DEF FollowInv, Lasts, Synced, Cached
    <2>4. QED
      BY <1>1, <2>1, <2>2, <2>3, ScriptIs, BorrowedFollows
  <1>2. CASE AddContents
    BY <1>2, AddContentsFollows
  <1>3. CASE Wrap
    <2>1. /\ Synced /\ records' = Recorded(call.node) /\ call.then = "wrap"
          /\ UNCHANGED <<doc, known, todo, kept>>
      BY <1>3 DEF Wrap
    <2>2. call.node \in Ids(doc)
      BY <2>1 DEF DomInv, CallOK, Names
    <2>3. QED
      BY <2>1, <2>2, LookedUpFollows
  <1>4. CASE PlaceNode
    BY <1>4, PlaceNodeBorrows, BorrowedFollows DEF PlaceNode
  <1>5. CASE Synchronize
    <2>1. ASSUME NothingToSync
          PROVE  FollowInv'
      <3>1. Synced /\ UNCHANGED <<doc, records, known, todo, kept>>
        BY <2>1 DEF NothingToSync, graphVars
      <3>2. QED
        BY <3>1, StillPending DEF FollowInv, Synced, Cached
    <2>2. QED
      BY <1>5, <2>1, StartSyncFollows, SyncNodeFollows DEF Synchronize
  <1>6. CASE Collect
    BY <1>6, CollectFollows
  <1>7. CASE UNCHANGED vars
    BY <1>7, StillPending DEF vars, FollowInv, Lasts, Synced, Cached
  <1>8. QED
    BY <1>1, <1>2, <1>3, <1>4, <1>5, <1>6, <1>7 DEF Next

\* Whatever the arena has been through, every record follows it but those of
\* the nodes that are noted, new, or yet to be looked at.
THEOREM FollowAlways == Spec => []FollowInv
PROOF
  <1>1. Init => FollowInv
    BY FollowInit
  <1>2. DomInv /\ FollowInv /\ [Next]_vars => FollowInv'
    BY FollowStep
  <1>3. QED
    BY <1>1, <1>2, DomAlways, PTL DEF Spec

\* Between native borrows every live record owns exactly what the arena says.
THEOREM RecordsAlwaysFollowTree == Spec => []RecordsFollowTree
PROOF
  <1>1. ASSUME DomInv, FollowInv, Synced, NEW n \in Cached
        PROVE  /\ records[n] = [parent   |-> ParentOf(doc, n),
                                children |-> ToSet(Kids(doc, n)),
                                contents |-> doc.nodes[n].contents]
               /\ records[n].children \cup ({records[n].parent, records[n].contents}
                                              \ {None}) \subseteq Cached
    <2>1. Follow(doc, records, {})
      BY <1>1, NonePending DEF FollowInv
    <2>2. Sound(doc) /\ DOMAIN records = Cached /\ Cached \subseteq Ids(doc)
      BY <1>1 DEF DomInv, ArenaOK, GraphOK, Cached
    <2>3. \A m \in Cached : records[m].parent = ParentOf(doc, m)
      BY <2>1, <2>2 DEF Follow, Fresh, SameLinks
    <2>4. records[n].contents = doc.nodes[n].contents /\ IsRecord(records[n])
      BY <1>1, <2>1, <2>2 DEF Follow, Fresh, SameLinks
    <2>5. records[n].children = {m \in Cached : records[m].parent = n}
      BY <1>1, <2>1, <2>2 DEF Follow, ListsOwn
    <2>6. \A m \in Ids(doc) : ParentOf(doc, m) = n => m \in Cached
      BY <1>1, <2>1, <2>2 DEF Follow, Complete
    <2>7. ToSet(Kids(doc, n)) = {m \in Ids(doc) : ParentOf(doc, m) = n}
      BY <1>1, <2>2 DEF Sound, ListsChildren
    <2>8. records[n].children = ToSet(Kids(doc, n))
      BY <2>2, <2>3, <2>5, <2>6, <2>7
    <2>9. records[n].children \subseteq Cached
      BY <2>5
    <2>10. {records[n].parent, records[n].contents} \ {None} \subseteq Cached
      BY <1>1, <2>1, <2>2 DEF Follow, Whole
    <2>11. QED
      BY <1>1, <2>3, <2>4, <2>8, <2>9, <2>10 DEF IsRecord
  <1>2. DomInv /\ FollowInv => RecordsFollowTree
    BY <1>1 DEF RecordsFollowTree
  <1>3. QED
    BY <1>2, DomAlways, FollowAlways, PTL

----------------------------------------------------------------------------
(* What records keep alive. *)

\* The live records that are reached from those of `from', and Traced.
Alive(recs, from) ==
  {x \in DOMAIN recs : \A S \in SUBSET DOMAIN recs :
     from \cap DOMAIN recs \subseteq S /\ Closed(Holds(recs), S) => x \in S}

LEMMA AliveIs ==
  ASSUME NEW recs, NEW from
  PROVE  LET A == Alive(recs, from)
         IN  /\ A \subseteq DOMAIN recs /\ from \cap DOMAIN recs \subseteq A
             /\ \A n \in A : EdgesOf(recs, n) \cap DOMAIN recs \subseteq A
             /\ \A S : from \cap DOMAIN recs \subseteq S
                       /\ (\A n \in S \cap DOMAIN recs :
                             EdgesOf(recs, n) \cap DOMAIN recs \subseteq S)
                         => A \subseteq S
PROOF
  <1> DEFINE A == Alive(recs, from)
             U == DOMAIN recs
             start == from \cap U
  <1>1. \A S \in SUBSET U : Closed(Holds(recs), S)
                              <=> \A n \in S : EdgesOf(recs, n) \cap U \subseteq S
    BY DEF Closed, Holds
  <1>2. A \subseteq U /\ start \subseteq A
    BY DEF Alive
  <1>3. ASSUME NEW n \in A, NEW m \in EdgesOf(recs, n) \cap U
        PROVE  m \in A
    <2>1. SUFFICES ASSUME NEW S \in SUBSET U, start \subseteq S, Closed(Holds(recs), S)
                   PROVE  m \in S
      BY <1>3 DEF Alive
    <2>2. n \in S
      BY <1>3, <2>1 DEF Alive
    <2>3. QED
      BY <1>1, <1>3, <2>1, <2>2
  <1>4. ASSUME NEW S, start \subseteq S,
               \A n \in S \cap U : EdgesOf(recs, n) \cap U \subseteq S
        PROVE  A \subseteq S
    <2> DEFINE V == S \cap U
    <2>1. V \in SUBSET U /\ start \subseteq V
      BY <1>4
    <2>2. \A n \in V : EdgesOf(recs, n) \cap U \subseteq V
      BY <1>4
    <2>3. Closed(Holds(recs), V)
      BY <1>1, <2>1, <2>2
    <2> HIDE DEF V
    <2>4. A \subseteq V
      BY <2>1, <2>3 DEF Alive
    <2>5. QED
      BY <2>4 DEF V
  <1>5. QED
    BY <1>2, <1>3, <1>4

LEMMA TracedAlive ==
  ASSUME DomInv
  PROVE  Traced = Alive(records, Roots \cup kept)
PROOF
  <1> DEFINE A == Alive(records, Roots \cup kept)
  <1>1. IsClosure(Cached, Holds(records), (Roots \cup kept) \cap Cached, Traced)
    <2>1. Cached \subseteq Ids(doc) /\ Len(doc.nodes) <= MaxNodes
      BY DEF DomInv, GraphOK, ArenaOK
    <2>2. IsFiniteSet(Ids(doc)) /\ Cardinality(Ids(doc)) = Len(doc.nodes)
      BY ArenaIs DEF DomInv, ArenaOK, Sound
    <2>3. /\ IsFiniteSet(Cached) /\ Cardinality(Cached) \in Nat
          /\ Cardinality(Cached) <= Cardinality(Ids(doc)) /\ Cardinality(Ids(doc)) \in Nat
      BY <2>1, <2>2, FS_Subset, FS_CardinalityType
    <2> DEFINE x == Cardinality(Cached)
               y == Len(doc.nodes)
    <2>4. x \in Nat /\ y \in Nat /\ x <= y /\ y <= MaxNodes
      BY <2>1, <2>2, <2>3
    <2> HIDE DEF x, y
    <2>5. x <= MaxNodes
      BY <2>4, MaxNodesAssumption
    <2>6. QED
      BY <2>3, <2>5, TracedIsClosure DEF x
  <1>2. /\ Traced \subseteq Cached /\ (Roots \cup kept) \cap Cached \subseteq Traced
        /\ \A n \in Traced : EdgesOf(records, n) \cap Cached \subseteq Traced
    BY <1>1 DEF IsClosure, Closed, Holds, Cached
  <1>3. A \subseteq Traced
    BY <1>2, AliveIs DEF Cached
  <1>4. A \subseteq Cached /\ (Roots \cup kept) \cap Cached \subseteq A
        /\ \A n \in A : EdgesOf(records, n) \cap Cached \subseteq A
    BY AliveIs DEF Cached
  <1>5. Closed(Holds(records), A)
    BY <1>4 DEF Closed, Holds, Cached
  <1> HIDE DEF A
  <1>6. Traced \subseteq A
    BY <1>1, <1>4, <1>5 DEF IsClosure
  <1>7. QED
    BY <1>3, <1>6 DEF A

\* The collector changes nothing about what is alive.
LEMMA AliveAgain ==
  ASSUME NEW recs, NEW from, NEW left, left = [n \in Alive(recs, from) |-> recs[n]]
  PROVE  Alive(left, from) = Alive(recs, from)
PROOF
  <1> DEFINE A == Alive(recs, from)
             B == Alive(left, from)
  <1>1. /\ A \subseteq DOMAIN recs /\ from \cap DOMAIN recs \subseteq A
        /\ \A n \in A : EdgesOf(recs, n) \cap DOMAIN recs \subseteq A
    BY AliveIs
  <1>2. DOMAIN left = A /\ \A n \in A : EdgesOf(left, n) = EdgesOf(recs, n)
    BY DEF EdgesOf
  <1>3. /\ B \subseteq A /\ from \cap A \subseteq B
        /\ \A n \in B : EdgesOf(left, n) \cap A \subseteq B
    BY <1>2, AliveIs
  <1> HIDE DEF A, B
  <1>4. from \cap DOMAIN recs \subseteq B
    BY <1>1, <1>3
  <1>5. \A n \in B \cap DOMAIN recs : EdgesOf(recs, n) \cap DOMAIN recs \subseteq B
    BY <1>1, <1>2, <1>3
  <1>6. A \subseteq B
    BY <1>4, <1>5, AliveIs DEF A
  <1>7. QED
    BY <1>3, <1>6 DEF A, B

----------------------------------------------------------------------------
(* What script can reach. *)

\* A set around the roots that links do not leave holds what can be reached.
LEMMA Sheltered ==
  ASSUME DomInv, NEW W \in SUBSET Ids(doc), Roots \subseteq W,
         \A m \in W : Near(doc, m) \subseteq W
  PROVE  Reachable \subseteq W
PROOF
  <1>1. Sound(doc) /\ Len(doc.nodes) <= MaxNodes /\ Roots \in SUBSET Ids(doc)
    BY ReachableIs DEF DomInv, ArenaOK
  <1>2. IsClosure(Ids(doc), Neighbours(doc), Roots, Reachable)
    BY <1>1, ReachIsClosure DEF Reachable
  <1>3. Closed(Neighbours(doc), W)
    BY DEF Closed, Neighbours
  <1>4. QED
    BY <1>2, <1>3 DEF IsClosure

\* From a traced node, when those whose records may be behind are traced too.
LEMMA TracedNear ==
  ASSUME DomInv, FollowInv, Pending \cap Cached \subseteq Traced, NEW m \in Traced
  PROVE  /\ \A k \in ToSet(Kids(doc, m)) : IF k \in Cached THEN k \in Traced ELSE k \in Pending
         /\ m \notin Pending => Links(doc, m) \subseteq Traced \cup {None}
         /\ doc.nodes[m].contents \in Cached => doc.nodes[m].contents \in Traced
PROOF
  <1>1. /\ Traced \subseteq Cached /\ Cached \subseteq Ids(doc) /\ DOMAIN records = Cached
        /\ \A n \in Traced : EdgesOf(records, n) \cap Cached \subseteq Traced
    BY TracedIs DEF DomInv, GraphOK, Cached
  <1>2. /\ ListsOwn(records) /\ Whole(records) /\ Fresh(doc, records, Pending)
        /\ Complete(doc, Cached, Pending) /\ Contained(doc, records)
    BY DEF FollowInv, Follow, Cached
  <1>3. ToSet(Kids(doc, m)) = {k \in Ids(doc) : ParentOf(doc, k) = m}
    BY <1>1 DEF DomInv, ArenaOK, Sound, ListsChildren
  <1>4. ASSUME NEW k \in ToSet(Kids(doc, m)), k \in Cached
        PROVE  k \in Traced
    <2>1. CASE k \in Pending
      BY <1>4, <2>1
    <2>2. CASE k \notin Pending
      <3>1. records[k].parent = m
        BY <1>1, <1>2, <1>3, <1>4, <2>2 DEF Fresh, SameLinks
      <3>2. k \in records[m].children
        BY <1>1, <1>2, <1>4, <3>1 DEF ListsOwn
      <3>3. QED
        BY <1>1, <1>4, <3>2 DEF EdgesOf
    <2>3. QED
      BY <2>1, <2>2
  <1>5. ASSUME NEW k \in ToSet(Kids(doc, m)), k \notin Cached
        PROVE  k \in Pending
    BY <1>1, <1>2, <1>3, <1>5 DEF Complete
  <1>6. ASSUME m \notin Pending
        PROVE  Links(doc, m) \subseteq Traced \cup {None}
    <2>1. records[m].parent = ParentOf(doc, m) /\ records[m].contents = doc.nodes[m].contents
      BY <1>1, <1>2, <1>6 DEF Fresh, SameLinks
    <2>2. Links(doc, m) \subseteq Cached \cup {None}
      BY <1>1, <1>2, <2>1 DEF Whole, Links
    <2>3. Links(doc, m) \subseteq EdgesOf(records, m)
      BY <2>1 DEF Links, EdgesOf
    <2>4. QED
      BY <1>1, <2>2, <2>3
  <1>7. ASSUME doc.nodes[m].contents \in Cached
        PROVE  doc.nodes[m].contents \in Traced
    <2>1. records[m].contents = doc.nodes[m].contents
      BY <1>1, <1>2, <1>7 DEF Contained
    <2>2. QED
      BY <1>1, <1>7, <2>1 DEF EdgesOf
  <1>8. QED
    BY <1>4, <1>5, <1>6, <1>7

----------------------------------------------------------------------------
(* The invariant: what a native borrow has done to the arena, as long as the
   records are behind. *)

\* What surely stays alive until the records have caught up.
Sure == IF todo = {} THEN Alive(records, Roots \cup kept) ELSE Cached

\* No changed node loses its record before it is looked at.
Anchored ==
  Pending \cap Cached \subseteq (IF todo = {} THEN Alive(records, Roots \cup kept) ELSE kept)

\* Nothing needs a new record.
Quiet(n) == IF n \in Cached THEN Links(doc, n) \subseteq Sure \cup {None}
            ELSE ParentOf(doc, n) \notin Cached
Calm == \A n \in Pending : Quiet(n)

\* One new node t was put in, empty, or took in what has changed.
Alone(n)   == Links(doc, n) = {None}
Growing(t) ==
  /\ t \notin Cached /\ doc.nodes[t].contents \notin Cached
  /\ \A n \in Pending \cap Cached : /\ ParentOf(doc, n) \in {None, t}
                                    /\ doc.nodes[n].contents \in Sure \cup {None}
  /\ \A n \in Pending \ Cached : n \in {t} \cup Owned(doc, t) \/ Alone(n)
  /\ \A n \in Owned(doc, t) \ Cached : Owned(doc, n) = {}
  /\ ParentOf(doc, t) = None \/ (ParentOf(doc, t) \in Sure /\ Kids(doc, t) = <<>>)

\* A node that a call has made, and has still to put somewhere.
Lone(n) ==
  /\ n \notin Cached /\ Pending \subseteq {n} /\ ParentOf(doc, n) = None /\ Owned(doc, n) = {}

Behind == \/ Calm /\ (todo = {} => Anchored)
          \/ \E t \in Ids(doc) : Growing(t) /\ Anchored

KeepInv ==
  /\ Roots \subseteq Cached
  /\ ~call.gathered => Behind
  /\ call.then = "contents" \/ (call.then = "place" /\ ~call.gathered) => Lone(call.node)
  /\ call.then = "place" /\ ~call.gathered =>
       call.this \in call.args /\ call.parent \in {call.this, ParentOf(doc, call.this)}

\* Where the records are behind, they still keep what script can reach.
LEMMA CalmCovers ==
  ASSUME DomInv, FollowInv, Roots \subseteq Cached, todo = {}, Calm, Anchored
  PROVE  Reachable \cap Cached \subseteq Traced
PROOF
  <1>1. Traced = Alive(records, Roots \cup kept) /\ Sure = Traced
    BY TracedAlive DEF Sure
  <1>2. /\ Traced \subseteq Cached /\ Cached \subseteq Ids(doc) /\ Roots \subseteq Traced
        /\ Pending \cap Cached \subseteq Traced
    BY <1>1, TracedIs DEF DomInv, GraphOK, Anchored
  <1>3. ASSUME NEW m \in Traced
        PROVE  Near(doc, m) \subseteq Traced
    <2>1. Links(doc, m) \subseteq Traced \cup {None}
      <3>1. CASE m \in Pending
        BY <1>1, <1>2, <1>3, <3>1 DEF Calm, Quiet
      <3>2. CASE m \notin Pending
        BY <1>2, <1>3, <3>2, TracedNear
      <3>3. QED
        BY <3>1, <3>2
    <2>2. ASSUME NEW k \in ToSet(Kids(doc, m))
          PROVE  k \in Traced
      <3>1. IF k \in Cached THEN k \in Traced ELSE k \in Pending
        BY <1>2, <1>3, <2>2, TracedNear
      <3>2. ParentOf(doc, k) = m /\ m \in Cached
        BY <1>2, <1>3, <2>2 DEF DomInv, ArenaOK, Sound, ListsChildren
      <3>3. QED
        BY <3>1, <3>2 DEF Calm, Quiet
    <2>3. QED
      BY <2>1, <2>2 DEF Near, Links, ParentOf
  <1>4. Reachable \subseteq Traced
    BY <1>2, <1>3, Sheltered
  <1>5. QED
    BY <1>4

LEMMA GrowingCovers ==
  ASSUME DomInv, FollowInv, Roots \subseteq Cached, NEW t \in Ids(doc), Growing(t), Anchored
  PROVE  Reachable \cap Cached \subseteq Traced
PROOF
  <1>1. Traced = Alive(records, Roots \cup kept) /\ Sure \subseteq Cached
    BY TracedAlive, TracedIs DEF Sure
  <1>2. /\ Traced \subseteq Cached /\ Cached \subseteq Ids(doc) /\ Roots \subseteq Traced
        /\ Pending \cap Cached \subseteq Traced
    BY <1>1, TracedIs DEF DomInv, GraphOK, Anchored
  <1>3. Sound(doc) /\ None \notin Ids(doc) /\ DOMAIN records = Cached
    BY ArenaIs DEF DomInv, ArenaOK, Sound, Cached
  <1> DEFINE N == {t} \cup (Owned(doc, t) \ Cached)
             W == Traced \cup (IF ParentOf(doc, t) \in Traced \cup {None} THEN N ELSE {})
  <1>4. \A n \in Ids(doc) : ToSet(Kids(doc, n)) = {k \in Ids(doc) : ParentOf(doc, k) = n}
    BY <1>3 DEF Sound, ListsChildren
  <1>5. doc.nodes[t].contents # None =>
          /\ doc.nodes[t].contents \in Ids(doc) /\ ParentOf(doc, doc.nodes[t].contents) = None
    BY <1>3 DEF Sound, Hosts, Placed, IsFragment, IsChild
  <1>6. N \subseteq Ids(doc)
    BY <1>4, <1>5 DEF Owned
  <1>7. ParentOf(doc, t) \in Traced => Kids(doc, t) = <<>>
    BY <1>2, <1>3 DEF Growing
  <1>8. \A k \in Ids(doc) : ParentOf(doc, k) = t => Kids(doc, t) # <<>>
    <2>1. Kids(doc, t) = <<>> => ToSet(Kids(doc, t)) = {}
      BY DEF ToSet
    <2>2. QED
      BY <1>4, <2>1
  <1>9. ASSUME NEW m \in Traced
        PROVE  Near(doc, m) \subseteq W
    <2>1. ParentOf(doc, m) \in W \cup {None}
      <3>1. CASE m \notin Pending
        BY <1>2, <1>9, <3>1, TracedNear DEF Links
      <3>2. CASE m \in Pending
        <4>1. ParentOf(doc, m) \in {None, t}
          BY <1>2, <1>9, <3>2 DEF Growing
        <4>2. ParentOf(doc, m) = t => ParentOf(doc, t) = None
          BY <1>2, <1>8, <1>9 DEF Growing
        <4>3. QED
          BY <4>1, <4>2
      <3>3. QED
        BY <3>1, <3>2
    <2>2. doc.nodes[m].contents \in W \cup {None}
      <3>1. CASE m \notin Pending
        BY <1>2, <1>9, <3>1, TracedNear DEF Links
      <3>2. CASE m \in Pending
        <4>1. doc.nodes[m].contents \in Cached \cup {None}
          BY <1>1, <1>2, <1>9, <3>2 DEF Growing
        <4>2. QED
          BY <1>2, <1>9, <4>1, TracedNear
      <3>3. QED
        BY <3>1, <3>2
    <2>3. ASSUME NEW k \in ToSet(Kids(doc, m))
          PROVE  k \in W
      <3>1. IF k \in Cached THEN k \in Traced ELSE k \in Pending
        BY <1>2, <1>9, <2>3, TracedNear
      <3>2. ParentOf(doc, k) = m /\ m \in Cached /\ k \in Ids(doc) /\ m # None
        BY <1>2, <1>3, <1>4, <1>9, <2>3
      <3>3. k \notin Cached => k = t
        <4>1. ~Alone(k)
          BY <3>2 DEF Alone, Links
        <4>2. k \notin ToSet(Kids(doc, t))
          BY <1>4, <3>2 DEF Growing
        <4>3. k # doc.nodes[t].contents
          BY <1>3, <1>5, <3>2
        <4>4. QED
          BY <3>1, <4>1, <4>2, <4>3 DEF Growing, Owned
      <3>4. QED
        BY <1>9, <3>1, <3>2, <3>3
    <2>4. QED
      BY <2>1, <2>2, <2>3 DEF Near, ParentOf
  <1>10. ASSUME ParentOf(doc, t) \in Traced \cup {None}
         PROVE  Near(doc, t) \subseteq W
    <2>1. ASSUME NEW k \in ToSet(Kids(doc, t)), k \in Cached
          PROVE  k \in Traced
      <3>1. k \in Ids(doc) /\ ParentOf(doc, k) = t
        BY <1>4, <2>1
      <3>2. k \in Pending
        <4>1. SUFFICES ASSUME k \notin Pending
                       PROVE  FALSE
          OBVIOUS
        <4>2. records[k].parent = t
          BY <1>3, <2>1, <3>1, <4>1 DEF FollowInv, Follow, Fresh, SameLinks
        <4>3. t \in Cached
          BY <1>3, <2>1, <4>2 DEF FollowInv, Follow, Whole
        <4>4. QED
          BY <4>3 DEF Growing
      <3>3. QED
        BY <1>2, <2>1, <3>2
    <2>2. ToSet(Kids(doc, t)) \subseteq W
      BY <1>10, <2>1 DEF Owned
    <2>3. doc.nodes[t].contents \in W \cup {None}
      BY <1>10 DEF Growing, Owned
    <2>4. QED
      BY <1>10, <2>2, <2>3 DEF Near, ParentOf
  <1>11. ASSUME ParentOf(doc, t) \in Traced \cup {None}, NEW m \in Owned(doc, t) \ Cached
         PROVE  Near(doc, m) \subseteq W
    <2>1. Owned(doc, m) = {}
      BY <1>11 DEF Growing
    <2>2. ParentOf(doc, m) \in {t, None}
      BY <1>4, <1>5, <1>11 DEF Owned
    <2>3. QED
      BY <1>11, <2>1, <2>2 DEF Near, Owned, ParentOf
  <1>12. W \in SUBSET Ids(doc)
    BY <1>2, <1>6
  <1>13. \A m \in W : Near(doc, m) \subseteq W
    BY <1>9, <1>10, <1>11
  <1>14. Roots \subseteq W
    BY <1>2
  <1>15. W \cap Cached \subseteq Traced
    BY DEF Growing
  <1> HIDE DEF W
  <1>16. QED
    BY <1>12, <1>13, <1>14, <1>15, Sheltered

----------------------------------------------------------------------------
(* A round of synchronize. *)

\* The owner of what is owned.
LEMMA OwnedLinks ==
  ASSUME NEW d, Sound(d), NEW t \in Ids(d), NEW k \in Owned(d, t)
  PROVE  /\ k \in Ids(d) /\ t # None
         /\ \/ ParentOf(d, k) = t /\ k \in ToSet(Kids(d, t))
            \/ ParentOf(d, k) = None /\ k = d.nodes[t].contents
PROOF
  <1>1. k \in Ids(d) /\ None \notin Ids(d)
    BY SoundLinks, ArenaIs DEF Linking, Sound
  <1>2. k \in ToSet(Kids(d, t)) => ParentOf(d, k) = t
    BY DEF Sound, ListsChildren
  <1>3. k = d.nodes[t].contents /\ k # None => ParentOf(d, k) = None
    BY DEF Sound, Hosts, Placed, IsFragment, IsChild
  <1>4. QED
    BY <1>1, <1>2, <1>3 DEF Owned

\* A quiet node needs no record.
LEMMA TouchedQuiet ==
  ASSUME DomInv, NEW n \in Ids(doc),
         IF n \in Cached THEN Links(doc, n) \subseteq Cached \cup {None}
         ELSE ParentOf(doc, n) \notin Cached
  PROVE  Touched(records, n) \subseteq Cached
PROOF
  <1>1. Sound(doc)
    BY DEF DomInv, ArenaOK
  <1> DEFINE T == Touched(records, n)
  <1>2. PICK X \in SUBSET Ids(doc) :
               /\ T = Kept(n) \cup (UNION {Below(doc, t) : t \in X})
               /\ \A t \in X : Halts(records, t)
               /\ n \in Cached => /\ Links(doc, n) \subseteq Cached \cup T \cup {None}
                                  /\ \A t \in X : \E m \in Links(doc, n) \ (Cached \cup {None}) :
                                                     m \in Below(doc, t)
               /\ n \notin Cached => /\ \A t \in X : t = n /\ ParentOf(doc, n) \in Cached
                                     /\ ParentOf(doc, n) \in Cached => n \in T
    BY <1>1, TouchedIs
  <1>3. X = {}
    BY <1>2
  <1>4. T = Kept(n)
    BY <1>2, <1>3
  <1>5. QED
    BY <1>4 DEF Kept

\* The first round that needs a record gives one to all that need one.
LEMMA GrowingGrows ==
  ASSUME DomInv, FollowInv, todo # {}, NEW t \in Ids(doc), Growing(t), Anchored,
         NEW n \in todo, ~(Touched(records, n) \subseteq Cached),
         NEW D, None \notin D, Traced \cup Touched(records, n) \subseteq D,
         NEW k \in todo \ {n}
  PROVE  IF k \in D THEN Links(doc, k) \subseteq D \cup {None} ELSE ParentOf(doc, k) \notin D
PROOF
  <1>1. /\ Sound(doc) /\ n \in Ids(doc) /\ k \in Ids(doc)
        /\ Traced \subseteq Cached /\ kept \subseteq Traced
    BY TracedIs DEF DomInv, ArenaOK, GraphOK
  <1>2. /\ Pending = todo /\ Sure = Cached /\ Pending \cap Cached \subseteq Traced
        /\ \A j \in Pending \cap Cached : j \in D
    BY <1>1, TodoPending DEF Sure, Anchored
  <1> DEFINE T == Touched(records, n)
  <1>3. PICK X \in SUBSET Ids(doc) :
               /\ T = Kept(n) \cup (UNION {Below(doc, x) : x \in X})
               /\ \A x \in X : Halts(records, x)
               /\ n \in Cached => /\ Links(doc, n) \subseteq Cached \cup T \cup {None}
                                  /\ \A x \in X : \E m \in Links(doc, n) \ (Cached \cup {None}) :
                                                     m \in Below(doc, x)
               /\ n \notin Cached => /\ \A x \in X : x = n /\ ParentOf(doc, n) \in Cached
                                     /\ ParentOf(doc, n) \in Cached => n \in T
    BY <1>1, TouchedIs
  <1>4. PICK x \in X : TRUE
    BY <1>3 DEF Kept
  <1>5. t \in Below(doc, x) /\ (n = t \/ ParentOf(doc, n) = t)
    <2>1. CASE n \in Cached
      <3>1. PICK m \in Links(doc, n) \ (Cached \cup {None}) : m \in Below(doc, x)
        BY <1>3, <1>4, <2>1
      <3>2. doc.nodes[n].contents \in Cached \cup {None} /\ ParentOf(doc, n) \in {None, t}
        BY <1>2, <2>1 DEF Growing
      <3>3. QED
        BY <3>1, <3>2 DEF Links
    <2>2. CASE n \notin Cached
      <3>1. x = n /\ ParentOf(doc, n) \in Cached
        BY <1>3, <1>4, <2>2
      <3>2. ParentOf(doc, n) # None
        BY <3>1, ArenaIs DEF DomInv, GraphOK, Sound, ArenaOK
      <3>3. n = t
        <4>1. ~Alone(n)
          BY <3>2 DEF Alone, Links
        <4>2. n \notin Owned(doc, t)
          BY <1>1, <3>1, <3>2, OwnedLinks DEF Growing
        <4>3. QED
          BY <1>2, <2>2, <4>1, <4>2 DEF Growing
      <3>4. n \in Below(doc, n)
        BY <1>1, BelowIs, SoundLinks
      <3>5. QED
        BY <3>1, <3>3, <3>4
    <2>3. QED
      BY <2>1, <2>2
  <1>6. t \in D /\ Owned(doc, t) \subseteq D
    <2>1. Below(doc, x) \subseteq T
      BY <1>3, <1>4
    <2>2. Owned(doc, t) \subseteq Below(doc, x)
      BY <1>1, <1>4, <1>5, BelowIs, SoundLinks
    <2>3. QED
      BY <1>5, <2>1, <2>2
  <1>7. CASE k \in Cached
    <2>1. k \in Traced /\ k \in D
      BY <1>2, <1>7
    <2>2. doc.nodes[k].contents \in Cached \cup {None} /\ ParentOf(doc, k) \in {None, t}
      BY <1>2, <1>7 DEF Growing
    <2>3. doc.nodes[k].contents \in D \cup {None}
      BY <1>2, <2>1, <2>2, TracedNear
    <2>4. QED
      BY <1>6, <2>1, <2>2, <2>3 DEF Links
  <1>8. CASE k \notin Cached
    <2>1. k \in {t} \cup Owned(doc, t) \/ Alone(k)
      BY <1>2, <1>8 DEF Growing
    <2>2. CASE Alone(k)
      <3>1. ParentOf(doc, k) = None
        BY <2>2 DEF Alone, Links
      <3>2. QED
        BY <2>2, <3>1 DEF Alone
    <2>3. CASE k = t
      <3>1. ParentOf(doc, n) = t
        BY <1>5, <2>3
      <3>2. Kids(doc, t) # <<>>
        <4>1. n \in ToSet(Kids(doc, t))
          BY <1>1, <3>1 DEF Sound, ListsChildren
        <4>2. QED
          BY <4>1 DEF ToSet
      <3>3. ParentOf(doc, t) = None
        BY <3>2 DEF Growing
      <3>4. doc.nodes[t].contents \in D \cup {None}
        BY <1>6 DEF Owned
      <3>5. QED
        BY <1>6, <2>3, <3>3, <3>4 DEF Links
    <2>4. CASE k \in Owned(doc, t)
      <3>1. Owned(doc, k) = {}
        BY <1>8, <2>4 DEF Growing
      <3>2. doc.nodes[k].contents = None
        BY <3>1 DEF Owned
      <3>3. ParentOf(doc, k) \in {t, None}
        BY <1>1, <2>4, OwnedLinks
      <3>4. QED
        BY <1>6, <2>4, <3>2, <3>3 DEF Links
    <2>5. QED
      BY <2>1, <2>2, <2>3, <2>4
  <1>9. QED
    BY <1>7, <1>8

\* Fewer roots reach less.
LEMMA ReachLess ==
  ASSUME DomInv, NEW few \in SUBSET Roots
  PROVE  Reach(doc, few) \subseteq Reachable
PROOF
  <1>1. Sound(doc) /\ Len(doc.nodes) <= MaxNodes /\ Roots \in SUBSET Ids(doc)
    BY ReachableIs DEF DomInv, ArenaOK
  <1>2. IsClosure(Ids(doc), Neighbours(doc), Roots, Reachable)
    BY <1>1, ReachIsClosure DEF Reachable
  <1>3. IsClosure(Ids(doc), Neighbours(doc), few, Reach(doc, few))
    BY <1>1, ReachIsClosure
  <1>4. QED
    BY <1>2, <1>3 DEF IsClosure

\* When nothing is pending there is nothing to fear.
LEMMA NothingBehind ==
  ASSUME Pending = {}
  PROVE  Behind
BY DEF Behind, Calm, Anchored

LEMMA SyncNodeKept ==
  ASSUME DomInv, FollowInv, KeepInv, NEW n \in todo, SyncNode(n)
  PROVE  KeepInv' /\ (~call.gathered => KeepsReachable)
PROOF
  <1> DEFINE some == Touched(records, n)
             lost == UNION {Component(Survivors, m) :
                              m \in {ParentOf(doc, k) : k \in some}
                                       \ (Traced \cup some \cup {None})}
             D == DOMAIN records'
  <1>1. /\ todo' = todo \ {n} /\ kept' = (IF todo' = {} THEN {} ELSE kept)
        /\ call' = (IF todo' = {} /\ call.then = "return" THEN NoCall ELSE call)
        /\ UNCHANGED <<doc, known, held>>
    BY DEF SyncNode
  <1>2. /\ n \in Ids(doc) /\ DOMAIN records = Cached /\ None \notin Ids(doc)
        /\ DOMAIN Survivors = Traced /\ Traced \subseteq Cached /\ Cached \subseteq Ids(doc)
        /\ kept \subseteq Traced /\ Roots \subseteq Traced
    BY TracedIs, ArenaIs DEF DomInv, ArenaOK, GraphOK, Cached, Sound, KeepInv
  <1>3. Pending = todo /\ doc.changed = {} /\ known = Len(doc.nodes) /\ known \in Nat
    BY TodoPending DEF FollowInv, DomInv, GraphOK
  <1>4. \/ records' = Refreshed(records, some)
        \/ /\ some \ Cached # {}
           /\ records' = Refreshed(Survivors, some \cup lost)
    BY Zenon DEF SyncNode
  <1>5. D = Cached \cup some \/ (~(some \subseteq Cached) /\ D = Traced \cup some \cup lost)
    <2>1. CASE records' = Refreshed(records, some)
      BY <1>2, <2>1, RefreshedIs
    <2>2. CASE some \ Cached # {} /\ records' = Refreshed(Survivors, some \cup lost)
      <3> DEFINE s == Survivors
                 T == some \cup lost
      <3>1. DOMAIN Refreshed(s, T) = DOMAIN s \cup T
        <4> HIDE DEF s, T
        <4>1. QED
          BY RefreshedIs
      <3>2. DOMAIN s = Traced /\ records' = Refreshed(s, T)
        BY <1>2, <2>2
      <3> HIDE DEF s, some, lost
      <3>3. QED
        BY <2>2, <3>1, <3>2
    <2>3. QED
      BY <1>4, <2>1, <2>2
  <1> HIDE DEF lost, D
  <1>6. DomInv'
    BY <1>2, SyncNodeKeeps
  <1>7. /\ D = Cached' /\ None \notin D /\ Traced \cup some \subseteq D
    <2>1. D \subseteq Ids(doc)
      BY <1>1, <1>6 DEF D, DomInv, GraphOK, Cached
    <2>2. QED
      BY <1>2, <1>5, <2>1 DEF D, Cached
  <1>8. Roots' \subseteq Roots
    BY <1>1 DEF Roots, NoCall
  <1>9. Pending' = todo \ {n}
    <2>1. known' + 1 .. Len(doc'.nodes) = {}
      <3>1. known + 1 .. known = {}
        BY <1>3
      <3>2. known' = known /\ Len(doc'.nodes) = known
        BY <1>1, <1>3
      <3>3. QED
        BY <3>1, <3>2
    <2>2. QED
      BY <1>1, <1>3, <2>1 DEF Pending
  <1>10. Sure = Cached /\ todo # {} /\ (todo' # {} => Sure' = Cached')
    BY DEF Sure
  <1>11. ~call.gathered => \/ some \subseteq Cached
                           \/ \E t \in Ids(doc) : Growing(t) /\ Anchored
    <2>1. SUFFICES ASSUME ~call.gathered, Calm
                   PROVE  some \subseteq Cached
      BY DEF KeepInv, Behind
    <2>2. Quiet(n)
      BY <1>3, <2>1 DEF Calm
    <2>3. IF n \in Cached THEN Links(doc, n) \subseteq Cached \cup {None}
          ELSE ParentOf(doc, n) \notin Cached
      BY <1>10, <2>2 DEF Quiet
    <2>4. QED
      BY <1>2, <2>3, TouchedQuiet
  <1>12. ~call.gathered => KeepsReachable
    <2>1. SUFFICES ASSUME ~call.gathered
                   PROVE  Cached \cap Reachable \subseteq D
      <3>1. Reach(doc, Roots') \subseteq Reachable
        BY <1>8, ReachLess
      <3>2. Reach(doc', Roots') = Reach(doc, Roots')
        BY <1>1
      <3>3. KeepsReachable <=> Cached \cap Reach(doc', Roots') \subseteq D
        BY DEF KeepsReachable, D
      <3>4. QED
        BY <2>1, <3>1, <3>2, <3>3
    <2>2. CASE some \subseteq Cached
      BY <1>5, <2>2
    <2>3. CASE \E t \in Ids(doc) : Growing(t) /\ Anchored
      <3>1. Reachable \cap Cached \subseteq Traced
        BY <2>3, GrowingCovers DEF KeepInv
      <3>2. QED
        BY <1>7, <3>1
    <2>4. QED
      BY <1>11, <2>1, <2>2, <2>3
  <1>13. Behind' \/ call.gathered
    <2>1. CASE todo' = {}
      <3>1. Pending' = {}
        BY <1>1, <1>9, <2>1
      <3>2. Calm' /\ Anchored'
        BY <3>1 DEF Calm, Anchored
      <3>3. QED
        BY <3>2 DEF Behind
    <2>2. CASE todo' # {} /\ ~call.gathered
      <3>1. /\ kept' = kept /\ Sure' = D /\ todo' = todo \ {n} /\ doc' = doc
            /\ Pending' = todo \ {n} /\ Pending = todo
        BY <1>1, <1>3, <1>7, <1>9, <1>10, <2>2
      <3>2. CASE D = Cached
        <4>1. Sure' = Sure /\ Cached' = Cached
          BY <1>7, <1>10, <3>1, <3>2
        <4>2. CASE Calm
          <5>1. \A k \in todo \ {n} : Quiet(k)
            BY <3>1, <4>2 DEF Calm
          <5>2. \A k \in todo \ {n} : Quiet(k)'
            BY <3>1, <4>1, <5>1 DEF Quiet
          <5>3. Calm'
            BY <3>1, <5>2 DEF Calm
          <5>4. QED
            BY <2>2, <5>3 DEF Behind
        <4>3. ASSUME NEW t \in Ids(doc), Growing(t), Anchored
              PROVE  Behind'
          <5>1. Growing(t)'
            BY <3>1, <4>1, <4>3 DEF Growing, Alone
          <5>2. Anchored'
            BY <1>10, <2>2, <3>1, <4>1, <4>3 DEF Anchored
          <5>3. QED
            BY <3>1, <5>1, <5>2 DEF Behind
        <4>4. QED
          BY <2>2, <4>2, <4>3 DEF KeepInv, Behind
      <3>3. CASE ~(some \subseteq Cached)
        <4>1. PICK t \in Ids(doc) : Growing(t) /\ Anchored
          BY <1>11, <2>2, <3>3
        <4>2. ASSUME NEW k \in todo \ {n}
              PROVE  IF k \in D THEN Links(doc, k) \subseteq D \cup {None}
                     ELSE ParentOf(doc, k) \notin D
          BY <1>7, <3>3, <4>1, <4>2, GrowingGrows
        <4>3. \A k \in todo \ {n} : Quiet(k)'
          BY <1>7, <3>1, <4>2 DEF Quiet
        <4>4. Calm'
          BY <3>1, <4>3 DEF Calm
        <4>5. QED
          BY <2>2, <4>4 DEF Behind
      <3>4. QED
        BY <1>5, <3>2, <3>3
    <2>3. QED
      BY <2>1, <2>2
  <1>14. ASSUME call'.then = "contents" \/ (call'.then = "place" /\ ~call'.gathered)
         PROVE  Lone(call.node)' /\ call' = call
    <2>1. call' = call
      BY <1>1, <1>14, NoCallIs
    <2>2. Lone(call.node)
      BY <1>14, <2>1 DEF KeepInv
    <2>3. n \notin Cached /\ ParentOf(doc, n) \notin Cached
      BY <1>2, <1>3, <2>2 DEF Lone
    <2>4. some \subseteq Cached
      BY <1>2, <2>3, TouchedQuiet
    <2>5. Cached' = Cached
      BY <1>5, <1>7, <2>4
    <2>6. Pending' \subseteq Pending
      BY <1>3, <1>9
    <2>7. QED
      BY <1>1, <2>1, <2>2, <2>5, <2>6 DEF Lone
  <1>15. call'.gathered = call.gathered \/ todo' = {}
    BY <1>1
  <1>16. ~call'.gathered => Behind'
    <2>1. CASE todo' = {}
      <3>1. Pending' = {}
        BY <1>1, <1>9, <2>1
      <3>2. Calm' /\ Anchored'
        BY <3>1 DEF Calm, Anchored
      <3>3. QED
        BY <3>2 DEF Behind
    <2>2. QED
      BY <1>13, <1>15, <2>1
  <1>17. call'.then = "place" /\ ~call'.gathered =>
           call'.this \in call'.args /\ call'.parent \in {call'.this, ParentOf(doc', call'.this)}
    BY <1>1, <1>14 DEF KeepInv
  <1>18. Roots' \subseteq Cached'
    BY <1>2, <1>7, <1>8
  <1>19. QED
    BY <1>12, <1>14, <1>16, <1>17, <1>18 DEF KeepInv

----------------------------------------------------------------------------
(* The other steps of synchronize, and the collector. *)

\* What a growing node has taken in is pending.
LEMMA OwnedPending ==
  ASSUME DomInv, FollowInv, NEW t \in Ids(doc), Growing(t), NEW k \in Owned(doc, t), k \in Cached
  PROVE  k \in Pending
PROOF
  <1>1. Sound(doc) /\ DOMAIN records = Cached
    BY DEF DomInv, ArenaOK, Cached
  <1>2. ParentOf(doc, k) = t /\ t # None
    BY <1>1, OwnedLinks DEF Growing
  <1>3. SUFFICES ASSUME k \notin Pending
                 PROVE  FALSE
    OBVIOUS
  <1>4. records[k].parent = t
    BY <1>1, <1>2, <1>3 DEF FollowInv, Follow, Fresh, SameLinks
  <1>5. t \in Cached
    BY <1>1, <1>2, <1>4 DEF FollowInv, Follow, Whole
  <1>6. QED
    BY <1>5 DEF Growing

LEMMA CollectKept ==
  ASSUME DomInv, FollowInv, KeepInv, Collect
  PROVE  KeepInv' /\ (~call.gathered => KeepsReachable)
PROOF
  <1>1. /\ records' = Survivors /\ todo = {}
        /\ UNCHANGED <<doc, known, todo, kept, held, call>>
    BY DEF Collect, DetachesRules
  <1>2. /\ Traced = Alive(records, Roots \cup kept) /\ Sure = Traced
        /\ DOMAIN Survivors = Traced /\ Traced \subseteq Cached /\ Roots \subseteq Traced
    BY <1>1, TracedAlive, TracedIs DEF Sure, KeepInv
  <1>3. Survivors = [n \in Alive(records, Roots \cup kept) |-> records[n]]
    BY <1>2 DEF Survivors
  <1>4. Alive(Survivors, Roots \cup kept) = Traced
    BY <1>2, <1>3, AliveAgain
  <1>5. Roots' = Roots /\ Pending' = Pending
    BY <1>1 DEF Roots, Pending
  <1>6. Alive(records', Roots' \cup kept') = Traced
    BY <1>1, <1>4, <1>5
  <1>7. Sure' = Traced /\ Cached' = Traced /\ todo' = {}
    BY <1>1, <1>2, <1>6 DEF Sure, Cached
  <1>8. ASSUME Anchored
        PROVE  Pending \cap Cached \subseteq Traced
    BY <1>1, <1>2, <1>8 DEF Anchored
  <1>9. ASSUME Behind
        PROVE  Behind'
    <2>1. Anchored'
      BY <1>5, <1>6, <1>7 DEF Anchored
    <2>2. CASE Calm /\ Anchored
      <3>1. \A n \in Pending : Quiet(n)'
        <4>1. \A n \in Pending : Quiet(n)
          BY <2>2 DEF Calm
        <4>2. QED
          BY <1>1, <1>2, <1>7, <1>8, <2>2, <4>1 DEF Quiet
      <3>2. Calm'
        BY <1>5, <3>1 DEF Calm
      <3>3. QED
        BY <2>1, <3>2 DEF Behind
    <2>3. ASSUME NEW t \in Ids(doc), Growing(t), Anchored
          PROVE  Growing(t)'
      <3>1. Pending \cap Cached \subseteq Traced
        BY <1>8, <2>3
      <3>2. \A k \in Owned(doc, t) \ Traced : Owned(doc, k) = {}
        <4>1. \A k \in Owned(doc, t) : k \in Cached => k \in Pending
          BY <2>3, OwnedPending
        <4>2. QED
          BY <2>3, <3>1, <4>1 DEF Growing
      <3>3. QED
        BY <1>1, <1>2, <1>5, <1>7, <2>3, <3>1, <3>2 DEF Growing, Alone
    <2>4. QED
      <3>1. CASE \E t \in Ids(doc) : Growing(t) /\ Anchored
        BY <1>1, <2>1, <2>3, <3>1 DEF Behind
      <3>2. QED
        BY <1>1, <1>9, <2>2, <3>1 DEF Behind
  <1>10. ASSUME Lone(call.node)
         PROVE  Lone(call.node)'
    BY <1>1, <1>2, <1>5, <1>7, <1>10 DEF Lone
  <1>11. KeepInv'
    BY <1>1, <1>2, <1>5, <1>7, <1>9, <1>10 DEF KeepInv
  <1>12. ASSUME ~call.gathered
         PROVE  KeepsReachable
    <2>1. Cached \cap Reachable \subseteq Traced
      <3>1. CASE Calm /\ Anchored
        BY <1>1, <3>1, CalmCovers DEF KeepInv
      <3>2. CASE \E t \in Ids(doc) : Growing(t) /\ Anchored
        BY <3>2, GrowingCovers DEF KeepInv
      <3>3. QED
        BY <1>1, <1>12, <3>1, <3>2 DEF KeepInv, Behind
    <2>2. Reach(doc', Roots') = Reachable
      BY <1>1, <1>5 DEF Reachable
    <2>3. DOMAIN records' = Traced
      BY <1>1, <1>2
    <2>4. QED
      BY <2>1, <2>2, <2>3 DEF KeepsReachable
  <1>13. QED
    BY <1>11, <1>12

LEMMA StartSyncKept ==
  ASSUME DomInv, FollowInv, KeepInv, StartSync
  PROVE  KeepInv'
PROOF
  <1>1. /\ todo = {} /\ ~Synced /\ doc' = [doc EXCEPT !.changed = {}] /\ known' = Len(doc.nodes)
        /\ todo' = doc.changed \cup (known + 1 .. Len(doc.nodes))
        /\ kept' = SyncRoots(todo')
        /\ UNCHANGED <<records, held>>
    BY DEF StartSync
  <1>2. todo' = Pending /\ Pending # {}
    <2>1. todo' = Pending
      BY <1>1 DEF Pending
    <2>2. known \in Nat /\ Len(doc.nodes) \in Nat /\ known <= Len(doc.nodes)
      BY ArenaIs DEF DomInv, GraphOK, ArenaOK, Sound
    <2>3. known # Len(doc.nodes) => known + 1 \in known + 1 .. Len(doc.nodes)
      BY <2>2
    <2>4. QED
      BY <1>1, <2>1, <2>3 DEF Synced
  <1>3. doc'.nodes = doc.nodes /\ doc'.changed = {} /\ Ids(doc') = Ids(doc)
    BY <1>1 DEF DomInv, ArenaOK, Sound, Documents, Ids
  <1>4. Pending' = Pending
    <2>1. known' + 1 .. Len(doc'.nodes) = {}
      <3>1. Len(doc.nodes) \in Nat
        BY ArenaIs DEF DomInv, ArenaOK, Sound
      <3>2. Len(doc.nodes) + 1 .. Len(doc.nodes) = {}
        BY <3>1
      <3>3. QED
        BY <1>1, <1>3, <3>2
    <2>2. QED
      BY <1>2, <1>3, <2>1 DEF Pending
  <1>5. /\ Cached' = Cached /\ Sure' = Cached /\ Sure \subseteq Cached
        /\ kept' = Pending \cap Cached
    <2>1. Alive(records, Roots \cup kept) \subseteq Cached
      BY AliveIs DEF Cached
    <2>2. Cached' = Cached
      BY <1>1 DEF Cached
    <2>3. QED
      BY <1>1, <1>2, <2>1, <2>2 DEF Sure, SyncRoots
  <1>6. /\ \A n : ParentOf(doc', n) = ParentOf(doc, n) /\ Links(doc', n) = Links(doc, n)
        /\ \A n : Owned(doc', n) = Owned(doc, n) /\ Kids(doc', n) = Kids(doc, n)
    BY <1>3 DEF ParentOf, Links, Owned, Kids
  <1>7. Anchored'
    BY <1>2, <1>4, <1>5 DEF Anchored
  <1>8. ASSUME Behind
        PROVE  Behind'
    <2>1. CASE Calm
      <3>1. \A n \in Pending : Quiet(n)
        BY <2>1 DEF Calm
      <3>2. \A n \in Pending : Quiet(n)'
        BY <1>5, <1>6, <3>1 DEF Quiet
      <3>3. Calm'
        BY <1>4, <3>2 DEF Calm
      <3>4. QED
        BY <1>7, <3>3 DEF Behind
    <2>2. ASSUME NEW t \in Ids(doc), Growing(t)
          PROVE  Growing(t)'
      BY <1>3, <1>4, <1>5, <1>6, <2>2 DEF Growing, Alone
    <2>3. QED
      BY <1>3, <1>7, <1>8, <2>1, <2>2 DEF Behind
  <1>9. Continues(call, call')
    BY StartSyncCalls
  <1>10. Roots' = Roots
    BY <1>1, <1>9 DEF Roots, Continues
  <1>11. ASSUME Lone(call.node)
         PROVE  Lone(call.node)'
    <2>1. call'.node = call.node
      BY <1>9 DEF Continues
    <2>2. QED
      BY <1>4, <1>5, <1>6, <1>11, <2>1 DEF Lone
  <1>12. QED
    BY <1>5, <1>6, <1>8, <1>9, <1>10, <1>11 DEF KeepInv, Continues

\* Between calls, and when nothing is behind.
LEMMA SettledKept ==
  ASSUME Pending' = {}, call' = NoCall, Roots' \subseteq Cached'
  PROVE  KeepInv'
PROOF
  <1>1. Calm' /\ Anchored'
    BY DEF Calm, Anchored
  <1>2. Behind'
    BY <1>1 DEF Behind
  <1>3. call'.then = "none"
    BY NoCallIs
  <1>4. QED
    BY <1>2, <1>3 DEF KeepInv

----------------------------------------------------------------------------
(* Looking nodes up, and what ends a call. *)

LEMMA HoldKept ==
  ASSUME DomInv, FollowInv, KeepInv, Idle, NEW n \in Ids(doc), Hold(n)
  PROVE  KeepInv' /\ KeepsReachable
PROOF
  <1>1. /\ records' = Recorded(n) /\ held' = held \cup {n}
        /\ UNCHANGED <<doc, known, todo, kept, call>>
    BY DEF Hold
  <1>2. call = NoCall /\ Synced
    BY NoCallIs DEF Idle, FollowInv, Lasts
  <1>3. Cached \cup {n} \subseteq Cached'
    BY <1>1, RecordedKeeps DEF Cached
  <1>4. Roots' \subseteq Cached'
    BY <1>1, <1>3 DEF Roots, KeepInv
  <1>5. Pending' = {}
    BY <1>1, <1>2, NonePending, StillPending
  <1>6. KeepInv'
    BY <1>1, <1>2, <1>4, <1>5, SettledKept
  <1>7. QED
    BY <1>3, <1>6 DEF KeepsReachable, Cached

LEMMA DropKept ==
  ASSUME DomInv, FollowInv, KeepInv, Idle, NEW n \in held, Drop(n)
  PROVE  KeepInv' /\ KeepsReachable
PROOF
  <1>1. held' = held \ {n} /\ UNCHANGED <<doc, records, known, todo, kept, call>>
    BY DEF Drop, graphVars
  <1>2. call = NoCall /\ Synced
    BY NoCallIs DEF Idle, FollowInv, Lasts
  <1>3. Roots' \subseteq Cached' /\ Cached' = Cached
    BY <1>1 DEF Roots, KeepInv, Cached
  <1>4. Pending' = {}
    BY <1>1, <1>2, NonePending, StillPending
  <1>5. KeepInv'
    BY <1>1, <1>2, <1>3, <1>4, SettledKept
  <1>6. QED
    BY <1>3, <1>5 DEF KeepsReachable, Cached

LEMMA WrapKept ==
  ASSUME DomInv, FollowInv, KeepInv, Wrap
  PROVE  KeepInv' /\ KeepsReachable
PROOF
  <1> DEFINE n == call.node
  <1>1. /\ records' = Recorded(n) /\ held' = held \cup {n} /\ call' = NoCall
        /\ UNCHANGED <<doc, known, todo, kept>> /\ Synced
    BY DEF Wrap
  <1>2. n \in Ids(doc)
    BY DEF Wrap, DomInv, CallOK, Names
  <1>3. Cached \cup {n} \subseteq Cached'
    BY <1>1, <1>2, RecordedKeeps DEF Cached
  <1>4. Roots' \subseteq Cached'
    BY <1>1, <1>3, NoCallIs DEF Roots, KeepInv
  <1>5. Pending' = {}
    BY <1>1, NonePending, StillPending
  <1>6. KeepInv'
    BY <1>1, <1>4, <1>5, SettledKept
  <1>7. QED
    BY <1>3, <1>6 DEF KeepsReachable, Cached

LEMMA NothingToSyncKept ==
  ASSUME DomInv, FollowInv, KeepInv, NothingToSync
  PROVE  KeepInv' /\ KeepsReachable
PROOF
  <1>1. call' = NoCall /\ UNCHANGED <<doc, records, known, todo, kept, held>> /\ Synced
    BY DEF NothingToSync, graphVars
  <1>2. Roots' \subseteq Cached' /\ Cached' = Cached
    BY <1>1, NoCallIs DEF Roots, KeepInv, Cached
  <1>3. Pending' = {}
    BY <1>1, NonePending, StillPending
  <1>4. KeepInv'
    BY <1>1, <1>2, <1>3, SettledKept
  <1>5. QED
    BY <1>2, <1>4 DEF KeepsReachable, Cached

----------------------------------------------------------------------------
(* What a borrow leaves behind. *)

\* What the arguments, the document and script's variables keep alive.
Base(args) == Alive(records, {Root} \cup held \cup args \cup kept)

\* The nodes a borrow leaves for synchronize.
Left(new) == new.changed \cup (Ids(new) \ Ids(doc))

\* Calm, Growing and Lone of the document a borrow leaves.
Eases(new, B) ==
  \A n \in Left(new) : IF n \in Cached THEN n \in B /\ Links(new, n) \subseteq B \cup {None}
                       ELSE ParentOf(new, n) \notin Cached
Grows(new, B, t) ==
  /\ t \notin Cached /\ new.nodes[t].contents \notin Cached
  /\ \A n \in Left(new) :
       IF n \in Cached THEN /\ n \in B /\ ParentOf(new, n) \in {None, t}
                            /\ new.nodes[n].contents \in B \cup {None}
       ELSE n \in {t} \cup Owned(new, t) \/ Links(new, n) = {None}
  /\ \A n \in Owned(new, t) \ Cached : Owned(new, n) = {}
  /\ ParentOf(new, t) = None \/ (ParentOf(new, t) \in B /\ Kids(new, t) = <<>>)
Apart(new, n) ==
  n \notin Cached /\ Left(new) \subseteq {n} /\ ParentOf(new, n) = None /\ Owned(new, n) = {}

LEMMA BorrowSets ==
  ASSUME DomInv, Synced, NEW new, NEW next, NEW moved, BorrowNoting(new, next, moved),
         Sound(new), IsCall(next)
  PROVE  /\ doc' = new /\ todo' = {} /\ Cached' = Cached /\ Pending' = Left(new)
         /\ Roots' = {Root} \cup held \cup next.args
         /\ Alive(records, Roots \cup kept)' = Base(next.args) /\ Sure' = Base(next.args)
         /\ Continues(next, call')
PROOF
  <1>1. /\ doc' = new /\ UNCHANGED <<records, known, todo, kept, held>>
        /\ todo = {} /\ doc.changed = {} /\ known = Len(doc.nodes)
    BY DEF BorrowNoting, graphVars, Synced
  <1>2. Continues(next, call')
    BY SheetsNoted DEF BorrowNoting
  <1>3. Pending' = Left(new)
    <2>1. /\ Ids(doc) = 1..Len(doc.nodes) /\ Ids(new) = 1..Len(new.nodes)
          /\ Len(doc.nodes) \in Nat /\ Len(new.nodes) \in Nat
      BY ArenaIs DEF DomInv, ArenaOK, Sound
    <2> DEFINE L == Len(doc.nodes)
               M == Len(new.nodes)
    <2>2. Ids(new) \ Ids(doc) = (1..M) \ (1..L) /\ L \in Nat /\ M \in Nat
      BY <2>1
    <2>3. Pending' = new.changed \cup (L + 1 .. M)
      BY <1>1 DEF Pending
    <2> HIDE DEF L, M
    <2>4. (1..M) \ (1..L) = L + 1 .. M
      BY <2>2
    <2>5. QED
      BY <2>2, <2>3, <2>4 DEF Left
  <1>4. call'.args = next.args
    BY <1>2 DEF Continues
  <1>5. Roots' = {Root} \cup held \cup next.args
    BY <1>1, <1>4 DEF Roots
  <1>6. Roots' \cup kept' = {Root} \cup held \cup next.args \cup kept
    BY <1>1, <1>5
  <1>7. Alive(records, Roots \cup kept)' = Base(next.args)
    BY <1>1, <1>6 DEF Base
  <1>8. QED
    BY <1>1, <1>2, <1>3, <1>5, <1>7 DEF Sure, Cached

\* A borrow that leaves the arena calm, or one node growing.
LEMMA BorrowKept ==
  ASSUME DomInv, KeepInv, Synced, NEW new, NEW next, NEW moved,
         BorrowNoting(new, next, moved), Sound(new), IsCall(next), next.args \subseteq Cached,
         next.gathered \/ Eases(new, Base(next.args))
           \/ \E t \in Ids(new) : Grows(new, Base(next.args), t),
         next.then = "contents" \/ (next.then = "place" /\ ~next.gathered)
           => Apart(new, next.node),
         next.then = "place" /\ ~next.gathered =>
           next.this \in next.args /\ next.parent \in {next.this, ParentOf(new, next.this)}
  PROVE  KeepInv' /\ KeepsReachable
PROOF
  <1>1. /\ doc' = new /\ todo' = {} /\ Cached' = Cached /\ Pending' = Left(new)
        /\ Roots' = {Root} \cup held \cup next.args
        /\ Alive(records, Roots \cup kept)' = Base(next.args) /\ Sure' = Base(next.args)
        /\ Continues(next, call')
    BY BorrowSets
  <1>2. Roots' \subseteq Cached'
    BY <1>1 DEF KeepInv, Roots
  <1>3. ASSUME Eases(new, Base(next.args))
        PROVE  Behind'
    <2>1. \A n \in Left(new) : Quiet(n)'
      BY <1>1, <1>3 DEF Eases, Quiet
    <2>2. Calm'
      BY <1>1, <2>1 DEF Calm
    <2>3. Anchored'
      BY <1>1, <1>3 DEF Eases, Anchored
    <2>4. QED
      BY <2>2, <2>3 DEF Behind
  <1>4. ASSUME NEW t \in Ids(new), Grows(new, Base(next.args), t)
        PROVE  Behind'
    <2>1. Growing(t)'
      BY <1>1, <1>4 DEF Grows, Growing, Alone
    <2>2. Anchored'
      BY <1>1, <1>4 DEF Grows, Anchored
    <2>3. QED
      BY <1>1, <1>4, <2>1, <2>2 DEF Behind
  <1>5. ASSUME Apart(new, next.node)
        PROVE  Lone(call.node)'
    <2>1. call'.node = next.node
      BY <1>1 DEF Continues
    <2>2. QED
      BY <1>1, <1>5, <2>1 DEF Apart, Lone
  <1>6. /\ call'.then = next.then /\ call'.gathered = next.gathered /\ call'.args = next.args
        /\ call'.then = "place" => call'.parent = next.parent /\ call'.this = next.this
    BY <1>1 DEF Continues
  <1>7. KeepInv'
    BY <1>1, <1>2, <1>3, <1>4, <1>5, <1>6 DEF KeepInv
  <1>8. DOMAIN records' = Cached
    BY <1>1 DEF Cached
  <1>9. QED
    BY <1>7, <1>8 DEF KeepsReachable

\* When records and arena agree, what is kept alive is closed under links.
LEMMA BaseClosed ==
  ASSUME DomInv, FollowInv, Synced, NEW args
  PROVE  /\ Base(args) \subseteq Cached /\ args \cap Cached \subseteq Base(args)
         /\ \A m \in Base(args) : Near(doc, m) \subseteq Base(args)
PROOF
  <1> DEFINE B == Base(args)
  <1>1. /\ B \subseteq Cached
        /\ ({Root} \cup held \cup args \cup kept) \cap Cached \subseteq B
        /\ \A n \in B : EdgesOf(records, n) \cap Cached \subseteq B
    BY AliveIs DEF Base, Cached
  <1>2. Pending = {} /\ DOMAIN records = Cached /\ Sound(doc) /\ Cached \subseteq Ids(doc)
    BY NonePending DEF Cached, DomInv, ArenaOK, GraphOK
  <1>3. /\ ListsOwn(records) /\ Whole(records) /\ Fresh(doc, records, {})
        /\ Complete(doc, Cached, {})
    BY <1>2 DEF FollowInv, Follow
  <1> HIDE DEF B
  <1>4. ASSUME NEW m \in B
        PROVE  Near(doc, m) \subseteq B
    <2>1. m \in Cached /\ m \in Ids(doc)
      BY <1>1, <1>2, <1>4
    <2>2. records[m].parent = ParentOf(doc, m) /\ records[m].contents = doc.nodes[m].contents
      BY <1>2, <1>3, <2>1 DEF Fresh, SameLinks
    <2>3. {ParentOf(doc, m), doc.nodes[m].contents} \ {None} \subseteq Cached
      BY <1>2, <1>3, <2>1, <2>2 DEF Whole
    <2>4. ASSUME NEW k \in ToSet(Kids(doc, m))
          PROVE  k \in EdgesOf(records, m) \cap Cached
      <3>1. k \in Ids(doc) /\ ParentOf(doc, k) = m
        BY <1>2, <2>1, <2>4 DEF Sound, ListsChildren
      <3>2. k \in Cached
        BY <1>3, <2>1, <3>1 DEF Complete
      <3>3. records[k].parent = m
        BY <1>2, <1>3, <3>1, <3>2 DEF Fresh, SameLinks
      <3>4. k \in records[m].children
        BY <1>2, <1>3, <2>1, <3>2, <3>3 DEF ListsOwn
      <3>5. QED
        BY <3>2, <3>4 DEF EdgesOf
    <2>5. Near(doc, m) \subseteq EdgesOf(records, m) \cap Cached
      BY <2>2, <2>3, <2>4 DEF Near, EdgesOf, ParentOf
    <2>6. QED
      BY <1>1, <1>4, <2>5
  <1>5. QED
    BY <1>1, <1>4 DEF B

\* So is everything with a record: between calls, script reaches nothing else.
LEMMA ReachableCached ==
  ASSUME DomInv, FollowInv, KeepInv, Synced
  PROVE  Reachable \subseteq Cached
PROOF
  <1>1. Base(Cached) = Cached /\ \A m \in Cached : Near(doc, m) \subseteq Cached
    BY BaseClosed
  <1>2. Cached \in SUBSET Ids(doc) /\ Roots \subseteq Cached
    BY DEF DomInv, GraphOK, KeepInv
  <1>3. QED
    BY <1>1, <1>2, Sheltered

----------------------------------------------------------------------------
(* What a borrow moves. *)

\* Closed under links: what is kept alive when the records follow the arena.
Encloses(d, B) == B \subseteq Ids(d) /\ \A m \in B : Near(d, m) \subseteq B

\* Only nodes of B have been moved, to places in Q, and the new node t into B.
MayMove(B, Q, t, n, p) == IF n = t THEN p \in B \cup {None} ELSE n \in B /\ p \in Q
Moves(e, B, Q, t)      == \A n \in e.changed : MayMove(B, Q, t, n, ParentOf(e, n))

\* The nodes M are moved to p.
Shifts(e, f, M, p) ==
  /\ f.changed = e.changed \cup M
  /\ \A n \in e.changed \cup M : ParentOf(f, n) = IF n \in M THEN p ELSE ParentOf(e, n)

LEMMA ShiftMoves ==
  ASSUME NEW e, NEW f, NEW M, NEW p, Shifts(e, f, M, p), NEW B, NEW Q, NEW t,
         Moves(e, B, Q, t), \A n \in M : MayMove(B, Q, t, n, p)
  PROVE  Moves(f, B, Q, t)
BY DEF Shifts, Moves

LEMMA TakenMoves ==
  ASSUME NEW e, Sound(e), NEW f, NEW p, NEW gone, Taken(e, f, p, gone), NEW B, NEW Q, NEW t,
         None \in Q, gone \subseteq B \cup {t}, Moves(e, B, Q, t)
  PROVE  Moves(f, B, Q, t)
PROOF
  <1>1. e.changed \subseteq Ids(e) /\ gone \subseteq Ids(e)
    BY DEF Sound, Taken
  <1>2. Shifts(e, f, gone, None)
    BY <1>1 DEF Taken, Shifts
  <1>3. \A n \in gone : MayMove(B, Q, t, n, None)
    BY DEF MayMove
  <1>4. QED
    BY <1>2, <1>3, ShiftMoves

LEMMA DetachedMoves ==
  ASSUME NEW e, Sound(e), NEW n \in Ids(e), NEW B, NEW Q, NEW t,
         None \in Q, n \in B \cup {t}, Moves(e, B, Q, t)
  PROVE  Moves(Detached(e, n), B, Q, t)
PROOF
  <1>1. CASE ParentOf(e, n) = None
    BY <1>1 DEF Detached
  <1>2. CASE ParentOf(e, n) # None
    <2>1. Taken(e, Detached(e, n), ParentOf(e, n), {n})
      BY <1>2, DetachedIs
    <2>2. QED
      BY <2>1, TakenMoves
  <1>3. QED
    BY <1>1, <1>2

LEMMA DetachedAllMoves ==
  ASSUME NEW e, Sound(e), NEW p \in Ids(e), NEW some \in SUBSET Ids(e), NEW B, NEW Q, NEW t,
         None \in Q, some \subseteq B \cup {t}, Moves(e, B, Q, t)
  PROVE  Moves(DetachedAll(e, p, some), B, Q, t)
PROOF
  <1> DEFINE gone == {n \in some : ParentOf(e, n) = p}
  <1>1. Taken(e, DetachedAll(e, p, some), p, gone)
    BY DetachedAllIs
  <1>2. gone \subseteq B \cup {t}
    OBVIOUS
  <1> HIDE DEF gone
  <1>3. QED
    BY <1>1, <1>2, TakenMoves

LEMMA LinkedMoves ==
  ASSUME NEW e, Sound(e), NEW p \in Ids(e), NEW n \in Ids(e), p # n, NEW before,
         NEW B, NEW Q, NEW t, Moves(e, B, Q, t),
         \A k \in ToSet(Moved(e, n)) : MayMove(B, Q, t, k, p)
  PROVE  Moves(Linked(e, p, n, before), B, Q, t)
PROOF
  <1> DEFINE f == Linked(e, p, n, before)
             M == ToSet(Moved(e, n))
  <1>1. PutIn(e, f, p, n, before) /\ M \subseteq Ids(e) /\ e.changed \subseteq Ids(e)
    BY LinkedIs, MovedAre DEF Sound
  <1>2. Shifts(e, f, M, p)
    BY <1>1 DEF PutIn, Shifts
  <1> HIDE DEF f, M
  <1>3. QED
    BY <1>2, ShiftMoves DEF f, M

\* Fewer children are moved than were there.
LEMMA MovedFewer ==
  ASSUME NEW d, NEW e, Sound(d), Sound(e), Fewer(d, e), NEW n \in Ids(d)
  PROVE  ToSet(Moved(e, n)) \subseteq ToSet(Moved(d, n))
PROOF
  <1>1. Same(d, e) /\ Ids(e) = Ids(d) /\ IsFragment(e, n) = IsFragment(d, n)
    BY KindsSame DEF Fewer, Same
  <1>2. CASE ~IsFragment(d, n)
    BY <1>1, <1>2, MovedAre
  <1>3. CASE IsFragment(d, n)
    <2>1. ToSet(Kids(e, n)) \subseteq Owned(d, n)
      BY DEF Fewer, Owned
    <2>2. \A k \in ToSet(Kids(e, n)) : k # d.nodes[n].contents
      <3>1. d.nodes[n].contents # None => d.nodes[n].kind = "template"
        BY DEF Sound, Hosts
      <3>2. d.nodes[n].contents = None
        BY <1>3, <3>1 DEF IsFragment
      <3>3. None \notin ToSet(Kids(e, n))
        BY <1>1, SoundLinks, ArenaIs DEF Sound
      <3>4. QED
        BY <3>2, <3>3
    <2>3. ToSet(Kids(e, n)) \subseteq ToSet(Kids(d, n))
      BY <2>1, <2>2 DEF Owned
    <2>4. QED
      BY <1>1, <1>3, <2>3 DEF Moved
  <1>4. QED
    BY <1>2, <1>3

LEMMA PreInsertedMoves ==
  ASSUME NEW d, Sound(d), NEW p \in Ids(d), NEW n \in Ids(d), p # n, NEW before,
         NEW B, NEW Q, NEW t, None \in Q, Moves(d, B, Q, t), n \in B \cup {t},
         \A k \in ToSet(Moved(d, n)) : MayMove(B, Q, t, k, p)
  PROVE  Moves(PreInserted(d, p, n, before), B, Q, t)
PROOF
  <1> DEFINE e == Detached(d, n)
  <1>1. Sound(e) /\ Fewer(d, e) /\ Ids(e) = Ids(d)
    BY DetachedKeeps DEF Fewer, Same
  <1>2. Moves(e, B, Q, t)
    BY DetachedMoves
  <1>3. ToSet(Moved(e, n)) \subseteq ToSet(Moved(d, n))
    BY <1>1, MovedFewer
  <1>4. PICK ref : PreInserted(d, p, n, before) = Linked(e, p, n, ref)
    BY DEF PreInserted
  <1> HIDE DEF e
  <1>5. QED
    BY <1>1, <1>2, <1>3, <1>4, LinkedMoves

LEMMA ReplacedMoves ==
  ASSUME NEW d, Sound(d), NEW p \in Ids(d), NEW n \in Ids(d), NEW child \in Ids(d), p # n,
         NEW B, NEW Q, NEW t, None \in Q, Moves(d, B, Q, t), {n, child} \subseteq B \cup {t},
         \A k \in ToSet(Moved(d, n)) : MayMove(B, Q, t, k, p)
  PROVE  Moves(Replaced(d, p, n, child), B, Q, t)
PROOF
  <1> DEFINE e == Detached(d, child)
             f == Detached(e, n)
  <1>1. Sound(e) /\ Fewer(d, e) /\ Ids(e) = Ids(d) /\ Moves(e, B, Q, t)
    BY DetachedKeeps, DetachedMoves DEF Fewer, Same
  <1>2. n = child \/ \E ref : Replaced(d, p, n, child) = Linked(f, p, n, ref)
    BY DEF Replaced
  <1> HIDE DEF e
  <1>3. Sound(f) /\ Fewer(e, f) /\ Ids(f) = Ids(d)
    BY <1>1, DetachedKeeps DEF Fewer, Same
  <1>4. Moves(f, B, Q, t)
    BY <1>1, DetachedMoves
  <1> HIDE DEF f
  <1>5. Fewer(d, f)
    BY <1>1, <1>3, FewerOn
  <1>6. ToSet(Moved(f, n)) \subseteq ToSet(Moved(d, n))
    BY <1>3, <1>5, MovedFewer
  <1>7. CASE n = child
    BY <1>7 DEF Replaced
  <1>8. ASSUME NEW ref, Replaced(d, p, n, child) = Linked(f, p, n, ref)
        PROVE  Moves(Replaced(d, p, n, child), B, Q, t)
    BY <1>3, <1>4, <1>6, <1>8, LinkedMoves
  <1>9. QED
    BY <1>2, <1>7, <1>8

\* The place of a node given alone, or gathered.
LEMMA FinishedMoves ==
  ASSUME Sound(doc), doc.changed = {}, NEW B, Encloses(doc, B), NEW Q, NEW t, None \in Q,
         NEW c, {c.parent, c.this} \subseteq B, c.node \in Ids(doc), c.node \in B \cup {t},
         \A k \in ToSet(Moved(doc, c.node)) : MayMove(B, Q, t, k, c.parent)
  PROVE  Moves(Finished(c), B, Q, t)
PROOF
  <1> DEFINE p == c.parent
             n == c.node
  <1>1. Moves(doc, B, Q, t) /\ p \in Ids(doc) /\ c.this \in Ids(doc)
    BY DEF Moves, Encloses
  <1>2. ASSUME NEW reference, NEW exclude, MayInsert(doc, p, n, reference, exclude)
        PROVE  p # n /\ MayGo(doc, p, n, exclude)
    BY <1>2 DEF MayInsert, MayGo, IsInclusiveAncestor
  <1>3. ASSUME MayReplace(doc, p, n, c.this)
        PROVE  Moves(Replaced(doc, p, n, c.this), B, Q, t)
    BY <1>1, <1>2, <1>3, ReplacedMoves DEF MayReplace
  <1>4. ASSUME NEW before, MayPreInsert(doc, p, n, before)
        PROVE  Moves(PreInserted(doc, p, n, before), B, Q, t)
    BY <1>1, <1>2, <1>4, PreInsertedMoves DEF MayPreInsert
  <1>5. ASSUME MayPreInsert(doc, p, n, None)
        PROVE  Moves(ReplacedAll(p, n), B, Q, t)
    <2> DEFINE e == PreInserted(doc, p, n, None)
               some == ToSet(Kids(doc, p)) \ {n}
    <2>1. Sound(e) /\ Ids(e) = Ids(doc)
      BY <1>1, <1>2, <1>5, PreInsertedKeeps DEF MayPreInsert, Relinked
    <2>2. Moves(e, B, Q, t)
      BY <1>4, <1>5
    <2>3. some \subseteq B /\ some \in SUBSET Ids(doc)
      BY DEF Encloses, Near
    <2> HIDE DEF e, some
    <2>4. Moves(DetachedAll(e, p, some), B, Q, t)
      BY <1>1, <2>1, <2>2, <2>3, DetachedAllMoves
    <2>5. QED
      BY <2>4 DEF ReplacedAll, e, some
  <1>6. \/ MayReplace(doc, p, n, c.this) /\ Finished(c) = Replaced(doc, p, n, c.this)
        \/ MayPreInsert(doc, p, n, None) /\ Finished(c) = ReplacedAll(p, n)
        \/ \E r : MayPreInsert(doc, p, n, r) /\ Finished(c) = PreInserted(doc, p, n, r)
        \/ Finished(c) = doc
    BY Zenon DEF Finished
  <1> HIDE DEF p, n
  <1>7. QED
    BY <1>1, <1>3, <1>4, <1>5, <1>6

LEMMA BaseEncloses ==
  ASSUME DomInv, FollowInv, Synced, NEW args
  PROVE  Encloses(doc, Base(args))
BY BaseClosed DEF Encloses, DomInv, GraphOK

\* Moves among what is kept alive, and new nodes that are not attached.
LEMMA MovesEase ==
  ASSUME DomInv, FollowInv, Synced, NEW new, Sound(new), Grown(doc, new), NEW args,
         Moves(new, Base(args), Base(args) \cup {None}, None),
         \A n \in Ids(new) \ Ids(doc) : ParentOf(new, n) = None
  PROVE  Eases(new, Base(args))
PROOF
  <1> DEFINE B == Base(args)
  <1>1. B \subseteq Cached /\ Cached \subseteq Ids(doc) /\ Encloses(doc, B)
    BY BaseClosed, BaseEncloses DEF DomInv, GraphOK
  <1>2. new.changed \subseteq Ids(new) /\ None \notin Ids(new) /\ None \notin Cached
    BY <1>1, ArenaIs DEF Sound, DomInv, ArenaOK
  <1> HIDE DEF B
  <1>3. ASSUME NEW n \in new.changed
        PROVE  n \in B /\ Links(new, n) \subseteq B \cup {None}
    <2>1. n \in B /\ ParentOf(new, n) \in B \cup {None}
      BY <1>2, <1>3 DEF Moves, MayMove, B
    <2>2. new.nodes[n].contents = doc.nodes[n].contents
      BY <1>1, <2>1 DEF Grown
    <2>3. doc.nodes[n].contents \in B \cup {None}
      BY <1>1, <2>1 DEF Encloses, Near
    <2>4. QED
      BY <2>1, <2>2, <2>3 DEF Links
  <1>4. QED
    BY <1>1, <1>2, <1>3 DEF Eases, Left, B

\* One new node, put where it is kept alive.
LEMMA MovesGrow ==
  ASSUME DomInv, FollowInv, Synced, NEW new, Sound(new), Grown(doc, new), NEW args,
         NEW t \in Ids(new), t \notin Cached, Moves(new, Base(args), {None}, t),
         Kids(new, t) = <<>>, ParentOf(new, t) \in Base(args) \cup {None},
         new.nodes[t].contents \notin Cached,
         Ids(new) \ Ids(doc) \subseteq {t} \cup Owned(new, t),
         \A k \in Owned(new, t) : Owned(new, k) = {}
  PROVE  Grows(new, Base(args), t)
PROOF
  <1> DEFINE B == Base(args)
  <1>1. B \subseteq Cached /\ Cached \subseteq Ids(doc) /\ Encloses(doc, B)
    BY BaseClosed, BaseEncloses DEF DomInv, GraphOK
  <1> HIDE DEF B
  <1>2. ASSUME NEW n \in new.changed, n # t
        PROVE  /\ n \in B /\ ParentOf(new, n) = None
               /\ new.nodes[n].contents \in B \cup {None}
    <2>1. n \in B /\ ParentOf(new, n) = None
      BY <1>2 DEF Moves, MayMove, B
    <2>2. new.nodes[n].contents = doc.nodes[n].contents
      BY <1>1, <2>1 DEF Grown
    <2>3. doc.nodes[n].contents \in B \cup {None}
      BY <1>1, <2>1 DEF Encloses, Near
    <2>4. QED
      BY <2>1, <2>2, <2>3
  <1>3. QED
    BY <1>1, <1>2 DEF Grows, Left, B

----------------------------------------------------------------------------
(* Bindings that only move nodes. *)

\* A node and the children of a fragment are moved among what is kept alive.
LEMMA MovedKept ==
  ASSUME NEW d, Sound(d), NEW B, Encloses(d, B), NEW n \in B, NEW p \in B \cup {None}
  PROVE  \A k \in ToSet(Moved(d, n)) : MayMove(B, B \cup {None}, None, k, p)
PROOF
  <1>1. None \notin B
    BY ArenaIs DEF Encloses, Sound
  <1>2. ToSet(Moved(d, n)) \subseteq B
    <2>1. CASE ~IsFragment(d, n)
      BY <2>1, MovedAre DEF Encloses
    <2>2. CASE IsFragment(d, n)
      BY <2>2 DEF Moved, Encloses, Near
    <2>3. QED
      BY <2>1, <2>2
  <1>3. QED
    BY <1>1, <1>2 DEF MayMove

LEMMA RelinkedKept ==
  ASSUME DomInv, FollowInv, KeepInv, Synced, NEW new, Relinked(doc, new),
         NEW next, NEW moved, BorrowNoting(new, next, moved), IsCall(next), next.then = "return",
         next.args \subseteq Cached, Moves(new, Base(next.args), Base(next.args) \cup {None}, None)
  PROVE  KeepInv' /\ KeepsReachable
PROOF
  <1>1. Sound(new) /\ Grown(doc, new) /\ Ids(new) = Ids(doc)
    BY DEF Relinked
  <1>2. Eases(new, Base(next.args))
    BY <1>1, MovesEase
  <1>3. QED
    BY <1>1, <1>2, BorrowKept

LEMMA InsertBeforeKept ==
  ASSUME DomInv, FollowInv, KeepInv, Synced, NEW p \in Reachable, NEW n \in Reachable,
         NEW before \in ToSet(Kids(doc, p)) \cup {None}, InsertBefore(p, n, before)
  PROVE  KeepInv' /\ KeepsReachable
PROOF
  <1> DEFINE new == PreInserted(doc, p, n, before)
             args == {p, n, before} \ {None}
             next == Returning(args)
             B == Base(args)
  <1>1. /\ MayPreInsert(doc, p, n, before) /\ BorrowNoting(new, next, new.changed \cap Ids(doc))
        /\ Sound(doc) /\ Reachable \subseteq Cached /\ Cached \subseteq Ids(doc)
    BY ReachableCached DEF InsertBefore, Borrow, DomInv, ArenaOK, GraphOK
  <1>2. p # n /\ MayGo(doc, p, n, None)
    BY <1>1 DEF MayPreInsert, MayInsert, MayGo, IsInclusiveAncestor
  <1>3. Encloses(doc, B) /\ args \cap Cached \subseteq B /\ Moves(doc, B, B \cup {None}, None)
    BY BaseEncloses, BaseClosed DEF Synced, Moves
  <1>4. args \subseteq Cached /\ {p, n} \subseteq B
    <2>1. p \in Base(Cached) /\ Base(Cached) \subseteq Cached /\ Near(doc, p) \subseteq Base(Cached)
      BY <1>1, BaseClosed
    <2>2. {p, n} \subseteq Cached /\ None \notin Cached
      BY <1>1, ArenaIs DEF Sound
    <2>3. QED
      BY <1>3, <2>1, <2>2 DEF Near
  <1>5. IsCall(next) /\ next.then = "return" /\ next.args = args
    BY ReturningIs
  <1> HIDE DEF next, B, args
  <1>6. \A k \in ToSet(Moved(doc, n)) : MayMove(B, B \cup {None}, None, k, p)
    BY <1>1, <1>3, <1>4, MovedKept
  <1>7. Moves(new, B, B \cup {None}, None)
    BY <1>1, <1>2, <1>3, <1>4, <1>6, PreInsertedMoves
  <1>8. Relinked(doc, new)
    BY <1>1, <1>2, PreInsertedKeeps
  <1> HIDE DEF new
  <1>9. QED
    BY <1>1, <1>4, <1>5, <1>7, <1>8, RelinkedKept DEF B

LEMMA RemoveChildKept ==
  ASSUME DomInv, FollowInv, KeepInv, Synced, NEW n \in Reachable, RemoveChild(n)
  PROVE  KeepInv' /\ KeepsReachable
PROOF
  <1> DEFINE p == ParentOf(doc, n)
             new == PreRemoved(doc, n)
             args == {n, p}
             next == Returning(args)
             B == Base(args)
  <1>1. /\ p # None /\ BorrowNoting(new, next, new.changed \cap Ids(doc))
        /\ Sound(doc) /\ Reachable \subseteq Cached /\ Cached \subseteq Ids(doc)
    BY ReachableCached DEF RemoveChild, Borrow, DomInv, ArenaOK, GraphOK
  <1>2. Encloses(doc, B) /\ args \cap Cached \subseteq B /\ Moves(doc, B, B \cup {None}, None)
    BY BaseEncloses, BaseClosed DEF Synced, Moves
  <1>3. args \subseteq Cached /\ n \in B
    <2>1. n \in Base(Cached) /\ Base(Cached) \subseteq Cached /\ Near(doc, n) \subseteq Base(Cached)
      BY <1>1, BaseClosed
    <2>2. QED
      BY <1>1, <1>2, <2>1 DEF Near, ParentOf
  <1>4. IsCall(next) /\ next.then = "return" /\ next.args = args
    BY ReturningIs
  <1> HIDE DEF next, B, args
  <1>5. Moves(new, B, B \cup {None}, None)
    BY <1>1, <1>2, <1>3, DetachedMoves DEF PreRemoved
  <1>6. Relinked(doc, new)
    BY <1>1, PreRemovedKeeps
  <1> HIDE DEF new
  <1>7. QED
    BY <1>1, <1>3, <1>4, <1>5, <1>6, RelinkedKept DEF B

LEMMA ReplaceChildKept ==
  ASSUME DomInv, FollowInv, KeepInv, Synced, NEW p \in Reachable, NEW n \in Reachable,
         NEW child \in Reachable, ReplaceChild(p, n, child)
  PROVE  KeepInv' /\ KeepsReachable
PROOF
  <1> DEFINE new == Replaced(doc, p, n, child)
             args == {p, n, child}
             next == Returning(args)
             B == Base(args)
  <1>1. /\ MayReplace(doc, p, n, child) /\ BorrowNoting(new, next, new.changed \cap Ids(doc))
        /\ Sound(doc) /\ Reachable \subseteq Cached /\ Cached \subseteq Ids(doc)
    BY ReachableCached DEF ReplaceChild, Borrow, DomInv, ArenaOK, GraphOK
  <1>2. p # n /\ MayGo(doc, p, n, child)
    BY <1>1 DEF MayReplace, MayInsert, MayGo, IsInclusiveAncestor
  <1>3. Encloses(doc, B) /\ args \cap Cached \subseteq B /\ Moves(doc, B, B \cup {None}, None)
    BY BaseEncloses, BaseClosed DEF Synced, Moves
  <1>4. args \subseteq Cached /\ {p, n, child} \subseteq B
    BY <1>1, <1>3
  <1>5. IsCall(next) /\ next.then = "return" /\ next.args = args
    BY ReturningIs
  <1> HIDE DEF next, B, args
  <1>6. \A k \in ToSet(Moved(doc, n)) : MayMove(B, B \cup {None}, None, k, p)
    BY <1>1, <1>3, <1>4, MovedKept
  <1>7. Moves(new, B, B \cup {None}, None)
    BY <1>1, <1>2, <1>3, <1>4, <1>6, ReplacedMoves
  <1>8. Relinked(doc, new)
    BY <1>1, <1>2, ReplacedKeeps
  <1> HIDE DEF new
  <1>9. QED
    BY <1>1, <1>4, <1>5, <1>7, <1>8, RelinkedKept DEF B

\* The children taken off are those of a node that is kept alive.
LEMMA EmptiedMoves ==
  ASSUME NEW d, Sound(d), d.changed = {}, NEW B, Encloses(d, B), NEW q \in B,
         NEW Q, NEW t, None \in Q
  PROVE  Moves(Emptied(d, q), B, Q, t)
PROOF
  <1>1. Moves(d, B, Q, t)
    BY DEF Moves
  <1>2. ToSet(Kids(d, q)) \subseteq B /\ B \subseteq Ids(d) /\ q \in Ids(d)
    BY DEF Encloses, Near
  <1>3. QED
    BY <1>1, <1>2, DetachedAllMoves DEF Emptied

LEMMA EmptiedKept ==
  ASSUME DomInv, FollowInv, KeepInv, Synced, NEW p \in Reachable, NEW q \in Base({p}),
         Borrow(Emptied(doc, q), Returning({p}))
  PROVE  KeepInv' /\ KeepsReachable
PROOF
  <1> DEFINE new == Emptied(doc, q)
             next == Returning({p})
             B == Base({p})
  <1>1. /\ BorrowNoting(new, next, new.changed \cap Ids(doc)) /\ doc.changed = {}
        /\ Sound(doc) /\ {p} \subseteq Cached /\ Encloses(doc, B)
    BY ReachableCached, BaseEncloses DEF Borrow, DomInv, ArenaOK, Synced
  <1>2. IsCall(next) /\ next.then = "return" /\ next.args = {p}
    BY ReturningIs
  <1> HIDE DEF next, B
  <1>3. Moves(new, B, B \cup {None}, None)
    BY <1>1, EmptiedMoves DEF B
  <1>4. q \in Ids(doc)
    BY <1>1 DEF Encloses, B
  <1>5. Relinked(doc, new)
    BY <1>1, <1>4, EmptiedKeeps
  <1> HIDE DEF new
  <1>6. QED
    BY <1>1, <1>2, <1>3, <1>5, RelinkedKept DEF B

----------------------------------------------------------------------------
(* Bindings that make a node and put it in. *)

LEMMA GrownKept ==
  ASSUME DomInv, FollowInv, KeepInv, Synced, NEW new, Sound(new), NEW t \in Ids(new),
         NEW next, NEW moved, BorrowNoting(new, next, moved), IsCall(next),
         next.then \in {"return", "wrap"},
         next.args \subseteq Cached, Grows(new, Base(next.args), t)
  PROVE  KeepInv' /\ KeepsReachable
BY BorrowKept

\* A blank node put under a node that is kept alive.
PutNew(e, p, t, B) ==
  /\ Sound(e) /\ p \in Ids(e) /\ t \in Ids(e) /\ p # t
  /\ Owned(e, t) = {} /\ p \in B /\ Moves(e, B, {None}, t)
NewIn(e, f, p, t, B) ==
  /\ Moves(f, B, {None}, t) /\ Kids(f, t) = <<>>
  /\ ParentOf(f, t) = ParentOf(e, t) \/ ParentOf(f, t) = p
  /\ f.nodes[t].contents = None /\ Ids(f) = Ids(e)

LEMMA PutNewMoves ==
  ASSUME NEW e, NEW p, NEW t, NEW before, NEW B, PutNew(e, p, t, B)
  PROVE  NewIn(e, Linked(e, p, t, before), p, t, B)
PROOF
  <1> DEFINE f == Linked(e, p, t, before)
             M == ToSet(Moved(e, t))
  <1> USE DEF PutNew
  <1>1. ToSet(Kids(e, t)) = {} /\ e.nodes[t].contents = None
    BY DEF Owned
  <1>2. Kids(e, t) \in Seq(Nat) /\ Kids(e, t) = <<>>
    BY <1>1, ArenaIs, Listed DEF Sound
  <1>3. M \subseteq {t}
    BY <1>1, MovedAre DEF Moved
  <1>4. Moves(f, B, {None}, t)
    BY <1>3, LinkedMoves DEF MayMove
  <1>5. PutIn(e, f, p, t, before)
    BY LinkedIs
  <1> HIDE DEF f, M
  <1>6. Kids(f, t) = <<>> /\ ParentOf(f, t) \in {ParentOf(e, t), p}
    BY <1>2, <1>5 DEF PutIn
  <1>7. f.nodes[t].contents = None /\ Ids(f) = Ids(e)
    BY <1>1, <1>5 DEF PutIn, Same
  <1>8. QED
    BY <1>4, <1>6, <1>7 DEF NewIn, f

\* New nodes are not noted, and a host is noted where it is.
LEMMA BlankMoves ==
  ASSUME NEW d, Sound(d), NEW e, Blank(d, e), NEW B, NEW Q, NEW t, Moves(d, B, Q, t)
  PROVE  Moves(e, B, Q, t)
PROOF
  <1>1. d.changed \subseteq Ids(d) /\ e.changed = d.changed
    BY DEF Sound, Blank
  <1>2. \A n \in d.changed : ParentOf(e, n) = ParentOf(d, n)
    BY <1>1 DEF Blank, ParentOf
  <1>3. QED
    BY <1>1, <1>2 DEF Moves

LEMMA HostedMoves ==
  ASSUME NEW d, Sound(d), NEW e, NEW t \in Ids(d), NEW g, Hosted(d, e, t, g),
         NEW B, NEW Q, Moves(d, B, Q, t), ParentOf(d, t) \in B \cup {None}
  PROVE  Moves(e, B, Q, t)
PROOF
  <1>1. d.changed \subseteq Ids(d) /\ e.changed = d.changed \cup {t}
    BY DEF Sound, Hosted
  <1>2. \A n \in e.changed : ParentOf(e, n) = ParentOf(d, n)
    BY <1>1 DEF Hosted
  <1>3. QED
    BY <1>1, <1>2 DEF Moves, MayMove

\* What a new template owns.
LEMMA HostedOwns ==
  ASSUME NEW d, NEW e, NEW t \in Ids(d), NEW g, Hosted(d, e, t, g), Kids(d, t) = <<>>, g # None
  PROVE  Kids(e, t) = <<>> /\ Owned(e, t) = {g} /\ Owned(e, g) = {}
PROOF
  <1>1. ToSet(<<>>) = {}
    BY DEF ToSet
  <1>2. Kids(e, t) = <<>> /\ e.nodes[t].contents = g
    BY DEF Hosted
  <1>3. Kids(e, g) = <<>> /\ e.nodes[g].contents = None
    BY DEF Hosted, Kids, New
  <1>4. QED
    BY <1>1, <1>2, <1>3 DEF Owned

LEMMA FilledGrows ==
  ASSUME DomInv, FollowInv, Synced, NEW args, NEW q \in Base(args),
         IsElement(doc, q) \/ IsFragment(doc, q),
         NEW kinds, NEW kind \in NodeKinds \ {"document", "fragment"}, kinds = {kind}
  PROVE  LET f == Filled(doc, q, kinds)
         IN  Sound(f) /\ \E t \in Ids(f) : Grows(f, Base(args), t)
PROOF
  <1> DEFINE B == Base(args)
             e == Emptied(doc, q)
             made == Added(e, kind)
             t == Newest(made)
             put == Linked(made, q, t, None)
             f == Filled(doc, q, kinds)
  <1>1. /\ Sound(doc) /\ doc.changed = {} /\ Encloses(doc, B) /\ B \subseteq Cached
        /\ Cached \subseteq Ids(doc) /\ q \in Ids(doc)
    BY BaseEncloses, BaseClosed DEF DomInv, ArenaOK, GraphOK, Synced
  <1>2. /\ Sound(e) /\ Ids(e) = Ids(doc) /\ Moves(e, B, {None}, t)
    BY <1>1, EmptiedKeeps, EmptiedMoves DEF Relinked
  <1>3. Sound(f) /\ Grown(doc, f)
    BY <1>1, FilledKeeps
  <1>4. f = IF kind = "template" THEN WithContents(put, t) ELSE put
    <2>1. (CHOOSE k \in kinds : TRUE) = kind /\ kinds # {}
      OBVIOUS
    <2>2. QED
      BY <2>1 DEF Filled
  <1> HIDE DEF e, f, B
  <1>5. /\ Blank(e, made) /\ Ids(made) = Ids(doc) \cup {t} /\ t \notin Ids(doc)
        /\ Sound(made)
    BY <1>2, AddedIs, BlankKeeps
  <1> HIDE DEF made, t
  <1>6. ParentOf(made, t) = None /\ Owned(made, t) = {}
    <2>1. ParentOf(made, t) = None /\ Kids(made, t) = <<>> /\ made.nodes[t].contents = None
      BY <1>2, <1>5 DEF Blank
    <2>2. ToSet(<<>>) = {}
      BY DEF ToSet
    <2>3. QED
      BY <2>1, <2>2 DEF Owned
  <1>7. Moves(made, B, {None}, t)
    BY <1>2, <1>5, BlankMoves
  <1>8. q \in Ids(made) /\ q # t /\ t \in Ids(made) /\ q \in B
    BY <1>1, <1>5 DEF B
  <1>9. /\ Moves(put, B, {None}, t) /\ Kids(put, t) = <<>>
        /\ ParentOf(put, t) \in {ParentOf(made, t), q}
        /\ put.nodes[t].contents = None /\ Ids(put) = Ids(made)
    <2>1. PutNew(made, q, t, B)
      BY <1>5, <1>6, <1>7, <1>8 DEF PutNew
    <2>2. NewIn(made, put, q, t, B)
      BY <2>1, PutNewMoves
    <2>3. QED
      BY <2>2 DEF NewIn
  <1>10. Sound(put)
    <2>1. IsChild(made, t) /\ IsParent(made, q)
      <3>1. made.nodes[t].kind = kind
        BY <1>2, AddedIs DEF made, t
      <3>2. made.nodes[q].kind = doc.nodes[q].kind
        <4>1. Relinked(doc, e)
          BY <1>1, EmptiedKeeps DEF e
        <4>2. QED
          BY <1>1, <1>2, <1>5, <4>1 DEF Blank, Relinked, Grown
      <3>3. QED
        BY <3>1, <3>2 DEF IsChild, IsParent, IsElement, IsFragment
    <2>2. Fits(made, q, t, {t})
      BY <1>5, <1>6, <1>8, <2>1, NewFits
    <2>3. q # Root
      BY <1>1 DEF Sound, IsElement, IsFragment
    <2>4. Relinked(made, put)
      BY <1>5, <2>2, <2>3, RelinkedSelf, LinkedKeeps
    <2>5. QED
      BY <2>4 DEF Relinked
  <1> HIDE DEF put
  <1>11. t \notin Cached /\ ParentOf(put, t) \in B \cup {None} /\ None \notin Cached
    BY <1>1, <1>5, <1>6, <1>8, <1>9, ArenaIs DEF Sound
  <1>12. CASE kind # "template"
    <2>1. f = put /\ Owned(put, t) = {}
      <3>1. ToSet(<<>>) = {}
        BY DEF ToSet
      <3>2. QED
        BY <1>4, <1>9, <1>12, <3>1 DEF Owned
    <2>2. Grows(f, Base(args), t)
      BY <1>3, <1>5, <1>8, <1>9, <1>11, <2>1, MovesGrow DEF B
    <2>3. QED
      BY <1>3, <1>5, <1>9, <2>1, <2>2 DEF f
  <1>13. CASE kind = "template"
    <2> DEFINE g == Len(put.nodes) + 1
    <2>1. Hosted(put, f, t, g) /\ t \in Ids(put)
      BY <1>4, <1>9, <1>8, <1>10, <1>13, WithContentsIs
    <2>2. g # None
      <3>1. Len(put.nodes) \in Nat
        BY <1>10, ArenaIs DEF Sound
      <3>2. QED
        BY <3>1 DEF None
    <2> HIDE DEF g
    <2>3. Kids(f, t) = <<>> /\ Owned(f, t) = {g} /\ Owned(f, g) = {}
      BY <1>9, <2>1, <2>2, HostedOwns
    <2>4. Moves(f, B, {None}, t)
      BY <1>9, <1>10, <1>11, <2>1, HostedMoves
    <2>5. /\ t \in Ids(f) /\ ParentOf(f, t) \in B \cup {None} /\ f.nodes[t].contents = g
          /\ Ids(f) \ Ids(doc) \subseteq {t} \cup {g}
          /\ g \notin Cached
      BY <1>1, <1>5, <1>9, <1>11, <2>1 DEF Hosted
    <2>6. Grows(f, Base(args), t)
      BY <1>3, <1>11, <2>3, <2>4, <2>5, MovesGrow DEF B
    <2>7. QED
      BY <1>3, <2>5, <2>6 DEF f
  <1>14. QED
    BY <1>12, <1>13

LEMMA FilledKept ==
  ASSUME DomInv, FollowInv, KeepInv, Synced, NEW p \in Reachable, NEW q \in Base({p}),
         IsElement(doc, q) \/ IsFragment(doc, q), NEW kinds,
         kinds = {} \/ \E kind \in NodeKinds \ {"document", "fragment"} : kinds = {kind},
         Borrow(Filled(doc, q, kinds), Returning({p}))
  PROVE  KeepInv' /\ KeepsReachable
PROOF
  <1>1. CASE kinds = {}
    <2>1. Borrow(Emptied(doc, q), Returning({p}))
      BY <1>1 DEF Filled
    <2>2. QED
      BY <2>1, EmptiedKept
  <1>2. ASSUME NEW kind \in NodeKinds \ {"document", "fragment"}, kinds = {kind}
        PROVE  KeepInv' /\ KeepsReachable
    <2> DEFINE new == Filled(doc, q, kinds)
               args == {p}
               next == Returning(args)
    <2>1. Sound(new) /\ \E t \in Ids(new) : Grows(new, Base(args), t)
      BY <1>2, FilledGrows
    <2>2. IsCall(next) /\ next.then = "return" /\ next.args = args /\ args \subseteq Cached
      BY ReturningIs, ReachableCached
    <2>3. BorrowNoting(new, next, new.changed \cap Ids(doc))
      BY DEF Borrow
    <2> HIDE DEF new, next, args
    <2>4. QED
      BY <2>1, <2>2, <2>3, GrownKept
  <1>3. QED
    BY <1>1, <1>2

LEMMA SetTextContentKept ==
  ASSUME DomInv, FollowInv, KeepInv, Synced, NEW p \in Reachable,
         NEW kinds \in {{}, {"text"}}, SetTextContent(p, kinds)
  PROVE  KeepInv' /\ KeepsReachable
PROOF
  <1>1. IsElement(doc, p) /\ Borrow(Filled(doc, p, kinds), Returning({p}))
    BY DEF SetTextContent
  <1>2. p \in Base({p})
    BY ReachableCached, BaseClosed
  <1>3. kinds = {} \/ \E kind \in NodeKinds \ {"document", "fragment"} : kinds = {kind}
    BY DEF NodeKinds
  <1>4. QED
    BY <1>1, <1>2, <1>3, FilledKept

LEMMA SetInnerHTMLKept ==
  ASSUME DomInv, FollowInv, KeepInv, Synced, NEW p \in Reachable,
         NEW kinds \in {{}} \cup {{k} : k \in Kinds \ {"fragment"}}, SetInnerHTML(p, kinds)
  PROVE  KeepInv' /\ KeepsReachable
PROOF
  <1> DEFINE q == MarkupTarget(doc, p)
  <1>1. IsElement(doc, p) /\ Borrow(Filled(doc, q, kinds), Returning({p}))
    BY DEF SetInnerHTML
  <1>2. p \in Base({p}) /\ Near(doc, p) \subseteq Base({p}) /\ p \in Ids(doc)
    BY ReachableCached, BaseClosed DEF DomInv, GraphOK
  <1>3. q \in Base({p})
    BY <1>2 DEF MarkupTarget, Near
  <1>4. IsElement(doc, q) \/ IsFragment(doc, q)
    BY <1>1, <1>2 DEF MarkupTarget, DomInv, ArenaOK, Sound, Hosts
  <1>5. kinds = {} \/ \E kind \in NodeKinds \ {"document", "fragment"} : kinds = {kind}
    BY ScriptAssumption DEF NodeKinds
  <1> HIDE DEF q
  <1>6. QED
    BY <1>1, <1>3, <1>4, <1>5, FilledKept

\* A split text node is put next to the one it was split from.
LEMMA SplitTextKept ==
  ASSUME DomInv, FollowInv, KeepInv, Synced, NEW n \in Reachable, SplitText(n)
  PROVE  KeepInv' /\ KeepsReachable
PROOF
  <1> DEFINE made == Added(doc, "text")
             p == ParentOf(doc, n)
             t == Newest(made)
             put == PreInserted(made, p, t, NextSibling(doc, n))
             new == IF p = None THEN made ELSE put
             args == {n}
             next == Wrapping(args, t)
             B == Base(args)
  <1>1. /\ doc.nodes[n].kind = "text" /\ BorrowNoting(new, next, new.changed \cap Ids(doc))
        /\ Sound(doc) /\ doc.changed = {} /\ n \in Cached /\ Cached \subseteq Ids(doc)
        /\ None \notin Cached
    BY ReachableCached, Zenon, ArenaIs
       DEF SplitText, Borrow, DomInv, ArenaOK, GraphOK, Synced, Sound
  <1>2. Sound(new) /\ Grown(doc, new)
    BY <1>1, SplitKeeps
  <1>3. "text" \in NodeKinds
    BY DEF NodeKinds
  <1>4. /\ Blank(doc, made) /\ Ids(made) = Ids(doc) \cup {t} /\ t \notin Ids(doc)
        /\ Sound(made)
    BY <1>1, <1>3, AddedIs, BlankKeeps
  <1>5. args \subseteq Cached
    BY <1>1
  <1>6. Encloses(doc, B) /\ B \subseteq Cached /\ n \in B
    BY <1>1, BaseEncloses, BaseClosed
  <1> HIDE DEF made, t, B, args
  <1>7. IsCall(next) /\ next.then = "wrap" /\ next.args = args
    <2>1. IsCall(next) /\ next.args = args
      BY WrappingIs
    <2>2. next.then = "wrap"
      BY DEF Wrapping, NoCall
    <2>3. QED
      BY <2>1, <2>2
  <1> HIDE DEF next
  <1>8. made.changed = {} /\ ParentOf(made, t) = None /\ Owned(made, t) = {}
    <2>1. ParentOf(made, t) = None /\ Kids(made, t) = <<>> /\ made.nodes[t].contents = None
      BY <1>4 DEF Blank
    <2>2. ToSet(<<>>) = {}
      BY DEF ToSet
    <2>3. QED
      BY <1>1, <1>4, <2>1, <2>2 DEF Owned, Blank
  <1>9. CASE p = None
    <2>1. new = made
      BY <1>9
    <2>2. Moves(made, B, B \cup {None}, None)
      BY <1>8 DEF Moves
    <2>3. \A k \in Ids(made) \ Ids(doc) : ParentOf(made, k) = None
      BY <1>4, <1>8
    <2>4. Eases(new, Base(args))
      BY <1>2, <2>1, <2>2, <2>3, MovesEase DEF B
    <2> HIDE DEF new
    <2>5. QED
      BY <1>1, <1>2, <1>5, <1>7, <2>4, BorrowKept
  <1>10. CASE p # None
    <2>1. p \in B /\ p \in Ids(made) /\ p # t /\ t \in Ids(made)
      BY <1>4, <1>6, <1>10 DEF Encloses, Near, ParentOf
    <2>2. Detached(made, t) = made
      BY <1>8 DEF Detached
    <2>3. PICK ref : put = Linked(made, p, t, ref)
      BY <2>2 DEF PreInserted
    <2>4. PutNew(made, p, t, B)
      BY <1>4, <1>8, <2>1 DEF PutNew, Moves
    <2>5. new = put
      BY <1>10
    <2> HIDE DEF put, new, p
    <2>6. NewIn(made, new, p, t, B)
      BY <2>3, <2>4, <2>5, PutNewMoves
    <2>7. /\ Moves(new, B, {None}, t) /\ Kids(new, t) = <<>> /\ new.nodes[t].contents = None
          /\ ParentOf(new, t) \in B \cup {None} /\ Ids(new) = Ids(made)
      BY <1>8, <2>1, <2>6 DEF NewIn
    <2>8. Owned(new, t) = {}
      <3>1. ToSet(<<>>) = {}
        BY DEF ToSet
      <3>2. QED
        BY <2>7, <3>1 DEF Owned
    <2>9. t \in Ids(new) /\ t \notin Cached /\ Ids(new) \ Ids(doc) \subseteq {t}
      BY <1>1, <1>4, <2>7
    <2>10. Grows(new, Base(args), t)
      BY <1>1, <1>2, <2>7, <2>8, <2>9, MovesGrow DEF B
    <2>11. QED
      BY <1>1, <1>2, <1>5, <1>7, <2>9, <2>10, GrownKept
  <1>11. QED
    BY <1>9, <1>10

\* A node is made, and not yet put anywhere.
LEMMA BlankEases ==
  ASSUME DomInv, FollowInv, Synced, NEW new, Sound(new), Blank(doc, new), NEW args
  PROVE  Eases(new, Base(args))
PROOF
  <1>1. Grown(doc, new) /\ new.changed = {}
    BY BlankGrows DEF Blank, Synced
  <1>2. Moves(new, Base(args), Base(args) \cup {None}, None)
    BY <1>1 DEF Moves
  <1>3. \A n \in Ids(new) \ Ids(doc) : ParentOf(new, n) = None
    BY DEF Blank
  <1>4. QED
    BY <1>1, <1>2, <1>3, MovesEase

LEMMA BlankApart ==
  ASSUME DomInv, Synced, NEW new, Blank(doc, new), NEW n, n \notin Ids(doc),
         Ids(new) = Ids(doc) \cup {n}
  PROVE  Apart(new, n)
PROOF
  <1>1. ParentOf(new, n) = None /\ Kids(new, n) = <<>> /\ new.nodes[n].contents = None
    BY DEF Blank
  <1>2. ToSet(<<>>) = {}
    BY DEF ToSet
  <1>3. Owned(new, n) = {}
    BY <1>1, <1>2 DEF Owned
  <1>4. Left(new) \subseteq {n} /\ n \notin Cached
    BY DEF Left, Blank, Synced, DomInv, GraphOK
  <1>5. QED
    BY <1>1, <1>3, <1>4 DEF Apart

LEMMA CreateKept ==
  ASSUME DomInv, FollowInv, KeepInv, Synced, NEW kind \in Kinds, Create(kind)
  PROVE  KeepInv' /\ KeepsReachable
PROOF
  <1> DEFINE new == Added(doc, kind)
             node == Len(doc.nodes) + 1
             w == Wrapping({}, node)
             next == [w EXCEPT !.then = IF kind = "template" THEN "contents" ELSE "wrap"]
  <1>1. BorrowNoting(new, next, new.changed \cap Ids(doc)) /\ Sound(doc)
    BY DEF Create, Borrow, DomInv, ArenaOK
  <1>2. kind \in NodeKinds
    BY ScriptAssumption DEF NodeKinds
  <1>3. /\ Blank(doc, new) /\ Newest(new) = node /\ node \notin Ids(doc)
        /\ Ids(new) = Ids(doc) \cup {node}
    BY <1>1, <1>2, AddedIs
  <1> HIDE DEF new, node
  <1>4. Sound(new)
    BY <1>1, <1>3, BlankKeeps
  <1>5. IsCall(w) /\ w.args = {} /\ w.node = node /\ w.gathered = FALSE
    BY WrappingIs
  <1> HIDE DEF w
  <1>6. /\ IsCall(next) /\ next.args = {} /\ next.node = node
        /\ next.then = IF kind = "template" THEN "contents" ELSE "wrap"
    BY <1>5, ThenIs
  <1> HIDE DEF next
  <1>7. Eases(new, Base(next.args)) /\ Apart(new, next.node)
    BY <1>3, <1>4, <1>6, BlankEases, BlankApart
  <1>8. QED
    BY <1>1, <1>4, <1>6, <1>7, BorrowKept

\* A template is still apart when it gets its contents.
LEMMA AddContentsKept ==
  ASSUME DomInv, FollowInv, KeepInv, AddContents
  PROVE  KeepInv' /\ KeepsReachable
PROOF
  <1> DEFINE t == call.node
             new == WithContents(doc, t)
             w == Wrapping({}, t)
             g == Len(doc.nodes) + 1
  <1>1. /\ BorrowNoting(new, w, new.changed \cap Ids(doc)) /\ t \in Ids(doc)
        /\ Hosted(doc, new, t, g) /\ Sound(new) /\ IsCall(w)
    BY AddContentsIs
  <1>2. Synced /\ Lone(t) /\ doc.changed = {}
    BY DEF AddContents, KeepInv, Synced
  <1>3. w.args = {} /\ w.gathered = FALSE /\ w.then = "wrap"
    BY DEF Wrapping, NoCall
  <1>5. Cached \subseteq Ids(doc) /\ None \notin Cached
    BY ArenaIs DEF DomInv, GraphOK, ArenaOK, Sound
  <1> HIDE DEF new, w, g
  <1>6. Left(new) \subseteq {t, g}
    BY <1>1, <1>2 DEF Left, Hosted
  <1>7. ParentOf(new, t) = None /\ t \notin Cached
    BY <1>1, <1>2 DEF Lone, Hosted
  <1>8. ParentOf(new, g) = None /\ g \notin Cached
    BY <1>1, <1>5 DEF Hosted, ParentOf, New
  <1>9. Eases(new, Base({}))
    BY <1>5, <1>6, <1>7, <1>8 DEF Eases
  <1>10. QED
    BY <1>1, <1>2, <1>3, <1>9, BorrowKept

LEMMA CloneNodeKept ==
  ASSUME DomInv, FollowInv, KeepInv, Synced, NEW n \in Reachable, NEW deep \in BOOLEAN,
         CloneNode(n, deep)
  PROVE  KeepInv' /\ KeepsReachable
PROOF
  <1> DEFINE new == Cloned(doc, n, deep)
             node == Len(doc.nodes) + 1
             args == {n}
             next == Wrapping(args, node)
  <1>1. /\ BorrowNoting(new, next, new.changed \cap Ids(doc)) /\ Sound(doc) /\ doc.changed = {}
        /\ n \in Cached /\ Cached \subseteq Ids(doc) /\ None \notin Cached
    BY ReachableCached, ArenaIs DEF CloneNode, Borrow, DomInv, ArenaOK, GraphOK, Synced, Sound
  <1>2. Sound(new) /\ \E copy : CopiedInto(doc, new, n, deep, Copied(doc, n, deep), copy)
    BY <1>1, ClonedIs, ClonedKeeps
  <1> HIDE DEF args, node
  <1>3. IsCall(next) /\ next.args = args /\ next.gathered = FALSE
    BY WrappingIs
  <1>4. next.then = "wrap"
    BY DEF Wrapping, NoCall
  <1> HIDE DEF new, next
  <1>5. PICK copy : CopiedInto(doc, new, n, deep, Copied(doc, n, deep), copy)
    BY <1>2
  <1>6. Left(new) \subseteq Ids(new) \ Ids(doc)
    BY <1>1, <1>5 DEF Left, CopiedInto
  <1>7. ASSUME NEW k \in Ids(new) \ Ids(doc)
        PROVE  ParentOf(new, k) \notin Cached
    <2>1. PICK m \in Copied(doc, n, deep) : k = copy[m]
      BY <1>5 DEF CopiedInto
    <2>2. ParentOf(new, k) = None \/ ParentOf(new, k) = CopyOf(copy, ParentOf(doc, m))
      BY <1>5, <2>1 DEF CopiedInto
    <2>3. \A x : CopyOf(copy, x) \in (Ids(new) \ Ids(doc)) \cup {None}
      BY <1>5 DEF CopiedInto, CopyOf
    <2>4. QED
      BY <1>1, <2>2, <2>3
  <1>8. Eases(new, Base(args))
    BY <1>1, <1>6, <1>7 DEF Eases
  <1>9. args \subseteq Cached
    BY <1>1 DEF args
  <1>10. QED
    BY <1>1, <1>2, <1>3, <1>4, <1>8, <1>9, BorrowKept

----------------------------------------------------------------------------
(* The last borrow of a variadic call. *)

\* A lone node ends up where it is kept alive, with nothing in it.
LEMMA LoneGrows ==
  ASSUME DomInv, FollowInv, Synced, NEW args, NEW t \in Ids(doc), Apart(doc, t), NEW new,
         Relinked(doc, new), Moves(new, Base(args), {None}, t)
  PROVE  Grows(new, Base(args), t)
PROOF
  <1> DEFINE B == Base(args)
  <1>1. /\ Sound(doc) /\ Sound(new) /\ Grown(doc, new) /\ Ids(new) = Ids(doc)
        /\ B \subseteq Cached /\ Cached \subseteq Ids(doc) /\ None \notin Cached
    BY BaseClosed, ArenaIs DEF DomInv, ArenaOK, GraphOK, Relinked, Sound
  <1>2. t \notin Cached /\ t # None /\ ParentOf(doc, t) = None /\ Owned(doc, t) = {}
    BY <1>1, ArenaIs DEF Apart, Sound
  <1> HIDE DEF B
  <1>3. ParentOf(new, t) \in B \cup {None}
    BY <1>1, <1>2 DEF Moves, MayMove, Grown, B
  <1>4. ASSUME NEW k \in Ids(new), ParentOf(new, k) = t
        PROVE  FALSE
    <2>1. CASE k \in new.changed
      <3>1. ParentOf(new, k) \in B \cup {None}
        BY <2>1 DEF Moves, MayMove, B
      <3>2. QED
        BY <1>1, <1>2, <1>4, <3>1
    <2>2. CASE k \notin new.changed
      <3>1. ParentOf(doc, k) = t
        BY <1>1, <1>4, <2>2 DEF Grown
      <3>2. k \in ToSet(Kids(doc, t))
        BY <1>1, <1>4, <3>1 DEF Sound, ListsChildren
      <3>3. QED
        BY <1>2, <3>2 DEF Owned
    <2>3. QED
      BY <2>1, <2>2
  <1>5. ToSet(Kids(new, t)) = {}
    BY <1>1, <1>4 DEF Sound, ListsChildren
  <1>6. Kids(new, t) = <<>>
    <2>1. Kids(new, t) \in Seq(Nat)
      BY <1>1, ArenaIs DEF Sound
    <2>2. QED
      BY <1>5, <2>1, Listed
  <1>7. new.nodes[t].contents = None
    <2>1. doc.nodes[t].contents = None
      BY <1>2 DEF Owned
    <2>2. QED
      BY <1>1, <2>1 DEF Grown
  <1>8. Owned(new, t) = {}
    BY <1>5, <1>7 DEF Owned
  <1>9. QED
    BY <1>1, <1>2, <1>3, <1>6, <1>7, <1>8, MovesGrow DEF B

LEMMA PlaceKept ==
  ASSUME DomInv, FollowInv, KeepInv, Synced,
         NEW c, c.args \subseteq Cached, {c.parent, c.node, c.this} \subseteq Ids(doc), Place(c),
         c.gathered \/ /\ {c.parent, c.this} \subseteq Base(c.args)
                       /\ c.node \in Base(c.args) \/ Apart(doc, c.node)
  PROVE  KeepInv' /\ KeepsReachable
PROOF
  <1> DEFINE new == Finished(c)
             next == PlacedCall(c.args, c.parent, c.asked, c.gathered)
             B == Base(c.args)
             n == c.node
  <1>1. BorrowNoting(new, next, new.changed \cap Ids(doc))
    BY Zenon DEF Place, PlacedCall, Borrow
  <1>2. Relinked(doc, new) /\ Sound(doc) /\ doc.changed = {}
    BY FinishedKeeps DEF DomInv, ArenaOK, Synced
  <1>3. IsCall(next) /\ next.then = "return" /\ next.args = c.args /\ next.gathered = c.gathered
    BY PlacedCallIs
  <1>4. Encloses(doc, B)
    BY BaseEncloses
  <1> HIDE DEF next, B
  <1>5. CASE c.gathered
    BY <1>1, <1>2, <1>3, <1>5, BorrowKept DEF Relinked
  <1>6. CASE {c.parent, c.this} \subseteq B /\ n \in B
    <2>1. \A k \in ToSet(Moved(doc, n)) : MayMove(B, B \cup {None}, None, k, c.parent)
      BY <1>2, <1>4, <1>6, MovedKept
    <2>2. Moves(new, B, B \cup {None}, None)
      BY <1>2, <1>4, <1>6, <2>1, FinishedMoves
    <2> HIDE DEF new
    <2>3. QED
      BY <1>1, <1>2, <1>3, <2>2, RelinkedKept DEF B
  <1>7. CASE {c.parent, c.this} \subseteq B /\ Apart(doc, n)
    <2>1. Moved(doc, n) = <<n>> \/ Moved(doc, n) = Kids(doc, n)
      BY DEF Moved
    <2>2. ToSet(Kids(doc, n)) = {} /\ ToSet(<<n>>) = {n}
      BY <1>7 DEF Apart, Owned, ToSet
    <2>3. \A k \in ToSet(Moved(doc, n)) : MayMove(B, {None}, n, k, c.parent)
      BY <1>7, <2>1, <2>2 DEF MayMove
    <2>4. Moves(new, B, {None}, n)
      BY <1>2, <1>4, <1>7, <2>3, FinishedMoves
    <2> HIDE DEF new
    <2>5. Grows(new, B, n)
      BY <1>2, <1>7, <2>4, LoneGrows DEF B
    <2>6. Sound(new) /\ n \in Ids(new)
      BY <1>2 DEF Relinked
    <2> HIDE DEF n
    <2>7. QED
      BY <1>1, <1>3, <2>5, <2>6, GrownKept DEF B
  <1>8. QED
    BY <1>5, <1>6, <1>7 DEF B

LEMMA PlaceNodeKept ==
  ASSUME DomInv, FollowInv, KeepInv, PlaceNode
  PROVE  KeepInv' /\ KeepsReachable
PROOF
  <1>1. call.then = "place" /\ Synced /\ (Place(call) \/ Borrow(doc, NoCall))
    BY DEF PlaceNode
  <1>2. /\ {call.parent, call.node, call.this} \subseteq Ids(doc)
        /\ call.args \subseteq Cached
    BY <1>1 DEF DomInv, CallOK, Names, KeepInv, Roots
  <1>3. CASE Place(call)
    <2>1. CASE call.gathered
      BY <1>1, <1>2, <1>3, <2>1, PlaceKept
    <2>2. CASE ~call.gathered
      <3>1. Apart(doc, call.node)
        BY <1>1, <2>2 DEF KeepInv, Lone, Apart, Left, Synced
      <3>2. call.this \in Base(call.args)
        BY <1>1, <1>2, <2>2, BaseClosed DEF KeepInv
      <3>3. Near(doc, call.this) \subseteq Base(call.args)
        BY <1>1, <3>2, BaseClosed
      <3>4. call.parent # None
        BY <1>2, ArenaIs DEF DomInv, ArenaOK, Sound
      <3>5. call.parent \in Base(call.args)
        BY <1>1, <2>2, <3>2, <3>3, <3>4 DEF KeepInv, Near, ParentOf
      <3>6. QED
        BY <1>1, <1>2, <1>3, <3>1, <3>2, <3>5, PlaceKept
    <2>3. QED
      BY <2>1, <2>2
  <1>4. CASE Borrow(doc, NoCall)
    <2> DEFINE next == NoCall
    <2>1. BorrowNoting(doc, next, doc.changed \cap Ids(doc))
      BY <1>4 DEF Borrow
    <2>2. Sound(doc) /\ IsCall(next) /\ next.args = {} /\ next.then = "none"
      BY NoCallIs DEF DomInv, ArenaOK
    <2>3. Left(doc) = {}
      BY <1>1 DEF Left, Synced
    <2>4. Eases(doc, Base(next.args))
      BY <2>3 DEF Eases
    <2> HIDE DEF next
    <2>5. QED
      BY <1>1, <2>1, <2>2, <2>4, BorrowKept
  <1>5. QED
    BY <1>1, <1>3, <1>4

----------------------------------------------------------------------------
(* Arguments left in a fragment, when one of them is refused. *)

\* The nodes of S are moved to the holder, with their children.
Supplies(d, holder, S) ==
  /\ Sound(d) /\ d.changed = {} /\ holder \in Ids(d) \ S /\ S \subseteq Ids(d)
  /\ \A m \in S : ToSet(Kids(d, m)) \subseteq S
GatheringIn(d, holder, S) ==
  {r \in Gathering(d, holder) : Moves(r.doc, S, {None, holder}, None)}

LEMMA GatherStepMoves ==
  ASSUME NEW d, NEW holder, NEW S, Supplies(d, holder, S), NEW n \in S,
         NEW r \in GatheringIn(d, holder, S)
  PROVE  GatherStep(holder, n, r) \in GatheringIn(d, holder, S)
PROOF
  <1> DEFINE s == GatherStep(holder, n, r)
             Q == {None, holder}
             e == r.doc
  <1>1. /\ Sound(d) /\ d.changed = {} /\ holder \in Ids(d) /\ holder \notin S /\ n \in Ids(d)
        /\ r \in Gathering(d, holder) /\ Moves(e, S, Q, None) /\ S \subseteq Ids(d)
    BY DEF Supplies, GatheringIn
  <1>2. Sound(e) /\ Grown(d, e) /\ Ids(e) = Ids(d)
    BY <1>1 DEF Gathering, Relinked
  <1>3. s \in Gathering(d, holder)
    BY <1>1, GatherStepKeeps
  <1>4. None \notin Ids(d)
    BY <1>1, ArenaIs DEF Sound
  <1>5. ASSUME NEW k \in ToSet(Moved(e, n))
        PROVE  k \in S
    <2>1. CASE ~IsFragment(e, n)
      BY <1>1, <1>2, <1>5, <2>1, MovedAre
    <2>2. CASE IsFragment(e, n)
      <3>1. k \in Ids(e) /\ ParentOf(e, k) = n
        BY <1>1, <1>2, <1>5, <2>2, MovedAre
      <3>2. k \notin e.changed
        BY <1>1, <1>2, <1>4, <3>1 DEF Moves, MayMove
      <3>3. ParentOf(d, k) = n
        BY <1>2, <3>1, <3>2 DEF Grown
      <3>4. k \in ToSet(Kids(d, n))
        BY <1>1, <1>2, <3>1, <3>3 DEF Sound, ListsChildren
      <3>5. QED
        BY <3>4 DEF Supplies
    <2>3. QED
      BY <2>1, <2>2
  <1>6. \A k \in ToSet(Moved(e, n)) : MayMove(S, Q, None, k, holder)
    BY <1>1, <1>4, <1>5 DEF MayMove
  <1>7. Moves(PreInserted(e, holder, n, None), S, Q, None)
    BY <1>1, <1>2, <1>6, PreInsertedMoves
  <1>8. s.doc = PreInserted(e, holder, n, None) \/ s.doc = e
    BY <1>1 DEF GatherStep, Gathering
  <1> HIDE DEF s, e
  <1>9. Moves(s.doc, S, Q, None)
    BY <1>1, <1>7, <1>8
  <1>10. QED
    BY <1>3, <1>9 DEF GatheringIn, s

LEMMA FilledMoves ==
  ASSUME NEW d, NEW holder, NEW S, Supplies(d, holder, S), NEW count \in Nat,
         NEW given \in [1..count -> S], NEW first \in GatheringIn(d, holder, S),
         NEW f, FilledOf(first, holder, given, count, f)
  PROVE  f[count] \in GatheringIn(d, holder, S)
PROOF
  <1> DEFINE V == GatheringIn(d, holder, S)
  <1>1. \A k \in 0..count : f[k] = IF k = 0 THEN first ELSE GatherStep(holder, given[k], f[k - 1])
    <2>1. f = [k \in 0..count |-> IF k = 0 THEN first ELSE GatherStep(holder, given[k], f[k - 1])]
      BY Zenon DEF FilledOf
    <2>2. QED
      BY <2>1
  <1>2. f[0] \in V
    BY <1>1
  <1>3. ASSUME NEW k \in 1..count, f[k - 1] \in V
        PROVE  f[k] \in V
    <2>1. f[k] = GatherStep(holder, given[k], f[k - 1]) /\ given[k] \in S
      BY <1>1
    <2>2. QED
      BY <1>3, <2>1, GatherStepMoves
  <1> HIDE DEF V
  <1>4. \A k \in 0..count : f[k] \in V
    BY <1>2, <1>3, RepeatsWithin
  <1>5. QED
    BY <1>4 DEF V

\* What is gathered comes from what is kept alive, and from new text nodes.
LEMMA GatheredMoves ==
  ASSUME DomInv, FollowInv, Synced, NEW args, NEW items \in ItemsOf(doc), Len(items) # 1,
         ToSet(items) \subseteq Base(args) \cup {None},
         NEW made, NEW base, GatheredFrom(items, made, base)
  PROVE  LET g      == Gathered(items)
             holder == Len(doc.nodes) + Texts(items) + 1
         IN  /\ Sound(g.doc) /\ Grown(base, g.doc) /\ Ids(g.doc) = Ids(base)
             /\ Moves(g.doc, Base(args) \cup (Ids(made) \ Ids(doc)), {None, holder}, None)
PROOF
  <1> DEFINE g == Gathered(items)
             B == Base(args)
             S == B \cup (Ids(made) \ Ids(doc))
             holder == Len(doc.nodes) + Texts(items) + 1
             given == Indices(items)
             first == [doc |-> base, node |-> holder, ok |-> TRUE]
             count == Len(items)
  <1>1. /\ Encloses(doc, B) /\ B \subseteq Cached /\ Cached \subseteq Ids(doc) /\ Sound(doc)
        /\ doc.changed = {}
    BY BaseClosed, BaseEncloses DEF DomInv, ArenaOK, GraphOK, Synced
  <1>2. /\ Blank(doc, made) /\ Sound(made) /\ given \in [1..count -> Ids(made)]
        /\ \A i \in 1..count : IF items[i] # None THEN given[i] = items[i]
                               ELSE given[i] \notin Ids(doc)
        /\ Blank(made, base) /\ Sound(base) /\ Ids(base) = Ids(made) \cup {holder}
        /\ holder \notin Ids(made)
    BY DEF GatheredFrom
  <1>3. PICK f : FilledOf(first, holder, given, count, f) /\ g = f[count]
    BY Zenon DEF GatheredFrom
  <1>4. count \in Nat /\ \A i \in 1..count : items[i] \in ToSet(items)
    <2>1. count \in Nat /\ items \in [1..count -> Ids(doc) \cup {None}]
      BY ItemsAre
    <2>2. QED
      BY <2>1 DEF ToSet
  <1> HIDE DEF B, holder, given, count, g
  <1>5. given \in [1..count -> S]
    <2>1. \A i \in 1..count : given[i] \in S
      BY <1>2, <1>4 DEF B
    <2>2. QED
      BY <1>2, <2>1
  <1>6. Supplies(base, holder, S)
    <2>1. S \subseteq Ids(base) /\ holder \in Ids(base) \ S /\ base.changed = {}
      BY <1>1, <1>2 DEF Blank
    <2>2. ASSUME NEW m \in S
          PROVE  ToSet(Kids(base, m)) \subseteq S
      <3>1. CASE m \in B
        <4>1. Kids(base, m) = Kids(doc, m)
          BY <1>1, <1>2, <3>1 DEF Blank, Kids
        <4>2. QED
          BY <1>1, <3>1, <4>1 DEF Encloses, Near
      <3>2. CASE m \in Ids(made) \ Ids(doc)
        <4>1. Kids(base, m) = <<>>
          BY <1>1, <1>2, <3>2 DEF Blank, Kids
        <4>2. ToSet(<<>>) = {}
          BY DEF ToSet
        <4>3. QED
          BY <4>1, <4>2
      <3>3. QED
        BY <3>1, <3>2
    <2>3. QED
      BY <1>2, <2>1, <2>2 DEF Supplies
  <1> HIDE DEF S
  <1>7. first \in GatheringIn(base, holder, S)
    <2>1. first.doc = base /\ base \in Documents
      BY <1>2 DEF Sound
    <2>2. Relinked(base, base)
      BY <1>2, RelinkedSelf
    <2>3. Moves(base, S, {None, holder}, None)
      BY <1>6 DEF Supplies, Moves
    <2>4. first \in [doc : Documents, node : {holder}, ok : BOOLEAN]
      BY <2>1
    <2>5. QED
      BY <2>1, <2>2, <2>3, <2>4 DEF GatheringIn, Gathering
  <1> HIDE DEF first
  <1>8. g \in GatheringIn(base, holder, S)
    BY <1>3, <1>4, <1>5, <1>6, <1>7, FilledMoves
  <1>9. QED
    BY <1>8 DEF GatheringIn, Gathering, Relinked, S, B, g, holder

\* The fragment of a call that is refused grows, out of reach.
LEMMA GatheredGrows ==
  ASSUME DomInv, FollowInv, Synced, NEW args, NEW items \in ItemsOf(doc), Len(items) # 1,
         ToSet(items) \subseteq Base(args) \cup {None}
  PROVE  LET g == Gathered(items)
         IN  \E t \in Ids(g.doc) : Grows(g.doc, Base(args), t)
PROOF
  <1> DEFINE g == Gathered(items)
             new == g.doc
             B == Base(args)
             t == Len(doc.nodes) + Texts(items) + 1
  <1>1. /\ Encloses(doc, B) /\ B \subseteq Cached /\ Cached \subseteq Ids(doc) /\ Sound(doc)
        /\ doc.changed = {} /\ None \notin Cached
    BY BaseClosed, BaseEncloses, ArenaIs DEF DomInv, ArenaOK, GraphOK, Synced, Sound
  <1>2. PICK made, base : GatheredFrom(items, made, base)
    BY <1>1, GatheredIs
  <1> DEFINE N == Ids(made) \ Ids(doc)
  <1>3. /\ Blank(doc, made) /\ Sound(made) /\ Blank(made, base) /\ Sound(base)
        /\ Ids(base) = Ids(made) \cup {t} /\ t \notin Ids(made)
        /\ \A k \in N : made.nodes[k].kind = "text"
    BY <1>2 DEF GatheredFrom
  <1>4. /\ Sound(new) /\ Grown(base, new) /\ Ids(new) = Ids(base)
        /\ Moves(new, B \cup N, {None, t}, None)
    BY <1>2, GatheredMoves
  <1> HIDE DEF g, new, B, t
  <1>5. t \in Ids(new) /\ t \notin Ids(doc) /\ t \notin Cached /\ t # None /\ t \notin B \cup N
    <2>1. Ids(doc) \subseteq Ids(made)
      BY <1>3 DEF Blank
    <2>2. None \notin Ids(new)
      BY <1>4, ArenaIs DEF Sound
    <2>3. QED
      BY <1>1, <1>3, <1>4, <2>1, <2>2
  <1>6. Left(new) \subseteq B \cup N \cup {t}
    <2>1. \A n \in new.changed : n \in B \cup N
      <3>1. None \notin new.changed
        BY <1>4, ArenaIs DEF Sound
      <3>2. QED
        BY <1>4, <3>1 DEF Moves, MayMove
    <2>2. Ids(new) \ Ids(doc) \subseteq N \cup {t}
      BY <1>3, <1>4
    <2>3. QED
      BY <2>1, <2>2 DEF Left
  <1>7. \A n \in new.changed : ParentOf(new, n) \in {None, t}
    <2>1. None \notin new.changed
      BY <1>4, ArenaIs DEF Sound
    <2>2. QED
      BY <1>4, <2>1 DEF Moves, MayMove
  <1>8. ASSUME NEW n \in N \cup {t}
        PROVE  ParentOf(base, n) = None /\ base.nodes[n].contents = None
    <2>1. CASE n = t
      BY <1>3, <2>1 DEF Blank
    <2>2. CASE n \in N
      <3>1. ParentOf(made, n) = None /\ made.nodes[n].contents = None
        BY <1>3, <2>2 DEF Blank
      <3>2. base.nodes[n] = made.nodes[n]
        BY <1>3, <2>2 DEF Blank
      <3>3. QED
        BY <3>1, <3>2 DEF ParentOf
    <2>3. QED
      BY <2>1, <2>2
  <1>9. ASSUME NEW n \in N \cup {t}
        PROVE  new.nodes[n].contents = None /\ ParentOf(new, n) \in {None, t}
    <2>1. n \in Ids(base)
      BY <1>3, <1>9
    <2>2. new.nodes[n].contents = None
      BY <1>4, <1>8, <2>1 DEF Grown
    <2>3. n \notin new.changed => ParentOf(new, n) = None
      BY <1>4, <1>8, <2>1 DEF Grown
    <2>4. QED
      BY <1>7, <2>2, <2>3
  <1>10. ParentOf(new, t) = None
    BY <1>5, <1>9, NotOwnChild, <1>4
  <1>11. ASSUME NEW n \in Left(new), n \in Cached
         PROVE  /\ n \in B /\ ParentOf(new, n) \in {None, t}
                /\ new.nodes[n].contents \in B \cup {None}
    <2>1. n \in Ids(doc) /\ n \in new.changed /\ n \in B
      BY <1>1, <1>5, <1>6, <1>11 DEF Left
    <2>2. new.nodes[n].contents = doc.nodes[n].contents
      <3>1. made.nodes[n] = doc.nodes[n] /\ n \in Ids(made)
        BY <1>3, <2>1 DEF Blank
      <3>2. base.nodes[n] = made.nodes[n] /\ n \in Ids(base)
        BY <1>3, <3>1 DEF Blank
      <3>3. QED
        BY <1>4, <3>1, <3>2 DEF Grown
    <2>3. doc.nodes[n].contents \in B \cup {None}
      BY <1>1, <2>1 DEF Encloses, Near
    <2>4. QED
      BY <1>7, <2>1, <2>2, <2>3
  <1>12. ASSUME NEW n \in Left(new), n \notin Cached
         PROVE  n \in {t} \cup Owned(new, t) \/ Links(new, n) = {None}
    <2>1. n \in N \cup {t}
      BY <1>1, <1>6, <1>12
    <2>2. CASE ParentOf(new, n) = None
      BY <1>9, <2>1, <2>2 DEF Links
    <2>3. CASE ParentOf(new, n) = t
      <3>1. n \in Ids(new)
        BY <1>3, <1>4, <2>1
      <3>2. n \in ToSet(Kids(new, t))
        BY <1>4, <1>5, <2>3, <3>1 DEF Sound, ListsChildren
      <3>3. QED
        BY <3>2 DEF Owned
    <2>4. QED
      BY <1>9, <2>1, <2>2, <2>3
  <1>13. ASSUME NEW n \in Owned(new, t) \ Cached
         PROVE  Owned(new, n) = {}
    <2>1. n \in Ids(new) /\ n # t /\ ParentOf(new, n) = t
      <3>1. new.nodes[t].contents = None
        BY <1>9
      <3>2. n \in ToSet(Kids(new, t))
        BY <1>13, <3>1 DEF Owned
      <3>3. n \in Ids(new) /\ ParentOf(new, n) = t
        BY <1>4, <1>5, <3>2 DEF Sound, ListsChildren
      <3>4. QED
        BY <1>5, <1>10, <3>3
    <2>2. n \in N
      <3>1. n \in new.changed
        <4>1. SUFFICES ASSUME n \notin new.changed
                       PROVE  FALSE
          OBVIOUS
        <4>2. ParentOf(base, n) = t
          BY <1>4, <2>1, <4>1 DEF Grown
        <4>3. n \in ToSet(Kids(base, t)) /\ Kids(base, t) = <<>>
          BY <1>3, <1>4, <2>1, <4>2 DEF Sound, ListsChildren, Blank
        <4>4. ToSet(<<>>) = {}
          BY DEF ToSet
        <4>5. QED
          BY <4>3, <4>4
      <3>2. n \in Left(new)
        BY <3>1 DEF Left
      <3>3. QED
        BY <1>1, <1>6, <1>13, <2>1, <3>2
    <2>3. \A k \in Ids(new) : ParentOf(new, k) # n
      <3>1. SUFFICES ASSUME NEW k \in Ids(new), ParentOf(new, k) = n
                     PROVE  FALSE
        OBVIOUS
      <3>2. k \notin new.changed /\ n # None
        BY <1>4, <1>7, <2>1, <3>1, ArenaIs DEF Sound
      <3>3. ParentOf(base, k) = n
        BY <1>4, <3>1, <3>2 DEF Grown
      <3>4. k \in ToSet(Kids(base, n)) /\ n \in Ids(made) /\ n \in Ids(base)
        BY <1>3, <1>4, <2>1, <2>2, <3>1, <3>3 DEF Sound, ListsChildren
      <3>5. Kids(base, n) = Kids(made, n) /\ Kids(made, n) = <<>>
        BY <1>3, <2>2, <3>4 DEF Blank, Kids
      <3>6. ToSet(<<>>) = {}
        BY DEF ToSet
      <3>7. QED
        BY <3>4, <3>5, <3>6
    <2>4. ToSet(Kids(new, n)) = {}
      BY <1>4, <2>1, <2>3 DEF Sound, ListsChildren
    <2>5. QED
      BY <1>9, <2>2, <2>4 DEF Owned
  <1>14. new.nodes[t].contents \notin Cached
    BY <1>1, <1>9
  <1>15. Grows(new, B, t)
    BY <1>5, <1>10, <1>11, <1>12, <1>13, <1>14 DEF Grows
  <1>16. QED
    BY <1>5, <1>15 DEF B, new, g

----------------------------------------------------------------------------
(* The variadic bindings. *)

\* A string given alone is a text node of its own.
LEMMA OneGathered ==
  ASSUME Sound(doc), NEW items \in ItemsOf(doc), Len(items) = 1
  PROVE  LET g == Gathered(items)
         IN  /\ g.ok = TRUE /\ Blank(doc, g.doc) /\ Sound(g.doc)
             /\ items[1] # None => g.node = items[1] /\ Additional(items) = 0
             /\ items[1] = None => g.node \notin Ids(doc) /\ Ids(g.doc) = Ids(doc) \cup {g.node}
PROOF
  <1> DEFINE g == Gathered(items)
             given == Indices(items)
             L == Len(doc.nodes)
             T == Texts(items)
  <1>1. PICK made, base : GatheredFrom(items, made, base)
    BY GatheredIs
  <1>2. /\ Blank(doc, made) /\ Sound(made) /\ Ids(made) = 1..(L + T) /\ given[1] \in Ids(made)
        /\ IF items[1] # None THEN given[1] = items[1] ELSE given[1] \notin Ids(doc)
        /\ g = [doc |-> made, node |-> given[1], ok |-> TRUE]
    BY <1>1 DEF GatheredFrom
  <1>3. items \in [1..1 -> Ids(doc) \cup {None}] /\ L \in Nat /\ Ids(doc) = 1..L
    BY ItemsAre, ArenaIs DEF Sound
  <1> DEFINE strings == {i \in DOMAIN items : items[i] = None}
  <1>4. items[1] = None => T = 1
    <2>1. items[1] = None => strings = {1}
      BY <1>3
    <2>2. QED
      BY <2>1, FS_Singleton DEF Texts
  <1>5. items[1] # None => Additional(items) = 0
    <2>1. items[1] # None => strings = {}
      BY <1>3
    <2>2. QED
      BY <2>1, FS_EmptySet DEF Additional
  <1> HIDE DEF g, given, L, T, strings
  <1>6. items[1] = None => Ids(made) = Ids(doc) \cup {given[1]}
    BY <1>2, <1>3, <1>4
  <1>7. QED
    BY <1>2, <1>5, <1>6 DEF g

\* A borrow that makes one node, for a call that has still to place it.
LEMMA LoneKept ==
  ASSUME DomInv, FollowInv, KeepInv, Synced, NEW new, Sound(new), Blank(doc, new),
         NEW next, NEW moved, BorrowNoting(new, next, moved), IsCall(next),
         next.args \subseteq Cached, next.this \in next.args,
         next.node \notin Ids(doc), Ids(new) = Ids(doc) \cup {next.node},
         next.parent \in {next.this, ParentOf(doc, next.this)}
  PROVE  KeepInv' /\ KeepsReachable
PROOF
  <1>1. Eases(new, Base(next.args)) /\ Apart(new, next.node)
    BY BlankEases, BlankApart
  <1>2. next.this \in Ids(doc)
    BY DEF DomInv, GraphOK
  <1>3. ParentOf(new, next.this) = ParentOf(doc, next.this)
    BY <1>2 DEF Blank, ParentOf
  <1>4. QED
    BY <1>1, <1>3, BorrowKept

LEMMA SetFragmentTextKept ==
  ASSUME DomInv, FollowInv, KeepInv, Synced, NEW p \in Reachable, NEW empty \in BOOLEAN,
         SetFragmentText(p, empty)
  PROVE  KeepInv' /\ KeepsReachable
PROOF
  <1>1. p \in Cached /\ Cached \subseteq Ids(doc) /\ Sound(doc)
    BY ReachableCached DEF DomInv, GraphOK, ArenaOK
  <1>2. CASE empty /\ Borrow(Emptied(doc, p), Returning({p}))
    BY <1>1, <1>2, BaseClosed, EmptiedKept
  <1>3. CASE Borrow(Added(doc, "text"), Started("replaceChildren", p, <<None>>))
    <2> DEFINE items == <<None>>
               new == Added(doc, "text")
               next == Started("replaceChildren", p, items)
    <2>1. items \in ItemsOf(doc) /\ Len(items) = 1 /\ items[1] = None /\ ToSet(items) = {None}
      <3>1. items \in [1..1 -> Ids(doc) \cup {None}] /\ Len(items) = 1 /\ DOMAIN items = 1..1
        OBVIOUS
      <3>2. items[1] = None
        OBVIOUS
      <3> HIDE DEF items
      <3>3. QED
        BY <3>1, <3>2 DEF ItemsOf, ToSet
    <2>2. BorrowNoting(new, next, new.changed \cap Ids(doc))
      BY <1>3 DEF Borrow
    <2>3. "replaceChildren" \in ParentOps /\ "text" \in NodeKinds
      BY DEF ParentOps, NodeKinds
    <2>4. Blank(doc, new) /\ Ids(new) = Ids(doc) \cup {Len(doc.nodes) + 1}
      BY <1>1, <2>3, AddedIs
    <2> HIDE DEF items, new
    <2>5. Sound(new)
      BY <1>1, <2>4, BlankKeeps
    <2>6. /\ IsCall(next) /\ next.args = {p} /\ next.this = p /\ next.parent = p
          /\ next.node = Gathered(items).node
      BY <2>1, <2>3, StartedIs
    <2> HIDE DEF next
    <2>7. next.node \notin Ids(doc) /\ Ids(Gathered(items).doc) = Ids(doc) \cup {next.node}
      BY <1>1, <2>1, <2>6, OneGathered
    <2>8. Ids(new) = Ids(doc) \cup {next.node}
      <3>1. Len(Gathered(items).doc.nodes) = Len(doc.nodes) + Additional(items)
        BY <1>1, <2>1, GatheredKeeps
      <3>2. Ids(doc) = 1..Len(doc.nodes) /\ Len(doc.nodes) \in Nat
        BY <1>1, ArenaIs DEF Sound
      <3>3. Additional(items) = 1
        <4>1. {i \in DOMAIN items : items[i] = None} = {1}
          BY DEF items
        <4>2. QED
          BY <2>1, <4>1, FS_Singleton DEF Additional
      <3>4. Ids(Gathered(items).doc) = 1..Len(Gathered(items).doc.nodes)
        BY <1>1, <2>1, OneGathered, ArenaIs DEF Sound
      <3>5. QED
        BY <2>4, <2>7, <3>1, <3>2, <3>3, <3>4
    <2>9. QED
      BY <1>1, <2>2, <2>4, <2>5, <2>6, <2>7, <2>8, LoneKept
  <1>4. QED
    BY <1>2, <1>3 DEF SetFragmentText

\* What a call starts with.
LEMMA VariadicStarts ==
  ASSUME DomInv, FollowInv, KeepInv, Synced, NEW items \in Items, NEW this \in Reachable,
         NEW op \in ParentOps \cup ChildOps, op \in ParentOps \/ ParentOf(doc, this) # None,
         FitsBudget(Additional(items))
  PROVE  LET c == Started(op, this, items)
         IN  /\ items \in ItemsOf(doc) /\ IsCall(c) /\ c.args \subseteq Cached
             /\ c.this \in c.args /\ ToSet(items) \subseteq Base(c.args) \cup {None}
             /\ {c.parent, c.this} \subseteq Base(c.args) \cap Ids(doc)
             /\ c.parent \in {c.this, ParentOf(doc, c.this)}
PROOF
  <1> DEFINE c == Started(op, this, items)
  <1>1. this \in Ids(doc) /\ Reachable \subseteq Ids(doc) /\ Reachable \subseteq Cached
    BY ReachableIs, ReachableCached
  <1>2. PICK k \in 0..MaxItems : items \in [1..k -> Reachable \cup {None}]
    BY DEF Items
  <1>3. k \in Nat
    BY <1>2, ScriptAssumption
  <1>4. items \in ItemsOf(doc) /\ ToSet(items) \subseteq Reachable \cup {None}
    BY <1>1, <1>2, <1>3 DEF ItemsOf, ToSet
  <1>5. /\ IsCall(c) /\ c.args = (ToSet(items) \ {None}) \cup {this} /\ c.this = this
        /\ c.parent = (IF op \in ParentOps THEN this ELSE ParentOf(doc, this))
    BY StartedIs
  <1>6. {c.parent, c.this} \subseteq Ids(doc)
    BY <1>1, <1>4, GatheredLawful
  <1> HIDE DEF c
  <1>7. c.args \subseteq Cached /\ c.this \in c.args
    BY <1>1, <1>4, <1>5
  <1>8. c.args \subseteq Base(c.args)
    BY <1>7, BaseClosed
  <1>9. Near(doc, this) \subseteq Base(c.args)
    BY <1>5, <1>7, <1>8, BaseClosed
  <1>10. ParentOf(doc, this) # None => ParentOf(doc, this) \in Base(c.args)
    BY <1>9 DEF Near, ParentOf
  <1>11. c.parent \in Base(c.args)
    BY <1>5, <1>7, <1>8, <1>10
  <1>12. QED
    BY <1>4, <1>5, <1>6, <1>7, <1>8, <1>11 DEF c

LEMMA VariadicKept ==
  ASSUME DomInv, FollowInv, KeepInv, Synced, NEW items \in Items, NEW this \in Reachable,
         NEW op \in ParentOps \cup ChildOps, Variadic(op, this, items)
  PROVE  KeepInv' /\ KeepsReachable
PROOF
  <1> DEFINE g == Gathered(items)
             c == Started(op, this, items)
             back == Returning(c.args)
             moved == {n \in g.doc.changed \cap Ids(doc) : ParentOf(doc, n) # None}
  <1>1. /\ op \in ParentOps \/ ParentOf(doc, this) # None
        /\ FitsBudget(Additional(items))
        /\ \/ Additional(items) = 0 /\ Place(c)
           \/ Additional(items) # 0 /\ BorrowNoting(g.doc, c, moved)
           \/ ~g.ok /\ BorrowNoting(g.doc, back, moved)
    BY Zenon DEF Variadic, Gather
  <1>2. /\ items \in ItemsOf(doc) /\ IsCall(c) /\ c.args \subseteq Cached /\ c.this \in c.args
        /\ ToSet(items) \subseteq Base(c.args) \cup {None}
        /\ {c.parent, c.this} \subseteq Base(c.args) \cap Ids(doc)
        /\ c.parent \in {c.this, ParentOf(doc, c.this)}
    BY <1>1, VariadicStarts
  <1>3. this \in Ids(doc)
    BY ReachableIs
  <1>4. Sound(g.doc) /\ (Additional(items) = 0 => c.node \in Ids(doc))
    BY <1>1, <1>2, <1>3, GatheredLawful DEF Lawful
  <1>5. c.node = g.node /\ c.gathered = (Len(items) # 1) /\ c.then = "place"
    BY StartedIs
  <1>6. Sound(doc)
    BY DEF DomInv, ArenaOK
  <1>7. /\ IsCall(back) /\ back.then = "return" /\ back.args = c.args
    BY ReturningIs
  <1> HIDE DEF g, c, moved, back
  <1>8. CASE Additional(items) = 0 /\ Place(c)
    <2>1. Len(items) = 1 => c.node \in Base(c.args)
      <3>1. SUFFICES ASSUME Len(items) = 1 PROVE c.node \in Base(c.args)
        OBVIOUS
      <3>2. items[1] # None
        <4>1. SUFFICES ASSUME items[1] = None PROVE FALSE
          OBVIOUS
        <4>2. c.node \notin Ids(doc)
          BY <1>2, <1>5, <1>6, <3>1, <4>1, OneGathered DEF g
        <4>3. QED
          BY <1>4, <1>8, <4>2
      <3>3. c.node = items[1]
        BY <1>2, <1>5, <1>6, <3>1, <3>2, OneGathered DEF g
      <3>4. items[1] \in ToSet(items)
        <4>1. items \in [1..1 -> Ids(doc) \cup {None}]
          BY <1>2, <3>1, ItemsAre
        <4>2. QED
          BY <4>1 DEF ToSet
      <3>5. QED
        BY <1>2, <3>2, <3>3, <3>4
    <2>2. {c.parent, c.node, c.this} \subseteq Ids(doc)
      BY <1>2, <1>4, <1>8
    <2>3. c.gathered \/ c.node \in Base(c.args)
      BY <1>5, <2>1
    <2>4. QED
      BY <1>2, <1>8, <2>2, <2>3, PlaceKept
  <1>9. CASE Additional(items) # 0 /\ BorrowNoting(g.doc, c, moved)
    <2>1. CASE Len(items) = 1
      <3>1. items[1] = None
        BY <1>2, <1>6, <1>9, <2>1, OneGathered
      <3>2. /\ Blank(doc, g.doc) /\ c.node \notin Ids(doc)
            /\ Ids(g.doc) = Ids(doc) \cup {c.node}
        BY <1>2, <1>5, <1>6, <2>1, <3>1, OneGathered DEF g
      <3>3. QED
        BY <1>2, <1>4, <1>9, <3>2, LoneKept
    <2>2. CASE Len(items) # 1
      BY <1>2, <1>4, <1>5, <1>9, <2>2, BorrowKept
    <2>3. QED
      BY <2>1, <2>2
  <1>10. CASE ~g.ok /\ BorrowNoting(g.doc, back, moved)
    <2>1. Len(items) # 1
      BY <1>2, <1>6, <1>10, OneGathered DEF g
    <2>2. \E t \in Ids(g.doc) : Grows(g.doc, Base(c.args), t)
      BY <1>2, <2>1, GatheredGrows DEF g
    <2>3. QED
      BY <1>2, <1>4, <1>7, <1>10, <2>2, GrownKept
  <1>11. QED
    BY <1>1, <1>8, <1>9, <1>10

----------------------------------------------------------------------------
(* The theorems. *)

LEMMA KeepInit ==
  ASSUME Init
  PROVE  KeepInv
PROOF
  <1>1. /\ Len(doc.nodes) = 3 /\ doc.changed = {} /\ known = 3 /\ todo = {} /\ held = {}
        /\ call = NoCall /\ Cached = 1..3
    BY DEF Init, Cached
  <1>2. Pending = {}
    BY <1>1 DEF Pending
  <1>3. Roots \subseteq Cached
    BY <1>1, NoCallIs DEF Roots, Root
  <1>4. call.then = "none"
    BY <1>1, NoCallIs
  <1>5. QED
    BY <1>2, <1>3, <1>4, NothingBehind DEF KeepInv

\* What script does between two calls.
LEMMA MutatesKept ==
  ASSUME DomInv, FollowInv, KeepInv, Synced, Mutates
  PROVE  KeepInv' /\ KeepsReachable
PROOF
  <1> DEFINE Goal == KeepInv' /\ KeepsReachable
  <1>1. ASSUME NEW p \in Reachable, NEW n \in Reachable,
               NEW before \in ToSet(Kids(doc, p)) \cup {None}, InsertBefore(p, n, before)
        PROVE  Goal
    BY <1>1, InsertBeforeKept
  <1>2. ASSUME NEW n \in Reachable, RemoveChild(n)
        PROVE  Goal
    BY <1>2, RemoveChildKept
  <1>3. ASSUME NEW p \in Reachable, NEW n \in Reachable, NEW child \in Reachable,
               ReplaceChild(p, n, child)
        PROVE  Goal
    BY <1>3, ReplaceChildKept
  <1>4. ASSUME NEW p \in Reachable, NEW kinds \in {{}, {"text"}}, SetTextContent(p, kinds)
        PROVE  Goal
    BY <1>4, SetTextContentKept
  <1>5. ASSUME NEW p \in Reachable, NEW kinds \in {{}} \cup {{k} : k \in Kinds \ {"fragment"}},
               SetInnerHTML(p, kinds)
        PROVE  Goal
    BY <1>5, SetInnerHTMLKept
  <1>6. ASSUME NEW items \in Items, NEW this \in Reachable, NEW op \in ParentOps \cup ChildOps,
               Variadic(op, this, items)
        PROVE  Goal
    BY <1>6, VariadicKept
  <1>7. ASSUME NEW p \in Reachable, NEW empty \in BOOLEAN, SetFragmentText(p, empty)
        PROVE  Goal
    BY <1>7, SetFragmentTextKept
  <1> HIDE DEF Goal
  <1>8. Goal
    BY <1>1, <1>2, <1>3, <1>4, <1>5, <1>6, <1>7 DEF Mutates
  <1>9. QED
    BY <1>8 DEF Goal

LEMMA ScriptKept ==
  ASSUME DomInv, FollowInv, KeepInv, Script
  PROVE  KeepInv' /\ KeepsReachable
PROOF
  <1>1. Synced /\ Idle /\ Reachable \subseteq Ids(doc)
    BY NoCallIs, ReachableIs DEF Script, Idle, FollowInv, Lasts
  <1>2. ASSUME Makes
        PROVE  KeepInv' /\ KeepsReachable
    <2>1. ASSUME NEW n \in Reachable, NEW deep \in BOOLEAN, CloneNode(n, deep)
          PROVE  KeepInv' /\ KeepsReachable
      BY <1>1, <2>1, CloneNodeKept
    <2>2. ASSUME NEW n \in Reachable, SplitText(n)
          PROVE  KeepInv' /\ KeepsReachable
      BY <1>1, <2>2, SplitTextKept
    <2>3. ASSUME NEW kind \in Kinds, Create(kind)
          PROVE  KeepInv' /\ KeepsReachable
      BY <1>1, <2>3, CreateKept
    <2>4. QED
      BY <1>2, <2>1, <2>2, <2>3 DEF Makes
  <1>3. ASSUME NEW n \in Reachable, Hold(n)
        PROVE  KeepInv' /\ KeepsReachable
    BY <1>1, <1>3, HoldKept
  <1>4. ASSUME NEW n \in held, Drop(n)
        PROVE  KeepInv' /\ KeepsReachable
    BY <1>1, <1>4, DropKept
  <1>5. QED
    BY <1>1, <1>2, <1>3, <1>4, MutatesKept DEF Script

LEMMA KeepStep ==
  ASSUME DomInv, FollowInv, KeepInv, [Next]_vars
  PROVE  KeepInv' /\ (~call.gathered => KeepsReachable)
PROOF
  <1>1. ASSUME StartSync
        PROVE  KeepInv' /\ KeepsReachable
    <2>1. KeepInv'
      BY <1>1, StartSyncKept
    <2>2. KeepsReachable
      BY <1>1 DEF StartSync, KeepsReachable, Cached
    <2>3. QED
      BY <2>1, <2>2
  <1>2. CASE UNCHANGED vars
    <2>1. /\ doc' = doc /\ records' = records /\ known' = known /\ todo' = todo
          /\ kept' = kept /\ held' = held /\ call' = call
      BY <1>2 DEF vars, graphVars
    <2>2. Pending' = Pending /\ Cached' = Cached /\ Roots' = Roots
      BY <2>1 DEF Pending, Cached, Roots
    <2>3. Sure' = Sure /\ (Anchored <=> Anchored')
      BY <2>1, <2>2 DEF Sure, Anchored
    <2>4. (Calm <=> Calm') /\ \A t : Growing(t) <=> Growing(t)'
      BY <2>1, <2>2, <2>3 DEF Calm, Quiet, Growing, Alone
    <2>5. (Behind <=> Behind') /\ \A n : Lone(n) <=> Lone(n)'
      BY <2>1, <2>2, <2>3, <2>4 DEF Behind, Lone
    <2>6. KeepInv'
      BY <2>1, <2>2, <2>5 DEF KeepInv
    <2>7. QED
      BY <2>1, <2>6 DEF KeepsReachable, Cached
  <1>3. CASE Synchronize
    BY <1>1, <1>3, SyncNodeKept, NothingToSyncKept DEF Synchronize
  <1>4. QED
    BY <1>2, <1>3, ScriptKept, AddContentsKept, WrapKept, PlaceNodeKept, CollectKept DEF Next

\* What a native borrow leaves for the records to catch up with is tied, at
\* every moment, to records that are kept alive.
THEOREM KeepAlways == Spec => []KeepInv
PROOF
  <1>1. Init => KeepInv
    BY KeepInit
  <1>2. DomInv /\ FollowInv /\ KeepInv /\ [Next]_vars => KeepInv'
    BY KeepStep
  <1>3. QED
    BY <1>1, <1>2, DomAlways, FollowAlways, PTL DEF Spec

\* No step gives up the record of a node script can reach, and with it the
\* identity of its wrapper, but in a call that gathers its arguments first.
THEOREM IdentityAlwaysKept == Spec => IdentityKept
PROOF
  <1>1. DomInv /\ FollowInv /\ KeepInv /\ [Next]_vars
          => [~call.gathered => KeepsReachable]_vars
    BY KeepStep
  <1>2. QED
    BY <1>1, DomAlways, FollowAlways, KeepAlways, PTL DEF Spec, IdentityKept
=============================================================================
