----------------------------- MODULE TreeProofs -----------------------------
(***************************************************************************)
(* Induction over a tree and definition by recursion over it, for the      *)
(* proofs about what the checker computes from the leaves upwards.  The    *)
(* induction principles are about sets instead of predicates, and the      *)
(* recursion is that of a function, so that they can be cited as they are. *)
(***************************************************************************)
EXTENDS LumisAst, Functions, FiniteSetTheorems, SequenceTheorems, TLAPS

(* A set of numbers has a least one.                                       *)
LEMMA LeastOf ==
  ASSUME NEW T \in SUBSET Nat, T # {}
  PROVE  \E x \in T : \A y \in T : x <= y
<1>. DEFINE R == OpToRel(<, Nat)
<1>1. IsWellFoundedOn(R, Nat)
  BY NatLessThanWellFounded
<1>2. \A y, x \in Nat : y < x => <<y, x>> \in R
  BY DEF OpToRel
<1>. HIDE DEF R
<1>3. \E x \in T : \A y \in T : ~(<<y, x>> \in R)
  BY <1>1, WFMin
<1>4. \A y, x \in Nat : ~(y < x) => x <= y
  OBVIOUS
<1>. QED  BY <1>2, <1>3, <1>4

(* What holds of whatever is above only such things holds of all.          *)
LEMMA RankInduction ==
  ASSUME NEW E, NEW rank \in [E -> Nat], NEW S,
         \A e \in E : (\A d \in E : rank[d] < rank[e] => d \in S) => e \in S
  PROVE  E \subseteq S
<1>1. SUFFICES ASSUME E \ S # {} PROVE FALSE
  OBVIOUS
<1>. DEFINE T == {rank[e] : e \in E \ S}
<1>2. T \in SUBSET Nat /\ T # {}
  BY <1>1
<1>3. PICK x \in T : \A y \in T : x <= y
  BY <1>2, LeastOf, Zenon
<1>4. PICK e \in E \ S : x = rank[e]
  BY <1>3
<1>5. ASSUME NEW d \in E, rank[d] < rank[e] PROVE d \in S
  <2>1. SUFFICES ASSUME d \notin S PROVE FALSE
    OBVIOUS
  <2>2. rank[e] <= rank[d]
    BY <1>3, <1>4, <2>1
  <2>. QED  BY <1>5, <2>2
<1>. QED  BY <1>4, <1>5

-----------------------------------------------------------------------------
(* Recursion on a rank.  F gives a value for e from those of what is below *)
(* it in rank, and from no others.                                         *)
Local(E, V, rank, F) ==
    \A f, g \in [E -> V] : \A e \in E :
       (\A d \in E : rank[d] < rank[e] => f[d] = g[d]) => F[<<f, e>>] = F[<<g, e>>]

Solves(E, F, rank, k, f) == \A e \in E : rank[e] < k => f[e] = F[<<f, e>>]

Recurs(E, F, f) == \A e \in E : f[e] = F[<<f, e>>]

LEMMA SolutionsAgree ==
  ASSUME NEW E, NEW V, NEW rank \in [E -> Nat], NEW F, Local(E, V, rank, F),
         NEW f \in [E -> V], NEW g \in [E -> V], NEW k \in Nat,
         Solves(E, F, rank, k, f), Solves(E, F, rank, k, g)
  PROVE  \A e \in E : rank[e] < k => f[e] = g[e]
<1>. DEFINE S == {e \in E : rank[e] < k => f[e] = g[e]}
<1>1. ASSUME NEW e \in E, \A d \in E : rank[d] < rank[e] => d \in S
      PROVE  e \in S
  <2>1. CASE rank[e] < k
    <3>1. \A d \in E : rank[d] < rank[e] => rank[d] < k
      BY <2>1
    <3>2. \A d \in E : rank[d] < rank[e] => f[d] = g[d]
      BY <1>1, <3>1
    <3>3. F[<<f, e>>] = F[<<g, e>>]
      BY <3>2 DEF Local
    <3>. QED  BY <2>1, <3>3 DEF Solves
  <2>. QED  BY <2>1
<1>. HIDE DEF S
<1>2. E \subseteq S
  BY <1>1, RankInduction
<1>. QED  BY <1>2 DEF S

LEMMA SolutionsExist ==
  ASSUME NEW E, NEW V, V # {}, NEW rank \in [E -> Nat],
         NEW F \in [[E -> V] \X E -> V], Local(E, V, rank, F)
  PROVE  \A k \in Nat : \E f \in [E -> V] : Solves(E, F, rank, k, f)
<1>. DEFINE S == {k \in Nat : \E f \in [E -> V] : Solves(E, F, rank, k, f)}
            id == [k \in Nat |-> k]
<1>1. ASSUME NEW k \in Nat, \A j \in Nat : id[j] < id[k] => j \in S
      PROVE  k \in S
  <2>1. CASE k = 0
    <3>1. PICK v \in V : TRUE
      OBVIOUS
    <3>2. [e \in E |-> v] \in [E -> V]
      OBVIOUS
    <3>3. \A e \in E : ~(rank[e] < 0)
      OBVIOUS
    <3>4. Solves(E, F, rank, 0, [e \in E |-> v])
      BY <3>3 DEF Solves
    <3>. QED  BY <2>1, <3>2, <3>4
  <2>2. CASE k # 0
    <3>1. k - 1 \in Nat /\ k - 1 < k
      <4>. HIDE DEF id, S
      <4>1. \A j \in Nat : j # 0 => j - 1 \in Nat /\ j - 1 < j
        OBVIOUS
      <4>. QED  BY <2>2, <4>1
    <3>2. PICK f \in [E -> V] : Solves(E, F, rank, k - 1, f)
      BY <1>1, <3>1
    <3>. DEFINE g == [e \in E |-> IF rank[e] = k - 1 THEN F[<<f, e>>] ELSE f[e]]
    <3>3. g \in [E -> V]
      OBVIOUS
    <3>4. ASSUME NEW e \in E, rank[e] < k PROVE g[e] = F[<<g, e>>]
      <4>1. \A d \in E : rank[d] < rank[e] => rank[d] # k - 1
        BY <3>4
      <4>2. \A d \in E : rank[d] < rank[e] => f[d] = g[d]
        BY <4>1
      <4>. HIDE DEF g
      <4>3. F[<<f, e>>] = F[<<g, e>>]
        BY <3>3, <4>2 DEF Local
      <4>4. CASE rank[e] = k - 1
        BY <4>3, <4>4 DEF g
      <4>5. CASE rank[e] < k - 1
        <5>1. f[e] = F[<<f, e>>]
          BY <3>2, <4>5 DEF Solves
        <5>2. rank[e] # k - 1
          BY <4>5
        <5>. QED  BY <4>3, <5>1, <5>2 DEF g
      <4>6. rank[e] < k - 1 \/ rank[e] = k - 1
        BY <3>4
      <4>. QED  BY <4>4, <4>5, <4>6
    <3>. HIDE DEF g
    <3>5. Solves(E, F, rank, k, g)
      BY <3>4 DEF Solves
    <3>. QED  BY <3>3, <3>5
  <2>. QED  BY <2>1, <2>2
<1>. HIDE DEF S
<1>2. id \in [Nat -> Nat]
  OBVIOUS
<1>. HIDE DEF id
<1>3. Nat \subseteq S
  BY <1>1, <1>2, RankInduction
<1>. QED  BY <1>3 DEF S

LEMMA Recursion ==
  ASSUME NEW E, NEW V, V # {}, NEW rank \in [E -> Nat],
         NEW F \in [[E -> V] \X E -> V], Local(E, V, rank, F)
  PROVE  \E f \in [E -> V] : Recurs(E, F, f)
<1>. DEFINE G(k) == CHOOSE f \in [E -> V] : Solves(E, F, rank, k, f)
            f == [e \in E |-> G(rank[e] + 1)[e]]
<1>1. ASSUME NEW k \in Nat PROVE G(k) \in [E -> V] /\ Solves(E, F, rank, k, G(k))
  BY SolutionsExist
<1>. HIDE DEF G
<1>2. f \in [E -> V]
  <2>1. \A e \in E : rank[e] + 1 \in Nat
    OBVIOUS
  <2>. QED  BY <1>1, <2>1
<1>3. ASSUME NEW e \in E PROVE f[e] = F[<<f, e>>]
  <2>. DEFINE k == rank[e] + 1
  <2>1. k \in Nat /\ rank[e] < k
    OBVIOUS
  <2>2. ASSUME NEW d \in E, rank[d] < rank[e] PROVE f[d] = G(k)[d]
    <3>. DEFINE l == rank[d] + 1
    <3>1. l \in Nat /\ rank[d] < l /\ \A c \in E : rank[c] < l => rank[c] < k
      BY <2>2
    <3>2. G(l) \in [E -> V] /\ Solves(E, F, rank, l, G(l))
      BY <1>1, <3>1
    <3>3. G(k) \in [E -> V] /\ Solves(E, F, rank, k, G(k))
      BY <1>1, <2>1
    <3>4. Solves(E, F, rank, l, G(k))
      BY <3>1, <3>3 DEF Solves
    <3>5. \A c \in E : rank[c] < l => G(l)[c] = G(k)[c]
      <4>. HIDE DEF l, k
      <4>. QED  BY <3>1, <3>2, <3>3, <3>4, SolutionsAgree
    <3>. QED  BY <3>1, <3>5
  <2>3. G(k) \in [E -> V] /\ G(k)[e] = F[<<G(k), e>>]
    BY <1>1, <2>1 DEF Solves
  <2>4. F[<<f, e>>] = F[<<G(k), e>>]
    <3>. HIDE DEF f, k
    <3>. QED  BY <1>2, <2>2, <2>3 DEF Local
  <2>5. f[e] = G(k)[e]
    OBVIOUS
  <2>. QED  BY <2>3, <2>4, <2>5
<1>. HIDE DEF f
<1>. QED  BY <1>2, <1>3 DEF Recurs

-----------------------------------------------------------------------------
(* Subsets of a finite set, one element less at a time, and folds.         *)
Pick(s) == CHOOSE x \in s : TRUE

LEMMA OneLess ==
  ASSUME NEW D, IsFiniteSet(D)
  PROVE  /\ [s \in SUBSET D |-> Cardinality(s)] \in [SUBSET D -> Nat]
         /\ \A s \in SUBSET D : s # {} =>
               /\ Pick(s) \in s /\ s \ {Pick(s)} \in SUBSET D
               /\ Cardinality(s \ {Pick(s)}) < Cardinality(s)
<1>1. ASSUME NEW s \in SUBSET D
      PROVE  IsFiniteSet(s) /\ Cardinality(s) \in Nat
  BY FS_Subset, FS_CardinalityType
<1>2. ASSUME NEW s \in SUBSET D, s # {}
      PROVE  /\ Pick(s) \in s /\ s \ {Pick(s)} \in SUBSET D
             /\ Cardinality(s \ {Pick(s)}) < Cardinality(s)
  <2>1. Pick(s) \in s
    BY <1>2 DEF Pick
  <2>2. Cardinality(s \ {Pick(s)}) = Cardinality(s) - 1
    BY <1>1, <2>1, FS_RemoveElement
  <2>. QED  BY <1>1, <2>1, <2>2
<1>. QED  BY <1>1, <1>2

LEMMA SubsetInduction ==
  ASSUME NEW D, IsFiniteSet(D), NEW S, {} \in S,
         \A s \in SUBSET D : s # {} /\ s \ {Pick(s)} \in S => s \in S
  PROVE  D \in S
<1>. DEFINE E == SUBSET D
            rank == [s \in E |-> Cardinality(s)]
<1>1. rank \in [E -> Nat]
  BY OneLess
<1>2. ASSUME NEW s \in E, \A t \in E : rank[t] < rank[s] => t \in S
      PROVE  s \in S
  <2>1. SUFFICES ASSUME s # {} PROVE s \ {Pick(s)} \in S
    OBVIOUS
  <2>2. s \ {Pick(s)} \in E /\ Cardinality(s \ {Pick(s)}) < Cardinality(s)
    BY <2>1, OneLess
  <2>. QED  BY <1>2, <2>2
<1>3. D \in E
  OBVIOUS
<1>. HIDE DEF E, rank
<1>4. E \subseteq S
  BY <1>1, <1>2, RankInduction
<1>. QED  BY <1>3, <1>4

Folds(D, base, G, f) ==
    \A s \in SUBSET D :
       f[s] = IF s = {} THEN base ELSE G[<<Pick(s), f[s \ {Pick(s)}]>>]

LEMMA SubsetRecursion ==
  ASSUME NEW D, IsFiniteSet(D), NEW V, NEW base \in V, NEW G \in [D \X V -> V]
  PROVE  \E f \in [SUBSET D -> V] : Folds(D, base, G, f)
<1>. DEFINE E == SUBSET D
            rank == [s \in E |-> Cardinality(s)]
            Val(f, s) == IF s = {} THEN base ELSE G[<<Pick(s), f[s \ {Pick(s)}]>>]
            F == [p \in [E -> V] \X E |-> Val(p[1], p[2])]
<1>1. rank \in [E -> Nat]
  BY OneLess
<1>2. ASSUME NEW f \in [E -> V], NEW s \in E PROVE Val(f, s) \in V
  <2>1. SUFFICES ASSUME s # {} PROVE Val(f, s) \in V
    OBVIOUS
  <2>2. Pick(s) \in D /\ s \ {Pick(s)} \in E
    BY <2>1, OneLess
  <2>3. f[s \ {Pick(s)}] \in V
    BY <2>2
  <2>. QED  BY <2>2, <2>3
<1>3. F \in [[E -> V] \X E -> V]
  <2>. HIDE DEF Val, E
  <2>. QED  BY <1>2
<1>4. ASSUME NEW f \in [E -> V], NEW s \in E PROVE F[<<f, s>>] = Val(f, s)
  <2>. HIDE DEF Val, E
  <2>. QED  OBVIOUS
<1>5. ASSUME NEW f \in [E -> V], NEW g \in [E -> V], NEW s \in E,
             \A t \in E : rank[t] < rank[s] => f[t] = g[t]
      PROVE  Val(f, s) = Val(g, s)
  <2>1. SUFFICES ASSUME s # {} PROVE f[s \ {Pick(s)}] = g[s \ {Pick(s)}]
    OBVIOUS
  <2>2. s \ {Pick(s)} \in E /\ Cardinality(s \ {Pick(s)}) < Cardinality(s)
    BY <2>1, OneLess
  <2>. QED  BY <1>5, <2>2
<1>6. Local(E, V, rank, F)
  <2>. HIDE DEF Val, E, F, rank
  <2>. QED  BY <1>4, <1>5 DEF Local
<1>7. \E f \in [E -> V] : Recurs(E, F, f)
  <2>. HIDE DEF Val, E, F, rank
  <2>1. V # {}
    OBVIOUS
  <2>. QED  BY <1>1, <1>3, <1>6, <2>1, Recursion
<1>8. PICK f \in [E -> V] : Recurs(E, F, f)
  BY <1>7
<1>9. \A s \in E : f[s] = Val(f, s)
  <2>. HIDE DEF Val, E, F, rank
  <2>. QED  BY <1>4, <1>8 DEF Recurs
<1>. QED  BY <1>9 DEF Folds

(* The sum of the values of a function.                                    *)
LEMMA SumIs ==
  ASSUME NEW D, IsFiniteSet(D), NEW f \in [D -> Nat]
  PROVE  /\ SumFunction(f) \in Nat
         /\ SumFunction(f) = 0 <=> \A d \in D : f[d] = 0
<1>. DEFINE Rule(g) == [s \in SUBSET D |->
                          IF s = {} THEN 0 ELSE f[Pick(s)] + g[s \ {Pick(s)}]]
            iter == CHOOSE g : g = Rule(g)
<1>1. SumFunction(f) = iter[D]
  BY DEF SumFunction, SumFunctionOnSet, FoldFunctionOnSet, MapThenFoldSet, Pick
<1>2. \E g : g = Rule(g)
  <2>. DEFINE G == [p \in D \X Nat |-> f[p[1]] + p[2]]
  <2>1. G \in [D \X Nat -> Nat]
    OBVIOUS
  <2>2. \A d \in D, k \in Nat : G[<<d, k>>] = f[d] + k
    OBVIOUS
  <2>. HIDE DEF G
  <2>3. PICK g \in [SUBSET D -> Nat] : Folds(D, 0, G, g)
    <3>1. 0 \in Nat
      OBVIOUS
    <3>. QED  BY <2>1, <3>1, SubsetRecursion
  <2>4. ASSUME NEW s \in SUBSET D
        PROVE  g[s] = IF s = {} THEN 0 ELSE f[Pick(s)] + g[s \ {Pick(s)}]
    <3>1. CASE s = {}
      BY <2>3, <3>1 DEF Folds
    <3>2. CASE s # {}
      <4>1. Pick(s) \in D /\ s \ {Pick(s)} \in SUBSET D
        BY <3>2, OneLess
      <4>2. g[s \ {Pick(s)}] \in Nat
        BY <4>1
      <4>. QED  BY <2>2, <2>3, <3>2, <4>1, <4>2 DEF Folds
    <3>. QED  BY <3>1, <3>2
  <2>5. g = Rule(g)
    BY <2>4
  <2>. QED  BY <2>5
<1>3. iter = Rule(iter)
  <2>. HIDE DEF Rule
  <2>. QED  BY <1>2
<1>4. ASSUME NEW s \in SUBSET D
      PROVE  iter[s] = IF s = {} THEN 0 ELSE f[Pick(s)] + iter[s \ {Pick(s)}]
  <2>1. Rule(iter)[s] = IF s = {} THEN 0 ELSE f[Pick(s)] + iter[s \ {Pick(s)}]
    <3>. HIDE DEF iter
    <3>. QED  OBVIOUS
  <2>. QED  BY <1>3, <2>1
<1>. HIDE DEF iter
<1>. DEFINE S == {s \in SUBSET D : /\ iter[s] \in Nat
                                   /\ iter[s] = 0 <=> \A d \in s : f[d] = 0}
<1>5. {} \in S
  BY <1>4
<1>6. ASSUME NEW s \in SUBSET D, s # {}, s \ {Pick(s)} \in S PROVE s \in S
  <2>1. Pick(s) \in s
    BY <1>6, OneLess
  <2>2. iter[s] = f[Pick(s)] + iter[s \ {Pick(s)}]
    BY <1>4, <1>6
  <2>3. f[Pick(s)] \in Nat
    BY <2>1
  <2>4. /\ iter[s \ {Pick(s)}] \in Nat
        /\ iter[s \ {Pick(s)}] = 0 <=> \A d \in s \ {Pick(s)} : f[d] = 0
    BY <1>6, Zenon
  <2>5. iter[s] = 0 <=> f[Pick(s)] = 0 /\ iter[s \ {Pick(s)}] = 0
    BY <2>2, <2>3, <2>4
  <2>. QED  BY <2>1, <2>2, <2>3, <2>4, <2>5
<1>. HIDE DEF S
<1>7. D \in S
  BY <1>5, <1>6, SubsetInduction
<1>8. iter[D] \in Nat /\ (iter[D] = 0 <=> \A d \in D : f[d] = 0)
  BY <1>7, Zenon DEF S
<1>. QED  BY <1>1, <1>8

-----------------------------------------------------------------------------
(* The tree.                                                               *)

LEMMA PartsAre ==
  ASSUME NEW n \in Node
  PROVE  Parts(n) \subseteq Node
<1>1. Ast[n].children \in Seq(Node) /\ Ast[n].args \in Seq(Node)
  BY AstAssumption DEF AstNode
<1>2. \A i \in 1 .. Children(n) : Child(n, i) \in Node
  BY <1>1 DEF Child, Children
<1>3. \A i \in 1 .. Len(Ast[n].args) : Ast[n].args[i] \in Node
  BY <1>1
<1>. QED  BY <1>2, <1>3 DEF Parts

LEMMA SubtreeIs ==
  ASSUME NEW n \in Node
  PROVE  Subtree(n) = {n} \cup UNION {Subtree(c) : c \in Parts(n)}
<1>. DEFINE Rule(f) == [m \in Node |-> {m} \cup UNION {f[c] : c \in Parts(m)}]
            Closed(S) == \A m \in S : Parts(m) \subseteq S
            reach == [m \in Node |-> {k \in Node : \A S \in SUBSET Node :
                                                   m \in S /\ Closed(S) => k \in S}]
            below == CHOOSE f : f = Rule(f)
<1>1. ASSUME NEW m \in Node PROVE reach[m] = {m} \cup UNION {reach[c] : c \in Parts(m)}
  <2>. DEFINE U == {m} \cup UNION {reach[c] : c \in Parts(m)}
  <2>1. m \in reach[m]
    OBVIOUS
  <2>2. ASSUME NEW c \in Parts(m) PROVE c \in reach[c] /\ reach[c] \subseteq reach[m]
    <3>1. c \in Node
      BY PartsAre
    <3>2. c \in reach[c]
      BY <3>1
    <3>3. ASSUME NEW k \in reach[c], NEW S \in SUBSET Node, m \in S, Closed(S)
          PROVE  k \in S
      <4>1. c \in S
        BY <3>3
      <4>. QED  BY <3>1, <3>3, <4>1
    <3>4. ASSUME NEW k \in reach[c] PROVE k \in reach[m]
      <4>1. k \in Node
        BY <3>1
      <4>. QED  BY <3>3, <4>1
    <3>. QED  BY <3>2, <3>4
  <2>3. U \in SUBSET Node
    <3>1. \A c \in Parts(m) : c \in Node /\ reach[c] \subseteq Node
      BY PartsAre
    <3>. QED  BY <3>1
  <2>4. ASSUME NEW k \in U, NEW d \in Parts(k) PROVE d \in U
    <3>1. CASE k = m
      <4>1. d \in reach[d]
        BY <2>2, <2>4, <3>1
      <4>. HIDE DEF reach
      <4>. QED  BY <2>4, <3>1, <4>1
    <3>2. ASSUME NEW c \in Parts(m), k \in reach[c] PROVE d \in reach[c]
      <4>1. c \in Node /\ k \in Node /\ d \in Node
        BY <2>3, <2>4, <3>2, PartsAre
      <4>2. ASSUME NEW S \in SUBSET Node, c \in S, Closed(S) PROVE d \in S
        <5>1. k \in S
          BY <3>2, <4>1, <4>2
        <5>. QED  BY <2>4, <4>2, <5>1
      <4>. QED  BY <4>1, <4>2
    <3>3. k = m \/ \E c \in Parts(m) : k \in reach[c]
      <4>. HIDE DEF reach
      <4>. QED  BY <2>4
    <3>4. ASSUME NEW c \in Parts(m), d \in reach[c] PROVE d \in U
      <4>. HIDE DEF reach
      <4>. QED  BY <3>4
    <3>. HIDE DEF U, reach
    <3>. QED  BY <3>1, <3>2, <3>3, <3>4
  <2>5. reach[m] \subseteq U
    <3>1. m \in U /\ Closed(U)
      BY <2>4
    <3>. HIDE DEF U
    <3>. QED  BY <2>3, <3>1
  <2>6. U \subseteq reach[m]
    <3>. HIDE DEF reach
    <3>. QED  BY <2>1, <2>2
  <2>. QED  BY <2>5, <2>6
<1>. HIDE DEF reach
<1>2. reach = Rule(reach)
  <2>1. reach = [m \in Node |-> reach[m]]
    BY DEF reach
  <2>. QED  BY <1>1, <2>1
<1>3. below = Rule(below)
  <2>. HIDE DEF Rule
  <2>. QED  BY <1>2
<1>4. \A m : Subtree(m) = below[m]
  BY DEF Subtree
<1>. HIDE DEF below
<1>5. below[n] = {n} \cup UNION {below[c] : c \in Parts(n)}
  BY <1>3
<1>. QED  BY <1>4, <1>5

(* How much is under a node ranks it above its parts.                      *)
Rank == [n \in Node |-> Cardinality(Subtree(n))]

LEMMA RankIs ==
  /\ Rank \in [Node -> Nat]
  /\ \A n \in Node : \A c \in Parts(n) : Rank[c] < Rank[n]
<1>1. ASSUME NEW n \in Node PROVE IsFiniteSet(Subtree(n)) /\ Cardinality(Subtree(n)) \in Nat
  BY TreeAssumption, FS_CardinalityType
<1>2. ASSUME NEW n \in Node, NEW c \in Parts(n)
      PROVE  Cardinality(Subtree(c)) < Cardinality(Subtree(n))
  <2>1. c \in Node
    BY PartsAre
  <2>2. Subtree(c) \subseteq Subtree(n) \ {n}
    BY SubtreeIs, TreeAssumption
  <2>3. n \in Subtree(n)
    BY SubtreeIs
  <2>4. /\ Cardinality(Subtree(n) \ {n}) = Cardinality(Subtree(n)) - 1
        /\ IsFiniteSet(Subtree(n) \ {n})
    BY <1>1, <2>3, FS_RemoveElement
  <2>5. Cardinality(Subtree(c)) <= Cardinality(Subtree(n) \ {n})
    BY <2>2, <2>4, FS_Subset
  <2>. QED  BY <1>1, <2>1, <2>4, <2>5
<1>. QED  BY <1>1, <1>2, PartsAre DEF Rank

LEMMA TreeInduction ==
  ASSUME NEW S, \A n \in Node : Parts(n) \subseteq S => n \in S
  PROVE  Node \subseteq S
<1>1. ASSUME NEW n \in Node, \A m \in Node : Rank[m] < Rank[n] => m \in S
      PROVE  n \in S
  BY <1>1, RankIs, PartsAre
<1>. QED  BY <1>1, RankIs, RankInduction

(* The parts of what is under a node are under it.                         *)
LEMMA SubtreeClosed ==
  ASSUME NEW n \in Node, NEW m \in Subtree(n)
  PROVE  m \in Node /\ Subtree(m) \subseteq Subtree(n)
<1>. DEFINE S == {k \in Node : \A j \in Subtree(k) :
                               j \in Node /\ Subtree(j) \subseteq Subtree(k)}
<1>1. ASSUME NEW k \in Node, Parts(k) \subseteq S PROVE k \in S
  BY <1>1, SubtreeIs
<1>. HIDE DEF S
<1>2. Node \subseteq S
  BY <1>1, TreeInduction
<1>. QED  BY <1>2 DEF S
=============================================================================
