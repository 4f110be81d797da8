---------------------------- MODULE PipelineProofs ----------------------------
(***************************************************************************)
(* Proofs about three of the stages of the pipeline, for every transcript, *)
(* policy, review, answer and request: the candidates and the plan of clip *)
(* planning, the transcript that is put together from the answers of the   *)
(* speech recognition, the documents of a delivery against one another,    *)
(* and the plan of the first as the documents of the last.                 *)
(***************************************************************************)
EXTENDS PlannedDelivery, Reconciliation, Integers, FiniteSetTheorems,
        WellFoundedInduction, NaturalsInduction, TLAPS

-----------------------------------------------------------------------------
(* Clip planning.  What the operators of the libraries return: first-order    *)
(* induction is that of the natural numbers, which are well-founded.         *)

\* What holds of zero, and of a number if it does of the one before it, holds up to n.
LEMMA UpTo ==
    ASSUME NEW T, NEW n \in Nat, 0 \in T, \A k \in 0 .. n - 1 : k \in T => k + 1 \in T
    PROVE  0 .. n \subseteq T
<1> DEFINE R == {ss \in Nat \X Nat : ss[1] < ss[2]}
<1> DEFINE B == (0 .. n) \ T
<1>1. IsWellFoundedOn(R, Nat)
    BY NatLessThanWellFounded, Zenon DEF OpToRel
<1>2. ASSUME NEW x \in B, \A y \in B : <<y, x>> \notin R PROVE FALSE
  <2>1. x \in Nat /\ x <= n /\ x # 0 /\ x \notin T
    BY <1>2, SMT
  <2>2. x - 1 \in 0 .. n - 1 /\ (x - 1) + 1 = x
    BY <2>1, SMT
  <2>3. x - 1 \notin T
    BY <2>1, <2>2
  <2>4. x - 1 \in B
    BY <2>2, <2>3, SMT
  <2>5. <<x - 1, x>> \in Nat \X Nat /\ <<x - 1, x>>[1] < <<x - 1, x>>[2]
    BY <2>1, <2>2, SMT
  <2> QED BY <2>4, <2>5, <1>2
<1> HIDE DEF R
<1>3. B \subseteq Nat
    BY SMT
<1> HIDE DEF B
<1>4. B = {}
    BY <1>1, <1>2, <1>3, WFMin, Zenon
<1> QED BY <1>4 DEF B

\* And downwards.
LEMMA DownFrom ==
    ASSUME NEW T, NEW n \in Nat, n \in T, \A k \in 1 .. n : k \in T => k - 1 \in T
    PROVE  0 .. n \subseteq T
<1> DEFINE U == {m \in 0 .. n : n - m \in T}
<1>1. 0 \in U /\ \A k \in 0 .. n - 1 : k \in U => k + 1 \in U
  <2>1. 0 \in U
    BY SMT
  <2>2. ASSUME NEW k \in 0 .. n - 1, k \in U PROVE k + 1 \in U
    <3>1. n - k \in T /\ n - k \in 1 .. n
      BY <2>2, SMT
    <3>2. (n - k) - 1 \in T
      BY <3>1
    <3>3. (n - k) - 1 = n - (k + 1) /\ k + 1 \in 0 .. n
      BY SMT
    <3> QED BY <3>2, <3>3
  <2> QED BY <2>1, <2>2
<1> HIDE DEF U
<1>2. 0 .. n \subseteq U
    BY <1>1, UpTo
<1>3. ASSUME NEW x \in 0 .. n PROVE x \in T
  <2>1. n - x \in 0 .. n /\ n - (n - x) = x
    BY SMT
  <2>2. n - x \in U
    BY <2>1, <1>2
  <2> QED BY <2>1, <2>2 DEF U
<1> QED BY <1>3

\* A set of numbers with a bound has a greatest one and a least one.
LEMMA MinOf ==
    ASSUME NEW S \in SUBSET Nat, S # {}
    PROVE  Min(S) \in S /\ \A y \in S : Min(S) <= y
<1> DEFINE R == {ss \in Nat \X Nat : ss[1] < ss[2]}
<1>1. IsWellFoundedOn(R, Nat)
    BY NatLessThanWellFounded, Zenon DEF OpToRel
<1> HIDE DEF R
<1>2. PICK x \in S : \A y \in S : ~(<<y, x>> \in R)
    BY <1>1, WFMin
<1>3. ASSUME NEW y \in S PROVE x <= y
  <2>1. <<y, x>> \notin R
    BY <1>2
  <2>2. <<y, x>>[1] = y /\ <<y, x>>[2] = x
    OBVIOUS
  <2> QED BY <2>1, <2>2, SMT DEF R
<1> QED BY <1>3 DEF Min

\* A set of numbers with a bound has a greatest.
LEMMA MaxOf ==
    ASSUME NEW b \in Nat, NEW S \in SUBSET (0 .. b), S # {}
    PROVE  Max(S) \in S /\ \A y \in S : Max(S) >= y
<1> DEFINE D == {b - x : x \in S}
<1>1. D \in SUBSET Nat /\ D # {}
  <2>1. ASSUME NEW x \in S PROVE b - x \in Nat
    BY SMT
  <2>2. \E x \in S : b - x \in D
    OBVIOUS
  <2> QED BY <2>1, <2>2
<1>2. PICK m \in D : \A y \in D : m <= y
  <2> HIDE DEF D
  <2> QED BY <1>1, MinOf
<1>3. PICK x \in S : m = b - x
    BY <1>2
<1>4. ASSUME NEW y \in S PROVE x >= y
  <2>1. b - y \in D
    OBVIOUS
  <2>2. b - x <= b - y
    BY <2>1, <1>2, <1>3, Zenon
  <2>3. x \in Int /\ y \in Int
    BY SMT
  <2> QED BY <2>2, <2>3, SMT
<1> QED BY <1>4 DEF Max

\* A fold over the positions of a sequence goes through them in their order.
IsFold(F, n, base, G) ==
    \A s \in SUBSET (1 .. n) : F[s] = IF s = {} THEN base ELSE G[<<F[s \ {Max(s)}], Max(s)>>]

\* Every fold has a table of its values.
LEMMA FoldExists ==
    ASSUME NEW n \in Nat, NEW V, NEW base \in V, NEW G \in [V \X (1 .. n) -> V]
    PROVE  \E F \in [SUBSET (1 .. n) -> V] : IsFold(F, n, base, G)
<1> DEFINE Step(F, s) == IF s = {} THEN base ELSE G[<<F[s \ {Max(s)}], Max(s)>>]
           Good(F, k) == \A s \in SUBSET (1 .. k) : F[s] = Step(F, s)
           T == {k \in 0 .. n : \E F \in [SUBSET (1 .. n) -> V] : Good(F, k)}
<1>1. 0 \in T
  <2> DEFINE F == [s \in SUBSET (1 .. n) |-> base]
  <2>1. \A s \in SUBSET (1 .. 0) : s = {} /\ s \in SUBSET (1 .. n)
    BY SMT
  <2>2. F \in [SUBSET (1 .. n) -> V]
    OBVIOUS
  <2>3. Good(F, 0)
    BY <2>1
  <2>4. 0 \in 0 .. n
    BY SMT
  <2> QED BY <2>2, <2>3, <2>4
<1>2. ASSUME NEW k \in 0 .. n - 1, k \in T PROVE k + 1 \in T
  <2>1. PICK F \in [SUBSET (1 .. n) -> V] : Good(F, k)
    BY <1>2
  <2> DEFINE E == [s \in SUBSET (1 .. n) |->
                     IF s \in SUBSET (1 .. k) THEN F[s] ELSE IF k + 1 \in s THEN G[<<F[s \ {k + 1}], k + 1>>] ELSE base]
  <2>2. E \in [SUBSET (1 .. n) -> V]
    <3>1. ASSUME NEW s \in SUBSET (1 .. n), k + 1 \in s PROVE G[<<F[s \ {k + 1}], k + 1>>] \in V
      <4>1. s \ {k + 1} \in SUBSET (1 .. n) /\ k + 1 \in 1 .. n
        BY <3>1
      <4>2. F[s \ {k + 1}] \in V
        BY <4>1
      <4> QED BY <4>1, <4>2
    <3> QED BY <3>1
  <2>3. Good(E, k + 1)
    <3> SUFFICES ASSUME NEW s \in SUBSET (1 .. k + 1) PROVE E[s] = Step(E, s)
      OBVIOUS
    <3>0. s \in SUBSET (1 .. n) /\ SUBSET (1 .. k) \subseteq SUBSET (1 .. n)
      BY SMT
    <3>1. CASE s \in SUBSET (1 .. k)
      <4>1. E[s] = F[s] /\ F[s] = Step(F, s)
        BY <3>0, <3>1, <2>1
      <4>2. s \ {Max(s)} \in SUBSET (1 .. k) /\ s \ {Max(s)} \in SUBSET (1 .. n)
        BY <3>0, <3>1
      <4>3. E[s \ {Max(s)}] = F[s \ {Max(s)}]
        BY <4>2
      <4> QED BY <4>1, <4>3
    <3>2. CASE s \notin SUBSET (1 .. k)
      <4>1. k + 1 \in s /\ s # {}
        BY <3>2, SMT
      <4>2. Max(s) = k + 1
        <5>1. k + 1 \in Nat /\ s \in SUBSET (0 .. k + 1)
          BY SMT
        <5>2. Max(s) \in s /\ Max(s) >= k + 1
          BY <4>1, <5>1, MaxOf
        <5>3. Max(s) \in 1 .. k + 1
          BY <5>2
        <5> HIDE DEF E, T
        <5> QED BY <5>2, <5>3, SMT
      <4>3. s \ {k + 1} \in SUBSET (1 .. k) /\ s \ {k + 1} \in SUBSET (1 .. n)
        BY <3>0, SMT
      <4>4. E[s] = G[<<F[s \ {k + 1}], k + 1>>] /\ E[s \ {k + 1}] = F[s \ {k + 1}]
        BY <3>0, <3>2, <4>1, <4>3
      <4> QED BY <4>1, <4>2, <4>4
    <3> QED BY <3>1, <3>2
  <2>4. k + 1 \in 0 .. n
    BY SMT
  <2> QED BY <2>2, <2>3, <2>4
<1> HIDE DEF T
<1>3. 0 .. n \subseteq T
    BY <1>1, <1>2, UpTo
<1>4. n \in T
    BY <1>3, SMT
<1> QED BY <1>4 DEF T, IsFold

\* The prefixes of the positions.
LEMMA PrefixSets ==
    ASSUME NEW n \in Nat
    PROVE  /\ 1 .. 0 = {} /\ \A k \in 0 .. n : 1 .. k \in SUBSET (1 .. n)
           /\ \A k \in 1 .. n : Max(1 .. k) = k /\ (1 .. k) \ {k} = 1 .. k - 1 /\ 1 .. k # {}
<1>1. 1 .. 0 = {} /\ \A k \in 0 .. n : 1 .. k \in SUBSET (1 .. n)
    BY SMT
<1>2. ASSUME NEW k \in 1 .. n PROVE Max(1 .. k) = k /\ (1 .. k) \ {k} = 1 .. k - 1 /\ 1 .. k # {}
  <2>1. k \in Nat /\ 1 .. k \in SUBSET (0 .. k) /\ k \in 1 .. k /\ (1 .. k) \ {k} = 1 .. k - 1
    BY SMT
  <2>2. Max(1 .. k) \in 1 .. k /\ Max(1 .. k) >= k
    BY <2>1, MaxOf
  <2> QED BY <2>1, <2>2, SMT
<1> QED BY <1>1, <1>2

\* A recursion that always goes on at a later position has a value everywhere.
IsJumping(F, n, base, G, nxt) ==
    \A i \in 1 .. n + 1 : F[i] = IF i > n THEN base ELSE G[<<i, F[nxt[i]]>>]

\* And so has a recursion that jumps ahead.
LEMMA JumpsExist ==
    ASSUME NEW n \in Nat, NEW V, NEW base \in V, NEW G \in [(1 .. n) \X V -> V], NEW nxt,
           \A i \in 1 .. n : nxt[i] \in i + 1 .. n + 1
    PROVE  \E F \in [1 .. n + 1 -> V] : IsJumping(F, n, base, G, nxt)
<1> DEFINE Step(F, i) == IF i > n THEN base ELSE G[<<i, F[nxt[i]]>>]
           T == {k \in 0 .. n : \E F \in [1 .. n + 1 -> V] : \A i \in k + 1 .. n + 1 : F[i] = Step(F, i)}
<1>1. n \in T
  <2> DEFINE F == [i \in 1 .. n + 1 |-> base]
  <2>1. F \in [1 .. n + 1 -> V] /\ \A i \in n + 1 .. n + 1 : i > n /\ i \in 1 .. n + 1
    BY SMT
  <2>2. \A i \in n + 1 .. n + 1 : F[i] = Step(F, i)
    BY <2>1
  <2>3. n \in 0 .. n
    BY SMT
  <2> QED BY <2>1, <2>2, <2>3
<1>2. ASSUME NEW k \in 1 .. n, k \in T PROVE k - 1 \in T
  <2>1. PICK F \in [1 .. n + 1 -> V] : \A i \in k + 1 .. n + 1 : F[i] = Step(F, i)
    BY <1>2
  <2> DEFINE E == [i \in 1 .. n + 1 |-> IF i = k THEN G[<<k, F[nxt[k]]>>] ELSE F[i]]
  <2>0. nxt[k] \in k + 1 .. n + 1 /\ nxt[k] \in 1 .. n + 1
    BY SMT
  <2>2. G[<<k, F[nxt[k]]>>] \in V
    BY <2>0
  <2>3. E \in [1 .. n + 1 -> V]
    BY <2>2
  <2>4. ASSUME NEW i \in k .. n + 1 PROVE E[i] = Step(E, i)
    <3>0. i \in 1 .. n + 1 /\ k \in 1 .. n + 1
      BY SMT
    <3>1. CASE i = k
      <4>1. ~(i > n) /\ nxt[k] # k
        BY <3>1, <2>0, SMT
      <4>2. E[k] = G[<<k, F[nxt[k]]>>] /\ E[nxt[k]] = F[nxt[k]]
        BY <3>0, <2>0, <4>1
      <4> QED BY <3>1, <4>1, <4>2
    <3>2. CASE i > n
      <4>1. i # k /\ i \in k + 1 .. n + 1
        BY <3>2, SMT
      <4>2. E[i] = F[i] /\ F[i] = Step(F, i)
        BY <3>0, <4>1, <2>1
      <4> QED BY <3>2, <4>2
    <3>3. CASE i # k /\ ~(i > n)
      <4>1. i \in k + 1 .. n + 1 /\ i \in 1 .. n
        BY <3>3, SMT
      <4>2. E[i] = F[i] /\ F[i] = Step(F, i)
        BY <3>0, <3>3, <4>1, <2>1
      <4>3. nxt[i] \in i + 1 .. n + 1
        BY <4>1
      <4>4. nxt[i] \in 1 .. n + 1 /\ nxt[i] # k
        BY <4>1, <4>3, SMT
      <4>5. E[nxt[i]] = F[nxt[i]]
        BY <4>4
      <4> QED BY <3>3, <4>2, <4>5
    <3> QED BY <3>1, <3>2, <3>3
  <2>5. (k - 1) + 1 = k /\ k - 1 \in 0 .. n
    BY SMT
  <2> HIDE DEF E, Step
  <2>6. \E X \in [1 .. n + 1 -> V] : \A i \in (k - 1) + 1 .. n + 1 : X[i] = Step(X, i)
    BY <2>3, <2>4, <2>5
  <2> QED BY <2>5, <2>6
<1> HIDE DEF T
<1>3. 0 .. n \subseteq T
    BY <1>1, <1>2, DownFrom
<1>4. 0 \in T
    BY <1>3, SMT
<1>5. PICK F \in [1 .. n + 1 -> V] : \A i \in 0 + 1 .. n + 1 : F[i] = Step(F, i)
    BY <1>4 DEF T
<1>6. 0 + 1 = 1
    OBVIOUS
<1> QED BY <1>5, <1>6 DEF IsJumping

\* The k-th in an order is the one that k - 1 others stand before: a list of the
\* whole set, in the order.
LowerIn(S, R, i) == {j \in S : <<j, i>> \in R}
PickAt(S, R, k) == CHOOSE i \in S : Cardinality(LowerIn(S, R, i)) = k - 1
Lists(Q, S, R) ==
    /\ \A k \in 1 .. Cardinality(S) : Q[k] \in S
    /\ \A i \in S : \E k \in 1 .. Cardinality(S) : Q[k] = i
    /\ \A k, l \in 1 .. Cardinality(S) : k < l => <<Q[k], Q[l]>> \in R

\* In a linear order of a finite set, picking by rank lists the set in that order.
LEMMA Enumerated ==
    ASSUME NEW S, IsFiniteSet(S), NEW R,
           \A i \in S : <<i, i>> \notin R,
           \A i, j \in S : i # j => <<i, j>> \in R \/ <<j, i>> \in R,
           \A i, j, k \in S : <<i, j>> \in R /\ <<j, k>> \in R => <<i, k>> \in R,
           NEW Q, \A k \in 1 .. Cardinality(S) : Q[k] = PickAt(S, R, k)
    PROVE  Lists(Q, S, R)
<1> DEFINE n == Cardinality(S)
           rank == [i \in S |-> Cardinality(LowerIn(S, R, i)) + 1]
<1>0. n \in Nat
    BY FS_CardinalityType
<1>1. ASSUME NEW i \in S
      PROVE  /\ IsFiniteSet(LowerIn(S, R, i)) /\ Cardinality(LowerIn(S, R, i)) \in 0 .. n - 1
             /\ rank[i] \in 1 .. n
  <2>1. LowerIn(S, R, i) \in SUBSET S /\ i \notin LowerIn(S, R, i)
    BY DEF LowerIn
  <2>2. /\ IsFiniteSet(LowerIn(S, R, i)) /\ Cardinality(LowerIn(S, R, i)) <= n
        /\ Cardinality(S) = Cardinality(LowerIn(S, R, i)) => S = LowerIn(S, R, i)
    BY <2>1, FS_Subset
  <2>3. Cardinality(LowerIn(S, R, i)) \in Nat
    BY <2>2, FS_CardinalityType
  <2>4. Cardinality(LowerIn(S, R, i)) # n
    BY <2>1, <2>2
  <2>5. rank[i] = Cardinality(LowerIn(S, R, i)) + 1
    OBVIOUS
  <2> HIDE DEF n, rank
  <2> QED BY <2>2, <2>3, <2>4, <2>5, <1>0, SMT
<1>2. ASSUME NEW i \in S, NEW j \in S, <<i, j>> \in R PROVE rank[i] < rank[j]
  <2>1. LowerIn(S, R, i) \in SUBSET LowerIn(S, R, j) /\ i \in LowerIn(S, R, j) /\ i \notin LowerIn(S, R, i)
    BY <1>2 DEF LowerIn
  <2>2. /\ Cardinality(LowerIn(S, R, i)) <= Cardinality(LowerIn(S, R, j))
        /\ Cardinality(LowerIn(S, R, j)) = Cardinality(LowerIn(S, R, i)) => LowerIn(S, R, j) = LowerIn(S, R, i)
    BY <1>1, <2>1, FS_Subset
  <2>3. Cardinality(LowerIn(S, R, i)) \in Int /\ Cardinality(LowerIn(S, R, j)) \in Int
    BY <1>1, SMT
  <2>4. Cardinality(LowerIn(S, R, i)) # Cardinality(LowerIn(S, R, j))
    BY <2>1, <2>2
  <2>5. rank[i] = Cardinality(LowerIn(S, R, i)) + 1 /\ rank[j] = Cardinality(LowerIn(S, R, j)) + 1
    OBVIOUS
  <2> HIDE DEF rank
  <2> QED BY <2>2, <2>3, <2>4, <2>5, SMT
<1>3. \A i, j \in S : rank[i] = rank[j] => i = j
  <2> SUFFICES ASSUME NEW i \in S, NEW j \in S, rank[i] = rank[j], i # j PROVE FALSE
    OBVIOUS
  <2>1. rank[i] < rank[j] \/ rank[j] < rank[i]
    BY <1>2
  <2>2. rank[i] \in Int /\ rank[j] \in Int
    <3> HIDE DEF rank, n
    <3> QED BY <1>1, <1>0, SMT
  <2> HIDE DEF rank
  <2> QED BY <2>1, <2>2, SMT
<1>4. rank \in [S -> 1 .. n]
    BY <1>1
<1>5. rank \in Injection(S, 1 .. n)
    BY <1>3, <1>4 DEF Injection, IsInjective
<1>6. IsFiniteSet(1 .. n) /\ Cardinality(1 .. n) = n
    BY <1>0, FS_Interval
<1>7. rank \in Surjection(S, 1 .. n)
  <2> HIDE DEF rank
  <2> QED BY <1>5, <1>6, FS_Injection DEF n
<1>8. ASSUME NEW k \in 1 .. n PROVE Q[k] \in S /\ rank[Q[k]] = k
  <2>1. PICK i \in S : rank[i] = k
    BY <1>7 DEF Surjection
  <2>2. Cardinality(LowerIn(S, R, i)) = k - 1
    BY <1>1, <2>1, SMT
  <2>3. Q[k] = CHOOSE x \in S : Cardinality(LowerIn(S, R, x)) = k - 1
    BY DEF PickAt
  <2>4. Q[k] \in S /\ Cardinality(LowerIn(S, R, Q[k])) = k - 1
    BY <2>2, <2>3
  <2>5. rank[Q[k]] = Cardinality(LowerIn(S, R, Q[k])) + 1
    BY <2>4
  <2> HIDE DEF rank
  <2> QED BY <2>4, <2>5, <1>0, SMT
<1>9. ASSUME NEW i \in S PROVE \E k \in 1 .. n : Q[k] = i
  <2>1. rank[i] \in 1 .. n
    BY <1>1
  <2> HIDE DEF rank
  <2>2. Q[rank[i]] \in S /\ rank[Q[rank[i]]] = rank[i]
    BY <2>1, <1>8
  <2>3. Q[rank[i]] = i
    BY <2>2, <1>3
  <2> QED BY <2>1, <2>3
<1>10. ASSUME NEW k \in 1 .. n, NEW l \in 1 .. n, k < l PROVE <<Q[k], Q[l]>> \in R
  <2> HIDE DEF rank
  <2>1. Q[k] # Q[l]
    BY <1>8, <1>10, SMT
  <2>2. ~(<<Q[l], Q[k]>> \in R)
    <3>1. SUFFICES ASSUME <<Q[l], Q[k]>> \in R PROVE FALSE
      OBVIOUS
    <3>2. rank[Q[l]] < rank[Q[k]]
      BY <3>1, <1>8, <1>2
    <3>3. l < k
      BY <3>2, <1>8
    <3> QED BY <3>3, <1>10, SMT
  <2> QED BY <2>1, <2>2, <1>8
<1> QED BY <1>8, <1>9, <1>10 DEF Lists

\* A finite set of numbers is listed in its order.
LEMMA ListedInOrder ==
    ASSUME NEW S \in SUBSET Nat, IsFiniteSet(S)
    PROVE  /\ Cardinality(S) \in Nat /\ DOMAIN Ascending(S) = 1 .. Cardinality(S)
           /\ Ascending(S) = [k \in 1 .. Cardinality(S) |-> Ascending(S)[k]]
           /\ \A k \in 1 .. Cardinality(S) : Ascending(S)[k] \in S
           /\ \A i \in S : \E k \in 1 .. Cardinality(S) : Ascending(S)[k] = i
           /\ \A k, l \in 1 .. Cardinality(S) : k < l => Ascending(S)[k] < Ascending(S)[l]
<1> DEFINE n == Cardinality(S)
           R == {p \in S \X S : p[1] < p[2]}
           L == Listed(S, <)
<1>0. n \in Nat
  BY FS_CardinalityType
<1>1. \A i, j \in S : <<i, j>> \in R <=> i < j
  OBVIOUS
<1>2. ASSUME NEW i \in S PROVE LowerIn(S, R, i) = {j \in S : j < i}
  BY DEF LowerIn
<1>3a. L = [k \in 1 .. n |-> CHOOSE i \in S : Cardinality({j \in S : j < i}) = k - 1]
  BY DEF Listed
<1>3. ASSUME NEW k \in 1 .. n PROVE L[k] = PickAt(S, R, k)
  <2> HIDE DEF R
  <2>1. L[k] = CHOOSE i \in S : Cardinality({j \in S : j < i}) = k - 1
    <3> HIDE DEF L
    <3> QED BY <1>3a
  <2>2. (CHOOSE i \in S : Cardinality(LowerIn(S, R, i)) = k - 1)
                        = CHOOSE i \in S : Cardinality({j \in S : j < i}) = k - 1
    BY <1>2
  <2> QED BY <2>1, <2>2 DEF PickAt
<1>4. \A i \in S : i \in Nat
  BY SMT
<1> HIDE DEF R, L
<1>7. /\ \A i \in S : <<i, i>> \notin R
      /\ \A i, j \in S : i # j => <<i, j>> \in R \/ <<j, i>> \in R
      /\ \A i, j, k \in S : <<i, j>> \in R /\ <<j, k>> \in R => <<i, k>> \in R
  BY <1>1, <1>4, SMT
<1>8. Lists(L, S, R)
  BY <1>0, <1>3, <1>7, Enumerated
<1>9. DOMAIN L = 1 .. n /\ L = [k \in 1 .. n |-> L[k]]
  BY <1>3a
<1>10. ASSUME NEW k \in 1 .. n, NEW l \in 1 .. n, k < l PROVE L[k] < L[l]
  BY <1>1, <1>8, <1>10 DEF Lists
<1> QED BY <1>0, <1>8, <1>9, <1>10 DEF Lists, L, Ascending

-----------------------------------------------------------------------------
(* Clip planning: what prepare takes                                         *)

\* What the input is known to be.
PlanGiven == PlanInputs /\ chunks \in Transcripts /\ policy \in Policies

\* A member of a sequence.
LEMMA ElementOf ==
    ASSUME NEW S, NEW s \in Seq(S), NEW j \in 1 .. Len(s)
    PROVE  s[j] \in S
  OBVIOUS

\* The chunks: bounded, not empty, sorted.
LEMMA ChunkFacts ==
    ASSUME PlanGiven
    PROVE  /\ Len(chunks) \in Nat /\ DOMAIN chunks = 1 .. Len(chunks) /\ Duration \in Nat
           /\ \A j \in 1 .. Len(chunks) :
                /\ chunks[j].start \in Int /\ chunks[j].end \in Int
                /\ 0 <= chunks[j].start /\ chunks[j].start < chunks[j].end /\ chunks[j].end <= Duration
           /\ \A j, k \in 1 .. Len(chunks) : j < k => chunks[j].start <= chunks[k].start
<1>1. chunks \in Seq([start : Int, end : Int, excluded : BOOLEAN]) /\ SortedChunks(chunks) /\ Duration \in Nat
    BY DEF PlanGiven, PlanInputs
<1>2. Len(chunks) \in Nat /\ DOMAIN chunks = 1 .. Len(chunks)
    BY <1>1
<1>3. ASSUME NEW j \in 1 .. Len(chunks)
      PROVE /\ chunks[j].start \in Int /\ chunks[j].end \in Int
            /\ 0 <= chunks[j].start /\ chunks[j].start < chunks[j].end /\ chunks[j].end <= Duration
  <2>1. chunks[j] \in [start : Int, end : Int, excluded : BOOLEAN]
    BY <1>1, ElementOf
  <2> QED BY <1>1, <1>2, <2>1 DEF SortedChunks
<1>4. ASSUME NEW j \in 1 .. Len(chunks), NEW k \in 1 .. Len(chunks), j < k PROVE chunks[j].start <= chunks[k].start
  <2>1. k \in j + 1 .. Len(chunks)
    BY <1>2, <1>4, SMT
  <2> QED BY <1>1, <1>2, <2>1 DEF SortedChunks
<1> QED BY <1>1, <1>2, <1>3, <1>4

\* The lengths of a policy agree with one another.
LEMMA PolicyFacts ==
    ASSUME PlanGiven
    PROVE  /\ policy.min \in Int /\ policy.target \in Int /\ policy.max \in Int
           /\ policy.clips \in Nat /\ policy.threshold \in Int
           /\ 0 < policy.min /\ policy.min <= policy.target /\ policy.target <= policy.max
  BY DEF PlanGiven, PlanInputs

\* A run of chunks ends with the chunk of it that ends last.
LEMMA EndOfRun ==
    ASSUME PlanGiven, NEW first \in 1 .. Len(chunks), NEW last \in first .. Len(chunks)
    PROVE  /\ \E j \in first .. last : EndOf(first, last) = chunks[j].end
           /\ \A j \in first .. last : chunks[j].end <= EndOf(first, last)
           /\ EndOf(first, last) \in 0 .. Duration
           /\ Span(first, last) \in Int
           /\ chunks[first].start < EndOf(first, last)
<1> DEFINE E == {chunks[j].end : j \in first .. last}
<1>0. /\ first .. last \subseteq 1 .. Len(chunks) /\ first \in first .. last /\ first \in 1 .. Len(chunks)
      /\ \A j \in first .. last : j \in 1 .. Len(chunks)
    BY ChunkFacts, SMT
<1>1. \A j \in first .. last : chunks[j].end \in 0 .. Duration
  <2> SUFFICES ASSUME NEW j \in first .. last PROVE chunks[j].end \in 0 .. Duration
    OBVIOUS
  <2>1. /\ chunks[j].start \in Int /\ chunks[j].end \in Int /\ Duration \in Int
        /\ 0 <= chunks[j].start /\ chunks[j].start < chunks[j].end /\ chunks[j].end <= Duration
    BY <1>0, ChunkFacts
  <2> QED BY <2>1, SMT
<1>2. E \in SUBSET (0 .. Duration) /\ chunks[first].end \in E
    BY <1>0, <1>1
<1>3. Max(E) \in E /\ \A y \in E : Max(E) >= y
  <2>1. Duration \in Nat /\ E # {}
    BY <1>2, ChunkFacts
  <2> HIDE DEF E
  <2> QED BY <1>2, <2>1, MaxOf
<1>4. EndOf(first, last) = Max(E)
    BY DEF EndOf
<1>5. \A j \in first .. last : chunks[j].end <= EndOf(first, last)
  <2> SUFFICES ASSUME NEW j \in first .. last PROVE chunks[j].end <= EndOf(first, last)
    OBVIOUS
  <2>1. chunks[j].end \in E
    OBVIOUS
  <2> HIDE DEF E
  <2>2. Max(E) >= chunks[j].end
    BY <2>1, <1>3
  <2>3. Max(E) \in Int /\ chunks[j].end \in Int
    <3>1. 0 .. Duration \subseteq Int
      BY ChunkFacts, SMT
    <3> QED BY <1>2, <1>3, <2>1, <3>1
  <2> QED BY <2>2, <2>3, <1>4, SMT
<1>6. EndOf(first, last) \in 0 .. Duration
  <2> HIDE DEF E
  <2> QED BY <1>2, <1>3, <1>4
<1>7. /\ chunks[first].start \in Int /\ chunks[first].end \in Int /\ chunks[first].start < chunks[first].end
      /\ chunks[first].end <= EndOf(first, last)
    BY <1>0, <1>5, ChunkFacts
<1>8. Span(first, last) \in Int /\ chunks[first].start < EndOf(first, last)
  <2>1. EndOf(first, last) \in Int
    BY <1>6, SMT
  <2> QED BY <2>1, <1>7, SMT DEF Span
<1>9. \E j \in first .. last : EndOf(first, last) = chunks[j].end
    BY <1>3, <1>4
<1> QED BY <1>5, <1>6, <1>8, <1>9

\* A longer run does not end earlier; it ends as late as the chunks it has more.
LEMMA LongerRun ==
    ASSUME PlanGiven, NEW first \in 1 .. Len(chunks), NEW last \in first .. Len(chunks),
           NEW more \in last .. Len(chunks)
    PROVE  /\ Span(first, last) <= Span(first, more)
           /\ (\A k \in last + 1 .. more : chunks[k].end <= EndOf(first, last)) => Span(first, more) = Span(first, last)
           /\ last < more /\ EndOf(last + 1, more) > EndOf(first, last) => EndOf(first, more) = EndOf(last + 1, more)
<1>0. /\ more \in first .. Len(chunks) /\ \A j \in first .. last : j \in first .. more
      /\ \A j \in first .. more : j \in first .. last \/ j \in last + 1 .. more
      /\ \A j \in last + 1 .. more : j \in first .. more
      /\ last < more => last + 1 \in 1 .. Len(chunks) /\ more \in last + 1 .. Len(chunks)
    BY ChunkFacts, SMT
<1>1. PICK j \in first .. last : EndOf(first, last) = chunks[j].end
    BY EndOfRun
<1>2. PICK k \in first .. more : EndOf(first, more) = chunks[k].end
    BY <1>0, EndOfRun
<1>3. EndOf(first, last) \in Int /\ EndOf(first, more) \in Int /\ chunks[first].start \in Int
  <2>1. EndOf(first, last) \in 0 .. Duration /\ EndOf(first, more) \in 0 .. Duration
    BY <1>0, EndOfRun
  <2> QED BY <2>1, ChunkFacts, SMT
<1>4. EndOf(first, last) <= EndOf(first, more)
    BY <1>0, <1>1, EndOfRun
<1>5. Span(first, last) <= Span(first, more)
    BY <1>3, <1>4, SMT DEF Span
<1>6. ASSUME \A x \in last + 1 .. more : chunks[x].end <= EndOf(first, last)
      PROVE  Span(first, more) = Span(first, last)
  <2>1. EndOf(first, more) <= EndOf(first, last)
    BY <1>0, <1>2, <1>6, EndOfRun
  <2> QED BY <1>3, <1>4, <2>1, SMT DEF Span
<1>7. ASSUME last < more, EndOf(last + 1, more) > EndOf(first, last)
      PROVE  EndOf(first, more) = EndOf(last + 1, more)
  <2>1. PICK x \in last + 1 .. more : EndOf(last + 1, more) = chunks[x].end
    BY <1>0, <1>7, EndOfRun
  <2>2. EndOf(last + 1, more) <= EndOf(first, more)
    BY <1>0, <2>1, EndOfRun
  <2>3. EndOf(last + 1, more) \in Int
  <3>1. EndOf(last + 1, more) \in 0 .. Duration
      BY <1>0, <1>7, EndOfRun
    <3> QED BY <3>1, SMT
  <2>4. CASE k \in first .. last
    <3>1. EndOf(first, more) <= EndOf(first, last)
      BY <2>4, <1>2, EndOfRun
    <3> QED BY <3>1, <2>2, <2>3, <1>3, <1>7, SMT
  <2>5. CASE k \in last + 1 .. more
    <3>1. EndOf(first, more) <= EndOf(last + 1, more)
      BY <2>5, <1>2, <1>0, <1>7, EndOfRun
    <3> QED BY <3>1, <2>2, <2>3, <1>3, SMT
  <2> QED BY <2>4, <2>5, <1>0
<1> QED BY <1>5, <1>6, <1>7

\* A run that grows stops at the last chunk that fits, or at the first that
\* reaches the target.
LEMMA GrownRun ==
    ASSUME PlanGiven, NEW first \in 1 .. Len(chunks)
    PROVE  /\ Grown(first) \in first - 1 .. Len(chunks)
           /\ Grown(first) >= first => Span(first, Grown(first)) <= policy.max
           /\ \A last \in first .. Len(chunks) :
                Legal(first, last) => Grown(first) >= first /\ Span(first, Grown(first)) >= policy.min
<1> DEFINE fits == {j \in first .. Len(chunks) : Span(first, j) <= policy.max}
           targets == {j \in fits : Span(first, j) >= policy.target}
<1>0. /\ fits \in SUBSET (0 .. Len(chunks)) /\ targets \in SUBSET Nat /\ Len(chunks) \in Nat
      /\ fits \in SUBSET (first .. Len(chunks)) /\ targets \in SUBSET fits
    BY ChunkFacts, SMT
<1>1. Grown(first) = IF fits = {} THEN first - 1 ELSE IF targets = {} THEN Max(fits) ELSE Min(targets)
    BY DEF Grown
<1>2. \A j \in fits : Span(first, j) <= policy.max
    OBVIOUS
<1>3. \A j \in targets : Span(first, j) >= policy.target
    OBVIOUS
<1>4. \A last \in first .. Len(chunks) : Legal(first, last) => last \in fits /\ Span(first, last) >= policy.min
  <2> SUFFICES ASSUME NEW last \in first .. Len(chunks), Legal(first, last)
               PROVE  last \in fits /\ Span(first, last) >= policy.min
    OBVIOUS
  <2>1. Span(first, last) \in policy.min .. policy.max
    BY DEF Legal
  <2> QED BY <2>1, PolicyFacts, SMT
<1> HIDE DEF fits, targets
<1>5. CASE fits = {}
  <2>1. first - 1 \in first - 1 .. Len(chunks) /\ ~(first - 1 >= first)
    BY ChunkFacts, SMT
  <2> QED BY <1>1, <1>4, <1>5, <2>1
<1>6. CASE fits # {} /\ targets = {}
  <2>1. Grown(first) \in fits /\ \A y \in fits : Grown(first) >= y
    BY <1>0, <1>1, <1>6, MaxOf
  <2>2. Grown(first) \in first .. Len(chunks)
    BY <1>0, <2>1
  <2>3. Grown(first) \in first - 1 .. Len(chunks) /\ Grown(first) >= first
    BY <1>0, <2>2, SMT
  <2>4. ASSUME NEW last \in first .. Len(chunks), Legal(first, last) PROVE Span(first, Grown(first)) >= policy.min
    <3>1. last \in fits /\ Span(first, last) >= policy.min
      BY <1>4, <2>4
    <3>2. Grown(first) \in last .. Len(chunks)
      BY <3>1, <2>1, <2>2, <1>0, SMT
    <3>3. Span(first, last) <= Span(first, Grown(first)) /\ Span(first, last) \in Int /\ Span(first, Grown(first)) \in Int
      BY <2>2, <3>2, LongerRun, EndOfRun
    <3> QED BY <3>1, <3>3, PolicyFacts, SMT
  <2> QED BY <1>2, <2>1, <2>3, <2>4
<1>7. CASE fits # {} /\ targets # {}
  <2>1. Grown(first) \in targets
    BY <1>0, <1>1, <1>7, MinOf
  <2>2. Grown(first) \in first .. Len(chunks)
    BY <1>0, <2>1
  <2>3. Grown(first) \in first - 1 .. Len(chunks) /\ Grown(first) >= first
    BY <1>0, <2>2, SMT
  <2>4. Span(first, Grown(first)) >= policy.target /\ Span(first, Grown(first)) <= policy.max
    BY <1>0, <1>2, <1>3, <2>1
  <2>5. Span(first, Grown(first)) \in Int
    BY <2>2, EndOfRun
  <2>6. Span(first, Grown(first)) >= policy.min
    BY <2>4, <2>5, PolicyFacts, SMT
  <2> QED BY <2>3, <2>4, <2>6
<1> QED BY <1>5, <1>6, <1>7

\* Where a run of legal length starts, the run that is taken there has one.
LEMMA ExtendedRun ==
    ASSUME PlanGiven, NEW first \in 1 .. Len(chunks)
    PROVE  /\ Extended(first) \in first - 1 .. Len(chunks)
           /\ \A last \in first .. Len(chunks) : Legal(first, last) => Legal(first, Extended(first))
<1> DEFINE last == Grown(first)
           full == {j \in last .. Len(chunks) : \A k \in last + 1 .. j : chunks[k].end <= EndOf(first, last)}
<1>1. Extended(first) = IF last < first \/ Span(first, last) < policy.target THEN last
                        ELSE IF TailFits(first, Max(full)) THEN Len(chunks) ELSE Max(full)
    BY DEF Extended
<1>2. last \in first - 1 .. Len(chunks)
    BY GrownRun
<1>3. CASE last < first \/ Span(first, last) < policy.target
  <2>1. Extended(first) = last
    BY <1>1, <1>3
  <2>2. ASSUME NEW l \in first .. Len(chunks), Legal(first, l) PROVE Legal(first, last)
    <3>1. last >= first /\ Span(first, last) >= policy.min /\ Span(first, last) <= policy.max
      BY <2>2, GrownRun
    <3>2. last \in first .. Len(chunks)
      BY <1>2, <3>1, ChunkFacts, SMT
    <3>3. Span(first, last) \in Int
      BY <3>2, EndOfRun
    <3> HIDE DEF last
    <3> QED BY <3>1, <3>3, PolicyFacts, SMT DEF Legal
  <2> QED BY <1>2, <2>1, <2>2
<1>4. CASE ~(last < first) /\ ~(Span(first, last) < policy.target)
  <2>1. last \in first .. Len(chunks) /\ last \in 1 .. Len(chunks) /\ Len(chunks) \in Nat
    <3> HIDE DEF last
    <3> QED BY <1>2, <1>4, ChunkFacts, SMT
  <2>2. full \in SUBSET (0 .. Len(chunks)) /\ last \in full
    <3> HIDE DEF last
    <3> QED BY <2>1, SMT
  <2>3. PICK m : m = Max(full) /\ m \in full
    <3> HIDE DEF full, last
    <3> QED BY <2>1, <2>2, MaxOf
  <2>4. m \in last .. Len(chunks) /\ \A k \in last + 1 .. m : chunks[k].end <= EndOf(first, last)
    BY <2>3
  <2>5. Span(first, m) = Span(first, last)
    <3> HIDE DEF full, last
    <3> QED BY <2>1, <2>4, LongerRun
  <2>6. Span(first, last) \in Int /\ Span(first, last) <= policy.max
    <3>1. last >= first
      <4> HIDE DEF full, last
      <4> QED BY <2>1, SMT
    <3> QED BY <2>1, <3>1, EndOfRun, GrownRun
  <2>7. m \in first .. Len(chunks)
    <3> HIDE DEF full, last
    <3> QED BY <2>1, <2>4, SMT
  <2>8. CASE TailFits(first, m)
    <3> DEFINE e == EndOf(m + 1, Len(chunks))
    <3>1. Extended(first) = Len(chunks)
      BY <1>1, <1>4, <2>3, <2>8
    <3>2. m < Len(chunks) /\ e > EndOf(first, m) /\ e - chunks[first].start <= policy.max
      BY <2>8 DEF TailFits
    <3>3. /\ Len(chunks) \in m .. Len(chunks) /\ Len(chunks) \in first .. Len(chunks) /\ m + 1 \in 1 .. Len(chunks)
          /\ Len(chunks) \in m + 1 .. Len(chunks) /\ Len(chunks) >= first
      <4> HIDE DEF full, last, e
      <4> QED BY <2>1, <2>7, <3>2, SMT
    <3>4. EndOf(first, Len(chunks)) = e /\ Span(first, m) <= Span(first, Len(chunks)) /\ Span(first, Len(chunks)) \in Int
      BY <2>7, <3>2, <3>3, LongerRun, EndOfRun
    <3>5. Span(first, Len(chunks)) <= policy.max
      BY <3>2, <3>4 DEF Span
    <3> HIDE DEF full, last, e
    <3>6. Span(first, Len(chunks)) \in policy.min .. policy.max
      BY <1>4, <2>5, <2>6, <3>4, <3>5, PolicyFacts, SMT
    <3>7. Extended(first) \in first - 1 .. Len(chunks) /\ Legal(first, Len(chunks))
      BY <3>1, <3>3, <3>6, SMT DEF Legal
    <3> QED BY <3>1, <3>7
  <2>9. CASE ~TailFits(first, m)
    <3>1. Extended(first) = m
      BY <1>1, <1>4, <2>3, <2>9
    <3> HIDE DEF full, last
    <3>2. Span(first, m) \in policy.min .. policy.max
      BY <1>4, <2>5, <2>6, PolicyFacts, SMT
    <3>3. m \in first - 1 .. Len(chunks) /\ m >= first
      BY <2>7, <2>1, SMT
    <3> QED BY <3>1, <3>2, <3>3 DEF Legal
  <2> QED BY <2>8, <2>9
<1> HIDE DEF last, full
<1> QED BY <1>3, <1>4

\* What stands next to a candidate does not overlap it.
LEMMA CandidateOfRun ==
    ASSUME PlanGiven, NEW first \in 1 .. Len(chunks), NEW last \in first .. Len(chunks)
    PROVE  /\ Candidate(first, last) \in Candidates(chunks)
           /\ Candidate(first, last).first = first /\ Candidate(first, last).last = last
           /\ Candidate(first, last).start = chunks[first].start /\ Candidate(first, last).end = EndOf(first, last)
           /\ Candidate(first, last).before # 0 => chunks[Candidate(first, last).before].end <= chunks[first].start
           /\ Candidate(first, last).after # 0 => chunks[Candidate(first, last).after].start >= EndOf(first, last)
<1> DEFINE from    == chunks[first].start
           to      == EndOf(first, last)
           earlier == {j \in 1 .. first - 1 : chunks[j].end <= from}
           later   == {j \in last + 1 .. Len(chunks) : chunks[j].start >= to}
           b       == Excerpt(earlier)
           a       == IF later = {} THEN 0 ELSE Min(later)
<1>1. Candidate(first, last) = [first |-> first, last |-> last, start |-> from, end |-> to, before |-> b, after |-> a]
    BY DEF Candidate
<1>2. earlier \in SUBSET (0 .. Len(chunks)) /\ later \in SUBSET Nat /\ later \in SUBSET (0 .. Len(chunks))
    BY ChunkFacts, SMT
<1>3. b \in 0 .. Len(chunks) /\ (b # 0 => chunks[b].end <= from)
  <2>1. b = IF earlier = {} THEN 0 ELSE Max(earlier)
    BY DEF Excerpt
  <2>2. earlier = {} \/ Max(earlier) \in earlier
    <3> HIDE DEF earlier
    <3> QED BY <1>2, ChunkFacts, MaxOf
  <2>3. 0 \in 0 .. Len(chunks)
    BY ChunkFacts, SMT
  <2>4. b = 0 \/ b \in earlier
    BY <2>1, <2>2
  <2>5. b \in earlier => b \in 0 .. Len(chunks) /\ chunks[b].end <= from
    <3> HIDE DEF b
    <3> QED BY <1>2
  <2> HIDE DEF b, earlier
  <2> QED BY <2>3, <2>4, <2>5
<1>4. a \in 0 .. Len(chunks) /\ (a # 0 => chunks[a].start >= to)
  <2>2. later = {} \/ Min(later) \in later
    <3> HIDE DEF later
    <3> QED BY <1>2, MinOf
  <2>3. 0 \in 0 .. Len(chunks)
    BY ChunkFacts, SMT
  <2>4. a = 0 \/ a \in later
    BY <2>2
  <2>5. a \in later => a \in 0 .. Len(chunks) /\ chunks[a].start >= to
    <3> HIDE DEF a
    <3> QED BY <1>2
  <2> HIDE DEF a, later
  <2> QED BY <2>3, <2>4, <2>5
<1>5. from \in 0 .. Duration /\ to \in 0 .. Duration /\ first \in DOMAIN chunks /\ last \in DOMAIN chunks
  <2>1. /\ chunks[first].start \in Int /\ chunks[first].end \in Int /\ Duration \in Int
        /\ 0 <= chunks[first].start /\ chunks[first].start < chunks[first].end /\ chunks[first].end <= Duration
    BY ChunkFacts
  <2>2. last \in DOMAIN chunks
    BY ChunkFacts, SMT
  <2>3. from \in 0 .. Duration
    BY <2>1, SMT
  <2> QED BY <2>2, <2>3, EndOfRun, ChunkFacts
<1> HIDE DEF from, to, earlier, later, b, a
<1>6. Candidate(first, last) \in Candidates(chunks)
    BY <1>1, <1>3, <1>4, <1>5 DEF Candidates
<1>7. /\ Candidate(first, last).first = first /\ Candidate(first, last).last = last
      /\ Candidate(first, last).start = from /\ Candidate(first, last).end = to
      /\ Candidate(first, last).before = b /\ Candidate(first, last).after = a
    BY <1>1
<1> QED BY <1>3, <1>4, <1>6, <1>7 DEF from, to

\* One more at the front of a list.
LEMMA Prepended ==
    ASSUME NEW V, NEW c \in V, NEW s \in Seq(V)
    PROVE  /\ <<c>> \o s \in Seq(V) /\ Len(<<c>> \o s) = Len(s) + 1 /\ Len(s) \in Nat
           /\ (<<c>> \o s)[1] = c
           /\ \A k \in 2 .. Len(s) + 1 : (<<c>> \o s)[k] = s[k - 1]
<1>1. <<c>> \in Seq(V) /\ Len(<<c>>) = 1 /\ <<c>>[1] = c
  OBVIOUS
<1> QED BY <1>1

\* The candidates are taken one after another, from the front.
After(i) == IF Legal(i, Extended(i)) THEN Extended(i) + 1 ELSE i + 1

\* The recursion of prepare has a table of its values.
LEMMA SpecsTaken ==
    ASSUME PlanGiven
    PROVE  \E F \in [1 .. Len(chunks) + 1 -> Seq(Candidates(chunks))] :
             /\ Specs = F[1]
             /\ F[Len(chunks) + 1] = <<>>
             /\ \A i \in 1 .. Len(chunks) :
                  F[i] = IF Legal(i, Extended(i)) THEN <<Candidate(i, Extended(i))>> \o F[After(i)] ELSE F[After(i)]
<1> DEFINE n == Len(chunks)
           V == Seq(Candidates(chunks))
           G == [p \in (1 .. n) \X V |->
                   IF Legal(p[1], Extended(p[1])) THEN <<Candidate(p[1], Extended(p[1]))>> \o p[2] ELSE p[2]]
           nxt == [i \in 1 .. n |-> After(i)]
           body(F) == [i \in 1 .. Len(chunks) + 1 |->
                         IF i > Len(chunks) THEN <<>>
                         ELSE IF Legal(i, Extended(i)) THEN <<Candidate(i, Extended(i))>> \o F[Extended(i) + 1]
                         ELSE F[i + 1]]
           from == CHOOSE F : F = body(F)
<1>0. n \in Nat
    BY ChunkFacts
<1>1. Specs = from[1]
    BY DEF Specs
<1>2. ASSUME NEW i \in 1 .. n
      PROVE  After(i) \in i + 1 .. n + 1 /\ (Legal(i, Extended(i)) => Candidate(i, Extended(i)) \in Candidates(chunks))
  <2>1. Extended(i) \in i - 1 .. n
    BY ExtendedRun
  <2>2. Legal(i, Extended(i)) => Extended(i) >= i
    BY DEF Legal
  <2>3. Legal(i, Extended(i)) => Extended(i) \in i .. n
    BY <2>1, <2>2, <1>0, SMT
  <2>4. Legal(i, Extended(i)) => Candidate(i, Extended(i)) \in Candidates(chunks)
    BY <2>3, CandidateOfRun
  <2>5. After(i) = IF Legal(i, Extended(i)) THEN Extended(i) + 1 ELSE i + 1
    BY DEF After
  <2>6. After(i) \in i + 1 .. n + 1
    BY <2>3, <2>5, <1>0, SMT
  <2> QED BY <2>4, <2>6
<1>3. G \in [(1 .. n) \X V -> V]
  <2> SUFFICES ASSUME NEW p \in (1 .. n) \X V
               PROVE  (IF Legal(p[1], Extended(p[1])) THEN <<Candidate(p[1], Extended(p[1]))>> \o p[2] ELSE p[2]) \in V
    OBVIOUS
  <2>1. p[1] \in 1 .. n /\ p[2] \in V
    OBVIOUS
  <2>2. CASE Legal(p[1], Extended(p[1]))
    <3>1. Candidate(p[1], Extended(p[1])) \in Candidates(chunks)
      BY <2>1, <2>2, <1>2
    <3>2. <<Candidate(p[1], Extended(p[1]))>> \o p[2] \in V
      BY <2>1, <3>1, Prepended
    <3> QED BY <2>2, <3>2
  <2> QED BY <2>1, <2>2
<1>4. \A i \in 1 .. n : nxt[i] \in i + 1 .. n + 1
    BY <1>2
<1>5. <<>> \in V
    OBVIOUS
<1>5a. PICK v, g, x, m : v = V /\ g = G /\ x = nxt /\ m = n
  OBVIOUS
<1>5b. /\ m \in Nat /\ g \in [(1 .. m) \X v -> v] /\ (\A i \in 1 .. m : x[i] \in i + 1 .. m + 1) /\ <<>> \in v
       /\ v = Seq(Candidates(chunks)) /\ m = Len(chunks)
       /\ \A i \in 1 .. m : x[i] = After(i)
  BY <1>0, <1>3, <1>4, <1>5, <1>5a
<1>5c. \A i \in 1 .. m : \A w \in v :
            g[<<i, w>>] = IF Legal(i, Extended(i)) THEN <<Candidate(i, Extended(i))>> \o w ELSE w
  BY <1>5a
<1> HIDE DEF G, nxt, V
<1>6. PICK F \in [1 .. m + 1 -> v] : IsJumping(F, m, <<>>, g, x)
  <2> HIDE DEF n, body, from
  <2> QED BY <1>5b, JumpsExist
<1>6a. F \in [1 .. n + 1 -> v] /\ \A i \in 1 .. n + 1 : F[i] = IF i > n THEN <<>> ELSE g[<<i, F[x[i]]>>]
  BY <1>5b, <1>6 DEF IsJumping
<1>7. \A i \in 1 .. n + 1 : i > n <=> i = n + 1
    BY <1>0, SMT
<1>8. ASSUME NEW i \in 1 .. n
      PROVE  F[i] = IF Legal(i, Extended(i)) THEN <<Candidate(i, Extended(i))>> \o F[After(i)] ELSE F[After(i)]
  <2>1. x[i] = After(i) /\ i \in 1 .. n + 1 /\ ~(i > n) /\ i \in 1 .. m
    BY <1>0, <1>5b
  <2>2. F[i] = g[<<i, F[After(i)]>>]
    BY <1>6a, <2>1
  <2>3. After(i) \in 1 .. n + 1
    BY <1>2, <1>0, SMT
  <2>4. F[After(i)] \in v
    BY <1>6a, <2>3
  <2> QED BY <2>1, <2>2, <2>4, <1>5c
<1>9. F = body(F)
  <2>1. ASSUME NEW i \in 1 .. n + 1 PROVE F[i] = body(F)[i]
    <3>1. CASE i = n + 1
      <4>1. i > n
        BY <1>7, <3>1
      <4> QED BY <4>1, <1>6a
    <3>2. CASE i # n + 1
      <4>1. i \in 1 .. n /\ ~(i > n)
        BY <3>2, <1>0, SMT
      <4> QED BY <4>1, <1>8 DEF After
    <3> QED BY <3>1, <3>2
  <2>2. DOMAIN F = 1 .. n + 1
    BY <1>6a
  <2>3. F = [i \in 1 .. n + 1 |-> F[i]]
    BY <1>6a
  <2> QED BY <2>1, <2>3
<1> HIDE DEF body
<1>10. from = body(from)
    BY <1>9
<1> QED
  <2>1. \A i \in 1 .. n + 1 : from[i] = IF i > n THEN <<>>
                         ELSE IF Legal(i, Extended(i)) THEN <<Candidate(i, Extended(i))>> \o from[Extended(i) + 1]
                         ELSE from[i + 1]
    BY <1>10 DEF body
  <2>2. DOMAIN from = 1 .. n + 1
    BY <1>10 DEF body
  <2> HIDE DEF from
  <2>3. ASSUME NEW i \in 1 .. n
        PROVE  from[i] = IF Legal(i, Extended(i)) THEN <<Candidate(i, Extended(i))>> \o from[After(i)] ELSE from[After(i)]
    <3>1. i \in 1 .. n + 1 /\ ~(i > n)
      BY <1>0, SMT
    <3> QED BY <2>1, <3>1 DEF After
  <2>4. from[n + 1] = <<>>
    <3>1. n + 1 \in 1 .. n + 1 /\ n + 1 > n
      BY <1>0, SMT
    <3> QED BY <2>1, <3>1
  <2> DEFINE T == {k \in 0 .. n : \A i \in k + 1 .. n + 1 : from[i] \in V}
  <2>5. n \in T
    <3>1. \A i \in n + 1 .. n + 1 : i = n + 1
      BY <1>0, SMT
    <3>2. n \in 0 .. n
      BY <1>0, SMT
    <3> QED BY <2>4, <1>5, <3>1, <3>2
  <2>6. ASSUME NEW k \in 1 .. n, k \in T PROVE k - 1 \in T
    <3>1. \A i \in k + 1 .. n + 1 : from[i] \in V
      BY <2>6
    <3>2. After(k) \in k + 1 .. n + 1
      BY <1>2
    <3>3. from[After(k)] \in V
      BY <3>1, <3>2
    <3>4. ASSUME Legal(k, Extended(k)) PROVE from[k] \in V
      <4>1. from[k] = <<Candidate(k, Extended(k))>> \o from[After(k)] /\ Candidate(k, Extended(k)) \in Candidates(chunks)
        BY <2>3, <3>4, <1>2
      <4> QED BY <4>1, <3>3, Prepended DEF V
    <3>5. ASSUME ~Legal(k, Extended(k)) PROVE from[k] \in V
      BY <2>3, <3>3, <3>5
    <3>6. from[k] \in V
      BY <3>4, <3>5
    <3>7. k - 1 \in 0 .. n /\ \A i \in (k - 1) + 1 .. n + 1 : i = k \/ i \in k + 1 .. n + 1
      BY <1>0, SMT
    <3> QED BY <3>1, <3>6, <3>7
  <2> HIDE DEF T
  <2>7. 0 .. n \subseteq T
    BY <1>0, <2>5, <2>6, DownFrom
  <2>8. 0 \in T /\ 0 + 1 = 1
    BY <1>0, <2>7, SMT
  <2>9. \A i \in 1 .. n + 1 : from[i] \in V
    BY <2>8 DEF T
  <2>10. from = [i \in 1 .. n + 1 |-> from[i]]
    BY <1>10 DEF body
  <2>11. from \in [1 .. n + 1 -> V]
    BY <2>9, <2>10
  <2>12. from \in [1 .. Len(chunks) + 1 -> Seq(Candidates(chunks))]
    BY <2>11 DEF V
  <2> QED BY <1>1, <2>3, <2>4, <2>12

\* What a list of candidates taken from a position on is.
Taken(i, s) ==
    /\ \A k \in 1 .. Len(s) :
         /\ s[k] = Candidate(s[k].first, s[k].last) /\ Legal(s[k].first, s[k].last)
         /\ s[k].first \in i .. Len(chunks) /\ s[k].last \in s[k].first .. Len(chunks)
    /\ \A j, k \in 1 .. Len(s) : j < k => s[j].last < s[k].first
    /\ \A k \in i .. Len(chunks) :
         \/ \E m \in 1 .. Len(s) : k \in s[m].first .. s[m].last
         \/ \A last \in k .. Len(chunks) : ~Legal(k, last)

\* A position that starts a candidate takes it along.
LEMMA TakeOne ==
    ASSUME PlanGiven, NEW i \in 1 .. Len(chunks), NEW s \in Seq(Candidates(chunks)),
           Legal(i, Extended(i)), Taken(After(i), s)
    PROVE  Taken(i, <<Candidate(i, Extended(i))>> \o s)
<1> DEFINE c == Candidate(i, Extended(i))
           t == <<c>> \o s
<1>1. Extended(i) \in i .. Len(chunks) /\ After(i) = Extended(i) + 1 /\ Len(chunks) \in Nat
  <2>1. Extended(i) \in i - 1 .. Len(chunks) /\ Extended(i) >= i
    BY ExtendedRun DEF Legal
  <2> QED BY <2>1, ChunkFacts, SMT DEF After
<1>2. c \in Candidates(chunks) /\ c.first = i /\ c.last = Extended(i)
  BY <1>1, CandidateOfRun
<1>3. Len(s) \in Nat /\ Len(t) = Len(s) + 1 /\ t[1] = c /\ \A k \in 2 .. Len(s) + 1 : t[k] = s[k - 1]
  BY <1>2, Prepended
<1>4. c = Candidate(c.first, c.last) /\ Legal(c.first, c.last)
  BY <1>2
<1> HIDE DEF c, t
<1>5. ASSUME NEW k \in 1 .. Len(t)
      PROVE  k = 1 \/ (k \in 2 .. Len(s) + 1 /\ k - 1 \in 1 .. Len(s) /\ t[k] = s[k - 1])
  BY <1>3, SMT
<1>6. ASSUME NEW k \in 1 .. Len(s)
      PROVE  /\ s[k] = Candidate(s[k].first, s[k].last) /\ Legal(s[k].first, s[k].last)
             /\ s[k].first \in i .. Len(chunks) /\ s[k].last \in s[k].first .. Len(chunks) /\ Extended(i) < s[k].first
  <2>1. /\ s[k] = Candidate(s[k].first, s[k].last) /\ Legal(s[k].first, s[k].last)
        /\ s[k].first \in After(i) .. Len(chunks) /\ s[k].last \in s[k].first .. Len(chunks)
    BY DEF Taken
  <2>2. s[k].first \in i .. Len(chunks) /\ Extended(i) < s[k].first
    BY <1>1, <2>1, SMT
  <2> QED BY <2>1, <2>2
<1>7. ASSUME NEW k \in 1 .. Len(t)
      PROVE  /\ t[k] = Candidate(t[k].first, t[k].last) /\ Legal(t[k].first, t[k].last)
             /\ t[k].first \in i .. Len(chunks) /\ t[k].last \in t[k].first .. Len(chunks)
  <2>1. ASSUME k = 1
        PROVE  /\ t[k] = Candidate(t[k].first, t[k].last) /\ Legal(t[k].first, t[k].last)
               /\ t[k].first \in i .. Len(chunks) /\ t[k].last \in t[k].first .. Len(chunks)
    <3>1. i \in i .. Len(chunks)
      BY <1>1, SMT
    <3>2. t[k] = c
      BY <1>3, <2>1
    <3> QED BY <1>1, <1>2, <1>4, <3>1, <3>2
  <2> QED BY <1>5, <1>6, <2>1
<1>8. ASSUME NEW j \in 1 .. Len(t), NEW k \in 1 .. Len(t), j < k PROVE t[j].last < t[k].first
  <2>1. k # 1
    BY <1>3, <1>8, SMT
  <2>2. k - 1 \in 1 .. Len(s) /\ t[k] = s[k - 1]
    BY <1>5, <2>1
  <2>3. ASSUME j = 1 PROVE t[j].last < t[k].first
    <3>1. t[j].last = Extended(i)
      BY <1>2, <1>3, <2>3
    <3> QED BY <2>2, <3>1, <1>6
  <2>4. ASSUME j # 1 PROVE t[j].last < t[k].first
    <3>1. j - 1 \in 1 .. Len(s) /\ t[j] = s[j - 1]
      BY <1>5, <2>4
    <3>2. j - 1 < k - 1
      BY <1>3, <1>8, SMT
    <3> QED BY <2>2, <3>1, <3>2 DEF Taken
  <2> QED BY <2>3, <2>4
<1>9. ASSUME NEW k \in i .. Len(chunks)
      PROVE  \/ \E m \in 1 .. Len(t) : k \in t[m].first .. t[m].last
             \/ \A last \in k .. Len(chunks) : ~Legal(k, last)
  <2>1. k \in i .. Extended(i) \/ k \in After(i) .. Len(chunks)
    BY <1>1, SMT
  <2>2. ASSUME k \in i .. Extended(i) PROVE \E m \in 1 .. Len(t) : k \in t[m].first .. t[m].last
    <3>1. 1 \in 1 .. Len(t)
      BY <1>3, SMT
    <3>2. k \in t[1].first .. t[1].last
      BY <1>2, <1>3, <2>2
    <3> QED BY <3>1, <3>2
  <2>3. ASSUME NEW m \in 1 .. Len(s), k \in s[m].first .. s[m].last PROVE \E x \in 1 .. Len(t) : k \in t[x].first .. t[x].last
    <3>1. m + 1 \in 1 .. Len(t) /\ m + 1 \in 2 .. Len(s) + 1 /\ (m + 1) - 1 = m
      BY <1>3, SMT
    <3>2. t[m + 1] = s[m]
      BY <1>3, <3>1
    <3> QED BY <2>3, <3>1, <3>2
  <2> QED BY <2>1, <2>2, <2>3 DEF Taken
<1> QED BY <1>7, <1>8, <1>9 DEF Taken, t, c

\* And one that starts none is passed over.
LEMMA TakeNone ==
    ASSUME PlanGiven, NEW i \in 1 .. Len(chunks), NEW s \in Seq(Candidates(chunks)),
           ~Legal(i, Extended(i)), Taken(After(i), s)
    PROVE  Taken(i, s)
<1>1. After(i) = i + 1 /\ Len(chunks) \in Nat
  BY ChunkFacts DEF After
<1>2. \A k \in i .. Len(chunks) : k = i \/ k \in i + 1 .. Len(chunks)
  BY <1>1, SMT
<1>3. \A last \in i .. Len(chunks) : ~Legal(i, last)
  BY ExtendedRun
<1>4. ASSUME NEW k \in i .. Len(chunks)
      PROVE  \/ \E m \in 1 .. Len(s) : k \in s[m].first .. s[m].last
             \/ \A last \in k .. Len(chunks) : ~Legal(k, last)
  BY <1>1, <1>2, <1>3 DEF Taken
<1>5. ASSUME NEW k \in 1 .. Len(s)
      PROVE /\ s[k] = Candidate(s[k].first, s[k].last) /\ Legal(s[k].first, s[k].last)
            /\ s[k].first \in i .. Len(chunks) /\ s[k].last \in s[k].first .. Len(chunks)
  <2>1. /\ s[k] = Candidate(s[k].first, s[k].last) /\ Legal(s[k].first, s[k].last)
        /\ s[k].first \in i + 1 .. Len(chunks) /\ s[k].last \in s[k].first .. Len(chunks)
    BY <1>1 DEF Taken
  <2>2. s[k].first \in i .. Len(chunks)
    BY <1>1, <2>1, SMT
  <2> QED BY <2>1, <2>2
<1> QED BY <1>4, <1>5 DEF Taken

\* The candidates of the whole transcript.
LEMMA SpecsSound ==
    ASSUME PlanGiven
    PROVE  Specs \in Seq(Candidates(chunks)) /\ Taken(1, Specs)
<1> DEFINE n == Len(chunks)
<1>0. n \in Nat
  BY ChunkFacts
<1>1. PICK F \in [1 .. n + 1 -> Seq(Candidates(chunks))] :
             /\ Specs = F[1]
             /\ F[n + 1] = <<>>
             /\ \A i \in 1 .. n :
                  F[i] = IF Legal(i, Extended(i)) THEN <<Candidate(i, Extended(i))>> \o F[After(i)] ELSE F[After(i)]
  BY SpecsTaken
<1> DEFINE T == {k \in 0 .. n : \A i \in k + 1 .. n + 1 : Taken(i, F[i])}
<1>2. n \in T
  <2>1. \A i \in n + 1 .. n + 1 : i = n + 1
    BY <1>0, SMT
  <2>2. n \in 0 .. n /\ n + 1 .. n = {} /\ Len(<<>>) = 0 /\ 1 .. 0 = {}
    BY <1>0, SMT
  <2>3. Taken(n + 1, <<>>)
    BY <2>2 DEF Taken
  <2> QED BY <1>1, <2>1, <2>2, <2>3
<1>3. ASSUME NEW k \in 1 .. n, k \in T PROVE k - 1 \in T
  <2>1. \A i \in k + 1 .. n + 1 : Taken(i, F[i])
    BY <1>3
  <2>2. After(k) \in k + 1 .. n + 1 /\ After(k) \in 1 .. n + 1
    <3>1. Extended(k) \in k - 1 .. n /\ (Legal(k, Extended(k)) => Extended(k) >= k)
      BY ExtendedRun DEF Legal
    <3> QED BY <1>0, <3>1, SMT DEF After
  <2>3. F[After(k)] \in Seq(Candidates(chunks)) /\ Taken(After(k), F[After(k)])
    BY <2>1, <2>2
  <2>4. Taken(k, F[k])
    BY <1>1, <2>3, TakeOne, TakeNone
  <2>5. k - 1 \in 0 .. n /\ \A i \in (k - 1) + 1 .. n + 1 : i = k \/ i \in k + 1 .. n + 1
    BY <1>0, SMT
  <2> QED BY <2>1, <2>4, <2>5
<1> HIDE DEF T
<1>4. 0 .. n \subseteq T
  BY <1>0, <1>2, <1>3, DownFrom
<1>5. 0 \in T /\ 0 + 1 = 1 /\ 1 \in 1 .. n + 1
  BY <1>0, <1>4, SMT
<1> QED BY <1>1, <1>5 DEF T

\* The candidates are those that prepare takes.
CandidatesTaken == candidates \in Seq(Candidates(chunks)) /\ Taken(1, candidates)

\* What is known of every candidate.
LEMMA EveryCandidate ==
    ASSUME PlanGiven, CandidatesTaken
    PROVE  /\ Len(candidates) \in Nat /\ DOMAIN candidates = 1 .. Len(candidates)
           /\ \A i \in 1 .. Len(candidates) :
                /\ candidates[i] \in Candidates(chunks)
                /\ candidates[i].first \in 1 .. Len(chunks)
                /\ candidates[i].last \in candidates[i].first .. Len(chunks)
                /\ candidates[i].start = chunks[candidates[i].first].start
                /\ candidates[i].end = EndOf(candidates[i].first, candidates[i].last)
                /\ candidates[i].start \in Int /\ candidates[i].end \in Int
                /\ 0 <= candidates[i].start /\ candidates[i].start < candidates[i].end /\ candidates[i].end <= Duration
                /\ candidates[i].end - candidates[i].start \in policy.min .. policy.max
<1>1. candidates \in Seq(Candidates(chunks)) /\ Taken(1, candidates)
  BY DEF CandidatesTaken
<1>2. Len(candidates) \in Nat /\ DOMAIN candidates = 1 .. Len(candidates)
  BY <1>1
<1>3. ASSUME NEW i \in 1 .. Len(candidates)
      PROVE  /\ candidates[i] \in Candidates(chunks)
             /\ candidates[i].first \in 1 .. Len(chunks)
             /\ candidates[i].last \in candidates[i].first .. Len(chunks)
             /\ candidates[i].start = chunks[candidates[i].first].start
             /\ candidates[i].end = EndOf(candidates[i].first, candidates[i].last)
             /\ candidates[i].start \in Int /\ candidates[i].end \in Int
             /\ 0 <= candidates[i].start /\ candidates[i].start < candidates[i].end /\ candidates[i].end <= Duration
             /\ candidates[i].end - candidates[i].start \in policy.min .. policy.max
  <2> DEFINE c == candidates[i]
  <2>1. c \in Candidates(chunks)
    BY <1>1, ElementOf
  <2>2. c = Candidate(c.first, c.last) /\ Legal(c.first, c.last) /\ c.first \in 1 .. Len(chunks) /\ c.last \in c.first .. Len(chunks)
    BY <1>1 DEF Taken
  <2> HIDE DEF c
  <2>3. /\ Candidate(c.first, c.last).start = chunks[c.first].start
        /\ Candidate(c.first, c.last).end = EndOf(c.first, c.last)
    BY <2>2, CandidateOfRun
  <2>4. c.start = chunks[c.first].start /\ c.end = EndOf(c.first, c.last)
    BY <2>2, <2>3
  <2>5. EndOf(c.first, c.last) \in 0 .. Duration /\ chunks[c.first].start < EndOf(c.first, c.last)
    BY <2>2, EndOfRun
  <2>6. chunks[c.first].start \in Int /\ 0 <= chunks[c.first].start /\ Duration \in Nat
    BY <2>2, ChunkFacts
  <2>7. EndOf(c.first, c.last) \in Int /\ EndOf(c.first, c.last) <= Duration
    BY <2>5, <2>6, SMT
  <2>8. c.end - c.start \in policy.min .. policy.max
    BY <2>2, <2>4 DEF Legal, Span
  <2> QED BY <2>1, <2>2, <2>4, <2>5, <2>6, <2>7, <2>8 DEF c
<1> QED BY <1>2, <1>3

\* What prepare takes has legal lengths, is disjoint and leaves nothing out.
LEMMA CandidatesAreSound ==
    ASSUME PlanGiven, CandidatesTaken
    PROVE  CandidatesSound
<1>1. candidates \in Seq(Candidates(chunks)) /\ Taken(1, candidates)
  BY DEF CandidatesTaken
<1>2. DOMAIN candidates = 1 .. Len(candidates) /\ DOMAIN chunks = 1 .. Len(chunks) /\ Len(candidates) \in Nat
  BY EveryCandidate, ChunkFacts
<1>3. ASSUME NEW i \in 1 .. Len(candidates)
      PROVE  \A j \in {candidates[i].before, candidates[i].after} \ {0} :
                  chunks[j].end <= candidates[i].start \/ chunks[j].start >= candidates[i].end
  <2> DEFINE c == candidates[i]
  <2>2. c = Candidate(c.first, c.last) /\ c.first \in 1 .. Len(chunks) /\ c.last \in c.first .. Len(chunks)
    BY <1>1 DEF Taken
  <2> HIDE DEF c
  <2>3. /\ Candidate(c.first, c.last).start = chunks[c.first].start
        /\ Candidate(c.first, c.last).end = EndOf(c.first, c.last)
        /\ Candidate(c.first, c.last).before # 0 => chunks[Candidate(c.first, c.last).before].end <= chunks[c.first].start
        /\ Candidate(c.first, c.last).after # 0 => chunks[Candidate(c.first, c.last).after].start >= EndOf(c.first, c.last)
    BY <2>2, CandidateOfRun
  <2>4. /\ c.before # 0 => chunks[c.before].end <= c.start
        /\ c.after # 0 => chunks[c.after].start >= c.end
    BY <2>2, <2>3
  <2> QED BY <2>4 DEF c
<1> QED BY <1>1, <1>2, <1>3 DEF CandidatesSound, Taken

-----------------------------------------------------------------------------
(* Clip planning: what finalize publishes under the limit                    *)

\* The reviews are there, of every candidate.
PlanReady ==
    /\ PlanGiven /\ CandidatesTaken
    /\ \A i \in 1 .. Len(candidates) : reviews[i].score \in Int

\* What is eligible is finite, and can be compared.
LEMMA EligibleFacts ==
    ASSUME PlanReady
    PROVE  /\ Eligible \in SUBSET (1 .. Len(candidates)) /\ IsFiniteSet(Eligible)
           /\ Cardinality(Eligible) \in Nat
           /\ \A i \in Eligible : i \in Int /\ reviews[i].score \in Int /\ PriorityOf(i) \in Int
<1>1. Len(candidates) \in Nat /\ DOMAIN candidates = 1 .. Len(candidates)
  BY EveryCandidate DEF PlanReady
<1>2. Eligible \in SUBSET (1 .. Len(candidates))
  BY <1>1 DEF Eligible
<1>3. IsFiniteSet(Eligible) /\ Cardinality(Eligible) \in Nat
  <2>1. IsFiniteSet(1 .. Len(candidates))
    BY <1>1, FS_Interval
  <2>2. IsFiniteSet(Eligible)
    BY <1>2, <2>1, FS_Subset
  <2> QED BY <2>2, FS_CardinalityType
<1>4. ASSUME NEW i \in Eligible PROVE i \in Int /\ reviews[i].score \in Int /\ PriorityOf(i) \in Int
  <2>1. i \in 1 .. Len(candidates)
    BY <1>2
  <2> DEFINE P == {p \in DOMAIN Priorities : Speaks(i, Priorities[p])} \cup {Len(Priorities) + 1}
  <2>2. Len(Priorities) \in Nat /\ DOMAIN Priorities = 1 .. Len(Priorities)
    BY DEF PlanReady, PlanGiven, PlanInputs
  <2>3. P \in SUBSET Nat /\ P # {}
    BY <2>2, SMT
  <2> HIDE DEF P
  <2>4. Min(P) \in P
    BY <2>3, MinOf
  <2>5. Min(P) \in Int
    <3>1. Min(P) \in Nat
      BY <2>3, <2>4, Zenon
    <3>2. \A x \in Nat : x \in Int
      OBVIOUS
    <3> QED BY <3>1, <3>2, Zenon
  <2>6. PriorityOf(i) = Min(P)
    BY DEF PriorityOf, P
  <2>7. i \in Int
    BY <1>1, <2>1, SMT
  <2> QED BY <2>1, <2>5, <2>6, <2>7 DEF PlanReady
<1> QED BY <1>2, <1>3, <1>4

\* Of two triples one comes first.
LEMMA TripleOrder ==
    ASSUME NEW a \in Int, NEW b \in Int, NEW c \in Int, NEW x \in Int, NEW y \in Int, NEW z \in Int,
           NEW u \in Int, NEW v \in Int, NEW w \in Int
    PROVE  /\ ~(a < a \/ (a = a /\ b > b) \/ (a = a /\ b = b /\ c < c))
           /\ c # z => \/ a < x \/ (a = x /\ b > y) \/ (a = x /\ b = y /\ c < z)
                       \/ x < a \/ (x = a /\ y > b) \/ (x = a /\ y = b /\ z < c)
           /\ (a < x \/ (a = x /\ b > y) \/ (a = x /\ b = y /\ c < z))
                /\ (x < u \/ (x = u /\ y > v) \/ (x = u /\ y = v /\ z < w))
                => a < u \/ (a = u /\ b > v) \/ (a = u /\ b = v /\ c < w)
  BY SMT

\* Better is a linear order of what is eligible.
LEMMA BetterOrder ==
    ASSUME PlanReady
    PROVE  /\ \A i \in Eligible : ~Better(i, i)
           /\ \A i, j \in Eligible : i # j => Better(i, j) \/ Better(j, i)
           /\ \A i, j, k \in Eligible : Better(i, j) /\ Better(j, k) => Better(i, k)
<1>1. ASSUME NEW i \in Eligible PROVE ~Better(i, i)
  BY EligibleFacts, TripleOrder DEF Better
<1>2. ASSUME NEW i \in Eligible, NEW j \in Eligible, i # j PROVE Better(i, j) \/ Better(j, i)
  <2>1. /\ i \in Int /\ reviews[i].score \in Int /\ PriorityOf(i) \in Int
        /\ j \in Int /\ reviews[j].score \in Int /\ PriorityOf(j) \in Int
    BY EligibleFacts
  <2> QED BY <2>1, <1>2, TripleOrder DEF Better
<1>3. ASSUME NEW i \in Eligible, NEW j \in Eligible, NEW k \in Eligible, Better(i, j), Better(j, k) PROVE Better(i, k)
  <2>1. /\ i \in Int /\ reviews[i].score \in Int /\ PriorityOf(i) \in Int
        /\ j \in Int /\ reviews[j].score \in Int /\ PriorityOf(j) \in Int
        /\ k \in Int /\ reviews[k].score \in Int /\ PriorityOf(k) \in Int
    BY EligibleFacts
  <2> QED BY <2>1, <1>3, TripleOrder DEF Better
<1> QED BY <1>1, <1>2, <1>3

\* The ranking lists what is eligible, and the better one stands first.
LEMMA RankedFacts ==
    ASSUME PlanReady
    PROVE  /\ Ranked \in Seq(Eligible) /\ Len(Ranked) = Cardinality(Eligible)
           /\ \A i \in Eligible : \E k \in 1 .. Len(Ranked) : Ranked[k] = i
           /\ \A k, l \in 1 .. Len(Ranked) : k < l => Better(Ranked[k], Ranked[l])
<1> DEFINE n == Cardinality(Eligible)
           R == {p \in Eligible \X Eligible : Better(p[1], p[2])}
<1>0. n \in Nat /\ IsFiniteSet(Eligible)
  BY EligibleFacts
<1>1. \A i, j \in Eligible : <<i, j>> \in R <=> Better(i, j)
  OBVIOUS
<1>2. ASSUME NEW i \in Eligible PROVE LowerIn(Eligible, R, i) = {j \in Eligible : Better(j, i)}
  BY DEF LowerIn
<1>3. ASSUME NEW k \in 1 .. n PROVE Ranked[k] = PickAt(Eligible, R, k)
  <2> HIDE DEF R
  <2>1. Ranked[k] = CHOOSE i \in Eligible : Cardinality({j \in Eligible : Better(j, i)}) = k - 1
    BY DEF Ranked
  <2>2. (CHOOSE i \in Eligible : Cardinality(LowerIn(Eligible, R, i)) = k - 1)
                        = CHOOSE i \in Eligible : Cardinality({j \in Eligible : Better(j, i)}) = k - 1
    BY <1>2
  <2> QED BY <2>1, <2>2 DEF PickAt
<1> HIDE DEF R
<1>4. /\ \A i \in Eligible : <<i, i>> \notin R
      /\ \A i, j \in Eligible : i # j => <<i, j>> \in R \/ <<j, i>> \in R
      /\ \A i, j, k \in Eligible : <<i, j>> \in R /\ <<j, k>> \in R => <<i, k>> \in R
  BY <1>1, BetterOrder
<1>5a. Lists(Ranked, Eligible, R)
  BY <1>0, <1>3, <1>4, Enumerated
<1>5. /\ \A k \in 1 .. n : Ranked[k] \in Eligible
      /\ \A i \in Eligible : \E k \in 1 .. n : Ranked[k] = i
      /\ \A k, l \in 1 .. n : k < l => <<Ranked[k], Ranked[l]>> \in R
  BY <1>5a DEF Lists
<1>6. Ranked \in [1 .. n -> Eligible]
  <2> DEFINE at(k) == CHOOSE i \in Eligible : Cardinality({j \in Eligible : Better(j, i)}) = k - 1
  <2>1. Ranked = [k \in 1 .. n |-> at(k)]
    BY Zenon DEF Ranked
  <2> HIDE DEF at
  <2>2. Ranked = [k \in 1 .. n |-> Ranked[k]]
    BY <2>1
  <2> QED BY <2>2, <1>5
<1>7. Ranked \in Seq(Eligible) /\ Len(Ranked) = n
  BY <1>0, <1>6
<1> QED BY <1>1, <1>5, <1>7

\* The best of those that remain is one of them.
LEMMA FirstFacts ==
    ASSUME PlanReady, NEW S \in SUBSET Eligible, S # {}
    PROVE  First(S) \in S
<1> DEFINE K == {k \in 1 .. Len(Ranked) : Ranked[k] \in S}
<1>0. Len(Ranked) \in Nat
  BY RankedFacts
<1>1. K \in SUBSET Nat /\ K # {}
  <2>1. PICK i \in S : TRUE
    OBVIOUS
  <2>2. PICK k \in 1 .. Len(Ranked) : Ranked[k] = i
    BY RankedFacts
  <2> QED BY <2>1, <2>2, <1>0, SMT
<1>2. PICK m \in K : \A y \in K : m <= y
  <2> HIDE DEF K
  <2> QED BY <1>1, MinOf
<1>3. m \in 1 .. Len(Ranked) /\ Ranked[m] \in S
  OBVIOUS
<1>4. ASSUME NEW j \in S \ {Ranked[m]} PROVE Better(Ranked[m], j)
  <2>1. PICK k \in 1 .. Len(Ranked) : Ranked[k] = j
    BY RankedFacts
  <2>2. k \in K
    BY <2>1
  <2>3. m <= k /\ m # k
    BY <2>1, <2>2, <1>2
  <2>4. m < k
    <3> HIDE DEF K
    <3> QED BY <1>0, <1>3, <2>1, <2>3, SMT
  <2> QED BY <1>3, <2>1, <2>4, RankedFacts
<1>5. \E i \in S : \A j \in S \ {i} : Better(i, j)
  BY <1>3, <1>4
<1> QED BY <1>5 DEF First

\* The three passes over the list, step by step.
PriorityStep(S, p) ==
    LET matching == {i \in Eligible \ S : Topic(i) \notin Covered(S) /\ Speaks(i, p)}
    IN  IF matching = {} THEN S ELSE Keep(S, First(matching))
TopicStep(T, i) == IF Topic(i) \in Covered(T) THEN T ELSE Keep(T, i)

\* No pass takes what is not eligible.
LEMMA StepTypes ==
    ASSUME PlanReady, NEW S \in SUBSET Eligible
    PROVE  /\ \A p : PriorityStep(S, p) \in SUBSET Eligible
           /\ \A i \in Eligible : TopicStep(S, i) \in SUBSET Eligible /\ Keep(S, i) \in SUBSET Eligible
<1>1. ASSUME NEW i \in Eligible PROVE TopicStep(S, i) \in SUBSET Eligible /\ Keep(S, i) \in SUBSET Eligible
  BY DEF TopicStep, Keep
<1>2. ASSUME NEW p PROVE PriorityStep(S, p) \in SUBSET Eligible
  <2> DEFINE matching == {i \in Eligible \ S : Topic(i) \notin Covered(S) /\ Speaks(i, p)}
  <2>1. PriorityStep(S, p) = IF matching = {} THEN S ELSE Keep(S, First(matching))
    BY DEF PriorityStep
  <2>2. matching \in SUBSET Eligible
    OBVIOUS
  <2> HIDE DEF matching
  <2>3. matching # {} => First(matching) \in Eligible
    BY <2>2, FirstFacts
  <2> QED BY <1>1, <2>1, <2>3
<1> QED BY <1>1, <1>2

\* The pass over the priorities, one at a time.
LEMMA PrioritySteps ==
    ASSUME PlanReady
    PROVE  \E f : /\ f[0] = {} /\ ByPriority = f[Len(Priorities)]
                  /\ \A k \in 1 .. Len(Priorities) : f[k] = PriorityStep(f[k - 1], Priorities[k])
<1> DEFINE n == Len(Priorities)
           V == SUBSET Eligible
           G == [p \in V \X (1 .. n) |-> PriorityStep(p[1], Priorities[p[2]])]
           body(F) == [s \in SUBSET DOMAIN Priorities |->
                         IF s = {} THEN {} ELSE PriorityStep(F[s \ {Max(s)}], Priorities[Max(s)])]
           iter == CHOOSE F : F = body(F)
<1>0. n \in Nat /\ DOMAIN Priorities = 1 .. n
  BY DEF PlanReady, PlanGiven, PlanInputs
<1>1. ByPriority = iter[DOMAIN Priorities]
  BY DEF ByPriority, FoldLeft, MapThenFoldSet, PriorityStep
<1>2. G \in [V \X (1 .. n) -> V] /\ {} \in V
  BY StepTypes
<1>3. PICK v, g, b, m : v = V /\ g = G /\ b = {} /\ m = n
  OBVIOUS
<1>4. PICK F \in [SUBSET (1 .. m) -> v] : IsFold(F, m, b, g)
  <2>1. m \in Nat /\ g \in [v \X (1 .. m) -> v] /\ b \in v
    BY <1>0, <1>2, <1>3
  <2> HIDE DEF n, V, G, body, iter
  <2> QED BY <2>1, FoldExists
<1>5. F \in [SUBSET (1 .. n) -> V] /\ \A s \in SUBSET (1 .. n) : F[s] = IF s = {} THEN {} ELSE G[<<F[s \ {Max(s)}], Max(s)>>]
  BY <1>3, <1>4 DEF IsFold
<1>6. ASSUME NEW s \in SUBSET (1 .. n), s # {} PROVE F[s] = PriorityStep(F[s \ {Max(s)}], Priorities[Max(s)])
  <2>1. Max(s) \in 1 .. n
    <3>1. s \in SUBSET (0 .. n)
      BY <1>0, SMT
    <3>2. Max(s) \in s
      BY <1>0, <1>6, <3>1, MaxOf
    <3> QED BY <3>2
  <2>2. F[s \ {Max(s)}] \in V
    BY <1>5
  <2> QED BY <1>5, <1>6, <2>1, <2>2
<1>7. F = body(F)
  BY <1>0, <1>5, <1>6
<1> HIDE DEF body
<1>8. iter = body(iter)
  BY <1>7
<1>9. \A s \in SUBSET (1 .. n) : iter[s] = IF s = {} THEN {} ELSE PriorityStep(iter[s \ {Max(s)}], Priorities[Max(s)])
  BY <1>0, <1>8 DEF body
<1> HIDE DEF iter
<1> DEFINE f == [k \in 0 .. n |-> iter[1 .. k]]
<1>10. f[0] = {} /\ f[n] = ByPriority
  <2>1. 0 \in 0 .. n /\ n \in 0 .. n /\ 1 .. 0 = {} /\ {} \in SUBSET (1 .. n)
    BY <1>0, SMT
  <2>2. f[0] = iter[{}] /\ f[n] = iter[1 .. n]
    BY <2>1
  <2> QED BY <1>0, <1>1, <1>9, <2>1, <2>2
<1>11. ASSUME NEW k \in 1 .. n PROVE f[k] = PriorityStep(f[k - 1], Priorities[k])
  <2>1. k \in 0 .. n /\ k - 1 \in 0 .. n
    BY <1>0, SMT
  <2>2. /\ 1 .. k \in SUBSET (1 .. n) /\ Max(1 .. k) = k /\ (1 .. k) \ {k} = 1 .. k - 1 /\ 1 .. k # {}
    BY <1>0, <2>1, PrefixSets
  <2>3. f[k] = iter[1 .. k] /\ f[k - 1] = iter[1 .. k - 1]
    BY <2>1
  <2>4. iter[1 .. k] = PriorityStep(iter[(1 .. k) \ {k}], Priorities[k])
    BY <1>9, <2>2
  <2> QED BY <2>2, <2>3, <2>4
<1> HIDE DEF f
<1> QED BY <1>10, <1>11

\* The pass over the ranking for new topics.
LEMMA TopicSteps ==
    ASSUME PlanReady, NEW S \in SUBSET Eligible
    PROVE  \E f : /\ f[0] = S /\ ByTopic(S) = f[Len(Ranked)]
                  /\ \A k \in 1 .. Len(Ranked) : f[k] = TopicStep(f[k - 1], Ranked[k])
<1> DEFINE n == Len(Ranked)
           V == SUBSET Eligible
           G == [p \in V \X (1 .. n) |-> TopicStep(p[1], Ranked[p[2]])]
           body(F) == [s \in SUBSET DOMAIN Ranked |->
                         IF s = {} THEN S ELSE TopicStep(F[s \ {Max(s)}], Ranked[Max(s)])]
           iter == CHOOSE F : F = body(F)
<1>0. n \in Nat /\ DOMAIN Ranked = 1 .. n
  BY RankedFacts
<1>1. ByTopic(S) = iter[DOMAIN Ranked]
  BY DEF ByTopic, FoldLeft, MapThenFoldSet, TopicStep
<1>2. G \in [V \X (1 .. n) -> V] /\ S \in V
  <2>1. ASSUME NEW p \in V \X (1 .. n) PROVE TopicStep(p[1], Ranked[p[2]]) \in V
    <3>1. p[1] \in SUBSET Eligible /\ Ranked[p[2]] \in Eligible
      <4>1. p[1] \in SUBSET Eligible /\ p[2] \in 1 .. n
        OBVIOUS
      <4> QED BY <4>1, RankedFacts, ElementOf
    <3> QED BY <3>1, StepTypes
  <2> QED BY <2>1
<1>3. PICK v, g, b, m : v = V /\ g = G /\ b = S /\ m = n
  OBVIOUS
<1>4. PICK F \in [SUBSET (1 .. m) -> v] : IsFold(F, m, b, g)
  <2>1. m \in Nat /\ g \in [v \X (1 .. m) -> v] /\ b \in v
    BY <1>0, <1>2, <1>3
  <2> HIDE DEF n, V, G, body, iter
  <2> QED BY <2>1, FoldExists
<1>5. F \in [SUBSET (1 .. n) -> V] /\ \A s \in SUBSET (1 .. n) : F[s] = IF s = {} THEN S ELSE G[<<F[s \ {Max(s)}], Max(s)>>]
  BY <1>3, <1>4 DEF IsFold
<1>6. ASSUME NEW s \in SUBSET (1 .. n), s # {} PROVE F[s] = TopicStep(F[s \ {Max(s)}], Ranked[Max(s)])
  <2>1. Max(s) \in 1 .. n
    <3>1. s \in SUBSET (0 .. n)
      BY <1>0, SMT
    <3>2. Max(s) \in s
      BY <1>0, <1>6, <3>1, MaxOf
    <3> QED BY <3>2
  <2>2. F[s \ {Max(s)}] \in V
    BY <1>5
  <2> QED BY <1>5, <1>6, <2>1, <2>2
<1>7. F = body(F)
  BY <1>0, <1>5, <1>6
<1> HIDE DEF body
<1>8. iter = body(iter)
  BY <1>7
<1>9. \A s \in SUBSET (1 .. n) : iter[s] = IF s = {} THEN S ELSE TopicStep(iter[s \ {Max(s)}], Ranked[Max(s)])
  BY <1>0, <1>8 DEF body
<1> HIDE DEF iter
<1> DEFINE f == [k \in 0 .. n |-> iter[1 .. k]]
<1>10. f[0] = S /\ f[n] = ByTopic(S)
  <2>1. 0 \in 0 .. n /\ n \in 0 .. n /\ 1 .. 0 = {} /\ {} \in SUBSET (1 .. n)
    BY <1>0, SMT
  <2>2. f[0] = iter[{}] /\ f[n] = iter[1 .. n]
    BY <2>1
  <2> QED BY <1>0, <1>1, <1>9, <2>1, <2>2
<1>11. ASSUME NEW k \in 1 .. n PROVE f[k] = TopicStep(f[k - 1], Ranked[k])
  <2>1. k \in 0 .. n /\ k - 1 \in 0 .. n
    BY <1>0, SMT
  <2>2. /\ 1 .. k \in SUBSET (1 .. n) /\ Max(1 .. k) = k /\ (1 .. k) \ {k} = 1 .. k - 1 /\ 1 .. k # {}
    BY <1>0, <2>1, PrefixSets
  <2>3. f[k] = iter[1 .. k] /\ f[k - 1] = iter[1 .. k - 1]
    BY <2>1
  <2>4. iter[1 .. k] = TopicStep(iter[(1 .. k) \ {k}], Ranked[k])
    BY <1>9, <2>2
  <2> QED BY <2>2, <2>3, <2>4
<1> HIDE DEF f
<1> QED BY <1>10, <1>11

\* The pass over the ranking for the best.
LEMMA RankSteps ==
    ASSUME PlanReady, NEW S \in SUBSET Eligible
    PROVE  \E f : /\ f[0] = S /\ ByRank(S) = f[Len(Ranked)]
                  /\ \A k \in 1 .. Len(Ranked) : f[k] = Keep(f[k - 1], Ranked[k])
<1> DEFINE n == Len(Ranked)
           V == SUBSET Eligible
           G == [p \in V \X (1 .. n) |-> Keep(p[1], Ranked[p[2]])]
           body(F) == [s \in SUBSET DOMAIN Ranked |->
                         IF s = {} THEN S ELSE Keep(F[s \ {Max(s)}], Ranked[Max(s)])]
           iter == CHOOSE F : F = body(F)
<1>0. n \in Nat /\ DOMAIN Ranked = 1 .. n
  BY RankedFacts
<1>1. ByRank(S) = iter[DOMAIN Ranked]
  BY DEF ByRank, FoldLeft, MapThenFoldSet
<1>2. G \in [V \X (1 .. n) -> V] /\ S \in V
  <2>1. ASSUME NEW p \in V \X (1 .. n) PROVE Keep(p[1], Ranked[p[2]]) \in V
    <3>1. p[1] \in SUBSET Eligible /\ Ranked[p[2]] \in Eligible
      <4>1. p[1] \in SUBSET Eligible /\ p[2] \in 1 .. n
        OBVIOUS
      <4> QED BY <4>1, RankedFacts, ElementOf
    <3> QED BY <3>1, StepTypes
  <2> QED BY <2>1
<1>3. PICK v, g, b, m : v = V /\ g = G /\ b = S /\ m = n
  OBVIOUS
<1>4. PICK F \in [SUBSET (1 .. m) -> v] : IsFold(F, m, b, g)
  <2>1. m \in Nat /\ g \in [v \X (1 .. m) -> v] /\ b \in v
    BY <1>0, <1>2, <1>3
  <2> HIDE DEF n, V, G, body, iter
  <2> QED BY <2>1, FoldExists
<1>5. F \in [SUBSET (1 .. n) -> V] /\ \A s \in SUBSET (1 .. n) : F[s] = IF s = {} THEN S ELSE G[<<F[s \ {Max(s)}], Max(s)>>]
  BY <1>3, <1>4 DEF IsFold
<1>6. ASSUME NEW s \in SUBSET (1 .. n), s # {} PROVE F[s] = Keep(F[s \ {Max(s)}], Ranked[Max(s)])
  <2>1. Max(s) \in 1 .. n
    <3>1. s \in SUBSET (0 .. n)
      BY <1>0, SMT
    <3>2. Max(s) \in s
      BY <1>0, <1>6, <3>1, MaxOf
    <3> QED BY <3>2
  <2>2. F[s \ {Max(s)}] \in V
    BY <1>5
  <2> QED BY <1>5, <1>6, <2>1, <2>2
<1>7. F = body(F)
  BY <1>0, <1>5, <1>6
<1> HIDE DEF body
<1>8. iter = body(iter)
  BY <1>7
<1>9. \A s \in SUBSET (1 .. n) : iter[s] = IF s = {} THEN S ELSE Keep(iter[s \ {Max(s)}], Ranked[Max(s)])
  BY <1>0, <1>8 DEF body
<1> HIDE DEF iter
<1> DEFINE f == [k \in 0 .. n |-> iter[1 .. k]]
<1>10. f[0] = S /\ f[n] = ByRank(S)
  <2>1. 0 \in 0 .. n /\ n \in 0 .. n /\ 1 .. 0 = {} /\ {} \in SUBSET (1 .. n)
    BY <1>0, SMT
  <2>2. f[0] = iter[{}] /\ f[n] = iter[1 .. n]
    BY <2>1
  <2> QED BY <1>0, <1>1, <1>9, <2>1, <2>2
<1>11. ASSUME NEW k \in 1 .. n PROVE f[k] = Keep(f[k - 1], Ranked[k])
  <2>1. k \in 0 .. n /\ k - 1 \in 0 .. n
    BY <1>0, SMT
  <2>2. /\ 1 .. k \in SUBSET (1 .. n) /\ Max(1 .. k) = k /\ (1 .. k) \ {k} = 1 .. k - 1 /\ 1 .. k # {}
    BY <1>0, <2>1, PrefixSets
  <2>3. f[k] = iter[1 .. k] /\ f[k - 1] = iter[1 .. k - 1]
    BY <2>1
  <2>4. iter[1 .. k] = Keep(iter[(1 .. k) \ {k}], Ranked[k])
    BY <1>9, <2>2
  <2> QED BY <2>2, <2>3, <2>4
<1> HIDE DEF f
<1> QED BY <1>10, <1>11

Distinct(S) == \A i, j \in S : i # j => Topic(i) # Topic(j)
Room(S) == S \in SUBSET Eligible /\ Cardinality(S) \in 0 .. policy.clips

\* A candidate is kept while there is room, and nothing that was kept is lost.
LEMMA KeepFacts ==
    ASSUME PlanReady, NEW S, Room(S), NEW i \in Eligible
    PROVE  /\ Room(Keep(S, i)) /\ S \subseteq Keep(S, i) /\ Keep(S, i) \subseteq S \cup {i}
           /\ i \notin Keep(S, i) => Cardinality(S) = policy.clips
           /\ i \in Keep(S, i) /\ i \notin S => Cardinality(S) < policy.clips
           /\ Keep(S, i) # S => Cardinality(S) < policy.clips
<1>1. IsFiniteSet(S) /\ policy.clips \in Nat /\ Cardinality(S) \in Nat /\ Cardinality(S) <= policy.clips
  <2>1. IsFiniteSet(S)
    BY EligibleFacts, FS_Subset DEF Room
  <2>2. policy.clips \in Nat
    BY PolicyFacts DEF PlanReady
  <2>3. Cardinality(S) \in 0 .. policy.clips
    BY DEF Room
  <2> QED BY <2>1, <2>2, <2>3, SMT
<1>2. ASSUME Cardinality(S) = policy.clips
      PROVE  /\ Room(Keep(S, i)) /\ S \subseteq Keep(S, i) /\ Keep(S, i) \subseteq S \cup {i}
             /\ Keep(S, i) = S
  BY <1>2 DEF Keep
<1>3. ASSUME Cardinality(S) # policy.clips
      PROVE  /\ Room(Keep(S, i)) /\ S \subseteq Keep(S, i) /\ Keep(S, i) \subseteq S \cup {i}
             /\ i \in Keep(S, i) /\ Cardinality(S) < policy.clips
  <2>1. Keep(S, i) = S \cup {i}
    BY <1>3 DEF Keep
  <2>2. Cardinality(S) < policy.clips
    BY <1>1, <1>3, SMT
  <2>3. Cardinality(S \cup {i}) = IF i \in S THEN Cardinality(S) ELSE Cardinality(S) + 1
    <3>1. CASE i \in S
      <4>1. S \cup {i} = S
        BY <3>1
      <4> QED BY <3>1, <4>1
    <3>2. CASE i \notin S
      BY <1>1, <3>2, FS_AddElement
    <3> QED BY <3>1, <3>2
  <2>4. Cardinality(S \cup {i}) \in 0 .. policy.clips
    BY <1>1, <2>2, <2>3, SMT
  <2> QED BY <2>1, <2>2, <2>4 DEF Room
<1> QED BY <1>1, <1>2, <1>3

\* After the priorities: one clip of a topic, and a priority speaks for each.
PriorityInv(S) ==
    Room(S) /\ Distinct(S) /\ \A k \in S : \E p \in Range(Priorities) : Speaks(k, p)

\* The pass over the priorities keeps its invariant.
LEMMA PriorityPass ==
    ASSUME PlanReady
    PROVE  PriorityInv(ByPriority)
<1> DEFINE n == Len(Priorities)
<1>0. n \in Nat /\ \A k \in 1 .. n : Priorities[k] \in Range(Priorities)
  <2>1. Priorities \in Seq(Range(Priorities))
    BY DEF PlanReady, PlanGiven, PlanInputs
  <2> QED BY <2>1, ElementOf
<1>1. PICK f : /\ f[0] = {} /\ ByPriority = f[n]
               /\ \A k \in 1 .. n : f[k] = PriorityStep(f[k - 1], Priorities[k])
  BY PrioritySteps
<1>2. PriorityInv({})
  <2>1. Cardinality({}) = 0 /\ policy.clips \in Nat
    BY FS_EmptySet, PolicyFacts DEF PlanReady
  <2>2. Cardinality({}) \in 0 .. policy.clips
    BY <2>1, SMT
  <2> QED BY <2>2 DEF PriorityInv, Room, Distinct
<1>3. ASSUME NEW S, PriorityInv(S), NEW p \in Range(Priorities) PROVE PriorityInv(PriorityStep(S, p))
  <2> DEFINE matching == {i \in Eligible \ S : Topic(i) \notin Covered(S) /\ Speaks(i, p)}
             c == First(matching)
  <2>1. PriorityStep(S, p) = IF matching = {} THEN S ELSE Keep(S, c)
    BY DEF PriorityStep
  <2>2. ASSUME matching # {} PROVE PriorityInv(Keep(S, c))
    <3>1. c \in matching
      <4>1. matching \in SUBSET Eligible
        OBVIOUS
      <4> HIDE DEF matching
      <4> QED BY <2>2, <4>1, FirstFacts
    <3>2. c \in Eligible /\ Topic(c) \notin Covered(S) /\ Speaks(c, p)
      BY <3>1
    <3> HIDE DEF matching, c
    <3>3. Room(Keep(S, c)) /\ Keep(S, c) \subseteq S \cup {c}
      BY <1>3, <3>2, KeepFacts DEF PriorityInv
    <3>4. \A j \in S : Topic(j) # Topic(c)
      BY <3>2 DEF Covered
    <3>5. Distinct(Keep(S, c))
      BY <1>3, <3>3, <3>4 DEF PriorityInv, Distinct
    <3> QED BY <1>3, <3>2, <3>3, <3>5 DEF PriorityInv
  <2> HIDE DEF matching, c
  <2> QED BY <1>3, <2>1, <2>2
<1> DEFINE T == {k \in 0 .. n : PriorityInv(f[k])}
<1>4. 0 \in T
  <2>1. 0 \in 0 .. n
    BY <1>0, SMT
  <2> QED BY <1>1, <1>2, <2>1
<1>5. ASSUME NEW k \in 0 .. n - 1, k \in T PROVE k + 1 \in T
  <2>1. k + 1 \in 1 .. n /\ (k + 1) - 1 = k /\ k + 1 \in 0 .. n
    BY <1>0, SMT
  <2>2. f[k + 1] = PriorityStep(f[k], Priorities[k + 1])
    BY <1>1, <2>1
  <2> QED BY <1>0, <1>3, <1>5, <2>1, <2>2
<1> HIDE DEF T
<1>6. 0 .. n \subseteq T
  BY <1>0, <1>4, <1>5, UpTo
<1>7. n \in T
  BY <1>0, <1>6, SMT
<1> QED BY <1>1, <1>7 DEF T

\* After the topics: still one clip of a topic, and who came in had only better
\* ones of other topics before it, which the choice covers.
TopicInv(P, k, T) ==
    /\ Room(T) /\ Distinct(T) /\ P \subseteq T
    /\ Cardinality(T) < policy.clips => \A m \in 1 .. k : Topic(Ranked[m]) \in Covered(T)
    /\ \A i \in T \ P : \E m \in 1 .. k : /\ Ranked[m] = i
                                          /\ \A l \in 1 .. m - 1 : /\ Topic(Ranked[l]) \in Covered(T)
                                                                   /\ Topic(Ranked[l]) # Topic(i)

\* One candidate of the ranking, looked at for its topic.
LEMMA TopicPassStep ==
    ASSUME PlanReady, NEW P, NEW T, NEW k \in 0 .. Len(Ranked) - 1, TopicInv(P, k, T)
    PROVE  TopicInv(P, k + 1, TopicStep(T, Ranked[k + 1]))
<1> DEFINE c == Ranked[k + 1]
           U == TopicStep(T, c)
<1>0. /\ k \in Nat /\ k + 1 \in 1 .. Len(Ranked) /\ (k + 1) - 1 = k /\ k + 1 \in 1 .. k + 1
      /\ \A m \in 1 .. k + 1 : m = k + 1 \/ m \in 1 .. k
      /\ \A m \in 1 .. k : m \in 1 .. k + 1
  BY RankedFacts, SMT
<1>1. c \in Eligible
  BY <1>0, RankedFacts, ElementOf
<1>2. CASE Topic(c) \in Covered(T)
  <2>1. U = T
    BY <1>2 DEF TopicStep
  <2>2. \A i \in T \ P : \E m \in 1 .. k + 1 : /\ Ranked[m] = i
                                          /\ \A l \in 1 .. m - 1 : /\ Topic(Ranked[l]) \in Covered(T)
                                                                   /\ Topic(Ranked[l]) # Topic(i)
    BY <1>0 DEF TopicInv
  <2>3. Cardinality(T) < policy.clips => \A m \in 1 .. k + 1 : Topic(Ranked[m]) \in Covered(T)
    BY <1>0, <1>2 DEF TopicInv
  <2> HIDE DEF c, U
  <2> QED BY <2>1, <2>2, <2>3 DEF TopicInv, U, c
<1>3. CASE Topic(c) \notin Covered(T)
  <2>1. U = Keep(T, c) /\ c \notin T
    BY <1>3 DEF TopicStep, Covered
  <2> HIDE DEF c, U
  <2>2. /\ Room(U) /\ T \subseteq U /\ U \subseteq T \cup {c}
        /\ c \notin U => Cardinality(T) = policy.clips
        /\ c \in U /\ c \notin T => Cardinality(T) < policy.clips
        /\ U # T => Cardinality(T) < policy.clips
    BY <1>1, <2>1, KeepFacts DEF TopicInv
  <2>3. Distinct(U)
    <3>1. \A j \in T : Topic(j) # Topic(c)
      BY <1>3 DEF Covered
    <3> QED BY <2>2, <3>1 DEF TopicInv, Distinct
  <2>4. Covered(T) \subseteq Covered(U) /\ (c \in U => Topic(c) \in Covered(U))
    BY <2>2 DEF Covered
  <2>5. Cardinality(T) \in Int /\ Cardinality(U) \in Int /\ policy.clips \in Int /\ Cardinality(T) <= policy.clips
    <3>1. Cardinality(T) \in 0 .. policy.clips /\ Cardinality(U) \in 0 .. policy.clips /\ policy.clips \in Nat
      BY <2>2, PolicyFacts DEF TopicInv, Room, PlanReady
    <3> QED BY <3>1, SMT
  <2>6. ASSUME Cardinality(U) < policy.clips PROVE \A m \in 1 .. k + 1 : Topic(Ranked[m]) \in Covered(U)
    <3>1. c \in U
      <4>1. ASSUME c \notin U PROVE FALSE
        <5>1. U = T /\ Cardinality(T) = policy.clips
          BY <2>2, <4>1
        <5> QED BY <2>5, <2>6, <5>1, SMT
      <4> QED BY <4>1
    <3>2. Cardinality(T) < policy.clips
      BY <2>1, <2>2, <3>1
    <3> QED BY <1>0, <2>4, <3>1, <3>2 DEF TopicInv, c
  <2>7. ASSUME NEW i \in U \ P
        PROVE  \E m \in 1 .. k + 1 : /\ Ranked[m] = i
                                     /\ \A l \in 1 .. m - 1 : /\ Topic(Ranked[l]) \in Covered(U)
                                                              /\ Topic(Ranked[l]) # Topic(i)
    <3>1. ASSUME i \in T
          PROVE  \E m \in 1 .. k + 1 : /\ Ranked[m] = i
                                     /\ \A l \in 1 .. m - 1 : /\ Topic(Ranked[l]) \in Covered(U)
                                                              /\ Topic(Ranked[l]) # Topic(i)
      <4>1. PICK m \in 1 .. k : /\ Ranked[m] = i
                                /\ \A l \in 1 .. m - 1 : /\ Topic(Ranked[l]) \in Covered(T)
                                                         /\ Topic(Ranked[l]) # Topic(i)
        BY <3>1 DEF TopicInv
      <4> QED BY <1>0, <2>4, <4>1
    <3>2. ASSUME i \notin T
          PROVE  \E m \in 1 .. k + 1 : /\ Ranked[m] = i
                                     /\ \A l \in 1 .. m - 1 : /\ Topic(Ranked[l]) \in Covered(U)
                                                              /\ Topic(Ranked[l]) # Topic(i)
      <4>1. i = c
        BY <2>2, <3>2
      <4>2. \A l \in 1 .. k : Topic(Ranked[l]) \in Covered(T)
        BY <2>1, <2>2, <4>1 DEF TopicInv
      <4>3. \A l \in 1 .. k : Topic(Ranked[l]) \in Covered(U) /\ Topic(Ranked[l]) # Topic(i)
        BY <1>3, <2>4, <4>1, <4>2
      <4> QED BY <1>0, <4>1, <4>3 DEF c
    <3> QED BY <3>1, <3>2
  <2>8. P \subseteq U
    BY <2>2 DEF TopicInv
  <2> QED BY <2>2, <2>3, <2>6, <2>7, <2>8 DEF TopicInv, U, c
<1> QED BY <1>2, <1>3

\* The pass for new topics keeps its invariant.
LEMMA TopicPass ==
    ASSUME PlanReady, NEW P, Room(P), Distinct(P)
    PROVE  TopicInv(P, Len(Ranked), ByTopic(P))
<1> DEFINE n == Len(Ranked)
<1>0. n \in Nat
  BY RankedFacts
<1>1. PICK f : /\ f[0] = P /\ ByTopic(P) = f[n]
               /\ \A k \in 1 .. n : f[k] = TopicStep(f[k - 1], Ranked[k])
  BY TopicSteps DEF Room
<1> DEFINE K == {k \in 0 .. n : TopicInv(P, k, f[k])}
<1>2. 0 \in K
  <2>1. 1 .. 0 = {} /\ 0 \in 0 .. n
    BY <1>0, SMT
  <2> QED BY <1>1, <2>1 DEF TopicInv
<1>3. ASSUME NEW k \in 0 .. n - 1, k \in K PROVE k + 1 \in K
  <2>1. k + 1 \in 1 .. n /\ (k + 1) - 1 = k /\ k + 1 \in 0 .. n
    BY <1>0, SMT
  <2>2. f[k + 1] = TopicStep(f[k], Ranked[k + 1])
    BY <1>1, <2>1
  <2>3. TopicInv(P, k, f[k])
    BY <1>3
  <2>4. TopicInv(P, k + 1, f[k + 1])
    BY <2>2, <2>3, TopicPassStep
  <2> QED BY <2>1, <2>4
<1> HIDE DEF K
<1>4. 0 .. n \subseteq K
  BY <1>0, <1>2, <1>3, UpTo
<1>5. n \in K
  BY <1>0, <1>4, SMT
<1> QED BY <1>1, <1>5 DEF K

\* After the ranking: who came in last had only clips before it that are in too.
RankInv(T, k, U) ==
    /\ Room(U) /\ T \subseteq U
    /\ Cardinality(U) < policy.clips => \A m \in 1 .. k : Ranked[m] \in U
    /\ \A i \in U \ T : /\ Cardinality(T) < policy.clips
                        /\ \E m \in 1 .. k : Ranked[m] = i /\ \A l \in 1 .. m - 1 : Ranked[l] \in U

\* One candidate of the ranking, taken while there is room.
LEMMA RankPassStep ==
    ASSUME PlanReady, NEW T, NEW U, NEW k \in 0 .. Len(Ranked) - 1, RankInv(T, k, U),
           Room(T)
    PROVE  RankInv(T, k + 1, Keep(U, Ranked[k + 1]))
<1> DEFINE c == Ranked[k + 1]
           W == Keep(U, c)
<1>0. /\ k \in Nat /\ k + 1 \in 1 .. Len(Ranked) /\ (k + 1) - 1 = k /\ k + 1 \in 1 .. k + 1
      /\ \A m \in 1 .. k + 1 : m = k + 1 \/ m \in 1 .. k
      /\ \A m \in 1 .. k : m \in 1 .. k + 1
  BY RankedFacts, SMT
<1>1. c \in Eligible
  BY <1>0, RankedFacts, ElementOf
<1> HIDE DEF c
<1>2. /\ Room(W) /\ U \subseteq W /\ W \subseteq U \cup {c}
      /\ c \notin W => Cardinality(U) = policy.clips
      /\ c \in W /\ c \notin U => Cardinality(U) < policy.clips
      /\ W # U => Cardinality(U) < policy.clips
  BY <1>1, KeepFacts DEF RankInv
<1> HIDE DEF W
<1>3. /\ Cardinality(T) \in Int /\ Cardinality(U) \in Int /\ Cardinality(W) \in Int /\ policy.clips \in Int
      /\ Cardinality(T) <= Cardinality(U)
  <2>1. /\ Cardinality(T) \in 0 .. policy.clips /\ Cardinality(U) \in 0 .. policy.clips
        /\ Cardinality(W) \in 0 .. policy.clips /\ policy.clips \in Nat
    BY <1>2, PolicyFacts DEF RankInv, Room, PlanReady
  <2>2. Cardinality(T) <= Cardinality(U)
    BY EligibleFacts, FS_Subset DEF RankInv, Room
  <2> QED BY <2>1, <2>2, SMT
<1>4. ASSUME Cardinality(W) < policy.clips PROVE \A m \in 1 .. k + 1 : Ranked[m] \in W
  <2>1. ASSUME W = U PROVE c \in W /\ Cardinality(U) < policy.clips
    <3>1. Cardinality(U) < policy.clips
      BY <1>4, <2>1
    <3>2. Cardinality(U) # policy.clips
      BY <3>1, <1>3, SMT
    <3> QED BY <1>2, <3>1, <3>2
  <2>2. c \in W /\ Cardinality(U) < policy.clips
    BY <1>2, <2>1
  <2> QED BY <1>0, <1>2, <2>2 DEF RankInv, c
<1>5. ASSUME NEW i \in W \ T
      PROVE  /\ Cardinality(T) < policy.clips
             /\ \E m \in 1 .. k + 1 : Ranked[m] = i /\ \A l \in 1 .. m - 1 : Ranked[l] \in W
  <2>1. ASSUME i \in U
        PROVE  /\ Cardinality(T) < policy.clips
               /\ \E m \in 1 .. k + 1 : Ranked[m] = i /\ \A l \in 1 .. m - 1 : Ranked[l] \in W
    <3>1. Cardinality(T) < policy.clips /\ \E m \in 1 .. k : Ranked[m] = i /\ \A l \in 1 .. m - 1 : Ranked[l] \in U
      BY <2>1, <1>5 DEF RankInv
    <3> QED BY <1>0, <1>2, <3>1
  <2>2. ASSUME i \notin U
        PROVE  /\ Cardinality(T) < policy.clips
               /\ \E m \in 1 .. k + 1 : Ranked[m] = i /\ \A l \in 1 .. m - 1 : Ranked[l] \in W
    <3>1. i = c /\ Cardinality(U) < policy.clips
      BY <1>2, <1>5, <2>2
    <3>2. Cardinality(T) < policy.clips
      BY <1>3, <3>1, SMT
    <3>3. \A l \in 1 .. k : Ranked[l] \in W
      BY <1>2, <3>1 DEF RankInv
    <3>4. Ranked[k + 1] = i /\ k + 1 \in 1 .. k + 1 /\ \A l \in 1 .. (k + 1) - 1 : Ranked[l] \in W
      BY <1>0, <3>1, <3>3 DEF c
    <3> QED BY <3>2, <3>4
  <2> QED BY <2>1, <2>2
<1>6. T \subseteq W
  BY <1>2 DEF RankInv
<1> QED BY <1>2, <1>4, <1>5, <1>6 DEF RankInv, W, c

\* The pass for the best keeps its invariant.
LEMMA RankPass ==
    ASSUME PlanReady, NEW T, Room(T)
    PROVE  RankInv(T, Len(Ranked), ByRank(T))
<1> DEFINE n == Len(Ranked)
<1>0. n \in Nat
  BY RankedFacts
<1>1. PICK f : /\ f[0] = T /\ ByRank(T) = f[n]
               /\ \A k \in 1 .. n : f[k] = Keep(f[k - 1], Ranked[k])
  BY RankSteps DEF Room
<1> DEFINE K == {k \in 0 .. n : RankInv(T, k, f[k])}
<1>2. 0 \in K
  <2>1. 1 .. 0 = {} /\ 0 \in 0 .. n
    BY <1>0, SMT
  <2> QED BY <1>1, <2>1 DEF RankInv
<1>3. ASSUME NEW k \in 0 .. n - 1, k \in K PROVE k + 1 \in K
  <2>1. k + 1 \in 1 .. n /\ (k + 1) - 1 = k /\ k + 1 \in 0 .. n
    BY <1>0, SMT
  <2>2. f[k + 1] = Keep(f[k], Ranked[k + 1])
    BY <1>1, <2>1
  <2>3. RankInv(T, k, f[k])
    BY <1>3
  <2>4. RankInv(T, k + 1, f[k + 1])
    BY <2>2, <2>3, RankPassStep
  <2> QED BY <2>1, <2>4
<1> HIDE DEF K
<1>4. 0 .. n \subseteq K
  BY <1>0, <1>2, <1>3, UpTo
<1>5. n \in K
  BY <1>0, <1>4, SMT
<1> QED BY <1>1, <1>5 DEF K

\* What the limit does to the eligible candidates.
Fair(U) ==
    /\ Cardinality(U) = policy.clips
    /\ \A i, j \in U : i # j /\ Topic(i) = Topic(j) => \A d \in Eligible : Topic(d) \in Covered(U)
    /\ \A d \in Eligible \ U, k \in U :
         Better(d, k) => \/ \E p \in Range(Priorities) : Speaks(k, p)
                         \/ Topic(d) \in Covered(U) /\ \A j \in U \ {k} : Topic(j) # Topic(k)

\* The better of two stands first in the ranking.
LEMMA BetterStandsFirst ==
    ASSUME PlanReady, NEW k \in 1 .. Len(Ranked), NEW l \in 1 .. Len(Ranked), Better(Ranked[k], Ranked[l])
    PROVE  k \in 1 .. l - 1
<1>1. Len(Ranked) \in Nat /\ Ranked[k] \in Eligible /\ Ranked[l] \in Eligible
  BY RankedFacts, ElementOf
<1>2. ~(l < k) /\ l # k
  <2>1. ASSUME l < k PROVE FALSE
    <3>1. Better(Ranked[l], Ranked[k])
      BY <2>1, RankedFacts
    <3> QED BY <1>1, <3>1, BetterOrder
  <2>2. l # k
    BY <1>1, BetterOrder
  <2> QED BY <2>1, <2>2
<1> QED BY <1>1, <1>2, SMT

\* The three passes together are fair, where the limit drops something.
LEMMA LimitedSelection ==
    ASSUME PlanReady, policy.clips < Cardinality(Eligible)
    PROVE  Fair(ByRank(ByTopic(ByPriority))) /\ ByRank(ByTopic(ByPriority)) \in SUBSET Eligible
<1> DEFINE P == ByPriority
           T == ByTopic(P)
           U == ByRank(T)
           n == Len(Ranked)
<1>1. PriorityInv(P)
  BY PriorityPass
<1>2. TopicInv(P, n, T)
  <2> HIDE DEF P
  <2> QED BY <1>1, TopicPass DEF PriorityInv
<1>3. RankInv(T, n, U)
  <2> HIDE DEF P, T
  <2> QED BY <1>2, RankPass DEF TopicInv
<1> HIDE DEF P, T, U
<1>4. /\ n \in Nat /\ \A i \in Eligible : \E k \in 1 .. n : Ranked[k] = i
      /\ \A k \in 1 .. n : Ranked[k] \in Eligible
  BY RankedFacts, ElementOf
<1>5. Cardinality(U) \in Nat /\ policy.clips \in Nat /\ Cardinality(Eligible) \in Nat /\ Cardinality(U) <= policy.clips
  <2>1. Cardinality(U) \in 0 .. policy.clips /\ policy.clips \in Nat /\ Cardinality(Eligible) \in Nat
    BY <1>3, PolicyFacts, EligibleFacts DEF RankInv, Room, PlanReady
  <2> QED BY <2>1, SMT
<1>6. Cardinality(U) = policy.clips
  <2>1. ASSUME Cardinality(U) < policy.clips PROVE FALSE
    <3>1. Eligible \subseteq U
      BY <1>3, <1>4, <2>1 DEF RankInv
    <3>2. U = Eligible
      BY <1>3, <3>1 DEF RankInv, Room
    <3> QED BY <1>5, <3>2, SMT
  <2> QED BY <1>5, <2>1, SMT
<1>7. Covered(T) \subseteq Covered(U) /\ U \in SUBSET Eligible
  BY <1>3 DEF RankInv, Covered, Room
<1>8. ASSUME NEW i \in U, NEW j \in U, i # j, Topic(i) = Topic(j), NEW d \in Eligible PROVE Topic(d) \in Covered(U)
  <2>1. i \notin T \/ j \notin T
    BY <1>2, <1>8 DEF TopicInv, Distinct
  <2>2. Cardinality(T) < policy.clips
    BY <1>3, <2>1 DEF RankInv
  <2>3. \A m \in 1 .. n : Topic(Ranked[m]) \in Covered(T)
    BY <1>2, <2>2 DEF TopicInv
  <2> QED BY <1>4, <1>7, <2>3
<1>9. ASSUME NEW d \in Eligible \ U, NEW k \in U, Better(d, k)
      PROVE  \/ \E p \in Range(Priorities) : Speaks(k, p)
             \/ Topic(d) \in Covered(U) /\ \A j \in U \ {k} : Topic(j) # Topic(k)
  <2>1. PICK o \in 1 .. n : Ranked[o] = d
    BY <1>4
  <2>2. \A m \in 1 .. n : Ranked[m] = k => o \in 1 .. m - 1
    BY <1>9, <2>1, BetterStandsFirst
  <2>3. ASSUME k \in P PROVE \E p \in Range(Priorities) : Speaks(k, p)
    BY <1>1, <2>3 DEF PriorityInv
  <2>4. k \in T
    <3>1. ASSUME k \notin T PROVE FALSE
      <4>1. PICK m \in 1 .. n : Ranked[m] = k /\ \A l \in 1 .. m - 1 : Ranked[l] \in U
        BY <1>3, <3>1 DEF RankInv
      <4> QED BY <2>1, <2>2, <4>1
    <3> QED BY <3>1
  <2>5. ASSUME k \notin P PROVE Topic(d) \in Covered(U) /\ \A j \in U \ {k} : Topic(j) # Topic(k)
    <3>1. PICK m \in 1 .. n : /\ Ranked[m] = k
                              /\ \A l \in 1 .. m - 1 : /\ Topic(Ranked[l]) \in Covered(T)
                                                       /\ Topic(Ranked[l]) # Topic(k)
      BY <1>2, <2>4, <2>5 DEF TopicInv
    <3>2. o \in 1 .. m - 1
      BY <2>2, <3>1
    <3>3. Topic(d) \in Covered(U)
      BY <1>7, <2>1, <3>1, <3>2
    <3>4. ASSUME NEW j \in U \ {k}, Topic(j) = Topic(k) PROVE FALSE
      <4>1. j \notin T
        BY <1>2, <2>4, <3>4 DEF TopicInv, Distinct
      <4>2. PICK x \in 1 .. n : Ranked[x] = j /\ \A l \in 1 .. x - 1 : Ranked[l] \in U
        BY <1>3, <4>1 DEF RankInv
      <4>3. o \notin 1 .. x - 1 /\ o # x
        BY <2>1, <4>2
      <4>4. x \in 1 .. m - 1
        BY <1>4, <3>2, <4>3, SMT
      <4> QED BY <3>1, <3>4, <4>2, <4>4
    <3> QED BY <3>3, <3>4
  <2> QED BY <2>3, <2>5
<1>10. Fair(U) /\ U \in SUBSET Eligible
  BY <1>6, <1>7, <1>8, <1>9 DEF Fair
<1> QED BY <1>10 DEF U, T, P

\* What is selected is eligible, within the limit, and fairly so.
LEMMA SelectedFacts ==
    ASSUME PlanReady
    PROVE  /\ Selected \in SUBSET Eligible
           /\ policy.clips > 0 => Cardinality(Selected) <= policy.clips
           /\ Selected = Eligible \/ Fair(Selected)
<1>1. policy.clips \in Nat /\ Cardinality(Eligible) \in Nat
  BY PolicyFacts, EligibleFacts DEF PlanReady
<1>2. CASE policy.clips = 0 \/ Cardinality(Eligible) <= policy.clips
  <2>1. Selected = Eligible
    BY <1>2 DEF Selected
  <2>2. policy.clips > 0 => Cardinality(Eligible) <= policy.clips
    BY <1>1, <1>2, SMT
  <2> QED BY <2>1, <2>2
<1>3. CASE ~(policy.clips = 0 \/ Cardinality(Eligible) <= policy.clips)
  <2>1. Selected = ByRank(ByTopic(ByPriority))
    BY <1>3 DEF Selected
  <2>2. policy.clips < Cardinality(Eligible)
    BY <1>1, <1>3, SMT
  <2>3. Fair(Selected) /\ Selected \in SUBSET Eligible
    BY <2>1, <2>2, LimitedSelection
  <2>4. Cardinality(Selected) <= policy.clips
    BY <1>1, <2>3, SMT DEF Fair
  <2> QED BY <2>3, <2>4
<1> QED BY <1>2, <1>3

-----------------------------------------------------------------------------
\* What the reasons are.
LEMMA ReasonFacts ==
    ASSUME NEW i
    PROVE  /\ Reason(i) # "max_clips_limit"
           /\ Reason(i) = "none" => /\ ~Excluded(i) /\ ~reviews[i].human
                                    /\ ~(reviews[i].score < policy.threshold)
                                    /\ Remedy(candidates[i], reviews[i]) # "invalid"
  BY DEF Reason

\* A final range lies in the recording and has a legal length, and its boundary is valid.
LEMMA FinalFacts ==
    ASSUME PlanReady, NEW i \in 1 .. Len(candidates)
    PROVE  /\ Final(i).start \in Int /\ Final(i).end \in Int
           /\ InRecording(Final(i)) /\ Final(i).end - Final(i).start \in policy.min .. policy.max
           /\ ValidBoundary(i, FinalCandidate(i))
<1> DEFINE c == candidates[i]
           r == reviews[i]
           initial == [start |-> c.start, end |-> c.end]
<1>1. /\ c.start \in Int /\ c.end \in Int /\ Duration \in Nat
      /\ 0 <= c.start /\ c.start < c.end /\ c.end <= Duration
      /\ c.end - c.start \in policy.min .. policy.max
  BY EveryCandidate, ChunkFacts DEF PlanReady
<1>2. initial.start = c.start /\ initial.end = c.end
  OBVIOUS
<1>3. FinalCandidate(i).remedy = Remedy(c, r) /\ FinalCandidate(i).range = Final(i)
  BY DEF FinalCandidate
<1>4. Final(i) = IF Remedy(c, r) = "applied" THEN r.fix ELSE initial
  BY DEF Final
<1>5. ValidBoundary(i, FinalCandidate(i)) <=>
         CASE Remedy(c, r) = "not_needed" -> ~Requested(r) /\ Final(i) = initial
           [] Remedy(c, r) = "applied"    -> /\ Final(i) = r.fix /\ Final(i) # initial
                                             /\ Final(i).start <= initial.start /\ Final(i).end >= initial.end
           [] Remedy(c, r) = "invalid"    -> Final(i) = initial
  BY <1>3 DEF ValidBoundary
<1>6. Remedy(c, r) = IF ~Requested(r) THEN "not_needed" ELSE IF LegalFix(c, r.fix) THEN "applied" ELSE "invalid"
  BY DEF Remedy
<1> HIDE DEF c, r, initial
<1>7. CASE Remedy(c, r) = "applied"
  <2>1. /\ Final(i) = r.fix /\ LegalFix(c, r.fix)
    BY <1>4, <1>6, <1>7
  <2>2. /\ r.fix.start \in 0 .. c.start /\ r.fix.end \in c.end .. Duration
        /\ r.fix.start # c.start \/ r.fix.end # c.end
        /\ r.fix.end - r.fix.start \in policy.min .. policy.max
    BY <2>1 DEF LegalFix
  <2>3. /\ r.fix.start \in Int /\ r.fix.end \in Int /\ r.fix.start <= c.start /\ r.fix.end >= c.end
        /\ 0 <= r.fix.start /\ r.fix.start < r.fix.end /\ r.fix.end <= Duration
    BY <1>1, <2>2, SMT
  <2>4. r.fix # initial
    BY <1>2, <2>2
  <2> QED BY <1>2, <1>5, <1>7, <2>1, <2>2, <2>3, <2>4 DEF InRecording
<1>8. CASE Remedy(c, r) # "applied"
  <2>1. Final(i) = initial
    BY <1>4, <1>8
  <2>2. /\ InRecording(Final(i)) /\ Final(i).start \in Int /\ Final(i).end \in Int
        /\ Final(i).end - Final(i).start \in policy.min .. policy.max
    BY <1>1, <1>2, <2>1 DEF InRecording
  <2>3. Remedy(c, r) \in {"not_needed", "invalid"} /\ (Remedy(c, r) = "not_needed" => ~Requested(r))
    BY <1>6, <1>8
  <2>4. ValidBoundary(i, FinalCandidate(i))
    BY <1>5, <2>1, <2>3
  <2> QED BY <2>2, <2>4
<1> QED BY <1>7, <1>8

\* The step that makes the plan.
PlanMade ==
    /\ plan' = [finals |-> [i \in DOMAIN candidates |-> FinalCandidate(i)], videos |-> Selected, series |-> Series]
    /\ UNCHANGED <<chunks, policy, candidates, reviews>>

\* The plan, field by field.
LEMMA PlanFields ==
    ASSUME PlanReady, NEW p,
           p = [finals |-> [i \in DOMAIN candidates |-> FinalCandidate(i)], videos |-> Selected, series |-> Series]
    PROVE  /\ p.videos = Selected /\ p.series = Series /\ DOMAIN p.finals = 1 .. Len(candidates)
           /\ Selected \in SUBSET Eligible /\ Eligible \in SUBSET (1 .. Len(candidates))
           /\ \A i \in 1 .. Len(candidates) :
                /\ p.finals[i] = FinalCandidate(i) /\ p.finals[i].range = Final(i)
                /\ p.finals[i].selection.published <=> i \in Selected
                /\ p.finals[i].selection.reason = "max_clips_limit" <=> i \in Eligible \ Selected
<1>1. DOMAIN candidates = 1 .. Len(candidates)
  BY EveryCandidate DEF PlanReady
<1>2. p.videos = Selected /\ p.series = Series /\ p.finals = [i \in 1 .. Len(candidates) |-> FinalCandidate(i)]
  BY <1>1
<1>3. Selected \in SUBSET Eligible /\ Eligible \in SUBSET (1 .. Len(candidates))
  BY SelectedFacts, EligibleFacts
<1>4. ASSUME NEW i \in 1 .. Len(candidates)
      PROVE  /\ p.finals[i] = FinalCandidate(i) /\ p.finals[i].range = Final(i)
             /\ p.finals[i].selection.published <=> i \in Selected
             /\ p.finals[i].selection.reason = "max_clips_limit" <=> i \in Eligible \ Selected
  <2> DEFINE why == IF i \in Selected THEN "none" ELSE IF Reason(i) = "none" THEN "max_clips_limit" ELSE Reason(i)
  <2>1. p.finals[i] = FinalCandidate(i)
    BY <1>2
  <2>2. FinalCandidate(i).range = Final(i) /\ FinalCandidate(i).selection = Selection(i)
    BY DEF FinalCandidate
  <2>3. (Selection(i).published <=> why = "none") /\ Selection(i).reason = why
    BY DEF Selection
  <2>4. i \in Eligible <=> Reason(i) = "none"
    BY <1>1 DEF Eligible
  <2>5. Reason(i) # "max_clips_limit"
    BY ReasonFacts
  <2>6. why = "none" <=> i \in Selected
    BY <1>3, <2>4
  <2>7. why = "max_clips_limit" <=> i \in Eligible \ Selected
    BY <1>3, <2>4, <2>5
  <2> HIDE DEF why
  <2> QED BY <2>1, <2>2, <2>3, <2>6, <2>7
<1> QED BY <1>1, <1>2, <1>3, <1>4

\* The order of the candidates depends on their reviews alone.
LEMMA BetterKept ==
    ASSUME UNCHANGED reviews, NEW i, NEW j
    PROVE  Better(i, j)' <=> Better(i, j)
<1>1. \A k : PriorityOf(k)' = PriorityOf(k)
  <2> TAKE k
  <2>1. {p \in DOMAIN Priorities : Speaks(k, Priorities[p])}' = {p \in DOMAIN Priorities : Speaks(k, Priorities[p])}
    BY DEF Speaks
  <2> QED BY <2>1 DEF PriorityOf
<1> QED BY <1>1 DEF Better

\* What finalize publishes is fit to be.
LEMMA PublishedFit ==
    ASSUME PlanReady, PlanMade
    PROVE  PublishedAreFit'
<1>1. /\ plan'.videos = Selected /\ Selected \in SUBSET Eligible /\ Eligible \in SUBSET (1 .. Len(candidates))
      /\ \A i \in 1 .. Len(candidates) : plan'.finals[i].range = Final(i)
  BY PlanFields DEF PlanMade
<1>2. ASSUME NEW i \in plan'.videos
      PROVE  /\ plan'.finals[i].range.end - plan'.finals[i].range.start \in policy.min .. policy.max
             /\ \A t \in plan'.finals[i].range.start .. plan'.finals[i].range.end - 1 :
                  ~\E j \in DOMAIN chunks : chunks[j].excluded /\ t \in chunks[j].start .. chunks[j].end - 1
             /\ reviews[i].score >= policy.threshold /\ ~reviews[i].human
  <2>1. i \in 1 .. Len(candidates) /\ i \in Eligible
    BY <1>1
  <2>2. Reason(i) = "none"
    BY <2>1 DEF Eligible
  <2>3. ~Excluded(i) /\ ~reviews[i].human /\ ~(reviews[i].score < policy.threshold)
    BY <2>2, ReasonFacts
  <2>4. reviews[i].score >= policy.threshold
    <3>1. reviews[i].score \in Int /\ policy.threshold \in Int
      BY <2>1, PolicyFacts DEF PlanReady
    <3> QED BY <2>3, <3>1, SMT
  <2>5. Final(i).start \in Int /\ Final(i).end \in Int /\ Final(i).end - Final(i).start \in policy.min .. policy.max
    BY <2>1, FinalFacts
  <2>6. ASSUME NEW t \in Final(i).start .. Final(i).end - 1, NEW j \in DOMAIN chunks,
               chunks[j].excluded, t \in chunks[j].start .. chunks[j].end - 1
        PROVE  FALSE
    <3>1. chunks[j].start \in Int /\ chunks[j].end \in Int
      BY ChunkFacts DEF PlanReady
    <3>2. chunks[j].start < Final(i).end /\ chunks[j].end > Final(i).start
      BY <2>5, <2>6, <3>1, SMT
    <3> QED BY <2>3, <2>6, <3>2 DEF Excluded
  <2> QED BY <1>1, <2>1, <2>3, <2>4, <2>5, <2>6
<1> QED BY <1>2 DEF PublishedAreFit, PlanMade

\* And what it drops for the limit, it drops fairly.
LEMMA LimitFair ==
    ASSUME PlanReady, PlanMade
    PROVE  LimitIsFair'
<1> DEFINE dropped == {i \in DOMAIN plan'.finals : plan'.finals[i].selection.reason = "max_clips_limit"}
<1>1. plan'.videos = Selected /\ dropped = Eligible \ Selected
  <2>1. /\ plan'.videos = Selected /\ DOMAIN plan'.finals = 1 .. Len(candidates)
        /\ Eligible \in SUBSET (1 .. Len(candidates))
        /\ \A i \in 1 .. Len(candidates) :
             plan'.finals[i].selection.reason = "max_clips_limit" <=> i \in Eligible \ Selected
    BY PlanFields DEF PlanMade
  <2> QED BY <2>1
<1>2. /\ policy.clips > 0 => Cardinality(Selected) <= policy.clips
      /\ Selected = Eligible \/ Fair(Selected)
  BY SelectedFacts
<1>3. dropped # {} => Fair(Selected)
  BY <1>1, <1>2
<1> HIDE DEF dropped
<1>4. /\ policy.clips > 0 => Cardinality(plan'.videos) <= policy.clips
      /\ dropped # {} => Cardinality(plan'.videos) = policy.clips
      /\ \A i, j \in plan'.videos : i # j /\ Topic(i) = Topic(j) => \A d \in dropped : Topic(d) \in Covered(plan'.videos)
      /\ \A d \in dropped, k \in plan'.videos :
           Better(d, k) => \/ \E p \in Range(Priorities) : Speaks(k, p)
                           \/ Topic(d) \in Covered(plan'.videos) /\ \A j \in plan'.videos \ {k} : Topic(j) # Topic(k)
  BY <1>1, <1>2, <1>3 DEF Fair
<1>5. UNCHANGED <<policy, reviews>>
  BY DEF PlanMade
<1> QED BY <1>4, <1>5, BetterKept DEF LimitIsFair, dropped, Topic, Covered, Speaks

-----------------------------------------------------------------------------
(* Clip planning: the series of finalize                                     *)

\* Neighbours of one topic, in their order, and none beyond a position.
IsRun(r, k) ==
    \A x \in 1 .. Len(r) : r[x] = r[1] + x - 1 /\ r[x] \in Selected /\ r[x] <= k /\ Topic(r[x]) = Topic(r[1])
Precedes(r, q) == r[Len(r)] < q[1]
Together(i, r) == \E x, y \in 1 .. Len(r) : r[x] = i /\ r[y] = i + 1
Neighbours(i, k) == i \in Selected /\ i + 1 \in Selected /\ i + 1 <= k /\ Topic(i) = Topic(i + 1)

\* The series that are closed.
Closed(k, done) ==
    /\ done \in Seq(Seq(Nat))
    /\ \A d \in 1 .. Len(done) : Len(done[d]) >= 2 /\ IsRun(done[d], k)
    /\ \A d, e \in 1 .. Len(done) : d < e => Precedes(done[d], done[e])

\* And the one that may grow.
SeriesInv(k, done, ids, topic) ==
    /\ Closed(k, done)
    /\ ids \in Seq(Nat) /\ IsRun(ids, k)
    /\ Len(ids) > 0 => topic = Topic(ids[1])
    /\ k \in Selected => Len(ids) > 0 /\ ids[Len(ids)] = k
    /\ Len(ids) > 0 => \A d \in 1 .. Len(done) : Precedes(done[d], ids)
    /\ \A i \in Selected : Neighbours(i, k) => Together(i, ids) \/ \E d \in 1 .. Len(done) : Together(i, done[d])

FlushOf(done, ids) == IF Len(ids) >= 2 THEN Append(done, ids) ELSE done

\* One more at the end of a list.
LEMMA Appended ==
    ASSUME NEW V, NEW s \in Seq(V), NEW v \in V
    PROVE  /\ Append(s, v) \in Seq(V) /\ Len(s) \in Nat /\ Len(Append(s, v)) = Len(s) + 1
           /\ \A x \in 1 .. Len(s) : Append(s, v)[x] = s[x]
           /\ Append(s, v)[Len(s) + 1] = v
           /\ \A x \in 1 .. Len(s) + 1 : x \in 1 .. Len(s) \/ x = Len(s) + 1
           /\ \A x \in 1 .. Len(s) : x \in 1 .. Len(s) + 1
           /\ Len(s) + 1 \in 1 .. Len(s) + 1
  OBVIOUS

\* What is selected are numbers of candidates.
LEMMA SelectedNumbers ==
    ASSUME PlanReady
    PROVE  Selected \in SUBSET (1 .. Len(candidates)) /\ Len(candidates) \in Nat /\ \A i \in Selected : i \in Nat /\ i >= 1
<1>1. Selected \in SUBSET (1 .. Len(candidates)) /\ Len(candidates) \in Nat
  BY SelectedFacts, EligibleFacts, EveryCandidate DEF PlanReady
<1> QED BY <1>1, SMT

\* Closing the run that grows loses no pair of neighbours.
LEMMA Flushed ==
    ASSUME PlanReady, NEW k \in Nat, NEW done, NEW ids, NEW topic, SeriesInv(k, done, ids, topic)
    PROVE  /\ Closed(k, FlushOf(done, ids))
           /\ \A i \in Selected : Neighbours(i, k) => \E d \in 1 .. Len(FlushOf(done, ids)) : Together(i, FlushOf(done, ids)[d])
<1> DEFINE t == FlushOf(done, ids)
<1>0. Len(ids) \in Nat /\ Len(done) \in Nat /\ ids \in Seq(Nat) /\ done \in Seq(Seq(Nat))
  BY DEF SeriesInv, Closed
<1>1. CASE Len(ids) >= 2
  <2>1. t = Append(done, ids)
    BY <1>1 DEF FlushOf
  <2>2. /\ t \in Seq(Seq(Nat)) /\ Len(t) = Len(done) + 1
        /\ \A x \in 1 .. Len(done) : t[x] = done[x]
        /\ t[Len(done) + 1] = ids
        /\ \A x \in 1 .. Len(done) + 1 : x \in 1 .. Len(done) \/ x = Len(done) + 1
        /\ \A x \in 1 .. Len(done) : x \in 1 .. Len(done) + 1
        /\ Len(done) + 1 \in 1 .. Len(done) + 1
    BY <1>0, <2>1, Appended
  <2> HIDE DEF t
  <2>3. Len(ids) > 0
    BY <1>0, <1>1, SMT
  <2>4. \A d \in 1 .. Len(t) : Len(t[d]) >= 2 /\ IsRun(t[d], k)
    BY <1>1, <2>2 DEF SeriesInv, Closed
  <2>5. ASSUME NEW d \in 1 .. Len(t), NEW e \in 1 .. Len(t), d < e PROVE Precedes(t[d], t[e])
    <3>1. d \in 1 .. Len(done)
      BY <1>0, <2>2, <2>5, SMT
    <3> QED BY <2>2, <2>3, <2>5, <3>1 DEF SeriesInv, Closed
  <2>6. \A i \in Selected : Neighbours(i, k) => \E d \in 1 .. Len(t) : Together(i, t[d])
    BY <2>2 DEF SeriesInv
  <2> QED BY <2>2, <2>4, <2>5, <2>6 DEF Closed, t
<1>2. CASE ~(Len(ids) >= 2)
  <2>1. t = done
    BY <1>2 DEF FlushOf
  <2>2. ASSUME NEW i \in Selected, Together(i, ids) PROVE FALSE
    <3>1. PICK x \in 1 .. Len(ids), y \in 1 .. Len(ids) : ids[x] = i /\ ids[y] = i + 1
      BY <2>2 DEF Together
    <3>2. x = y
      BY <1>0, <1>2, <3>1, SMT
    <3>3. i \in Nat
      BY SelectedNumbers
    <3> QED BY <3>1, <3>2, <3>3, SMT
  <2> HIDE DEF t
  <2> QED BY <2>1, <2>2 DEF SeriesInv, t
<1> QED BY <1>1, <1>2

\* A run stays one when the position moves on,
LEMMA LaterRun ==
    ASSUME PlanReady, NEW k \in Nat, NEW r
    PROVE  IsRun(r, k) => IsRun(r, k + 1)
<1>1. ASSUME NEW i \in Selected, i <= k PROVE i <= k + 1
  <2>1. i \in Nat
    BY SelectedNumbers
  <2> QED BY <1>1, <2>1, SMT
<1> QED BY <1>1 DEF IsRun

\* and so do those that are closed.
LEMMA LaterClosed ==
    ASSUME PlanReady, NEW k \in Nat, NEW done, Closed(k, done)
    PROVE  Closed(k + 1, done)
  BY LaterRun DEF Closed

\* A candidate that is not published ends nothing and starts nothing.
LEMMA StepOver ==
    ASSUME PlanReady, NEW k \in Nat, NEW done, NEW ids, NEW topic, SeriesInv(k, done, ids, topic), k + 1 \notin Selected
    PROVE  SeriesInv(k + 1, done, ids, topic)
<1>1. ASSUME NEW i \in Selected, Neighbours(i, k + 1) PROVE Neighbours(i, k)
  <2>1. i \in Nat /\ i + 1 # k + 1 /\ i + 1 <= k + 1
    BY <1>1, SelectedNumbers DEF Neighbours
  <2>2. i + 1 <= k
    BY <2>1, SMT
  <2> QED BY <1>1, <2>2 DEF Neighbours
<1> QED BY <1>1, LaterClosed, LaterRun DEF SeriesInv

\* One that continues the run is its new last.
LEMMA StepOn ==
    ASSUME PlanReady, NEW k \in Nat, NEW done, NEW ids, NEW topic, SeriesInv(k, done, ids, topic), k + 1 \in Selected,
           Len(ids) > 0, topic = Topic(k + 1), ids[Len(ids)] = k
    PROVE  SeriesInv(k + 1, done, Append(ids, k + 1), topic)
<1> DEFINE t == Append(ids, k + 1)
           n == Len(ids)
<1>0. n \in Nat /\ ids \in Seq(Nat) /\ k + 1 \in Nat
  BY DEF SeriesInv
<1>1. /\ t \in Seq(Nat) /\ Len(t) = n + 1
      /\ \A x \in 1 .. n : t[x] = ids[x]
      /\ t[n + 1] = k + 1
      /\ \A x \in 1 .. n + 1 : x \in 1 .. n \/ x = n + 1
      /\ \A x \in 1 .. n : x \in 1 .. n + 1
      /\ n + 1 \in 1 .. n + 1
  BY <1>0, Appended
<1> HIDE DEF t
<1>2. 1 \in 1 .. n /\ n \in 1 .. n /\ Len(t) > 0
  BY <1>0, <1>1, SMT
<1>3. t[1] = ids[1] /\ ids[1] \in Nat
  BY <1>1, <1>2, ElementOf DEF SeriesInv
<1>4. IsRun(ids, k + 1)
  BY LaterRun DEF SeriesInv
<1>5. ids[1] + n - 1 = k
  BY <1>2 DEF SeriesInv, IsRun
<1>6. k + 1 = t[1] + (n + 1) - 1 /\ k + 1 <= k + 1
  BY <1>0, <1>3, <1>5, SMT
<1>7. topic = Topic(t[1])
  BY <1>3 DEF SeriesInv
<1> HIDE DEF n
<1>8. IsRun(t, k + 1)
  <2> SUFFICES ASSUME NEW x \in 1 .. Len(t)
               PROVE  t[x] = t[1] + x - 1 /\ t[x] \in Selected /\ t[x] <= k + 1 /\ Topic(t[x]) = Topic(t[1])
    BY DEF IsRun
  <2>1. CASE x \in 1 .. n
    <3>1. t[x] = ids[x] /\ ids[x] = ids[1] + x - 1 /\ ids[x] \in Selected /\ ids[x] <= k + 1 /\ Topic(ids[x]) = Topic(ids[1])
      BY <1>1, <1>4, <2>1 DEF IsRun, n
    <3> QED BY <1>3, <3>1
  <2>2. CASE x = n + 1
    <3>1. t[x] = k + 1
      BY <1>1, <2>2
    <3>2. Topic(t[x]) = Topic(t[1])
      BY <1>7, <3>1
    <3>3. t[x] = t[1] + x - 1
      BY <1>6, <2>2, <3>1
    <3>4. t[x] \in Selected
      BY <3>1
    <3>5. t[x] <= k + 1
      BY <1>6, <3>1
    <3> QED BY <3>2, <3>3, <3>4, <3>5
  <2> QED BY <1>1, <2>1, <2>2
<1>9. ASSUME NEW i \in Selected, Neighbours(i, k + 1)
      PROVE  Together(i, t) \/ \E d \in 1 .. Len(done) : Together(i, done[d])
  <2>1. i \in Nat /\ i + 1 <= k + 1
    BY <1>9, SelectedNumbers DEF Neighbours
  <2>2. CASE i = k
    <3>1. t[n] = i /\ t[n + 1] = i + 1 /\ n \in 1 .. Len(t) /\ n + 1 \in 1 .. Len(t)
      BY <1>1, <1>2, <2>2 DEF n
    <3> QED BY <3>1 DEF Together
  <2>3. CASE i # k
    <3>1. i + 1 <= k
      BY <2>1, <2>3, SMT
    <3>2. Neighbours(i, k)
      BY <1>9, <3>1 DEF Neighbours
    <3>3. Together(i, ids) => Together(i, t)
      BY <1>1 DEF Together, n
    <3> QED BY <3>2, <3>3 DEF SeriesInv
  <2> QED BY <2>2, <2>3
<1>10. \A d \in 1 .. Len(done) : Precedes(done[d], t)
  BY <1>3 DEF SeriesInv, Precedes
<1>11. t[Len(t)] = k + 1
  BY <1>1
<1>12. Closed(k + 1, done)
  BY LaterClosed DEF SeriesInv
<1>13. SeriesInv(k + 1, done, t, topic)
  BY <1>1, <1>2, <1>7, <1>8, <1>9, <1>10, <1>11, <1>12 DEF SeriesInv
<1> QED BY <1>13 DEF t

\* Any other closes it and starts one of its own.
LEMMA StepAnew ==
    ASSUME PlanReady, NEW k \in Nat, NEW done, NEW ids, NEW topic, SeriesInv(k, done, ids, topic), k + 1 \in Selected,
           ~(Len(ids) > 0 /\ topic = Topic(k + 1) /\ ids[Len(ids)] = k)
    PROVE  SeriesInv(k + 1, FlushOf(done, ids), <<k + 1>>, Topic(k + 1))
<1> DEFINE t == FlushOf(done, ids)
           r == <<k + 1>>
<1>0. Len(ids) \in Nat /\ ids \in Seq(Nat)
  BY DEF SeriesInv
<1>1. /\ Closed(k, t)
      /\ \A i \in Selected : Neighbours(i, k) => \E d \in 1 .. Len(t) : Together(i, t[d])
  BY Flushed
<1>2. r \in Seq(Nat) /\ Len(r) = 1 /\ r[1] = k + 1 /\ Len(r) > 0 /\ \A x \in 1 .. 1 : x = 1
  OBVIOUS
<1> HIDE DEF t, r
<1>3. k + 1 = (k + 1) + 1 - 1 /\ k + 1 <= k + 1
  BY SMT
<1>4. IsRun(r, k + 1)
  BY <1>2, <1>3 DEF IsRun
<1>5. ASSUME NEW i \in Selected, Neighbours(i, k + 1) PROVE \E d \in 1 .. Len(t) : Together(i, t[d])
  <2>1. i \in Nat /\ i + 1 <= k + 1
    BY <1>5, SelectedNumbers DEF Neighbours
  <2>2. ASSUME i = k PROVE FALSE
    <3>1. k \in Selected /\ Topic(k) = Topic(k + 1)
      BY <2>2, <1>5 DEF Neighbours
    <3>2. Len(ids) > 0 /\ ids[Len(ids)] = k /\ topic = Topic(ids[1])
      BY <3>1 DEF SeriesInv
    <3>3. Len(ids) \in 1 .. Len(ids)
      BY <1>0, <3>2, SMT
    <3>4. Topic(ids[Len(ids)]) = Topic(ids[1])
      BY <3>3 DEF SeriesInv, IsRun
    <3> QED BY <3>1, <3>2, <3>4
  <2>3. i + 1 <= k
    BY <2>1, <2>2, SMT
  <2>4. Neighbours(i, k)
    BY <1>5, <2>3 DEF Neighbours
  <2> QED BY <1>1, <2>4
<1>6. ASSUME NEW d \in 1 .. Len(t) PROVE Precedes(t[d], r)
  <2>1. t[d] \in Seq(Nat) /\ Len(t[d]) >= 2 /\ IsRun(t[d], k)
    <3>1. t \in Seq(Seq(Nat))
      BY <1>1 DEF Closed
    <3>2. t[d] \in Seq(Nat)
      BY <3>1, ElementOf
    <3> QED BY <1>1, <3>2 DEF Closed
  <2>2. Len(t[d]) \in 1 .. Len(t[d]) /\ Len(t[d]) \in Nat
    BY <2>1, SMT
  <2>3. t[d][Len(t[d])] <= k /\ t[d][Len(t[d])] \in Nat
    BY <2>1, <2>2, ElementOf DEF IsRun
  <2>4. t[d][Len(t[d])] < k + 1
    BY <2>3, SMT
  <2> QED BY <1>2, <2>4 DEF Precedes
<1>7. Closed(k + 1, t)
  BY <1>1, LaterClosed
<1>8. SeriesInv(k + 1, t, r, Topic(k + 1))
  BY <1>2, <1>4, <1>5, <1>6, <1>7 DEF SeriesInv
<1> QED BY <1>8 DEF t, r

Runs == [done : Seq(Seq(Nat)), ids : Seq(Nat), topic : {""} \cup {Topic(i) : i \in 1 .. Len(candidates)}]
SeriesStep(s, i) ==
    IF i \notin Selected THEN s
    ELSE IF Continues(s, i) THEN [s EXCEPT !.ids = Append(@, i)]
    ELSE [done |-> Flush(s), ids |-> <<i>>, topic |-> Topic(i)]

\* A step of the pass over the candidates.
LEMMA SeriesStepType ==
    ASSUME PlanReady, NEW s \in Runs, NEW i \in 1 .. Len(candidates)
    PROVE  SeriesStep(s, i) \in Runs
<1>0. Len(candidates) \in Nat
  BY EveryCandidate DEF PlanReady
<1>1. i \in Nat
  BY <1>0, SMT
<1>2. s.done \in Seq(Seq(Nat)) /\ s.ids \in Seq(Nat)
  BY DEF Runs
<1>3. Flush(s) \in Seq(Seq(Nat)) /\ Append(s.ids, i) \in Seq(Nat) /\ <<i>> \in Seq(Nat)
  BY <1>1, <1>2, Appended DEF Flush
<1>4. [s EXCEPT !.ids = Append(@, i)] \in Runs
  BY <1>3 DEF Runs
<1>5. [done |-> Flush(s), ids |-> <<i>>, topic |-> Topic(i)] \in Runs
  BY <1>3 DEF Runs
<1> QED BY <1>4, <1>5 DEF SeriesStep

\* The pass over the candidates, one at a time.
LEMMA SeriesSteps ==
    ASSUME PlanReady
    PROVE  \E f : /\ f[0] = [done |-> <<>>, ids |-> <<>>, topic |-> ""]
                  /\ Series = Flush(f[Len(candidates)])
                  /\ \A k \in 1 .. Len(candidates) : f[k] = SeriesStep(f[k - 1], k)
<1> DEFINE n == Len(candidates)
           seq == [i \in DOMAIN candidates |-> i]
           base == [done |-> <<>>, ids |-> <<>>, topic |-> ""]
           G == [p \in Runs \X (1 .. n) |-> SeriesStep(p[1], p[2])]
           body(F) == [s \in SUBSET DOMAIN seq |->
                         IF s = {} THEN base ELSE SeriesStep(F[s \ {Max(s)}], seq[Max(s)])]
           iter == CHOOSE F : F = body(F)
<1>0. n \in Nat /\ DOMAIN candidates = 1 .. n /\ DOMAIN seq = 1 .. n
  BY EveryCandidate DEF PlanReady
<1>1. Series = Flush(iter[DOMAIN seq])
  BY DEF Series, FoldLeft, MapThenFoldSet, SeriesStep
<1>2. G \in [Runs \X (1 .. n) -> Runs] /\ base \in Runs
  <2>1. ASSUME NEW p \in Runs \X (1 .. n) PROVE SeriesStep(p[1], p[2]) \in Runs
    <3>1. p[1] \in Runs /\ p[2] \in 1 .. n
      OBVIOUS
    <3> QED BY <3>1, SeriesStepType
  <2>2. base \in Runs
    BY DEF Runs
  <2> QED BY <2>1, <2>2
<1>3. PICK v, g, b, m : v = Runs /\ g = G /\ b = base /\ m = n
  OBVIOUS
<1>4. PICK F \in [SUBSET (1 .. m) -> v] : IsFold(F, m, b, g)
  <2>1. m \in Nat /\ g \in [v \X (1 .. m) -> v] /\ b \in v
    BY <1>0, <1>2, <1>3
  <2> HIDE DEF n, seq, base, G, body, iter
  <2> QED BY <2>1, FoldExists
<1>5. /\ F \in [SUBSET (1 .. n) -> Runs]
      /\ \A s \in SUBSET (1 .. n) : F[s] = IF s = {} THEN base ELSE G[<<F[s \ {Max(s)}], Max(s)>>]
  BY <1>3, <1>4 DEF IsFold
<1> HIDE DEF base
<1>6. ASSUME NEW s \in SUBSET (1 .. n), s # {} PROVE F[s] = SeriesStep(F[s \ {Max(s)}], seq[Max(s)])
  <2>1. Max(s) \in 1 .. n
    <3>1. s \in SUBSET (0 .. n)
      BY <1>0, SMT
    <3>2. Max(s) \in s
      BY <1>0, <1>6, <3>1, MaxOf
    <3> QED BY <3>2
  <2>2. F[s \ {Max(s)}] \in Runs
    BY <1>5
  <2>3. seq[Max(s)] = Max(s)
    BY <1>0, <2>1
  <2> QED BY <1>5, <1>6, <2>1, <2>2, <2>3
<1>7. F = body(F)
  BY <1>0, <1>5, <1>6
<1> HIDE DEF body
<1>8. iter = body(iter)
  BY <1>7
<1>9. \A s \in SUBSET (1 .. n) : iter[s] = IF s = {} THEN base ELSE SeriesStep(iter[s \ {Max(s)}], seq[Max(s)])
  BY <1>0, <1>8 DEF body
<1> HIDE DEF iter
<1> DEFINE f == [k \in 0 .. n |-> iter[1 .. k]]
<1>10. f[0] = base /\ f[n] = iter[DOMAIN seq]
  <2>1. 0 \in 0 .. n /\ n \in 0 .. n /\ 1 .. 0 = {} /\ {} \in SUBSET (1 .. n)
    BY <1>0, SMT
  <2>2. f[0] = iter[{}] /\ f[n] = iter[1 .. n]
    BY <2>1
  <2> QED BY <1>0, <1>9, <2>1, <2>2
<1>11. ASSUME NEW k \in 1 .. n PROVE f[k] = SeriesStep(f[k - 1], k)
  <2>1. k \in 0 .. n /\ k - 1 \in 0 .. n
    BY <1>0, SMT
  <2>2. /\ 1 .. k \in SUBSET (1 .. n) /\ Max(1 .. k) = k /\ (1 .. k) \ {k} = 1 .. k - 1 /\ 1 .. k # {}
    BY <1>0, <2>1, PrefixSets
  <2>3. f[k] = iter[1 .. k] /\ f[k - 1] = iter[1 .. k - 1] /\ seq[k] = k
    BY <1>0, <2>1
  <2>4. iter[1 .. k] = SeriesStep(iter[(1 .. k) \ {k}], seq[k])
    BY <1>9, <2>2
  <2> QED BY <2>2, <2>3, <2>4
<1> HIDE DEF f, seq
<1> QED BY <1>1, <1>10, <1>11 DEF base

\* One step of the pass keeps what is known of its runs.
StateInv(k, s) == s \in Runs /\ SeriesInv(k, s.done, s.ids, s.topic)

\* The pass keeps its invariant with every candidate.
LEMMA SeriesPassStep ==
    ASSUME PlanReady, NEW k \in 0 .. Len(candidates) - 1, NEW s, StateInv(k, s)
    PROVE  StateInv(k + 1, SeriesStep(s, k + 1))
<1>0. k \in Nat /\ k + 1 \in 1 .. Len(candidates) /\ (k + 1) - 1 = k
  BY EveryCandidate, SMT DEF PlanReady
<1>1. SeriesStep(s, k + 1) \in Runs
  BY <1>0, SeriesStepType DEF StateInv
<1>2. s.ids \in Seq(Nat) /\ (s.ids # <<>> <=> Len(s.ids) > 0)
  <2>1. s.ids \in Seq(Nat)
    BY DEF StateInv, Runs
  <2> QED BY <2>1
<1>3. CASE k + 1 \notin Selected
  <2>1. SeriesStep(s, k + 1) = s
    BY <1>3 DEF SeriesStep
  <2> QED BY <1>0, <1>1, <1>3, <2>1, StepOver DEF StateInv
<1>4. CASE k + 1 \in Selected /\ Continues(s, k + 1)
  <2>1. SeriesStep(s, k + 1) = [s EXCEPT !.ids = Append(@, k + 1)]
    BY <1>4 DEF SeriesStep
  <2>2. Len(s.ids) > 0 /\ s.topic = Topic(k + 1) /\ s.ids[Len(s.ids)] = k
    BY <1>0, <1>2, <1>4 DEF Continues
  <2>3. SeriesInv(k + 1, s.done, Append(s.ids, k + 1), s.topic)
    BY <1>0, <1>4, <2>2, StepOn DEF StateInv
  <2>4. /\ SeriesStep(s, k + 1).done = s.done /\ SeriesStep(s, k + 1).ids = Append(s.ids, k + 1)
        /\ SeriesStep(s, k + 1).topic = s.topic
    BY <2>1 DEF StateInv, Runs
  <2> QED BY <1>1, <2>3, <2>4 DEF StateInv
<1>5. CASE k + 1 \in Selected /\ ~Continues(s, k + 1)
  <2>1. SeriesStep(s, k + 1) = [done |-> Flush(s), ids |-> <<k + 1>>, topic |-> Topic(k + 1)]
    BY <1>5 DEF SeriesStep
  <2>2. ~(Len(s.ids) > 0 /\ s.topic = Topic(k + 1) /\ s.ids[Len(s.ids)] = k)
    BY <1>0, <1>2, <1>5 DEF Continues
  <2>3. SeriesInv(k + 1, FlushOf(s.done, s.ids), <<k + 1>>, Topic(k + 1))
    BY <1>0, <1>5, <2>2, StepAnew DEF StateInv
  <2>4. Flush(s) = FlushOf(s.done, s.ids)
    BY DEF Flush, FlushOf
  <2>5. /\ SeriesStep(s, k + 1).done = FlushOf(s.done, s.ids) /\ SeriesStep(s, k + 1).ids = <<k + 1>>
        /\ SeriesStep(s, k + 1).topic = Topic(k + 1)
    BY <2>1, <2>4
  <2> QED BY <1>1, <2>3, <2>5 DEF StateInv
<1> QED BY <1>3, <1>4, <1>5

\* At its end all series are closed, and no neighbours are apart.
LEMMA SeriesPass ==
    ASSUME PlanReady
    PROVE  /\ Closed(Len(candidates), Series)
           /\ \A i \in Selected : Neighbours(i, Len(candidates)) => \E d \in 1 .. Len(Series) : Together(i, Series[d])
<1> DEFINE n == Len(candidates)
<1>0. n \in Nat
  BY SelectedNumbers
<1>1. PICK f : /\ f[0] = [done |-> <<>>, ids |-> <<>>, topic |-> ""]
               /\ Series = Flush(f[n])
               /\ \A k \in 1 .. n : f[k] = SeriesStep(f[k - 1], k)
  BY SeriesSteps
<1>2. StateInv(0, f[0])
  <2>1. f[0].done = <<>> /\ f[0].ids = <<>> /\ f[0].topic = "" /\ f[0] \in Runs
    <3>0. f[0] = [done |-> <<>>, ids |-> <<>>, topic |-> ""]
      BY <1>1, Zenon
    <3>1. f[0].done = <<>> /\ f[0].ids = <<>> /\ f[0].topic = ""
      <4>1. PICK x, y, z : x = <<>> /\ y = <<>> /\ z = ""
        OBVIOUS
      <4>2. f[0] = [done |-> x, ids |-> y, topic |-> z]
        BY <3>0, <4>1, Zenon
      <4>3. f[0].done = x /\ f[0].ids = y /\ f[0].topic = z
        BY <4>2
      <4> QED BY <4>1, <4>3, Zenon
    <3>2. <<>> \in Seq(Seq(Nat)) /\ <<>> \in Seq(Nat)
      OBVIOUS
    <3>3. \A R : [done |-> <<>>, ids |-> <<>>, topic |-> ""] \in [done : Seq(Seq(Nat)), ids : Seq(Nat), topic : {""} \cup R]
      BY <3>2, Zenon
    <3>4. f[0] \in Runs
      BY <3>0, <3>3, Zenon DEF Runs
    <3> QED BY <3>1, <3>4
  <2>2. <<>> \in Seq(Seq(Nat)) /\ <<>> \in Seq(Nat) /\ Len(<<>>) = 0 /\ 1 .. 0 = {} /\ ~(0 > 0)
    OBVIOUS
  <2>3. 0 \notin Selected /\ \A i \in Selected : ~(i + 1 <= 0)
    <3>1. \A i \in Selected : i \in Nat /\ i >= 1
      BY SelectedNumbers
    <3> QED BY <3>1, SMT
  <2>4. SeriesInv(0, <<>>, <<>>, "")
    BY <2>2, <2>3 DEF SeriesInv, Closed, IsRun, Neighbours
  <2> QED BY <2>1, <2>4 DEF StateInv
<1> DEFINE T == {k \in 0 .. n : StateInv(k, f[k])}
<1>3. 0 \in T
  <2>1. 0 \in 0 .. n
    BY <1>0, SMT
  <2> QED BY <1>2, <2>1
<1>4. ASSUME NEW k \in 0 .. n - 1, k \in T PROVE k + 1 \in T
  <2>1. k + 1 \in 1 .. n /\ (k + 1) - 1 = k /\ k + 1 \in 0 .. n
    BY <1>0, SMT
  <2>2. f[k + 1] = SeriesStep(f[k], k + 1)
    BY <1>1, <2>1
  <2>3. StateInv(k + 1, f[k + 1])
    BY <1>4, <2>2, SeriesPassStep
  <2> QED BY <2>1, <2>3
<1> HIDE DEF T
<1>5. 0 .. n \subseteq T
  BY <1>0, <1>3, <1>4, UpTo
<1>6. n \in T
  BY <1>0, <1>5, SMT
<1>7. SeriesInv(n, f[n].done, f[n].ids, f[n].topic)
  BY <1>6 DEF T, StateInv
<1>8. Series = FlushOf(f[n].done, f[n].ids)
  BY <1>1 DEF Flush, FlushOf
<1> QED BY <1>0, <1>7, <1>8, Flushed

\* The series that are closed are valid.
LEMMA ClosedIsValid ==
    ASSUME PlanReady, NEW p, p.videos = Selected, p.series = Series
    PROVE  ValidSeries(p) /\ (p.videos = {} => p.series = <<>>)
<1> DEFINE n == Len(candidates)
<1>1. Closed(n, Series) /\ Series \in Seq(Seq(Nat)) /\ DOMAIN Series = 1 .. Len(Series) /\ Len(Series) \in Nat
  BY SeriesPass DEF Closed
<1>2. ASSUME NEW d \in 1 .. Len(Series)
      PROVE  /\ Series[d] \in Seq(Nat) /\ Len(Series[d]) \in Nat /\ Len(Series[d]) >= 2
             /\ DOMAIN Series[d] = 1 .. Len(Series[d])
             /\ 1 \in 1 .. Len(Series[d]) /\ Len(Series[d]) \in 1 .. Len(Series[d])
             /\ Series[d][1] \in Nat
             /\ Series[d][Len(Series[d])] = Series[d][1] + Len(Series[d]) - 1
             /\ \A x \in 1 .. Len(Series[d]) :
                  Series[d][x] = Series[d][1] + x - 1 /\ Series[d][x] \in Selected /\ Topic(Series[d][x]) = Topic(Series[d][1])
  <2>1. Series[d] \in Seq(Nat)
    BY <1>1, ElementOf
  <2>2. Len(Series[d]) >= 2 /\ IsRun(Series[d], n)
    BY <1>1 DEF Closed
  <2>3. Len(Series[d]) \in Nat /\ DOMAIN Series[d] = 1 .. Len(Series[d])
    BY <2>1
  <2>4. 1 \in 1 .. Len(Series[d]) /\ Len(Series[d]) \in 1 .. Len(Series[d])
    BY <2>2, <2>3, SMT
  <2>5. Series[d][1] \in Nat
    BY <2>1, <2>4, ElementOf
  <2> QED BY <2>1, <2>2, <2>3, <2>4, <2>5 DEF IsRun
<1>3. ASSUME NEW s \in Range(p.series)
      PROVE  /\ Len(s) >= 2 /\ Range(s) \subseteq p.videos
             /\ \A k \in DOMAIN s : s[k] = s[1] + k - 1 /\ Topic(s[k]) = Topic(s[1])
  <2>1. PICK d \in 1 .. Len(Series) : s = Series[d]
    BY <1>1 DEF Range
  <2> QED BY <1>2, <2>1 DEF Range
<1>4. ASSUME NEW d \in 1 .. Len(Series), NEW e \in 1 .. Len(Series), d < e
      PROVE  Range(Series[d]) \cap Range(Series[e]) = {}
  <2>1. Series[d][Len(Series[d])] < Series[e][1]
    BY <1>1, <1>4 DEF Closed, Precedes
  <2>2. ASSUME NEW x \in 1 .. Len(Series[d]), NEW y \in 1 .. Len(Series[e]), Series[d][x] = Series[e][y] PROVE FALSE
    <3>1. /\ Series[d][x] = Series[d][1] + x - 1 /\ Series[e][y] = Series[e][1] + y - 1
          /\ Series[d][1] \in Nat /\ Series[e][1] \in Nat /\ Len(Series[d]) \in Nat /\ Len(Series[e]) \in Nat
          /\ Series[d][Len(Series[d])] = Series[d][1] + Len(Series[d]) - 1
      BY <1>2
    <3>2. Series[d][1] + Len(Series[d]) - 1 < Series[e][1]
      <4>1. Series[d][Len(Series[d])] = Series[d][1] + Len(Series[d]) - 1
        BY <3>1
      <4> QED BY <2>1, <4>1, Zenon
    <3>4. Series[d][1] + x - 1 = Series[e][1] + y - 1
      <4>1. Series[d][x] = Series[d][1] + x - 1 /\ Series[e][y] = Series[e][1] + y - 1
        BY <3>1
      <4> QED BY <2>2, <4>1, Zenon
    <3>5. PICK a, b, u, v : a = Series[d][1] /\ b = Series[e][1] /\ u = Len(Series[d]) /\ v = Len(Series[e])
      OBVIOUS
    <3>6. a \in Nat /\ b \in Nat /\ u \in Nat /\ v \in Nat /\ x \in 1 .. u /\ y \in 1 .. v
      BY <3>1, <3>5
    <3>7. a + u - 1 < b /\ a + x - 1 = b + y - 1
      BY <3>2, <3>4, <3>5
    <3> QED BY <3>6, <3>7, SMT
  <2>3. DOMAIN Series[d] = 1 .. Len(Series[d]) /\ DOMAIN Series[e] = 1 .. Len(Series[e])
    BY <1>2
  <2> QED BY <2>2, <2>3 DEF Range
<1>5. ASSUME NEW k \in DOMAIN p.series, NEW l \in DOMAIN p.series, k # l
      PROVE  Range(p.series[k]) \cap Range(p.series[l]) = {}
  <2>1. k \in 1 .. Len(Series) /\ l \in 1 .. Len(Series)
    BY <1>1
  <2>2. k < l \/ l < k
    BY <1>1, <1>5, <2>1, SMT
  <2> QED BY <1>4, <2>1, <2>2
<1>6. ASSUME p.videos = {} PROVE p.series = <<>>
  <2>1. ASSUME 1 \in 1 .. Len(Series) PROVE FALSE
    <3>1. Series[1][1] \in Selected
      BY <1>2, <2>1
    <3> QED BY <1>6, <3>1
  <2>2. Len(Series) = 0
    BY <1>1, <2>1, SMT
  <2> QED BY <1>1, <2>2
<1> QED BY <1>3, <1>5, <1>6 DEF ValidSeries

\* The plan that finalize makes passes the check of the whole plan.
LEMMA PlanIsValid ==
    ASSUME PlanReady, NEW p,
           p = [finals |-> [i \in DOMAIN candidates |-> FinalCandidate(i)], videos |-> Selected, series |-> Series]
    PROVE  ValidPlan(p)
<1>1. /\ p.videos = Selected /\ p.series = Series /\ DOMAIN p.finals = 1 .. Len(candidates)
      /\ Selected \in SUBSET Eligible /\ Eligible \in SUBSET (1 .. Len(candidates))
      /\ \A i \in 1 .. Len(candidates) :
           /\ p.finals[i] = FinalCandidate(i) /\ p.finals[i].range = Final(i)
           /\ p.finals[i].selection.published <=> i \in Selected
  BY PlanFields
<1>2. ValidSeries(p) /\ (p.videos = {} => p.series = <<>>)
  BY <1>1, ClosedIsValid
<1>3. \A i \in 1 .. Len(candidates) : InRecording(p.finals[i].range) /\ ValidBoundary(i, p.finals[i])
  <2> SUFFICES ASSUME NEW i \in 1 .. Len(candidates)
               PROVE  InRecording(p.finals[i].range) /\ ValidBoundary(i, p.finals[i])
    OBVIOUS
  <2>1. InRecording(Final(i)) /\ ValidBoundary(i, FinalCandidate(i))
    BY FinalFacts
  <2> QED BY <1>1, <2>1
<1>4. p.videos = {i \in DOMAIN p.finals : p.finals[i].selection.published}
  BY <1>1
<1> QED BY <1>1, <1>2, <1>3, <1>4 DEF ValidPlan

\* Neighbours of one topic are in one series of the plan that finalize makes.
LEMMA SeriesKept ==
    ASSUME PlanReady, PlanMade
    PROVE  SeriesComplete'
<1>1. plan'.videos = Selected /\ plan'.series = Series
  BY PlanFields DEF PlanMade
<1>2. Series \in Seq(Seq(Nat)) /\ DOMAIN Series = 1 .. Len(Series)
  BY SeriesPass DEF Closed
<1>3. ASSUME NEW i \in Selected, i + 1 \in Selected, Topic(i) = Topic(i + 1)
      PROVE  \E s \in Range(Series) : {i, i + 1} \subseteq Range(s)
  <2>1. i + 1 <= Len(candidates)
    BY <1>3, SelectedNumbers, SMT
  <2>2. PICK d \in 1 .. Len(Series) : Together(i, Series[d])
    BY <1>3, <2>1, SeriesPass DEF Neighbours
  <2>3. Series[d] \in Range(Series)
    BY <1>2 DEF Range
  <2>4. Series[d] \in Seq(Nat)
    BY <1>2, ElementOf
  <2>5. DOMAIN Series[d] = 1 .. Len(Series[d])
    BY <2>4
  <2>6. {i, i + 1} \subseteq Range(Series[d])
    BY <2>2, <2>5 DEF Together, Range
  <2> QED BY <2>3, <2>6
<1> QED BY <1>1, <1>3 DEF SeriesComplete, PlanMade, Topic

-----------------------------------------------------------------------------
\* What a step that leaves the transcript and the policy alone leaves as it was.
LEMMA EndKept ==
    ASSUME chunks' = chunks, NEW f, NEW l
    PROVE  EndOf(f, l)' = EndOf(f, l)
<1>1. {chunks'[j].end : j \in f .. l} = {chunks[j].end : j \in f .. l}
  OBVIOUS
<1> QED BY <1>1 DEF EndOf

\* So are the legal lengths,
LEMMA LegalKept ==
    ASSUME chunks' = chunks, policy' = policy, NEW f, NEW l
    PROVE  Legal(f, l)' <=> Legal(f, l)
<1>1. Span(f, l)' = Span(f, l)
  BY EndKept DEF Span
<1> QED BY <1>1 DEF Legal

\* the candidate of a run of chunks,
LEMMA CandidateKept ==
    ASSUME chunks' = chunks, NEW f, NEW l
    PROVE  Candidate(f, l)' = Candidate(f, l)
<1> DEFINE from == chunks[f].start
           to == EndOf(f, l)
<1>1. EndOf(f, l)' = to
  BY EndKept
<1>2. {j \in 1 .. f - 1 : chunks'[j].end <= from} = {j \in 1 .. f - 1 : chunks[j].end <= from}
  OBVIOUS
<1>3. {j \in l + 1 .. Len(chunks') : chunks'[j].start >= to} = {j \in l + 1 .. Len(chunks) : chunks[j].start >= to}
  OBVIOUS
<1> QED BY <1>1, <1>2, <1>3 DEF Candidate

\* what is taken from a position on,
LEMMA TakenKept ==
    ASSUME UNCHANGED <<chunks, policy>>, NEW s, Taken(1, s)
    PROVE  Taken(1, s)'
<1>1. \A f, l : Candidate(f, l)' = Candidate(f, l) /\ (Legal(f, l)' <=> Legal(f, l))
  BY CandidateKept, LegalKept
<1> QED BY <1>1 DEF Taken

\* and so what prepare took.
LEMMA CandidatesKept ==
    ASSUME UNCHANGED <<chunks, policy, candidates>>, CandidatesTaken
    PROVE  CandidatesTaken'
<1>1. Taken(1, candidates)'
  <2>1. \A s : Taken(1, s) => Taken(1, s)'
    BY TakenKept
  <2> QED BY <2>1 DEF CandidatesTaken
<1>2. Candidates(chunks)' = Candidates(chunks)
  BY DEF Candidates
<1> QED BY <1>1, <1>2 DEF CandidatesTaken

\* What a plan that is issued was checked for.
IssuedSound == PublishedAreFit /\ LimitIsFair /\ SeriesComplete

\* A plan stays sound while nothing changes.
LEMMA IssuedKept ==
    ASSUME UNCHANGED planVars, IssuedSound
    PROVE  IssuedSound'
<1>1. PublishedAreFit'
  BY DEF IssuedSound, PublishedAreFit, planVars
<1>2. LimitIsFair'
  BY BetterKept DEF IssuedSound, LimitIsFair, Topic, Covered, Speaks, planVars
<1>3. SeriesComplete'
  BY DEF IssuedSound, SeriesComplete, Topic, planVars
<1> QED BY <1>1, <1>2, <1>3 DEF IssuedSound

\* No plan is sound.
LEMMA NothingIssued ==
    ASSUME plan = NoPlan, outcome # "issued"
    PROVE  IssuedSound
<1>1. plan.videos = {}
  BY DEF NoPlan
<1> QED BY <1>1 DEF IssuedSound, PublishedAreFit, LimitIsFair, SeriesComplete

-----------------------------------------------------------------------------
(* The candidates stay what prepare made them, and a plan is issued with     *)
(* what finalize found.                                                      *)
PlanInv ==
    /\ chunks \in Transcripts /\ policy \in Policies
    /\ outcome \in {"prepare", "review", "finalize", "refused", "issued"}
    /\ outcome = "prepare" => candidates = <<>>
    /\ outcome # "prepare" => CandidatesTaken
    /\ outcome \in {"finalize", "issued"} => \A i \in 1 .. Len(candidates) : reviews[i].score \in Int
    /\ outcome # "issued" => plan = NoPlan
    /\ plan.videos \subseteq DOMAIN candidates
    /\ IssuedSound

\* Prepare establishes the first half of the invariant, finalize the second.
LEMMA PlanInvHolds == PlanSpec => []PlanInv
<1>1. PlanInit => PlanInv
  <2> SUFFICES ASSUME PlanInit PROVE PlanInv
    OBVIOUS
  <2>1. plan = NoPlan /\ outcome = "prepare" /\ plan.videos = {}
    BY DEF PlanInit, NoPlan
  <2>2. IssuedSound
    BY <2>1, NothingIssued
  <2> QED BY <2>1, <2>2 DEF PlanInit, PlanInv
<1>2. PlanInv /\ [PlanNext]_planVars => PlanInv'
  <2> SUFFICES ASSUME PlanInv, [PlanNext]_planVars PROVE PlanInv'
    OBVIOUS
  <2>0. NoPlan' = NoPlan /\ NoPlan.videos = {}
    BY DEF NoPlan
  <2>1. ASSUME plan' = NoPlan, outcome' # "issued"
        PROVE  IssuedSound' /\ plan'.videos \subseteq DOMAIN candidates'
    <3>1. plan'.videos = {}
      BY <2>0, <2>1
    <3> QED BY <2>1, <3>1 DEF IssuedSound, PublishedAreFit, LimitIsFair, SeriesComplete
  <2>2. CASE PrepareCandidates
    <3>1. PlanGiven /\ candidates' = Specs /\ UNCHANGED <<chunks, policy, reviews, plan>> /\ outcome' = "review"
      BY <2>2, PlanAssumption DEF PrepareCandidates, PlanInv, PlanGiven
    <3>2. Specs \in Seq(Candidates(chunks)) /\ Taken(1, Specs)
      BY <3>1, SpecsSound
    <3>3. CandidatesTaken'
      <4>1. \A f, l : Candidate(f, l)' = Candidate(f, l) /\ (Legal(f, l)' <=> Legal(f, l))
        BY <3>1, CandidateKept, LegalKept
      <4>2. Taken(1, candidates)'
        BY <3>1, <3>2, <4>1 DEF Taken
      <4>3. Candidates(chunks)' = Candidates(chunks)
        BY <3>1 DEF Candidates
      <4> QED BY <3>1, <3>2, <4>2, <4>3 DEF CandidatesTaken
    <3>4. plan' = NoPlan
      BY <2>2, <3>1 DEF PrepareCandidates, PlanInv
    <3> QED BY <2>0, <2>1, <3>1, <3>3, <3>4 DEF PlanInv
  <2>3. CASE ReviewCandidates
    <3>1. PlanGiven /\ CandidatesTaken /\ UNCHANGED <<chunks, policy, candidates, plan>> /\ outcome' = "finalize"
      BY <2>3, PlanAssumption DEF ReviewCandidates, PlanInv, PlanGiven
    <3>2. CandidatesTaken'
      BY <3>1, CandidatesKept
    <3>3. ASSUME NEW i \in 1 .. Len(candidates) PROVE reviews'[i].score \in Int
      <4>1. i \in DOMAIN candidates /\ candidates[i] \in Candidates(chunks)
        BY <3>1, EveryCandidate
      <4>2. reviews'[i] \in ReviewsOf(candidates[i])
        BY <2>3, <4>1 DEF ReviewCandidates
      <4> QED BY <3>1, <4>1, <4>2 DEF PlanGiven, PlanInputs
    <3>4. plan' = NoPlan
      BY <2>3, <3>1 DEF ReviewCandidates, PlanInv
    <3> QED BY <2>0, <2>1, <3>1, <3>2, <3>3, <3>4 DEF PlanInv
  <2>4. CASE ReviewIncomplete
    <3>1. CandidatesTaken /\ UNCHANGED <<chunks, policy, candidates, reviews, plan>> /\ outcome' = "refused"
      BY <2>4 DEF ReviewIncomplete, PlanInv
    <3>2. CandidatesTaken'
      BY <3>1, CandidatesKept
    <3>3. plan' = NoPlan
      BY <2>4, <3>1 DEF ReviewIncomplete, PlanInv
    <3> QED BY <2>0, <2>1, <3>1, <3>2, <3>3 DEF PlanInv
  <2>5. CASE Finalize
    <3>1. PlanReady /\ PlanMade /\ outcome' = IF ValidPlan(plan') THEN "issued" ELSE "invalid"
      BY <2>5, PlanAssumption DEF PlanInv, PlanReady, PlanGiven, PlanMade, Finalize
    <3>2. ValidPlan(plan')
      BY <3>1, PlanIsValid DEF PlanMade
    <3>3. outcome' = "issued" /\ CandidatesTaken /\ UNCHANGED <<chunks, policy, candidates, reviews>>
      BY <3>1, <3>2 DEF PlanMade, PlanReady
    <3>4. CandidatesTaken'
      BY <3>3, CandidatesKept
    <3>5. IssuedSound'
      BY <3>1, PublishedFit, LimitFair, SeriesKept DEF IssuedSound
    <3>6. plan'.videos \subseteq DOMAIN candidates'
      <4>1. plan'.videos = Selected /\ Selected \in SUBSET Eligible /\ Eligible \in SUBSET (1 .. Len(candidates))
        BY <3>1, PlanFields DEF PlanMade
      <4>2. DOMAIN candidates = 1 .. Len(candidates)
        BY <3>1, EveryCandidate DEF PlanReady
      <4> QED BY <3>3, <4>1, <4>2
    <3> QED BY <3>1, <3>3, <3>4, <3>5, <3>6 DEF PlanInv, PlanReady
  <2>6. CASE UNCHANGED planVars
    <3>1. UNCHANGED <<chunks, policy, candidates, reviews, plan, outcome>>
      BY <2>6 DEF planVars
    <3>2. IssuedSound'
      BY <2>6, IssuedKept DEF PlanInv
    <3>3. outcome' # "prepare" => CandidatesTaken'
      BY <3>1, CandidatesKept DEF PlanInv
    <3> QED BY <2>0, <3>1, <3>2, <3>3 DEF PlanInv
  <2> QED BY <2>2, <2>3, <2>4, <2>5, <2>6 DEF PlanNext
<1> QED BY <1>1, <1>2, PTL DEF PlanSpec

\* The invariant says more than the properties.
LEMMA PlanInvSound == PlanInv => PlanTypeOK /\ PlanSound
<1> SUFFICES ASSUME PlanInv PROVE PlanTypeOK /\ PlanSound
  OBVIOUS
<1>1. ASSUME outcome # "prepare" PROVE PlanGiven /\ CandidatesTaken
  BY <1>1, PlanAssumption DEF PlanInv, PlanGiven
<1>2. CandidatesSound
  <2>1. CASE outcome = "review"
    BY <1>1, <2>1, CandidatesAreSound
  <2>2. CASE outcome # "review"
    BY <2>2 DEF CandidatesSound
  <2> QED BY <2>1, <2>2
<1>3. \A i \in DOMAIN candidates : {candidates[i].first, candidates[i].last} \subseteq DOMAIN chunks
  <2>1. CASE outcome = "prepare"
    BY <2>1 DEF PlanInv
  <2>2. ASSUME outcome # "prepare", NEW i \in DOMAIN candidates
        PROVE  {candidates[i].first, candidates[i].last} \subseteq DOMAIN chunks
    <3>1. candidates[i] \in Candidates(chunks)
      BY <1>1, <2>2, EveryCandidate
    <3> QED BY <3>1 DEF Candidates
  <2> QED BY <2>1, <2>2
<1> QED BY <1>2, <1>3 DEF PlanInv, PlanTypeOK, PlanSound, IssuedSound

\* The variables of planning have their types; a candidate lies in the transcript
\* and what is published is a candidate.
THEOREM PlanTypeCorrect == PlanSpec => []PlanTypeOK
<1>1. PlanSpec => []PlanInv
  BY PlanInvHolds
<1>2. PlanInv => PlanTypeOK
  BY PlanInvSound
<1> QED BY <1>1, <1>2, PTL

\* What planning promises of its candidates and of the plan it issues holds of
\* every transcript, policy, course and review (prepare and finalize of
\* ClipPlanning, and _validate_delivery_plan).
THEOREM PlanIsSound == PlanSpec => []PlanSound
<1>1. PlanSpec => []PlanInv
  BY PlanInvHolds
<1>2. PlanInv => PlanSound
  BY PlanInvSound
<1> QED BY <1>1, <1>2, PTL

-----------------------------------------------------------------------------
(* The reconciliation: intervals, how they merge, and the gaps they leave    *)

\* The intervals of a recording of this length.
Grid(d) == {i \in Intervals : i.end <= d}

\* The smaller and the greater of two.
LEMMA OfTwo ==
    ASSUME NEW a \in Int, NEW b \in Int
    PROVE  /\ Min({a, b}) = IF a <= b THEN a ELSE b
           /\ Max({a, b}) = IF a >= b THEN a ELSE b
<1>1. Min({a, b}) \in {a, b} /\ \A y \in {a, b} : Min({a, b}) <= y
  <2>1. \E x \in {a, b} : \A y \in {a, b} : x <= y
    <3>1. CASE a <= b
      BY <3>1
    <3>2. CASE b <= a
      BY <3>2
    <3> QED BY <3>1, <3>2
  <2> QED BY <2>1 DEF Min
<1>2. Max({a, b}) \in {a, b} /\ \A y \in {a, b} : Max({a, b}) >= y
  <2>1. \E x \in {a, b} : \A y \in {a, b} : x >= y
    <3>1. CASE a <= b
      BY <3>1
    <3>2. CASE b <= a
      BY <3>2
    <3> QED BY <3>1, <3>2
  <2> QED BY <2>1 DEF Max
<1> QED BY <1>1, <1>2

\* The borders of an interval.
LEMMA Borders ==
    ASSUME NEW s, NEW e
    PROVE  Interval(s, e).start = s /\ Interval(s, e).end = e
  BY DEF Interval

\* What lies in a recording has its borders in it.
LEMMA InGrid ==
    ASSUME NEW d \in Nat, NEW i \in Grid(d)
    PROVE  /\ i \in Intervals /\ i.start \in Nat /\ i.end \in Nat /\ i.start < i.end /\ i.end <= d
           /\ i.start \in 0 .. d /\ i.end \in 0 .. d /\ i.start < d
           /\ i = Interval(i.start, i.end)
<1>1. i \in [start : Nat, end : Nat] /\ i.start < i.end /\ i.end <= d
  BY DEF Grid, Intervals
<1> QED BY <1>1 DEF Grid, Interval

\* And the other way round.
LEMMA OntoGrid ==
    ASSUME NEW d \in Nat, NEW s \in Nat, NEW e \in Nat, s < e, e <= d
    PROVE  Interval(s, e) \in Grid(d)
  BY DEF Grid, Intervals, Interval

\* There are finitely many.
LEMMA GridFinite ==
    ASSUME NEW d \in Nat, NEW S \in SUBSET Grid(d)
    PROVE  IsFiniteSet(S)
<1> DEFINE P == (0 .. d) \X (0 .. d)
           f == [p \in P |-> Interval(p[1], p[2])]
           T == {f[p] : p \in P}
<1>1. IsFiniteSet(P)
  <2>1. IsFiniteSet(0 .. d)
    BY FS_Interval
  <2> QED BY <2>1, FS_Product
<1>2. f \in Surjection(P, T)
  BY DEF Surjection
<1>3. IsFiniteSet(T)
  <2> HIDE DEF P, f, T
  <2> QED BY <1>1, <1>2, FS_Surjection
<1>4. S \subseteq T
  <2> SUFFICES ASSUME NEW i \in S PROVE i \in T
    OBVIOUS
  <2>1. i.start \in 0 .. d /\ i.end \in 0 .. d /\ i = Interval(i.start, i.end)
    BY InGrid
  <2>2. <<i.start, i.end>> \in P /\ f[<<i.start, i.end>>] = i
    BY <2>1
  <2> QED BY <2>2
<1> HIDE DEF T
<1> QED BY <1>3, <1>4, FS_Subset

\* Two intervals overlap where each begins before the other ends.
LEMMA Meets ==
    ASSUME NEW a, NEW b, a.start \in Int, a.end \in Int, b.start \in Int, b.end \in Int
    PROVE  /\ Overlap(a, b) \in Int
           /\ Overlap(a, b) > 0 <=> /\ a.start < a.end /\ b.start < b.end
                                    /\ a.start < b.end /\ b.start < a.end
           /\ Overlap(a, b) = Overlap(b, a)
<1>1. /\ Min({a.end, b.end}) = IF a.end <= b.end THEN a.end ELSE b.end
      /\ Min({b.end, a.end}) = IF b.end <= a.end THEN b.end ELSE a.end
      /\ Max({a.start, b.start}) = IF a.start >= b.start THEN a.start ELSE b.start
      /\ Max({b.start, a.start}) = IF b.start >= a.start THEN b.start ELSE a.start
  BY OfTwo
<1> QED BY <1>1, SMT DEF Overlap

\* What a set of intervals is merged into: intervals again, and they begin and
\* end where some of them do.
LEMMA MergeType ==
    ASSUME NEW d \in Nat, NEW S \in SUBSET Grid(d), NEW gap \in Nat
    PROVE  Merge(S, gap) \in SUBSET Grid(d)
<1> DEFINE Bridges(i, t) == i.start <= t + gap /\ t < i.end
           starts == {i.start : i \in {j \in S : \A k \in S : k.start < j.start => k.end + gap < j.start}}
           lasts  == {i.end : i \in {j \in S : ~\E k \in S : Bridges(k, j.end)}}
<1>1. Merge(S, gap) = {Interval(s, Min({e \in lasts : e > s})) : s \in starts}
  BY DEF Merge
<1>2. ASSUME NEW s \in starts PROVE Interval(s, Min({e \in lasts : e > s})) \in Grid(d)
  <2>1. PICK i \in S : s = i.start
    OBVIOUS
  <2>2. s \in Nat /\ s < i.end /\ i.end \in Nat
    BY <2>1, InGrid
  <2> DEFINE all == {k.end : k \in S}
  <2>3. all \in SUBSET (0 .. d) /\ i.end \in all
    BY InGrid
  <2>4. PICK m \in all : \A y \in all : m >= y
    <3> HIDE DEF all
    <3> QED BY <2>3, MaxOf
  <2>5. PICK j \in S : m = j.end
    BY <2>4
  <2>6. m \in Nat /\ m <= d /\ m > s
    <3>1. m >= i.end /\ m \in 0 .. d
      BY <2>3, <2>4
    <3> HIDE DEF all
    <3> QED BY <3>1, <2>2, SMT
  <2>7. ~\E k \in S : Bridges(k, j.end)
    <3> SUFFICES ASSUME NEW k \in S, j.end < k.end PROVE FALSE
      OBVIOUS
    <3>1. k.end \in all
      OBVIOUS
    <3>2. j.end >= k.end /\ k.end \in Nat /\ j.end \in Nat
      BY <3>1, <2>4, <2>5, InGrid
    <3> QED BY <3>2, SMT
  <2>8. m \in lasts
    BY <2>5, <2>7
  <2> DEFINE later == {e \in lasts : e > s}
  <2>9. later \in SUBSET (0 .. d) /\ m \in later
    <3>1. lasts \in SUBSET (0 .. d)
      BY InGrid
    <3> HIDE DEF lasts
    <3> QED BY <3>1, <2>6, <2>8
  <2>10. Min(later) \in later
    <3>1. later \in SUBSET Nat
      BY <2>9, SMT
    <3> HIDE DEF later
    <3> QED BY <3>1, <2>9, MinOf
  <2>11. Min(later) \in Nat /\ Min(later) > s /\ Min(later) <= d
    <3>1. Min(later) \in 0 .. d
      BY <2>9, <2>10
    <3> HIDE DEF lasts
    <3>2. Min(later) > s
      BY <2>10
    <3> HIDE DEF later
    <3> QED BY <3>1, <3>2, SMT
  <2>12. Interval(s, Min(later)) \in Grid(d)
    <3> HIDE DEF later, lasts
    <3> QED BY <2>2, <2>11, OntoGrid
  <2> QED BY <2>12
<1> HIDE DEF starts, lasts
<1> QED BY <1>1, <1>2

\* Merging fills no hole that is wider than the gap.
LEMMA MergeKeepsHoles ==
    ASSUME NEW d \in Nat, NEW S \in SUBSET Grid(d), NEW gap \in Nat,
           NEW i, i.start \in Nat, i.end \in Nat, i.start + gap < i.end,
           \A k \in S : Overlap(k, i) <= 0,
           NEW m \in Merge(S, gap)
    PROVE  Overlap(m, i) <= 0
<1> DEFINE Bridges(k, t) == k.start <= t + gap /\ t < k.end
           starts == {k.start : k \in {j \in S : \A k \in S : k.start < j.start => k.end + gap < j.start}}
           lasts  == {k.end : k \in {j \in S : ~\E k \in S : Bridges(k, j.end)}}
<1>1. PICK s \in starts : m = Interval(s, Min({e \in lasts : e > s}))
  BY DEF Merge
<1>2. m.start = s /\ m.end = Min({e \in lasts : e > s})
  BY <1>1, Borders
<1>3. m.start \in Nat /\ m.end \in Nat /\ m.start < m.end
  BY MergeType, InGrid
<1>0. ASSUME NEW k \in S PROVE /\ k.start \in Nat /\ k.end \in Nat /\ k.start < k.end /\ k.end <= d
                               /\ k.end <= i.start \/ i.end <= k.start
  <2>1. k.start \in Nat /\ k.end \in Nat /\ k.start < k.end /\ k.end <= d
    BY InGrid
  <2>2. ~(Overlap(k, i) > 0)
    <3>1. Overlap(k, i) \in Int
      BY <2>1, Meets
    <3> QED BY <3>1, SMT
  <2>3. ~(k.start < i.end /\ i.start < k.end)
    BY <2>1, <2>2, Meets, SMT
  <2> QED BY <2>1, <2>3, SMT
<1>4. PICK j \in S : s = j.start
  OBVIOUS
<1>5. CASE s >= i.end
  BY <1>2, <1>3, <1>5, Meets, SMT
<1>6. CASE ~(s >= i.end)
  <2>1. j.end <= i.start
    BY <1>0, <1>4, <1>6, SMT
  <2> DEFINE before == {k.end : k \in {l \in S : l.end <= i.start}}
  <2>2. before \in SUBSET (0 .. d) /\ j.end \in before
    BY <1>0, <2>1
  <2>3. PICK x \in before : \A y \in before : x >= y
    <3> HIDE DEF before
    <3> QED BY <2>2, MaxOf
  <2>4. PICK k \in S : x = k.end /\ k.end <= i.start
    BY <2>3
  <2>5. ~\E l \in S : Bridges(l, k.end)
    <3> SUFFICES ASSUME NEW l \in S, l.start <= k.end + gap, k.end < l.end PROVE FALSE
      OBVIOUS
    <3>1. CASE l.end <= i.start
      <4>1. l.end \in before
        BY <3>1
      <4>2. k.end >= l.end
        BY <4>1, <2>3, <2>4
      <4> QED BY <4>2, <1>0
    <3>2. CASE i.end <= l.start
      BY <3>2, <1>0, <2>4, SMT
    <3> QED BY <3>1, <3>2, <1>0
  <2>6. k.end \in lasts
    BY <2>5
  <2>7. k.end >= j.end /\ j.end > s
    BY <2>2, <2>3, <2>4, <1>0, <1>4
  <2> DEFINE later == {e \in lasts : e > s}
  <2>8. later \in SUBSET Nat /\ k.end \in later
    <3>1. lasts \in SUBSET Nat
      BY <1>0
    <3>2. k.end > s
      BY <2>7, <1>0, <1>2, <1>3, SMT
    <3> HIDE DEF lasts
    <3> QED BY <3>1, <3>2, <2>6
  <2>9. Min(later) <= k.end
    <3> HIDE DEF later
    <3> QED BY <2>8, MinOf
  <2>10. m.end <= i.start
    <3>1. m.end = Min(later)
      BY <1>2
    <3> HIDE DEF later
    <3> QED BY <3>1, <2>9, <2>4, <1>3, <1>0, SMT
  <2> QED BY <2>10, <1>3, Meets, SMT
<1> QED BY <1>5, <1>6

\* The pieces of an interval.
LEMMA PiecesType ==
    ASSUME NEW d \in Nat, NEW i \in Grid(d), NEW size \in Nat \ {0}
    PROVE  Pieces(i, size) \in SUBSET Grid(d)
<1> SUFFICES ASSUME NEW p \in Pieces(i, size) PROVE p \in Grid(d)
  OBVIOUS
<1>1. PICK t \in i.start .. i.end - 1 : p = Interval(t, Min({i.end, t + size}))
  BY DEF Pieces
<1>2. i.start \in Nat /\ i.end \in Nat /\ i.end <= d
  BY InGrid
<1>3. t \in Nat /\ t < i.end
  BY <1>2, SMT
<1>4. Min({i.end, t + size}) = IF i.end <= t + size THEN i.end ELSE t + size
  BY <1>2, <1>3, OfTwo
<1>5. Min({i.end, t + size}) \in Nat /\ t < Min({i.end, t + size}) /\ Min({i.end, t + size}) <= d
  BY <1>2, <1>3, <1>4, SMT
<1> QED BY <1>1, <1>3, <1>5, OntoGrid

\* A set of intervals is listed in its order, with every interval once.
LEMMA ListedIntervals ==
    ASSUME NEW d \in Nat, NEW S \in SUBSET Grid(d)
    PROVE  /\ Listed(S, Earlier) \in Seq(S) /\ Cardinality(S) \in Nat
           /\ Len(Listed(S, Earlier)) = Cardinality(S) /\ DOMAIN Listed(S, Earlier) = 1 .. Cardinality(S)
<1> DEFINE n == Cardinality(S)
           R == {p \in S \X S : Earlier(p[1], p[2])}
           L == Listed(S, Earlier)
<1>0. n \in Nat /\ IsFiniteSet(S)
  BY GridFinite, FS_CardinalityType
<1>1. \A i, j \in S : <<i, j>> \in R <=> Earlier(i, j)
  OBVIOUS
<1>2. ASSUME NEW i \in S PROVE LowerIn(S, R, i) = {j \in S : Earlier(j, i)}
  BY DEF LowerIn
<1>3a. L = [k \in 1 .. n |-> CHOOSE i \in S : Cardinality({j \in S : Earlier(j, i)}) = k - 1]
  BY DEF Listed
<1>3. ASSUME NEW k \in 1 .. n PROVE L[k] = PickAt(S, R, k)
  <2> HIDE DEF R
  <2>1. L[k] = CHOOSE i \in S : Cardinality({j \in S : Earlier(j, i)}) = k - 1
    <3> HIDE DEF L
    <3> QED BY <1>3a
  <2>2. (CHOOSE i \in S : Cardinality(LowerIn(S, R, i)) = k - 1)
                        = CHOOSE i \in S : Cardinality({j \in S : Earlier(j, i)}) = k - 1
    BY <1>2
  <2> QED BY <2>1, <2>2 DEF PickAt
<1>4. \A i \in S : i.start \in Nat /\ i.end \in Nat /\ i = Interval(i.start, i.end)
  BY InGrid
<1>5. /\ \A i, j \in S : Earlier(i, j) <=> i.start < j.start \/ (i.start = j.start /\ i.end < j.end)
      /\ \A i, j \in S : i # j => i.start # j.start \/ i.end # j.end
  BY <1>4 DEF Earlier
<1>6. /\ \A i \in S : ~Earlier(i, i)
      /\ \A i, j \in S : i # j => Earlier(i, j) \/ Earlier(j, i)
      /\ \A i, j, k \in S : Earlier(i, j) /\ Earlier(j, k) => Earlier(i, k)
  BY <1>4, <1>5, SMT
<1> HIDE DEF R, L
<1>7. /\ \A i \in S : <<i, i>> \notin R
      /\ \A i, j \in S : i # j => <<i, j>> \in R \/ <<j, i>> \in R
      /\ \A i, j, k \in S : <<i, j>> \in R /\ <<j, k>> \in R => <<i, k>> \in R
  BY <1>1, <1>6
<1>8. Lists(L, S, R)
  BY <1>0, <1>3, <1>7, Enumerated
<1>9. \A k \in 1 .. n : L[k] \in S
  BY <1>8 DEF Lists
<1>10. L \in [1 .. n -> S]
  BY <1>3a, <1>9
<1>11. L \in Seq(S) /\ Len(L) = n /\ DOMAIN L = 1 .. n
  BY <1>0, <1>10
<1> QED BY <1>0, <1>11 DEF L

\* What was measured in a set of chunks.
Measured(cs) == UNION {Coverage(c) : c \in cs}

\* The gaps are intervals of the recording; where there is none, something was
\* measured in every interval of speech and in every stretch longer than the tolerance.
LEMMA NoGaps ==
    ASSUME NEW d \in Nat, Tolerance \in Nat, NEW sp \in SUBSET Grid(d), NEW cs, Measured(cs) \in SUBSET Grid(d)
    PROVE  /\ Gaps(sp, cs) \in SUBSET Grid(d)
           /\ Gaps(sp, cs) = {} =>
                \A s \in sp : \A a, b \in s.start .. s.end :
                   Interval(a, b) = s \/ b - a > Tolerance => \E m \in Measured(cs) : Overlap(m, Interval(a, b)) > 0
<1> DEFINE measured == Measured(cs)
           covered == Merge(measured, Tolerance)
           Touching(s) == {m \in covered : Overlap(m, s) > 0}
           Edges(s) == {s.start} \cup {m.end : m \in Touching(s)}
           NextStart(s, t) == Min({s.end} \cup {m.start : m \in {k \in Touching(s) : k.start > t}})
           InSpeech(s) == {i \in {Interval(t, NextStart(s, t)) : t \in {e \in Edges(s) : e < s.end}} :
                             /\ Length(i) > Tolerance
                             /\ \A m \in Touching(s) : Overlap(m, i) <= 0}
           Of(s) == IF \A m \in measured : Overlap(m, s) <= 0 THEN {s} ELSE InSpeech(s)
<1>1. Gaps(sp, cs) = UNION {Of(s) : s \in sp}
  BY DEF Gaps, Measured
<1>2. covered \in SUBSET Grid(d)
  BY MergeType
<1> HIDE DEF covered, measured
<1>3. ASSUME NEW s \in sp
      PROVE  /\ Touching(s) \in SUBSET Grid(d)
             /\ Edges(s) \in SUBSET (0 .. d)
             /\ s.start \in Nat /\ s.end \in Nat /\ s.start < s.end /\ s.end <= d
  <2>1. s.start \in Nat /\ s.end \in Nat /\ s.start < s.end /\ s.end <= d /\ s.start \in 0 .. d
    BY InGrid
  <2>2. Touching(s) \in SUBSET Grid(d)
    BY <1>2
  <2>3. \A m \in Touching(s) : m.end \in 0 .. d
    BY <2>2, InGrid
  <2> QED BY <2>1, <2>2, <2>3
<1>4. ASSUME NEW s \in sp, NEW t
      PROVE  /\ NextStart(s, t) \in Nat /\ NextStart(s, t) <= s.end
             /\ \A m \in Touching(s) : m.start > t => NextStart(s, t) <= m.start
             /\ \/ NextStart(s, t) = s.end
                \/ \E m \in Touching(s) : m.start > t /\ NextStart(s, t) = m.start
  <2> DEFINE N == {s.end} \cup {m.start : m \in {k \in Touching(s) : k.start > t}}
  <2>1. \A m \in Touching(s) : m.start \in Nat
    BY <1>3, InGrid
  <2>2. N \in SUBSET Nat /\ s.end \in N
    BY <1>3, <2>1
  <2>3. Min(N) \in N /\ \A y \in N : Min(N) <= y
    <3> HIDE DEF N
    <3> QED BY <2>2, MinOf
  <2>4. \A m \in Touching(s) : m.start > t => m.start \in N
    OBVIOUS
  <2> QED BY <2>2, <2>3, <2>4
<1>5. ASSUME NEW s \in sp PROVE Of(s) \in SUBSET Grid(d)
  <2> SUFFICES ASSUME NEW t \in Edges(s), t < s.end, Length(Interval(t, NextStart(s, t))) > Tolerance
               PROVE  Interval(t, NextStart(s, t)) \in Grid(d)
    BY <1>3
  <2> HIDE DEF Edges, NextStart
  <2>1. t \in Nat /\ NextStart(s, t) \in Nat /\ NextStart(s, t) <= d
    BY <1>3, <1>4, SMT
  <2>2. NextStart(s, t) - t > Tolerance
    BY Borders DEF Length
  <2>3. t < NextStart(s, t)
    BY <2>1, <2>2, SMT
  <2> QED BY <2>1, <2>3, OntoGrid
<1>6. Gaps(sp, cs) \in SUBSET Grid(d)
  <2> HIDE DEF Of
  <2> QED BY <1>1, <1>5
<1>7. ASSUME Gaps(sp, cs) = {}, NEW s \in sp, NEW a \in s.start .. s.end, NEW b \in s.start .. s.end,
             Interval(a, b) = s \/ b - a > Tolerance
      PROVE  \E m \in measured : Overlap(m, Interval(a, b)) > 0
  <2> DEFINE i == Interval(a, b)
  <2> SUFFICES ASSUME ~\E m \in measured : Overlap(m, i) > 0 PROVE FALSE
    OBVIOUS
  <2>1. i.start = a /\ i.end = b /\ a \in Nat /\ b \in Nat /\ s.start <= a /\ b <= s.end
    BY <1>3, Borders, SMT
  <2>2. \A m \in measured : m.start \in Nat /\ m.end \in Nat
    BY InGrid DEF measured
  <2>3. \A m \in measured : Overlap(m, i) <= 0
    <3> HIDE DEF i
    <3>1. \A m \in measured : Overlap(m, i) \in Int
      BY <2>1, <2>2, Meets, SMT
    <3> QED BY <3>1, SMT
  <2>4. Of(s) = {}
    <3>1. UNION {Of(r) : r \in sp} = {}
      BY <1>1, <1>7
    <3> HIDE DEF Of
    <3> QED BY <3>1
  <2>5. ~(\A m \in measured : Overlap(m, s) <= 0) /\ InSpeech(s) = {}
    BY <2>4
  <2>6. i # s /\ b - a > Tolerance
    BY <1>7, <2>3, <2>5
  <2>7. \A m \in covered : Overlap(m, i) <= 0
    <3>1. a + Tolerance < b
      BY <2>1, <2>6, SMT
    <3> HIDE DEF i
    <3> QED BY <3>1, <2>1, <2>3, MergeKeepsHoles DEF covered, measured
  <2> HIDE DEF i
  <2>8. ASSUME NEW m \in Touching(s)
        PROVE  /\ m.start \in Nat /\ m.end \in Nat /\ m.start < m.end
               /\ m.end <= a \/ b <= m.start
    <3>1. m.start \in Nat /\ m.end \in Nat /\ m.start < m.end
      BY <1>3, InGrid
    <3>2. Overlap(m, i) <= 0 /\ Overlap(m, i) \in Int
      BY <2>1, <2>7, <3>1, Meets, SMT
    <3>3. ~(Overlap(m, i) > 0) /\ a < b
      BY <2>1, <2>6, <3>2, SMT
    <3>4. ~(m.start < b /\ a < m.end)
      BY <2>1, <3>1, <3>3, Meets, SMT
    <3> QED BY <2>1, <3>1, <3>4, SMT
  <2> DEFINE before == {e \in Edges(s) : e <= a}
  <2>9. before \in SUBSET (0 .. d) /\ s.start \in before
    <3>1. Edges(s) \in SUBSET (0 .. d) /\ s.start \in Edges(s)
      BY <1>3
    <3> HIDE DEF Edges
    <3> QED BY <3>1, <2>1
  <2>10. PICK t \in before : \A e \in before : t >= e
    <3> HIDE DEF before
    <3> QED BY <2>9, MaxOf
  <2>11. t \in Nat /\ t <= a /\ t \in Edges(s)
    <3>1. t \in 0 .. d
      BY <2>9
    <3>2. t <= a /\ t \in Edges(s)
      OBVIOUS
    <3> HIDE DEF Edges, before
    <3> QED BY <3>1, <3>2, SMT
  <2>12. ASSUME NEW m \in Touching(s), m.end <= a PROVE m.end <= t
    <3>1. m.end \in before
      BY <2>12
    <3> HIDE DEF before
    <3> QED BY <3>1, <2>8, <2>10, <2>11, SMT
  <2> HIDE DEF Edges, before
  <2>13. NextStart(s, t) \in Nat /\ b <= NextStart(s, t)
    <3>1. \A m \in Touching(s) : m.start > t => b <= m.start
      <4> SUFFICES ASSUME NEW m \in Touching(s), m.start > t, m.end <= a PROVE FALSE
        BY <2>8
      <4> QED BY <2>8, <2>11, <2>12, SMT
    <3>2. /\ NextStart(s, t) \in Nat
          /\ NextStart(s, t) = s.end \/ \E m \in Touching(s) : m.start > t /\ NextStart(s, t) = m.start
      BY <1>4
    <3> HIDE DEF NextStart, Touching
    <3> QED BY <2>1, <3>1, <3>2
  <2> DEFINE g == Interval(t, NextStart(s, t))
  <2>14. g.start = t /\ g.end = NextStart(s, t) /\ Length(g) > Tolerance
    <3>1. g.start = t /\ g.end = NextStart(s, t)
      BY Borders
    <3>2. NextStart(s, t) - t > Tolerance
      <4> HIDE DEF NextStart
      <4> QED BY <2>1, <2>6, <2>11, <2>13, SMT
    <3> QED BY <3>1, <3>2 DEF Length
  <2>15. ASSUME NEW m \in Touching(s) PROVE Overlap(m, g) <= 0
    <3>0. g.start = t /\ g.end = NextStart(s, t)
      BY <2>14
    <3>1. m.end <= t \/ NextStart(s, t) <= m.start
      <4>1. CASE m.start > t
        BY <4>1, <1>4
      <4>2. CASE ~(m.start > t)
        <5>1. ~(b <= m.start)
          BY <4>2, <2>1, <2>6, <2>8, <2>11, SMT
        <5> QED BY <5>1, <2>8, <2>12
      <4> QED BY <4>1, <4>2
    <3> HIDE DEF g, Touching, NextStart
    <3>2. ~(m.start < g.end /\ g.start < m.end)
      BY <3>0, <3>1, <2>8, <2>11, <2>13, SMT
    <3> QED BY <3>0, <3>2, <2>8, <2>11, <2>13, Meets, SMT
  <2>16. t < s.end
    BY <2>1, <2>6, <2>11, <1>3, SMT
  <2>17. g \in InSpeech(s)
    BY <2>11, <2>14, <2>15, <2>16 DEF Edges
  <2> QED BY <2>5, <2>17
<1> QED BY <1>6, <1>7 DEF measured

-----------------------------------------------------------------------------
(* The reconciliation: ranks, clusters, and what one observation says        *)

\* Tuples of numbers are compared by the first place where they differ.
LEMMA AboveIsLinear ==
    ASSUME NEW m \in Nat
    PROVE  /\ \A p \in [1 .. m -> Int] : ~Above(p, p)
           /\ \A p, q \in [1 .. m -> Int] : p # q => Above(p, q) \/ Above(q, p)
           /\ \A p, q, r \in [1 .. m -> Int] : Above(p, q) /\ Above(q, r) => Above(p, r)
<1> DEFINE T == [1 .. m -> Int]
           At(p, q, n) == n \in 1 .. m /\ p[n] > q[n] /\ \A k \in 1 .. n - 1 : p[k] = q[k]
<1>1. \A p, q \in T : Above(p, q) <=> \E n \in 1 .. m : At(p, q, n)
  BY DEF Above
<1>2. \A p \in T : \A n \in 1 .. m : p[n] \in Int
  OBVIOUS
<1>3. ASSUME NEW p \in T PROVE ~Above(p, p)
  BY <1>1, <1>2, SMT
<1>4. ASSUME NEW p \in T, NEW q \in T, p # q PROVE Above(p, q) \/ Above(q, p)
  <2> DEFINE D == {n \in 1 .. m : p[n] # q[n]}
  <2>1. D # {}
    BY <1>4
  <2>2. PICK n \in D : \A k \in D : n <= k
    <3>1. D \in SUBSET Nat
      BY SMT
    <3> HIDE DEF D
    <3> QED BY <2>1, <3>1, MinOf
  <2>3. ASSUME NEW k \in 1 .. n - 1 PROVE p[k] = q[k]
    <3>1. k \in 1 .. m /\ ~(n <= k)
      BY SMT
    <3>2. k \notin D
      BY <2>2, <3>1
    <3> QED BY <3>1, <3>2
  <2>4. n \in 1 .. m /\ p[n] \in Int /\ q[n] \in Int /\ p[n] # q[n]
    BY <1>2
  <2>5. p[n] > q[n] \/ q[n] > p[n]
    BY <2>4, SMT
  <2>6. At(p, q, n) \/ At(q, p, n)
    BY <2>3, <2>4, <2>5
  <2> HIDE DEF At
  <2> QED BY <1>1, <2>4, <2>6
<1>5. ASSUME NEW p \in T, NEW q \in T, NEW r \in T, Above(p, q), Above(q, r) PROVE Above(p, r)
  <2>1. PICK n \in 1 .. m : At(p, q, n)
    BY <1>1, <1>5
  <2>2. PICK l \in 1 .. m : At(q, r, l)
    BY <1>1, <1>5
  <2>3. CASE n <= l
    <3>1. At(p, r, n)
      <4>1. \A k \in 1 .. n - 1 : k \in 1 .. l - 1
        BY <2>3, SMT
      <4>2. n = l \/ n \in 1 .. l - 1
        BY <2>3, SMT
      <4>3. p[n] > q[n] /\ (q[n] > r[n] \/ q[n] = r[n]) /\ p[n] \in Int /\ q[n] \in Int /\ r[n] \in Int
        BY <1>2, <2>1, <2>2, <4>2
      <4>4. p[n] > r[n]
        BY <4>3, SMT
      <4>5. \A k \in 1 .. n - 1 : p[k] = r[k]
        BY <2>1, <2>2, <4>1
      <4> QED BY <4>4, <4>5
    <3> HIDE DEF At
    <3> QED BY <1>1, <3>1
  <2>4. CASE ~(n <= l)
    <3>1. At(p, r, l)
      <4>1. /\ \A k \in 1 .. l - 1 : k \in 1 .. n - 1
            /\ l \in 1 .. n - 1
        BY <2>4, SMT
      <4>2. p[l] = q[l] /\ q[l] > r[l]
        BY <2>1, <2>2, <4>1
      <4>3. \A k \in 1 .. l - 1 : p[k] = r[k]
        BY <2>1, <2>2, <4>1
      <4> QED BY <4>2, <4>3
    <3> HIDE DEF At
    <3> QED BY <1>1, <3>1
  <2> QED BY <2>3, <2>4
<1> QED BY <1>3, <1>4, <1>5

\* So a finite set whose members differ in rank has a best one.
LEMMA BestExists ==
    ASSUME NEW m \in Nat, NEW S, IsFiniteSet(S), S # {}, NEW r \in [S -> [1 .. m -> Int]],
           \A x, y \in S : r[x] = r[y] => x = y
    PROVE  \E x \in S : \A y \in S \ {x} : Above(r[x], r[y])
<1> DEFINE R == {p \in S \X S : Above(r[p[1]], r[p[2]])}
           Q == [k \in 1 .. Cardinality(S) |-> PickAt(S, R, k)]
<1>1. \A i, j \in S : <<i, j>> \in R <=> Above(r[i], r[j])
  OBVIOUS
<1>2. \A x \in S : r[x] \in [1 .. m -> Int]
  OBVIOUS
<1>3. \A k \in 1 .. Cardinality(S) : Q[k] = PickAt(S, R, k)
  OBVIOUS
<1> HIDE DEF R, Q
<1>4. /\ \A i \in S : <<i, i>> \notin R
      /\ \A i, j \in S : i # j => <<i, j>> \in R \/ <<j, i>> \in R
      /\ \A i, j, k \in S : <<i, j>> \in R /\ <<j, k>> \in R => <<i, k>> \in R
  <2>1. \A i \in S : <<i, i>> \notin R
    BY <1>1, <1>2, AboveIsLinear
  <2>2. \A i, j \in S : i # j => <<i, j>> \in R \/ <<j, i>> \in R
    BY <1>1, <1>2, AboveIsLinear
  <2>3. ASSUME NEW i \in S, NEW j \in S, NEW k \in S, <<i, j>> \in R, <<j, k>> \in R PROVE <<i, k>> \in R
    <3>1. Above(r[i], r[j]) /\ Above(r[j], r[k])
      BY <1>1, <2>3
    <3>2. Above(r[i], r[k])
      BY <1>2, <3>1, AboveIsLinear
    <3> QED BY <1>1, <3>2
  <2> QED BY <2>1, <2>2, <2>3
<1>5. Lists(Q, S, R)
  BY <1>3, <1>4, Enumerated
<1>6. Cardinality(S) \in Nat /\ Cardinality(S) # 0
  BY FS_CardinalityType, FS_EmptySet
<1>7. 1 \in 1 .. Cardinality(S) /\ \A k \in 1 .. Cardinality(S) : k = 1 \/ 1 < k
  BY <1>6, SMT
<1>8. Q[1] \in S
  BY <1>5, <1>7 DEF Lists
<1>9. ASSUME NEW y \in S \ {Q[1]} PROVE Above(r[Q[1]], r[y])
  <2>1. PICK k \in 1 .. Cardinality(S) : Q[k] = y
    BY <1>5 DEF Lists
  <2>2. 1 < k
    BY <1>7, <2>1
  <2>3. <<Q[1], Q[k]>> \in R
    BY <1>5, <1>7, <2>2 DEF Lists
  <2> QED BY <1>1, <1>8, <2>1, <2>3
<1> QED BY <1>8, <1>9

\* What was heard has a duration.
Lasting(S) == \A c \in S : c.chunk.start \in Nat /\ c.chunk.end \in Nat /\ c.chunk.start < c.chunk.end

\* What no moment separates is a cluster: the clusters are classes, and what
\* overlaps is in one of them.
LEMMA NotSeparated ==
    ASSUME NEW S, Lasting(S)
    PROVE  /\ \A a, b \in S : Overlap(a.chunk, b.chunk) > 0 => ~Separated(a, b, S)
           /\ \A a \in S : ~Separated(a, a, S)
           /\ \A a, b \in S : Separated(a, b, S) => Separated(b, a, S)
           /\ \A a, b, c \in S : Separated(a, c, S) => Separated(a, b, S) \/ Separated(b, c, S)
<1> DEFINE E == {c.chunk.end : c \in S}
           Parts(a, b, t) == \/ a.chunk.end <= t /\ b.chunk.start >= t
                             \/ b.chunk.end <= t /\ a.chunk.start >= t
           Clear(t) == \A c \in S : c.chunk.end <= t \/ c.chunk.start >= t
<1>1. \A a, b \in S : Separated(a, b, S) <=> \E t \in E : Parts(a, b, t) /\ Clear(t)
  BY DEF Separated
<1>2. \A t \in E : t \in Nat
  BY DEF Lasting
<1>3. \A c \in S : c.chunk.start \in Nat /\ c.chunk.end \in Nat /\ c.chunk.start < c.chunk.end
  BY DEF Lasting
<1> HIDE DEF E
<1>4. ASSUME NEW a \in S, NEW b \in S, Overlap(a.chunk, b.chunk) > 0 PROVE ~Separated(a, b, S)
  <2>1. a.chunk.start < b.chunk.end /\ b.chunk.start < a.chunk.end
    BY <1>3, <1>4, Meets, SMT
  <2>2. \A t \in E : ~Parts(a, b, t)
    BY <1>2, <1>3, <2>1, SMT
  <2> HIDE DEF Parts, Clear
  <2> QED BY <1>1, <2>2
<1>5. ASSUME NEW a \in S PROVE ~Separated(a, a, S)
  <2>1. \A t \in E : ~Parts(a, a, t)
    BY <1>2, <1>3, SMT
  <2> HIDE DEF Parts, Clear
  <2> QED BY <1>1, <2>1
<1>6. \A a, b, t : Parts(a, b, t) => Parts(b, a, t)
  OBVIOUS
<1>7. ASSUME NEW a \in S, NEW b \in S, NEW c \in S, Separated(a, c, S)
      PROVE  Separated(a, b, S) \/ Separated(b, c, S)
  <2>1. PICK t \in E : Parts(a, c, t) /\ Clear(t)
    <3> HIDE DEF Parts, Clear
    <3> QED BY <1>1, <1>7
  <2>2. b.chunk.end <= t \/ b.chunk.start >= t
    BY <2>1
  <2>3. Parts(a, b, t) \/ Parts(b, c, t)
    BY <2>1, <2>2
  <2> HIDE DEF Parts, Clear
  <2> QED BY <1>1, <2>1, <2>3
<1> HIDE DEF Parts, Clear
<1> QED BY <1>1, <1>4, <1>5, <1>6, <1>7

\* A cluster is the one around each of its members, with all that overlaps them.
LEMMA ClusterOf ==
    ASSUME NEW S, Lasting(S), NEW C \in Clusters(S)
    PROVE  /\ C \in SUBSET S /\ C # {} /\ Lasting(C)
           /\ \A a \in C : C = Around(a, S)
           /\ \A a \in C : \A b \in S : Overlap(a.chunk, b.chunk) > 0 => b \in C
<1>1. PICK x \in S : C = Around(x, S)
  BY DEF Clusters
<1>2. C = {b \in S : ~Separated(x, b, S)}
  BY <1>1 DEF Around
<1>3. x \in C /\ C \in SUBSET S
  BY <1>2, NotSeparated
<1>4. ASSUME NEW a \in C PROVE C = Around(a, S)
  <2>1. a \in S /\ ~Separated(x, a, S)
    BY <1>2
  <2>2. \A b \in S : ~Separated(x, b, S) <=> ~Separated(a, b, S)
    BY <2>1, NotSeparated
  <2> QED BY <1>2, <2>2 DEF Around
<1>5. ASSUME NEW a \in C, NEW b \in S, Overlap(a.chunk, b.chunk) > 0 PROVE b \in C
  <2>1. ~Separated(a, b, S)
    BY <1>3, <1>5, NotSeparated
  <2> QED BY <1>4, <2>1 DEF Around
<1>6. Lasting(C)
  BY <1>3 DEF Lasting
<1> QED BY <1>3, <1>4, <1>5, <1>6

\* What was heard belongs to a cluster.
LEMMA AroundIsCluster ==
    ASSUME NEW S, Lasting(S), NEW a \in S
    PROVE  Around(a, S) \in Clusters(S) /\ a \in Around(a, S)
<1>1. ~Separated(a, a, S)
  BY NotSeparated
<1> QED BY <1>1 DEF Clusters, Around

\* The clusters do not overlap.
LEMMA ClustersApart ==
    ASSUME NEW S, Lasting(S), NEW C \in Clusters(S), NEW D \in Clusters(S), C # D,
           NEW a \in C, NEW b \in D
    PROVE  Overlap(a.chunk, b.chunk) <= 0
<1>1. a \in S /\ b \in S /\ C = Around(a, S) /\ D = Around(b, S)
  BY ClusterOf
<1>2. ~(Overlap(a.chunk, b.chunk) > 0)
  <2> SUFFICES ASSUME Overlap(a.chunk, b.chunk) > 0 PROVE FALSE
    OBVIOUS
  <2>1. b \in C
    BY <1>1, ClusterOf
  <2>2. C = Around(b, S)
    BY <2>1, ClusterOf
  <2> QED BY <1>1, <2>2
<1>3. Overlap(a.chunk, b.chunk) \in Int
  BY <1>1, Meets DEF Lasting
<1> QED BY <1>2, <1>3, SMT

\* Works of a recording, and answers that lie in their windows.
WorksIn(d) == [kind : {"primary", "recovery"}, core : Grid(d), request : Grid(d)]
HeardIn(d, ws, as) ==
    /\ ws \in Seq(WorksIn(d)) /\ as \in Seq(Seq(Chunks)) /\ Len(as) <= Len(ws)
    /\ \A n \in 1 .. Len(as) : \A k \in 1 .. Len(as[n]) :
         as[n][k].start >= ws[n].request.start /\ as[n][k].end <= ws[n].request.end

\* The positions of a sequence.
LEMMA LengthOf ==
    ASSUME NEW S, NEW s \in Seq(S)
    PROVE  Len(s) \in Nat /\ DOMAIN s = 1 .. Len(s)
  OBVIOUS

\* The candidate at a place.
Heard(ws, as, n, k) == [seq |-> n, index |-> k, chunk |-> as[n][k], work |-> ws[n]]

\* A candidate is a chunk of an answer, inside the window of its work.
LEMMA CandidateFacts ==
    ASSUME NEW d \in Nat, NEW ws, NEW as, HeardIn(d, ws, as), NEW c \in AllCandidates(ws, as)
    PROVE  /\ c.seq \in 1 .. Len(as) /\ c.index \in 1 .. Len(as[c.seq])
           /\ c.chunk = as[c.seq][c.index] /\ c.chunk \in Chunks /\ c.work = ws[c.seq] /\ c.work \in WorksIn(d)
           /\ c.chunk.start \in Nat /\ c.chunk.end \in Nat /\ c.chunk.start < c.chunk.end /\ c.chunk.end <= d
           /\ c.chunk.start >= c.work.request.start /\ c.chunk.end <= c.work.request.end
           /\ Len(as[c.seq]) \in Nat /\ Len(as) \in Nat
<1>0a. ws \in Seq(WorksIn(d)) /\ as \in Seq(Seq(Chunks)) /\ Len(as) <= Len(ws)
  BY DEF HeardIn
<1>0. Len(as) \in Nat /\ DOMAIN as = 1 .. Len(as) /\ Len(ws) \in Nat /\ Len(as) <= Len(ws)
  BY <1>0a, LengthOf
<1>1. ASSUME NEW n \in 1 .. Len(as)
      PROVE  as[n] \in Seq(Chunks) /\ Len(as[n]) \in Nat /\ DOMAIN as[n] = 1 .. Len(as[n])
  <2>1. as[n] \in Seq(Chunks)
    BY <1>0a, ElementOf
  <2> QED BY <2>1, LengthOf
<1>2a. PICK n \in 1 .. Len(as) :
        c \in {[seq |-> n, index |-> k, chunk |-> as[n][k], work |-> ws[n]] : k \in DOMAIN as[n]}
  BY <1>0 DEF AllCandidates
<1>2. PICK k \in DOMAIN as[n] : c = [seq |-> n, index |-> k, chunk |-> as[n][k], work |-> ws[n]]
  BY <1>2a
<1>3. c.seq = n /\ c.index = k /\ c.chunk = as[n][k] /\ c.work = ws[n] /\ k \in 1 .. Len(as[n])
  BY <1>1, <1>2
<1>4. as[n][k] \in Chunks
  BY <1>1, <1>3, ElementOf
<1>5. ws[n] \in WorksIn(d)
  <2>0. PICK l, m : l = Len(as) /\ m = Len(ws)
    OBVIOUS
  <2>a. l \in Nat /\ m \in Nat /\ l <= m /\ n \in 1 .. l
    BY <1>0, <2>0
  <2>b. n \in 1 .. m
    BY <2>a, SMT
  <2>1. n \in 1 .. Len(ws)
    BY <2>b, <2>0
  <2> QED BY <1>0a, <2>1, ElementOf
<1>6. as[n][k].start >= ws[n].request.start /\ as[n][k].end <= ws[n].request.end
  BY <1>3 DEF HeardIn
<1>7. as[n][k].start \in Nat /\ as[n][k].end \in Nat /\ as[n][k].start < as[n][k].end
  BY <1>4 DEF Chunks
<1>8. ws[n].request \in Grid(d)
  BY <1>5 DEF WorksIn
<1>9. as[n][k].end <= d
  <2>1. ws[n].request.end \in Nat /\ ws[n].request.end <= d
    BY <1>8, InGrid
  <2>2. PICK a, b : a = as[n][k].end /\ b = ws[n].request.end
    OBVIOUS
  <2>3. a \in Nat /\ b \in Nat /\ a <= b /\ b <= d
    BY <1>6, <1>7, <2>1, <2>2
  <2>4. a <= d
    BY <2>3, SMT
  <2> QED BY <2>2, <2>4
<1> QED BY <1>0, <1>1, <1>3, <1>4, <1>5, <1>6, <1>7, <1>9

\* It belongs to the work of its number.
LEMMA WorkOf ==
    ASSUME NEW ws, NEW as, NEW c \in AllCandidates(ws, as)
    PROVE  c.work = ws[c.seq]
<1>1. PICK n, k : c = Heard(ws, as, n, k)
  BY DEF AllCandidates, Heard
<1> QED BY <1>1 DEF Heard

\* A candidate is known by its place.
LEMMA SamePlace ==
    ASSUME NEW ws, NEW as, NEW a \in AllCandidates(ws, as), NEW b \in AllCandidates(ws, as),
           a.seq = b.seq, a.index = b.index
    PROVE  a = b
<1>1. ASSUME NEW c \in AllCandidates(ws, as) PROVE c = Heard(ws, as, c.seq, c.index)
  <2>1. PICK n, k : c = Heard(ws, as, n, k)
    BY DEF AllCandidates, Heard
  <2>2. c.seq = n /\ c.index = k
    BY <2>1 DEF Heard
  <2> QED BY <2>1, <2>2
<1> QED BY <1>1

\* Candidates last.
LEMMA HeardLasting ==
    ASSUME NEW d \in Nat, NEW ws, NEW as, HeardIn(d, ws, as), NEW S \in SUBSET AllCandidates(ws, as)
    PROVE  Lasting(S)
  BY CandidateFacts DEF Lasting

\* The distance of what was heard from the border of its window.
LEMMA EdgeType ==
    ASSUME NEW d \in Nat, NEW ws, NEW as, HeardIn(d, ws, as), NEW c \in AllCandidates(ws, as)
    PROVE  EdgeDistance(c) \in Nat
<1>1. /\ c.chunk.start \in Nat /\ c.chunk.end \in Nat
      /\ c.chunk.start < c.chunk.end /\ c.chunk.start >= c.work.request.start /\ c.chunk.end <= c.work.request.end
      /\ c.work.request \in Grid(d)
  BY CandidateFacts DEF WorksIn
<1>2. c.work.request.start \in Nat /\ c.work.request.end \in Nat
  BY <1>1, InGrid
<1> DEFINE a == MidpointTwice(c) - 2 * c.work.request.start
           b == 2 * c.work.request.end - MidpointTwice(c)
<1>3. a \in Nat /\ b \in Nat
  BY <1>1, <1>2, SMT DEF MidpointTwice
<1>4. EdgeDistance(c) = Min({a, b})
  BY DEF EdgeDistance
<1> HIDE DEF a, b
<1> QED BY <1>3, <1>4, OfTwo, SMT

\* A cluster reaches from its first start to its last end.
LEMMA IntervalOf ==
    ASSUME NEW d \in Nat, NEW ws, NEW as, HeardIn(d, ws, as), NEW C \in SUBSET AllCandidates(ws, as), C # {}
    PROVE  ClusterInterval(C) \in Grid(d)
<1> DEFINE S == {c.chunk.start : c \in C}
           E == {c.chunk.end : c \in C}
<1>0. \A c \in C : c.chunk.start \in Nat /\ c.chunk.end \in Nat /\ c.chunk.start < c.chunk.end /\ c.chunk.end <= d
  BY CandidateFacts
<1>1. S \in SUBSET Nat /\ E \in SUBSET (0 .. d) /\ S # {} /\ E # {}
  BY <1>0
<1>2. PICK c \in C : TRUE
  OBVIOUS
<1>3. c.chunk.start \in S /\ c.chunk.end \in E
  OBVIOUS
<1>4. ClusterInterval(C) = Interval(Min(S), Max(E))
  BY DEF ClusterInterval
<1> HIDE DEF S, E
<1>5. Min(S) \in S /\ Min(S) <= c.chunk.start
  BY <1>1, <1>3, MinOf
<1>6. Max(E) \in E /\ Max(E) >= c.chunk.end
  BY <1>1, <1>3, MaxOf
<1>7. Min(S) \in Nat /\ Max(E) \in Nat /\ Max(E) <= d
  <2>1. Min(S) \in Nat /\ Max(E) \in 0 .. d
    BY <1>1, <1>5, <1>6
  <2> QED BY <2>1
<1>8. Min(S) < Max(E)
  BY <1>0, <1>5, <1>6, <1>7, SMT
<1> QED BY <1>4, <1>7, <1>8, OntoGrid

\* One of several answers of the same observation is the best.
LEMMA BestCandidate ==
    ASSUME NEW d \in Nat, NEW ws, NEW as, HeardIn(d, ws, as), NEW n,
           NEW G \in SUBSET AllCandidates(ws, as), G # {}, \A c \in G : c.seq = n
    PROVE  IsFiniteSet(G) /\ Best(G, CandidateTrust) \in G
<1> DEFINE f == [c \in G |-> c.index]
           r == [c \in G |-> CandidateTrust(c)]
<1>0. ASSUME NEW c \in G
      PROVE  /\ c.index \in 1 .. Len(as[n]) /\ c.index \in Nat /\ c.seq \in Nat /\ Len(as[n]) \in Nat
  <2>1. c \in AllCandidates(ws, as) /\ c.seq = n
    OBVIOUS
  <2>2. c.seq \in 1 .. Len(as)
    BY <2>1, CandidateFacts
  <2>3. c.index \in 1 .. Len(as[c.seq])
    BY <2>1, CandidateFacts
  <2>4. Len(as[c.seq]) \in Nat
    BY <2>1, CandidateFacts
  <2>5. Len(as) \in Nat
    BY <2>1, CandidateFacts
  <2>7. c.index \in 1 .. Len(as[n]) /\ Len(as[n]) \in Nat
    BY <2>1, <2>3, <2>4
  <2>9. c.seq \in Nat
    <3>1. PICK l : l = Len(as)
      OBVIOUS
    <3>2. c.seq \in 1 .. l /\ l \in Nat
      BY <2>2, <2>5, <3>1
    <3> QED BY <3>2, SMT
  <2>10. c.index \in Nat
    <3>1. PICK l : l = Len(as[n])
      OBVIOUS
    <3>2. c.index \in 1 .. l /\ l \in Nat
      BY <2>7, <3>1
    <3> QED BY <3>2, SMT
  <2> QED BY <2>7, <2>9, <2>10
<1>1. \A x, y \in G : x.index = y.index => x = y
  BY SamePlace
<1>2. Len(as[n]) \in Nat
  BY <1>0
<1>3. f \in Injection(G, 1 .. Len(as[n]))
  <2>1. f \in [G -> 1 .. Len(as[n])]
    BY <1>0
  <2>2. \A x, y \in G : f[x] = f[y] => x = y
    BY <1>1
  <2> QED BY <2>1, <2>2 DEF Injection, IsInjective
<1>4. IsFiniteSet(1 .. Len(as[n]))
  <2>1. PICK m : m = Len(as[n])
    OBVIOUS
  <2>2. m \in Int
    BY <1>2, <2>1
  <2>3. IsFiniteSet(1 .. m)
    BY <2>2, FS_Interval
  <2> QED BY <2>1, <2>3
<1>5. IsFiniteSet(G)
  <2> HIDE DEF f
  <2> QED BY <1>3, <1>4, FS_Injection
<1>6. ASSUME NEW c \in G PROVE CandidateTrust(c) \in [1 .. 4 -> Int] /\ CandidateTrust(c)[4] = -c.index
  <2>1. Flag(c.chunk.spans # {}) \in Int
    BY DEF Flag
  <2>2. EdgeDistance(c) \in Int /\ -c.seq \in Int /\ -c.index \in Int
    <3>1. EdgeDistance(c) \in Nat
      BY EdgeType
    <3>2. c.seq \in Nat /\ c.index \in Nat
      BY <1>0
    <3> QED BY <3>1, <3>2
  <2>3. PICK u, v, w, x : u = Flag(c.chunk.spans # {}) /\ v = EdgeDistance(c) /\ w = -c.seq /\ x = -c.index
    OBVIOUS
  <2>4. CandidateTrust(c) = <<u, v, w, x>> /\ u \in Int /\ v \in Int /\ w \in Int /\ x \in Int
    BY <2>1, <2>2, <2>3 DEF CandidateTrust
  <2> QED BY <2>3, <2>4
<1>7. r \in [G -> [1 .. 4 -> Int]]
  BY <1>6
<1>8. \A x, y \in G : r[x] = r[y] => x = y
  <2> SUFFICES ASSUME NEW x \in G, NEW y \in G, r[x] = r[y] PROVE x = y
    OBVIOUS
  <2>1. -x.index = -y.index
    BY <1>6
  <2>2. x.index = y.index
    <3>1. x.index \in Nat /\ y.index \in Nat
      BY <1>0
    <3> QED BY <2>1, <3>1
  <2> QED BY <1>1, <2>2
<1>9. \A x \in G : r[x] = CandidateTrust(x)
  OBVIOUS
<1> HIDE DEF r
<1>10. \E x \in G : \A y \in G \ {x} : Above(r[x], r[y])
  BY <1>5, <1>7, <1>8, BestExists
<1>11. \E x \in G : \A y \in G \ {x} : Above(CandidateTrust(x), CandidateTrust(y))
  BY <1>9, <1>10
<1>12. Best(G, CandidateTrust) \in G
  BY <1>11 DEF Best
<1> QED BY <1>5, <1>12

\* Nothing is said twice.
Apart(S) == \A a, b \in S : a # b => Overlap(a.chunk, b.chunk) <= 0

\* What an observation says in a cluster: parts of it that do not overlap.
LEMMA SequenceFacts ==
    ASSUME NEW d \in Nat, NEW ws, NEW as, HeardIn(d, ws, as),
           NEW C \in SUBSET AllCandidates(ws, as), NEW n \in {c.seq : c \in C}
    PROVE  /\ Sequence(n, C).seq = n /\ \E c \in C : c \in Sequence(n, C).parts
           /\ Sequence(n, C).parts \in SUBSET {c \in C : c.seq = n}
           /\ Sequence(n, C).interval \in Grid(d)
           /\ Apart(Sequence(n, C).parts)
<1> DEFINE O == {c \in C : c.seq = n}
           own == {Best(G, CandidateTrust) : G \in Clusters(O)}
<1>1. /\ Sequence(n, C).seq = n /\ Sequence(n, C).parts = own
      /\ Sequence(n, C).interval = ClusterInterval(own)
  BY DEF Sequence
<1>2. O \in SUBSET AllCandidates(ws, as) /\ O # {} /\ Lasting(O) /\ \A c \in O : c.seq = n
  <2>1. O \in SUBSET AllCandidates(ws, as) /\ O # {} /\ \A c \in O : c.seq = n
    OBVIOUS
  <2> HIDE DEF O
  <2> QED BY <2>1, HeardLasting
<1> HIDE DEF O
<1>3. ASSUME NEW G \in Clusters(O) PROVE Best(G, CandidateTrust) \in G /\ G \in SUBSET O
  <2>1. G \in SUBSET O /\ G # {}
    BY <1>2, ClusterOf
  <2>2. G \in SUBSET AllCandidates(ws, as) /\ \A c \in G : c.seq = n
    BY <1>2, <2>1
  <2> QED BY <2>1, <2>2, BestCandidate
<1>4. own \in SUBSET O
  BY <1>3
<1>5. own # {}
  <2>1. PICK a \in O : TRUE
    BY <1>2
  <2>2. Around(a, O) \in Clusters(O)
    BY <1>2, AroundIsCluster
  <2> QED BY <2>2
<1>6. ClusterInterval(own) \in Grid(d)
  <2> HIDE DEF own
  <2> QED BY <1>2, <1>4, <1>5, IntervalOf
<1>7. ASSUME NEW a \in own, NEW b \in own, a # b PROVE Overlap(a.chunk, b.chunk) <= 0
  <2>1. PICK G \in Clusters(O) : a = Best(G, CandidateTrust)
    OBVIOUS
  <2>2. PICK H \in Clusters(O) : b = Best(H, CandidateTrust)
    OBVIOUS
  <2>3. G # H /\ a \in G /\ b \in H
    BY <1>3, <1>7, <2>1, <2>2
  <2> QED BY <1>2, <2>3, ClustersApart
<1> HIDE DEF own
<1> QED BY <1>1, <1>4, <1>5, <1>6, <1>7 DEF O, Apart

-----------------------------------------------------------------------------
(* The reconciliation: the vote                                              *)

\* The numbers of the observations in a cluster.
Voices(C) == {c.seq : c \in C}
Said(C) == {Sequence(n, C) : n \in Voices(C)}

\* Finitely many observations speak in a cluster, and each says one thing.
LEMMA VoicesFinite ==
    ASSUME NEW d \in Nat, NEW ws, NEW as, HeardIn(d, ws, as), NEW C \in SUBSET AllCandidates(ws, as)
    PROVE  /\ Voices(C) \in SUBSET (0 .. Len(as)) /\ Len(as) \in Nat /\ IsFiniteSet(Said(C))
           /\ \A s \in Said(C) : s.seq \in Voices(C) /\ s = Sequence(s.seq, C) /\ s.seq \in Nat
<1>1. Len(as) \in Nat
  BY LengthOf DEF HeardIn
<1>2. \A c \in C : c.seq \in 1 .. Len(as)
  BY CandidateFacts
<1>3. PICK m : m = Len(as)
  OBVIOUS
<1>4. \A c \in C : c.seq \in 0 .. m
  <2>1. m \in Nat /\ \A c \in C : c.seq \in 1 .. m
    BY <1>1, <1>2, <1>3
  <2>2. \A x \in 1 .. m : x \in 0 .. m
    BY <2>1, SMT
  <2> QED BY <2>1, <2>2
<1>5. Voices(C) \in SUBSET (0 .. m) /\ m \in Nat
  BY <1>1, <1>3, <1>4 DEF Voices
<1>6. IsFiniteSet(Voices(C))
  <2>1. IsFiniteSet(0 .. m)
    BY <1>5, FS_Interval
  <2> QED BY <2>1, <1>5, FS_Subset
<1>7. IsFiniteSet(Said(C))
  <2> DEFINE f == [n \in Voices(C) |-> Sequence(n, C)]
  <2>1. f \in Surjection(Voices(C), Said(C))
    BY DEF Surjection, Said
  <2> HIDE DEF f
  <2> QED BY <1>6, <2>1, FS_Surjection
<1>8. ASSUME NEW s \in Said(C) PROVE s.seq \in Voices(C) /\ s = Sequence(s.seq, C) /\ s.seq \in Nat
  <2>1. PICK n \in Voices(C) : s = Sequence(n, C)
    BY DEF Said
  <2>2. s.seq = n
    BY <2>1 DEF Sequence
  <2>3. n \in Nat
    BY <1>5, SMT
  <2> QED BY <2>1, <2>2, <2>3
<1> QED BY <1>3, <1>5, <1>7, <1>8

\* The vote goes through the observations one by one.
LEMMA JoinType ==
    ASSUME NEW V, NEW g \in Seq(V), NEW s, {s} \in V, \A X \in V : X \cup {s} \in V
    PROVE  /\ Join(g, s) \in Seq(V) /\ Len(g) \in Nat /\ Len(Join(g, s)) \in Nat
           /\ Len(Join(g, s)) >= Len(g)
           /\ \A x \in 1 .. Len(g) : g[x] \subseteq Join(g, s)[x] /\ x \in 1 .. Len(Join(g, s))
           /\ \E x \in 1 .. Len(Join(g, s)) : s \in Join(g, s)[x]
           /\ \A x \in 1 .. Len(Join(g, s)) :
                \/ Join(g, s)[x] = {s}
                \/ x \in 1 .. Len(g) /\ Join(g, s)[x] = g[x]
                \/ x \in 1 .. Len(g) /\ Join(g, s)[x] = g[x] \cup {s} /\ \A t \in g[x] : SameHypothesis(s, t)
<1> DEFINE fits == {n \in DOMAIN g : \A t \in g[n] : SameHypothesis(s, t)}
           m == Min(fits)
<1>0. Len(g) \in Nat /\ DOMAIN g = 1 .. Len(g)
  OBVIOUS
<1>1. Join(g, s) = IF fits = {} THEN Append(g, {s}) ELSE [g EXCEPT ![m] = @ \cup {s}]
  BY DEF Join
<1>2. CASE fits = {}
  <2>1. Join(g, s) = Append(g, {s})
    BY <1>1, <1>2
  <2> HIDE DEF fits
  <2>2. PICK h, v : h = Append(g, v) /\ v = {s}
    OBVIOUS
  <2>3. v \in V
    BY <2>2
  <2>4. /\ h \in Seq(V) /\ Len(h) = Len(g) + 1
        /\ \A x \in 1 .. Len(g) : h[x] = g[x]
        /\ h[Len(g) + 1] = v
        /\ \A x \in 1 .. Len(g) + 1 : x \in 1 .. Len(g) \/ x = Len(g) + 1
        /\ \A x \in 1 .. Len(g) : x \in 1 .. Len(g) + 1
        /\ Len(g) + 1 \in 1 .. Len(g) + 1
    BY <2>2, <2>3, Appended
  <2>5. Join(g, s) = h
    BY <2>1, <2>2
  <2>6. Len(h) \in Nat /\ Len(h) >= Len(g)
    BY <1>0, <2>4
  <2> QED BY <1>0, <2>2, <2>4, <2>5, <2>6
<1>3. CASE fits # {}
  <2>1. m \in fits
    <3>1. fits \in SUBSET Nat
      BY <1>0
    <3> HIDE DEF fits
    <3> QED BY <1>3, <3>1, MinOf
  <2>2. m \in 1 .. Len(g) /\ \A t \in g[m] : SameHypothesis(s, t)
    BY <1>0, <2>1
  <2>0. Join(g, s) = [g EXCEPT ![m] = @ \cup {s}]
    BY <1>1, <1>3
  <2> HIDE DEF fits, m
  <2>3. g[m] \in V
    BY <2>2, ElementOf
  <2>4. PICK h, v : h = [g EXCEPT ![m] = v] /\ v = g[m] \cup {s}
    OBVIOUS
  <2>5. v \in V
    BY <2>3, <2>4
  <2>6. h \in Seq(V) /\ Len(h) = Len(g)
    BY <2>2, <2>4, <2>5
  <2>7. \A x \in 1 .. Len(g) : h[x] = IF x = m THEN v ELSE g[x]
    BY <1>0, <2>4
  <2>8. Join(g, s) = h
    BY <2>0, <2>4
  <2>9. \A x \in 1 .. Len(g) : h[x] = IF x = m THEN g[m] \cup {s} ELSE g[x]
    BY <2>4, <2>7
  <2> QED BY <1>0, <2>2, <2>6, <2>8, <2>9
<1> QED BY <1>2, <1>3

\* The groups that a vote on a cluster may form.
Groupings(C) == SUBSET Said(C)

\* One step of the vote on a cluster; and how far it is.
VoteInv(C, g, k) ==
    /\ g \in Seq(Groupings(C))
    /\ \A j \in 1 .. k : \E x \in 1 .. Len(g) : SequencesOf(C)[j] \in g[x]
    /\ \A x \in 1 .. Len(g) : \A s, t \in g[x] : s = t \/ s.text = t.text

\* The next observation joins a group that says the same, or founds one.
LEMMA VoteStep ==
    ASSUME NEW C, NEW g, NEW k, VoteInv(C, g, k - 1), NEW s \in Said(C), s = SequencesOf(C)[k],
           k \in Nat \ {0}
    PROVE  VoteInv(C, Join(g, s), k)
<1>1. g \in Seq(Groupings(C))
  BY DEF VoteInv
<1>2. PICK h : h = Join(g, s)
  OBVIOUS
<1>3. /\ h \in Seq(Groupings(C)) /\ Len(g) \in Nat /\ Len(h) \in Nat /\ Len(h) >= Len(g)
      /\ \A x \in 1 .. Len(g) : g[x] \subseteq h[x] /\ x \in 1 .. Len(h)
      /\ \E x \in 1 .. Len(h) : s \in h[x]
      /\ \A x \in 1 .. Len(h) :
           \/ h[x] = {s}
           \/ x \in 1 .. Len(g) /\ h[x] = g[x]
           \/ x \in 1 .. Len(g) /\ h[x] = g[x] \cup {s} /\ \A t \in g[x] : SameHypothesis(s, t)
  <2>1. g \in Seq(Groupings(C)) /\ {s} \in Groupings(C) /\ \A X \in Groupings(C) : X \cup {s} \in Groupings(C)
    BY <1>1 DEF Groupings
  <2>2. /\ Join(g, s) \in Seq(Groupings(C)) /\ Len(g) \in Nat /\ Len(Join(g, s)) \in Nat
        /\ Len(Join(g, s)) >= Len(g)
    BY <2>1, JoinType
  <2>3. \A x \in 1 .. Len(g) : /\ g[x] \subseteq Join(g, s)[x]
                               /\ x \in 1 .. Len(Join(g, s))
    BY <2>1, JoinType
  <2>4. \E x \in 1 .. Len(Join(g, s)) : s \in Join(g, s)[x]
    BY <2>1, JoinType
  <2>5. \A x \in 1 .. Len(Join(g, s)) :
           \/ Join(g, s)[x] = {s}
           \/ x \in 1 .. Len(g) /\ Join(g, s)[x] = g[x]
           \/ x \in 1 .. Len(g) /\ Join(g, s)[x] = g[x] \cup {s} /\ \A t \in g[x] : SameHypothesis(s, t)
    BY <2>1, JoinType
  <2> QED BY <1>2, <2>2, <2>3, <2>4, <2>5
<1>4. \A j \in 1 .. k : j \in 1 .. k - 1 \/ j = k
  BY SMT
<1>5. ASSUME NEW j \in 1 .. k PROVE \E x \in 1 .. Len(h) : SequencesOf(C)[j] \in h[x]
  <2>1. CASE j = k
    BY <1>3, <2>1
  <2>2. CASE j \in 1 .. k - 1
    <3>1. PICK x \in 1 .. Len(g) : SequencesOf(C)[j] \in g[x]
      BY <2>2 DEF VoteInv
    <3> QED BY <1>3, <3>1
  <2> QED BY <1>4, <2>1, <2>2
<1>6. ASSUME NEW x \in 1 .. Len(h), NEW a \in h[x], NEW b \in h[x] PROVE a = b \/ a.text = b.text
  <2>1. CASE h[x] = {s}
    BY <2>1
  <2>2. CASE x \in 1 .. Len(g) /\ h[x] = g[x]
    BY <2>2 DEF VoteInv
  <2>3. CASE x \in 1 .. Len(g) /\ h[x] = g[x] \cup {s} /\ \A t \in g[x] : SameHypothesis(s, t)
    <3>1. \A t \in g[x] : s.text = t.text
      BY <2>3 DEF SameHypothesis
    <3>2. \A u, v \in g[x] : u = v \/ u.text = v.text
      BY <2>3 DEF VoteInv
    <3> QED BY <2>3, <3>1, <3>2
  <2> QED BY <1>3, <2>1, <2>2, <2>3
<1> QED BY <1>2, <1>3, <1>5, <1>6 DEF VoteInv

\* The vote, step by step.
LEMMA VoteSteps ==
    ASSUME NEW C, NEW n \in Nat, DOMAIN SequencesOf(C) = 1 .. n,
           \A k \in 1 .. n : SequencesOf(C)[k] \in Said(C)
    PROVE  \E f : /\ f[0] = <<>> /\ VoteGroups(SequencesOf(C)) = ToSet(f[n])
                  /\ \A k \in 1 .. n : f[k] = Join(f[k - 1], SequencesOf(C)[k])
<1> DEFINE seqs == SequencesOf(C)
           V == Seq(Groupings(C))
           G == [p \in V \X (1 .. n) |-> Join(p[1], seqs[p[2]])]
           body(F) == [s \in SUBSET DOMAIN seqs |-> IF s = {} THEN <<>> ELSE Join(F[s \ {Max(s)}], seqs[Max(s)])]
           iter == CHOOSE F : F = body(F)
<1>0. DOMAIN seqs = 1 .. n
  OBVIOUS
<1>1. VoteGroups(seqs) = ToSet(iter[DOMAIN seqs])
  <2> HIDE DEF seqs
  <2> QED BY DEF VoteGroups, FoldLeft, MapThenFoldSet
<1> HIDE DEF seqs
<1>a. \A k \in 1 .. n : seqs[k] \in Said(C)
  BY DEF seqs
<1>b. ASSUME NEW g \in V, NEW k \in 1 .. n PROVE Join(g, seqs[k]) \in V
  <2>1. PICK s \in Said(C) : s = seqs[k]
    BY <1>a
  <2>2. {s} \in Groupings(C) /\ \A X \in Groupings(C) : X \cup {s} \in Groupings(C)
    BY DEF Groupings
  <2>3. Join(g, s) \in Seq(Groupings(C))
    BY <2>2, JoinType
  <2> QED BY <2>1, <2>3
<1>2. G \in [V \X (1 .. n) -> V] /\ <<>> \in V
  <2>1. <<>> \in V
    OBVIOUS
  <2> HIDE DEF V
  <2>2. \A p \in V \X (1 .. n) : Join(p[1], seqs[p[2]]) \in V
    BY <1>b
  <2> QED BY <2>1, <2>2
<1>3. PICK v, g, b, m : v = V /\ g = G /\ b = <<>> /\ m = n
  OBVIOUS
<1>4. PICK F \in [SUBSET (1 .. m) -> v] : IsFold(F, m, b, g)
  <2>1. m \in Nat /\ g \in [v \X (1 .. m) -> v] /\ b \in v
    BY <1>0, <1>2, <1>3
  <2> HIDE DEF V, G, body, iter
  <2> QED BY <2>1, FoldExists
<1>5. F \in [SUBSET (1 .. n) -> V] /\ \A s \in SUBSET (1 .. n) : F[s] = IF s = {} THEN <<>> ELSE G[<<F[s \ {Max(s)}], Max(s)>>]
  BY <1>3, <1>4 DEF IsFold
<1>6. ASSUME NEW s \in SUBSET (1 .. n), s # {} PROVE F[s] = Join(F[s \ {Max(s)}], seqs[Max(s)])
  <2>1. Max(s) \in 1 .. n
    <3>1. s \in SUBSET (0 .. n)
      BY <1>0, SMT
    <3>2. Max(s) \in s
      BY <1>6, <3>1, MaxOf
    <3> QED BY <3>2
  <2>2. F[s \ {Max(s)}] \in V
    BY <1>5
  <2>3. F[s] = G[<<F[s \ {Max(s)}], Max(s)>>]
    BY <1>5, <1>6
  <2>4. PICK p, q : p = F[s \ {Max(s)}] /\ q = Max(s)
    OBVIOUS
  <2>5. G[<<p, q>>] = Join(p, seqs[q])
    BY <2>1, <2>2, <2>4
  <2> HIDE DEF G
  <2> QED BY <2>3, <2>4, <2>5
<1>7. F = body(F)
  <2>1. F = [s \in SUBSET (1 .. n) |-> F[s]]
    BY <1>5
  <2>2. \A s \in SUBSET (1 .. n) : F[s] = IF s = {} THEN <<>> ELSE Join(F[s \ {Max(s)}], seqs[Max(s)])
    BY <1>5, <1>6
  <2> QED BY <1>0, <2>1, <2>2, Zenon
<1> HIDE DEF body
<1>8. iter = body(iter)
  BY <1>7
<1>9. \A s \in SUBSET (1 .. n) : iter[s] = IF s = {} THEN <<>> ELSE Join(iter[s \ {Max(s)}], seqs[Max(s)])
  BY <1>0, <1>8 DEF body
<1> HIDE DEF iter
<1> DEFINE f == [k \in 0 .. n |-> iter[1 .. k]]
<1>10. f[0] = <<>> /\ VoteGroups(seqs) = ToSet(f[n])
  <2>1. 0 \in 0 .. n /\ n \in 0 .. n /\ 1 .. 0 = {} /\ {} \in SUBSET (1 .. n)
    BY <1>0, SMT
  <2>2. f[0] = iter[{}] /\ f[n] = iter[1 .. n]
    BY <2>1
  <2> QED BY <1>0, <1>1, <1>9, <2>1, <2>2
<1>11. ASSUME NEW k \in 1 .. n PROVE f[k] = Join(f[k - 1], seqs[k])
  <2>1. k \in 0 .. n /\ k - 1 \in 0 .. n
    BY <1>0, SMT
  <2>2. /\ 1 .. k \in SUBSET (1 .. n) /\ Max(1 .. k) = k /\ (1 .. k) \ {k} = 1 .. k - 1 /\ 1 .. k # {}
    BY <1>0, <2>1, PrefixSets
  <2>3. f[k] = iter[1 .. k] /\ f[k - 1] = iter[1 .. k - 1]
    BY <2>1
  <2>4. iter[1 .. k] = Join(iter[(1 .. k) \ {k}], seqs[k])
    BY <1>9, <2>2
  <2> QED BY <2>2, <2>3, <2>4
<1> HIDE DEF f
<1> QED BY <1>10, <1>11 DEF seqs

\* What the vote on a cluster comes to: every observation is in a group, and a
\* group says the same.
LEMMA VoteFacts ==
    ASSUME NEW d \in Nat, NEW ws, NEW as, HeardIn(d, ws, as), NEW C \in SUBSET AllCandidates(ws, as)
    PROVE  /\ IsFiniteSet(VoteGroups(SequencesOf(C)))
           /\ \A G \in VoteGroups(SequencesOf(C)) : /\ G \subseteq Said(C)
                                                    /\ \A s, t \in G : s.text = t.text
           /\ \A s \in Said(C) : \E G \in VoteGroups(SequencesOf(C)) : s \in G
<1> DEFINE S == Voices(C)
           n == Cardinality(S)
           nums == Ascending(S)
<1>1. S \in SUBSET (0 .. Len(as)) /\ Len(as) \in Nat
  BY VoicesFinite
<1>2. PICK b : b = Len(as)
  OBVIOUS
<1>3. /\ n \in Nat /\ DOMAIN nums = 1 .. n
      /\ \A k \in 1 .. n : nums[k] \in S
      /\ \A i \in S : \E k \in 1 .. n : nums[k] = i
  <2>1. S \in SUBSET (0 .. b) /\ b \in Nat
    BY <1>1, <1>2
  <2> HIDE DEF S
  <2>2. IsFiniteSet(0 .. b) /\ \A i \in 0 .. b : i \in Nat
    BY <2>1, FS_Interval, SMT
  <2>3. IsFiniteSet(S) /\ S \in SUBSET Nat
    BY <2>1, <2>2, FS_Subset
  <2> QED BY <2>3, ListedInOrder, Zenon
<1>4. SequencesOf(C) = [k \in DOMAIN nums |-> Sequence(nums[k], C)]
  BY Zenon DEF SequencesOf, Voices
<1> HIDE DEF nums, n
<1>5. /\ DOMAIN SequencesOf(C) = 1 .. n
      /\ \A k \in 1 .. n : SequencesOf(C)[k] = Sequence(nums[k], C) /\ SequencesOf(C)[k] \in Said(C)
  BY <1>3, <1>4, Zenon DEF Said
<1>6. \A s \in Said(C) : \E k \in 1 .. n : s = SequencesOf(C)[k]
  BY <1>3, <1>5 DEF Said
<1>7. PICK f : /\ f[0] = <<>> /\ VoteGroups(SequencesOf(C)) = ToSet(f[n])
               /\ \A k \in 1 .. n : f[k] = Join(f[k - 1], SequencesOf(C)[k])
  BY <1>3, <1>5, VoteSteps
<1> DEFINE T == {k \in 0 .. n : VoteInv(C, f[k], k)}
<1>8. 0 \in T
  <2>1. 0 \in 0 .. n /\ \A j \in 1 .. 0 : FALSE
    BY <1>3, SMT
  <2>2. <<>> \in Seq(Groupings(C)) /\ \A x \in 1 .. Len(<<>>) : FALSE
    OBVIOUS
  <2>3. VoteInv(C, <<>>, 0)
    BY <2>1, <2>2 DEF VoteInv
  <2> QED BY <1>7, <2>1, <2>3
<1>9. ASSUME NEW k \in 0 .. n - 1, k \in T PROVE k + 1 \in T
  <2>1. k + 1 \in 1 .. n /\ (k + 1) - 1 = k /\ k + 1 \in 0 .. n /\ k + 1 \in Nat \ {0}
    BY <1>3, SMT
  <2>2. f[k + 1] = Join(f[k], SequencesOf(C)[k + 1])
    BY <1>7, <2>1
  <2>3. VoteInv(C, f[k], (k + 1) - 1)
    BY <1>9, <2>1
  <2>4. SequencesOf(C)[k + 1] \in Said(C)
    BY <1>5, <2>1
  <2>5. VoteInv(C, f[k + 1], k + 1)
    BY <2>1, <2>2, <2>3, <2>4, VoteStep
  <2> QED BY <2>1, <2>5
<1> HIDE DEF T
<1>10. 0 .. n \subseteq T
  BY <1>3, <1>8, <1>9, UpTo
<1>11. VoteInv(C, f[n], n)
  <2>1. n \in 0 .. n
    BY <1>3, SMT
  <2> QED BY <1>10, <2>1 DEF T
<1>12. PICK g : g = f[n]
  OBVIOUS
<1>13. /\ g \in Seq(Groupings(C)) /\ DOMAIN g = 1 .. Len(g) /\ Len(g) \in Nat
       /\ \A k \in 1 .. n : \E x \in 1 .. Len(g) : SequencesOf(C)[k] \in g[x]
       /\ \A x \in 1 .. Len(g) : \A s, t \in g[x] : s = t \/ s.text = t.text
       /\ VoteGroups(SequencesOf(C)) = {g[x] : x \in 1 .. Len(g)}
  <2>1. g \in Seq(Groupings(C))
    BY <1>11, <1>12 DEF VoteInv
  <2>2. DOMAIN g = 1 .. Len(g) /\ Len(g) \in Nat
    BY <2>1, LengthOf
  <2> QED BY <1>7, <1>11, <1>12, <2>1, <2>2 DEF VoteInv, ToSet
<1>14. IsFiniteSet({g[x] : x \in 1 .. Len(g)})
  <2> DEFINE h == [x \in 1 .. Len(g) |-> g[x]]
             U == {g[x] : x \in 1 .. Len(g)}
  <2>1. h \in Surjection(1 .. Len(g), U)
    BY DEF Surjection
  <2>2. IsFiniteSet(1 .. Len(g))
    <3>1. PICK m : m = Len(g)
      OBVIOUS
    <3>2. IsFiniteSet(1 .. m)
      BY <1>13, <3>1, FS_Interval
    <3> QED BY <3>1, <3>2
  <2> HIDE DEF h, U
  <2>3. IsFiniteSet(U)
    BY <2>1, <2>2, FS_Surjection
  <2> QED BY <2>3 DEF U
<1>15. ASSUME NEW x \in 1 .. Len(g) PROVE g[x] \subseteq Said(C)
  <2>1. g[x] \in Groupings(C)
    BY <1>13, ElementOf
  <2> QED BY <2>1 DEF Groupings
<1> QED BY <1>6, <1>13, <1>14, <1>15

\* What two observations share lies in the recording.
LEMMA SharedType ==
    ASSUME NEW d \in Nat, NEW a \in Grid(d), NEW b \in Grid(d), Shared(a, b).end > Shared(a, b).start
    PROVE  Shared(a, b) \in Grid(d)
<1>1. /\ a.start \in Nat /\ a.end \in Nat /\ b.start \in Nat /\ b.end \in Nat
      /\ a.end <= d /\ b.end <= d
  BY InGrid
<1>2. PICK s, e : s = Max({a.start, b.start}) /\ e = Min({a.end, b.end})
  OBVIOUS
<1>3. /\ s = IF a.start >= b.start THEN a.start ELSE b.start
      /\ e = IF a.end <= b.end THEN a.end ELSE b.end
  <2>1. PICK p, q, u, v : p = a.start /\ q = b.start /\ u = a.end /\ v = b.end
    OBVIOUS
  <2>2. p \in Int /\ q \in Int /\ u \in Int /\ v \in Int
    BY <1>1, <2>1
  <2>3. Max({p, q}) = IF p >= q THEN p ELSE q
    BY <2>2, OfTwo
  <2>4. Min({u, v}) = IF u <= v THEN u ELSE v
    BY <2>2, OfTwo
  <2> QED BY <1>2, <2>1, <2>3, <2>4
<1>4. Shared(a, b) = Interval(s, e)
  BY <1>2 DEF Shared
<1>5. s < e
  <2>1. e > s
    BY <1>4, Borders
  <2>2. s \in Nat /\ e \in Nat
    BY <1>1, <1>3
  <2> QED BY <2>1, <2>2
<1>6. s \in Nat /\ e \in Nat /\ e <= d
  BY <1>1, <1>3
<1> QED BY <1>4, <1>5, <1>6, OntoGrid

\* The parts of what an observation says in a cluster are its own.
Own(s, C) == \A c \in s.parts : c \in C /\ c.seq = s.seq

\* What an observation says bears its number.
LEMMA SaidBy ==
    ASSUME NEW C, NEW s \in Said(C)
    PROVE  s.seq \in Voices(C) /\ s = Sequence(s.seq, C)
<1>1. PICK n \in Voices(C) : s = Sequence(n, C)
  BY DEF Said
<1>2. s.seq = n
  BY <1>1 DEF Sequence
<1> QED BY <1>1, <1>2

\* What an observation says in a cluster: its own candidates, without overlaps.
LEMMA SaidFacts ==
    ASSUME NEW d \in Nat, NEW ws, NEW as, HeardIn(d, ws, as),
           NEW C \in SUBSET AllCandidates(ws, as), NEW s \in Said(C)
    PROVE  /\ s.seq \in Voices(C) /\ s.seq \in Nat /\ s = Sequence(s.seq, C)
           /\ \E c \in C : c \in s.parts
           /\ Own(s, C)
           /\ s.interval \in Grid(d)
           /\ Apart(s.parts)
<1>1. s.seq \in Voices(C) /\ s = Sequence(s.seq, C) /\ s.seq \in Nat
  BY VoicesFinite
<1>2. PICK n : n = s.seq
  OBVIOUS
<1>3. n \in {c.seq : c \in C}
  BY <1>1, <1>2 DEF Voices
<1>4. /\ \E c \in C : c \in Sequence(n, C).parts
      /\ Sequence(n, C).parts \in SUBSET {c \in C : c.seq = n}
      /\ Sequence(n, C).interval \in Grid(d)
      /\ Apart(Sequence(n, C).parts)
  <2>1. \E c \in C : c \in Sequence(n, C).parts
    BY <1>3, SequenceFacts
  <2>2. Sequence(n, C).parts \in SUBSET {c \in C : c.seq = n}
    BY <1>3, SequenceFacts
  <2>3. Sequence(n, C).interval \in Grid(d)
    BY <1>3, SequenceFacts
  <2>4. Apart(Sequence(n, C).parts)
    BY <1>3, SequenceFacts
  <2> QED BY <2>1, <2>2, <2>3, <2>4
<1>5. s = Sequence(n, C)
  BY <1>1, <1>2, Zenon
<1> QED BY <1>1, <1>2, <1>4, <1>5 DEF Own

\* The disputes of a cluster lie in the recording.
LEMMA DisputedType ==
    ASSUME NEW d \in Nat, NEW ws, NEW as, HeardIn(d, ws, as),
           NEW C \in SUBSET AllCandidates(ws, as), C # {},
           NEW groups, \A G \in groups : G \subseteq Said(C)
    PROVE  Disputed(groups, C) \in SUBSET Grid(d)
<1> DEFINE both == UNION {{Shared(a.interval, b.interval) : a \in G, b \in UNION (groups \ {G})} : G \in groups}
           real == {i \in both : i.end > i.start}
<1>1. Disputed(groups, C) = IF real = {} THEN {ClusterInterval(C)} ELSE Merge(real, 0)
  BY DEF Disputed
<1>2. real \in SUBSET Grid(d)
  <2> SUFFICES ASSUME NEW G \in groups, NEW a \in G, NEW b \in UNION (groups \ {G}),
                      Shared(a.interval, b.interval).end > Shared(a.interval, b.interval).start
               PROVE  Shared(a.interval, b.interval) \in Grid(d)
    OBVIOUS
  <2>1. a \in Said(C) /\ b \in Said(C)
    OBVIOUS
  <2>2. a.interval \in Grid(d) /\ b.interval \in Grid(d)
    BY <2>1, SaidFacts
  <2> QED BY <2>2, SharedType
<1> HIDE DEF real
<1>3. Merge(real, 0) \in SUBSET Grid(d)
  BY <1>2, MergeType
<1>4. ClusterInterval(C) \in Grid(d)
  BY IntervalOf
<1> QED BY <1>1, <1>3, <1>4

\* What an observation says has its rank, and no other has it.
LEMMA TrustType ==
    ASSUME NEW d \in Nat, NEW ws, NEW as, HeardIn(d, ws, as),
           NEW C \in SUBSET AllCandidates(ws, as), NEW s \in Said(C)
    PROVE  SequenceTrust(s) \in [1 .. 5 -> Int] /\ SequenceTrust(s)[4] = -s.seq
<1> DEFINE D == {EdgeDistance(c) : c \in s.parts}
           I == {c.index : c \in s.parts}
           measured == {c \in s.parts : c.chunk.spans # {}}
<1>1. s.parts # {} /\ s.parts \in SUBSET C /\ s.seq \in Nat
  <2>1. \E c \in C : c \in s.parts
    BY SaidFacts
  <2>2. Own(s, C)
    BY SaidFacts
  <2>3. s.seq \in Nat
    BY SaidFacts
  <2> QED BY <2>1, <2>2, <2>3 DEF Own
<1>2. D \in SUBSET Nat /\ D # {}
  <2>1. \A c \in s.parts : EdgeDistance(c) \in Nat
    BY <1>1, EdgeType
  <2> QED BY <1>1, <2>1
<1>3. I \in SUBSET Nat /\ I # {}
  <2>1. \A c \in s.parts : c.index \in Nat
    <3> SUFFICES ASSUME NEW c \in s.parts PROVE c.index \in Nat
      OBVIOUS
    <3>1. c \in AllCandidates(ws, as)
      BY <1>1
    <3>2. c.index \in 1 .. Len(as[c.seq]) /\ Len(as[c.seq]) \in Nat
      BY <3>1, CandidateFacts
    <3>3. PICK m : m = Len(as[c.seq])
      OBVIOUS
    <3>4. c.index \in 1 .. m /\ m \in Nat
      BY <3>2, <3>3
    <3> QED BY <3>4, SMT
  <2> QED BY <1>1, <2>1
<1>4. Min(D) \in Nat /\ Min(I) \in Nat
  <2> HIDE DEF D, I
  <2> QED BY <1>2, <1>3, MinOf
<1>5. Flag(measured = s.parts) \in Int /\ Flag(measured # {}) \in Int
  BY DEF Flag
<1>6. SequenceTrust(s) = <<Flag(measured = s.parts), Flag(measured # {}), Min(D), -s.seq, -Min(I)>>
  BY DEF SequenceTrust
<1>7. PICK u, v, x, y, z : /\ u = Flag(measured = s.parts) /\ v = Flag(measured # {})
                           /\ x = Min(D) /\ y = -s.seq /\ z = -Min(I)
  OBVIOUS
<1>8. u \in Int /\ v \in Int /\ x \in Int /\ y \in Int /\ z \in Int
  <2> HIDE DEF D, I, measured
  <2> QED BY <1>1, <1>4, <1>5, <1>7
<1>9. SequenceTrust(s) = <<u, v, x, y, z>>
  <2> HIDE DEF D, I, measured
  <2> QED BY <1>6, <1>7
<1> QED BY <1>7, <1>8, <1>9

\* So there is a most trusted one among several.
LEMMA BestSequence ==
    ASSUME NEW d \in Nat, NEW ws, NEW as, HeardIn(d, ws, as),
           NEW C \in SUBSET AllCandidates(ws, as), NEW S \in SUBSET Said(C), S # {}
    PROVE  Best(S, SequenceTrust) \in S
<1> DEFINE r == [s \in S |-> SequenceTrust(s)]
<1>1. IsFiniteSet(S)
  BY VoicesFinite, FS_Subset
<1>2. \A s \in S : SequenceTrust(s) \in [1 .. 5 -> Int] /\ SequenceTrust(s)[4] = -s.seq
  BY TrustType
<1>3. r \in [S -> [1 .. 5 -> Int]]
  BY <1>2
<1>4. ASSUME NEW x \in S, NEW y \in S, r[x] = r[y] PROVE x = y
  <2>1. -x.seq = -y.seq
    BY <1>2, <1>4
  <2>2. x.seq \in Nat /\ y.seq \in Nat /\ x = Sequence(x.seq, C) /\ y = Sequence(y.seq, C)
    BY VoicesFinite
  <2>3. x.seq = y.seq
    <3>1. PICK u, v : u = x.seq /\ v = y.seq
      OBVIOUS
    <3>2. u \in Nat /\ v \in Nat /\ -u = -v
      BY <2>1, <2>2, <3>1
    <3> QED BY <3>1, <3>2
  <2>4. PICK u : u = x.seq
    OBVIOUS
  <2>5. x = Sequence(u, C) /\ y = Sequence(u, C)
    BY <2>2, <2>3, <2>4, Zenon
  <2> QED BY <2>5
<1>5. \A x \in S : r[x] = SequenceTrust(x)
  OBVIOUS
<1> HIDE DEF r
<1>6. \E x \in S : \A y \in S \ {x} : Above(r[x], r[y])
  <2>1. PICK m : m = 5
    OBVIOUS
  <2>2. m \in Nat /\ r \in [S -> [1 .. m -> Int]]
    BY <1>3, <2>1
  <2> QED BY <1>1, <1>4, <2>2, BestExists
<1>7. \E x \in S : \A y \in S \ {x} : Above(SequenceTrust(x), SequenceTrust(y))
  BY <1>5, <1>6
<1> QED BY <1>7 DEF Best

-----------------------------------------------------------------------------
(* The reconciliation: what an analysis accepts                              *)

\* What an observation says stands in a cluster: all the others say it too, or
\* another one does and one of the two is a recovery.
Outvotes(s, C) ==
    \/ \A t \in Said(C) : t.text = s.text
    \/ \E t \in Said(C) : /\ t # s /\ t.text = s.text
                          /\ \E c \in s.parts \cup t.parts : c.work.kind = "recovery"

\* What becomes of a cluster.
LEMMA DecideFacts ==
    ASSUME NEW d \in Nat, NEW ws, NEW as, HeardIn(d, ws, as),
           NEW C \in SUBSET AllCandidates(ws, as), C # {}
    PROVE  /\ Decide(C).conflicts \in SUBSET Grid(d)
           /\ Decide(C).accepted # {} =>
                \E s \in Said(C) : Decide(C).accepted = s.parts /\ Outvotes(s, C)
<1> DEFINE groups == VoteGroups(SequencesOf(C))
           required == IF Cardinality(groups) = 1 THEN {ClusterInterval(C)} ELSE Disputed(groups, C)
           winners == IF Cardinality(groups) = 1 THEN groups ELSE Leaders(groups)
           chosen == UNION {FullyOwned(G, required) : G \in winners}
           best == Best(chosen, SequenceTrust)
<1>1. Decide(C) = IF chosen = {} THEN [accepted |-> {}, conflicts |-> required]
                  ELSE [accepted |-> best.parts, conflicts |-> {}]
  BY DEF Decide
<1>2. /\ IsFiniteSet(groups)
      /\ \A G \in groups : G \subseteq Said(C) /\ \A s, t \in G : s.text = t.text
      /\ \A s \in Said(C) : \E G \in groups : s \in G
  BY VoteFacts
<1> HIDE DEF groups
<1>3. required \in SUBSET Grid(d)
  <2>1. ClusterInterval(C) \in Grid(d)
    BY IntervalOf
  <2>2. Disputed(groups, C) \in SUBSET Grid(d)
    BY <1>2, DisputedType
  <2> QED BY <2>1, <2>2
<1> HIDE DEF required
<1>4. winners \subseteq groups
  BY DEF Leaders
<1>5. \A s \in chosen : \E G \in winners : s \in G
  BY DEF FullyOwned
<1>6. ASSUME chosen # {} PROVE best \in chosen /\ best \in Said(C)
  <2>1. chosen \in SUBSET Said(C)
    BY <1>2, <1>4, <1>5
  <2> HIDE DEF chosen
  <2>2. best \in chosen
    BY <2>1, <1>6, BestSequence
  <2> QED BY <2>1, <2>2
<1>7. ASSUME NEW s \in chosen PROVE Outvotes(s, C)
  <2>1. PICK G \in winners : s \in G
    BY <1>5
  <2>2. G \in groups /\ G \subseteq Said(C) /\ \A u, v \in G : u.text = v.text
    BY <1>2, <1>4
  <2>3. CASE Cardinality(groups) = 1
    <3>1. PICK x : groups = {x}
      BY <1>2, <2>3, FS_Singleton
    <3>2. \A t \in Said(C) : t \in G
      BY <1>2, <2>2, <3>1
    <3> QED BY <2>1, <2>2, <3>2 DEF Outvotes
  <2>4. CASE Cardinality(groups) # 1
    <3>1. Cardinality(G) >= 2 /\ \E r \in G : \E c \in r.parts : c.work.kind = "recovery"
      BY <2>4 DEF Leaders
    <3>2. PICK r \in G : \E c \in r.parts : c.work.kind = "recovery"
      BY <3>1
    <3>3. PICK t \in G : t # s
      <4>1. SUFFICES ASSUME \A t \in G : t = s PROVE FALSE
        OBVIOUS
      <4>2. G = {s}
        BY <2>1, <4>1
      <4>3. Cardinality(G) = 1
        BY <4>2, FS_Singleton
      <4> QED BY <3>1, <4>3
    <3>4. CASE r = s
      <4>1. t \in Said(C) /\ t.text = s.text
        BY <2>1, <2>2
      <4> QED BY <3>2, <3>3, <3>4, <4>1 DEF Outvotes
    <3>5. CASE r # s
      <4>1. r \in Said(C) /\ r.text = s.text
        BY <2>1, <2>2
      <4> QED BY <3>2, <3>5, <4>1 DEF Outvotes
    <3> QED BY <3>4, <3>5
  <2> QED BY <2>3, <2>4
<1> HIDE DEF chosen, best, winners
<1>8. CASE chosen = {}
  <2>1. Decide(C).accepted = {} /\ Decide(C).conflicts = required
    BY <1>1, <1>8
  <2> QED BY <2>1, <1>3
<1>9. CASE chosen # {}
  <2>1. Decide(C).accepted = best.parts /\ Decide(C).conflicts = {}
    BY <1>1, <1>9
  <2>2. best \in Said(C) /\ Outvotes(best, C)
    BY <1>6, <1>7, <1>9
  <2> QED BY <2>1, <2>2
<1> QED BY <1>8, <1>9

\* What was accepted comes from one observation of its cluster, and it stands.
Stands(all, c) ==
    /\ c \in all
    /\ \E s \in Said(Around(c, all)) : c \in s.parts /\ Outvotes(s, Around(c, all))

\* The accepted text of an analysis.
TextsOf(an) == {c.chunk : c \in an.accepted}

\* In every stretch of speech that must be heard, one of the texts is.
Throughout(texts) ==
    \A s \in speech : \A i \in {Interval(a, b) : a \in s.start .. s.end, b \in s.start .. s.end} :
        i = s \/ Length(i) > Tolerance => \E c \in texts : \E m \in Coverage(c) : Overlap(m, i) > 0

\* What an analysis gives: gaps and conflicts inside the recording, accepted text
\* that stands and does not overlap, and without a gap all speech is heard.
LEMMA AnalysisFacts ==
    ASSUME NEW d \in Nat, Tolerance \in Nat, NEW ws, NEW as, HeardIn(d, ws, as), speech \in SUBSET Grid(d)
    PROVE  /\ Analyze(ws, as).gaps \in SUBSET Grid(d) /\ Analyze(ws, as).conflicts \in SUBSET Grid(d)
           /\ \A c \in Analyze(ws, as).accepted : Stands(AllCandidates(ws, as), c)
           /\ Disjoint(TextsOf(Analyze(ws, as)))
           /\ Analyze(ws, as).gaps = {} => Throughout(TextsOf(Analyze(ws, as)))
<1> DEFINE all == AllCandidates(ws, as)
           decisions == {Decide(C) : C \in Clusters(all)}
           taken == UNION {x.accepted : x \in decisions}
           texts == {c.chunk : c \in taken}
<1>1. /\ Analyze(ws, as).accepted = taken /\ Analyze(ws, as).gaps = Gaps(speech, texts)
      /\ Analyze(ws, as).conflicts = UNION {x.conflicts : x \in decisions}
  BY DEF Analyze
<1>2. Lasting(all)
  BY HeardLasting
<1>3. ASSUME NEW C \in Clusters(all) PROVE C \in SUBSET all /\ C # {} /\ \A c \in C : C = Around(c, all)
  <2> HIDE DEF all
  <2> QED BY <1>2, ClusterOf
<1>4. ASSUME NEW C \in Clusters(all)
      PROVE  /\ Decide(C).conflicts \in SUBSET Grid(d)
             /\ Decide(C).accepted # {} =>
                  \E s \in Said(C) : Decide(C).accepted = s.parts /\ Outvotes(s, C)
  BY <1>3, DecideFacts
<1>5. Analyze(ws, as).conflicts \in SUBSET Grid(d)
  <2> HIDE DEF all
  <2> QED BY <1>1, <1>4
<1>6. ASSUME NEW c \in taken
      PROVE  \E C \in Clusters(all) : \E s \in Said(C) :
               /\ c \in s.parts /\ Decide(C).accepted = s.parts /\ Outvotes(s, C) /\ c \in C /\ C = Around(c, all)
  <2>1. PICK C \in Clusters(all) : c \in Decide(C).accepted
    OBVIOUS
  <2>2. PICK s \in Said(C) : Decide(C).accepted = s.parts /\ Outvotes(s, C)
    BY <1>4, <2>1
  <2>3. C \in SUBSET AllCandidates(ws, as)
    BY <1>3
  <2>4. Own(s, C)
    BY <2>2, <2>3, SaidFacts
  <2> HIDE DEF all
  <2> QED BY <1>3, <2>1, <2>2, <2>4 DEF Own
<1>7. ASSUME NEW c \in taken PROVE Stands(all, c)
  <2>1. PICK C \in Clusters(all) : \E s \in Said(C) :
               /\ c \in s.parts /\ Decide(C).accepted = s.parts /\ Outvotes(s, C) /\ c \in C /\ C = Around(c, all)
    BY <1>6
  <2>2. c \in all
    BY <1>3, <2>1
  <2> HIDE DEF all, taken
  <2> QED BY <2>1, <2>2 DEF Stands
<1>8. ASSUME NEW c \in taken
      PROVE  /\ c \in AllCandidates(ws, as) /\ c.chunk \in Chunks
             /\ c.chunk.start \in Nat /\ c.chunk.end \in Nat /\ c.chunk.start < c.chunk.end /\ c.chunk.end <= d
  <2>1. c \in AllCandidates(ws, as)
    BY <1>7 DEF Stands
  <2> HIDE DEF taken
  <2> QED BY <2>1, CandidateFacts
<1>9. ASSUME NEW x \in texts PROVE Coverage(x) \in SUBSET Grid(d)
  <2>1. /\ x \in Chunks /\ x.start \in Nat /\ x.end \in Nat /\ x.start < x.end /\ x.end <= d
    BY <1>8
  <2>2. CASE x.spans = {}
    <3>1. Interval(x.start, x.end) \in Grid(d)
      BY <2>1, OntoGrid
    <3> QED BY <2>2, <3>1 DEF Coverage
  <2>3. CASE x.spans # {}
    <3>1. ASSUME NEW i \in x.spans PROVE i \in Grid(d)
      <4>1. i \in Intervals /\ i.end <= x.end
        BY <2>1, <3>1 DEF Chunks
      <4>2. i.end \in Nat
        BY <4>1 DEF Intervals
      <4>3. PICK p, q : p = i.end /\ q = x.end
        OBVIOUS
      <4>4. p <= d
        BY <2>1, <4>1, <4>2, <4>3, SMT
      <4> QED BY <4>1, <4>3, <4>4 DEF Grid
    <3> QED BY <2>3, <3>1 DEF Coverage
  <2> QED BY <2>2, <2>3
<1>10. Measured(texts) \in SUBSET Grid(d)
  <2> HIDE DEF texts
  <2> QED BY <1>9 DEF Measured
<1>11. /\ Gaps(speech, texts) \in SUBSET Grid(d)
       /\ Gaps(speech, texts) = {} =>
            \A s \in speech : \A a, b \in s.start .. s.end :
               Interval(a, b) = s \/ b - a > Tolerance => \E m \in Measured(texts) : Overlap(m, Interval(a, b)) > 0
  <2> HIDE DEF texts
  <2> QED BY <1>10, NoGaps
<1>12. ASSUME NEW x \in taken, NEW y \in taken, x.chunk # y.chunk PROVE Overlap(x.chunk, y.chunk) <= 0
  <2>1. PICK C \in Clusters(all) : \E s \in Said(C) :
               /\ x \in s.parts /\ Decide(C).accepted = s.parts /\ Outvotes(s, C) /\ x \in C /\ C = Around(x, all)
    BY <1>6
  <2>2. PICK D \in Clusters(all) : \E s \in Said(D) :
               /\ y \in s.parts /\ Decide(D).accepted = s.parts /\ Outvotes(s, D) /\ y \in D /\ D = Around(y, all)
    BY <1>6
  <2>3. CASE C = D
    <3>1. PICK s \in Said(C) : x \in s.parts /\ Decide(C).accepted = s.parts
      BY <2>1
    <3>2. y \in s.parts
      BY <2>2, <2>3, <3>1
    <3>3. C \in SUBSET AllCandidates(ws, as)
      BY <1>3
    <3>4. Apart(s.parts)
      BY <3>3, SaidFacts
    <3> HIDE DEF all, taken
    <3> QED BY <3>1, <3>2, <3>4, <1>12 DEF Apart
  <2>4. CASE C # D
    <3>1. x \in C /\ y \in D
      BY <2>1, <2>2
    <3> HIDE DEF all, taken
    <3> QED BY <3>1, <2>4, <1>2, ClustersApart
  <2> QED BY <2>3, <2>4
<1>13. Disjoint(texts)
  BY <1>12 DEF Disjoint
<1>14. ASSUME Gaps(speech, texts) = {}, NEW s \in speech, NEW a \in s.start .. s.end, NEW b \in s.start .. s.end,
              Interval(a, b) = s \/ Length(Interval(a, b)) > Tolerance
       PROVE  \E c \in texts : \E m \in Coverage(c) : Overlap(m, Interval(a, b)) > 0
  <2> HIDE DEF texts
  <2>1. Interval(a, b) = s \/ b - a > Tolerance
    <3>1. Length(Interval(a, b)) = b - a
      BY Borders DEF Length
    <3> QED BY <1>14, <3>1
  <2>2. \E m \in Measured(texts) : Overlap(m, Interval(a, b)) > 0
    BY <1>11, <1>14, <2>1
  <2> QED BY <2>2 DEF Measured
<1>15. Analyze(ws, as).gaps = {} => Throughout(texts)
  <2> HIDE DEF texts
  <2> SUFFICES ASSUME Analyze(ws, as).gaps = {}, NEW s \in speech,
                      NEW a \in s.start .. s.end, NEW b \in s.start .. s.end,
                      Interval(a, b) = s \/ Length(Interval(a, b)) > Tolerance
               PROVE  \E c \in texts : \E m \in Coverage(c) : Overlap(m, Interval(a, b)) > 0
    BY DEF Throughout
  <2>1. Gaps(speech, texts) = {}
    BY <1>1
  <2> QED BY <2>1, <1>14
<1>16. texts = TextsOf(Analyze(ws, as))
  BY <1>1 DEF TextsOf
<1>17. /\ Analyze(ws, as).gaps \in SUBSET Grid(d)
       /\ \A c \in Analyze(ws, as).accepted : Stands(AllCandidates(ws, as), c)
  <2> HIDE DEF taken, texts
  <2> QED BY <1>1, <1>7, <1>11
<1> HIDE DEF texts, taken, decisions, all
<1> QED BY <1>5, <1>13, <1>15, <1>16, <1>17

\* What stands has outvoted whoever says something else.
LEMMA StandsOutvoted ==
    ASSUME NEW d \in Nat, NEW ws, NEW as, HeardIn(d, ws, as), NEW c, Stands(AllCandidates(ws, as), c),
           NEW C, C = Around(c, AllCandidates(ws, as)), NEW o \in C,
           Sequence(o.seq, C).text # Sequence(c.seq, C).text
    PROVE  \E e \in C : /\ e.seq # c.seq /\ Sequence(e.seq, C).text = Sequence(c.seq, C).text
                        /\ "recovery" \in {e.work.kind, c.work.kind}
<1>1. C \in SUBSET AllCandidates(ws, as)
  BY DEF Around
<1>2. PICK s \in Said(C) : c \in s.parts /\ Outvotes(s, C)
  BY DEF Stands
<1>3. ASSUME NEW t \in Said(C)
      PROVE  t = Sequence(t.seq, C) /\ (\E x \in C : x \in t.parts) /\ \A x \in t.parts : x \in C /\ x.seq = t.seq
  <2>1. t = Sequence(t.seq, C)
    BY SaidBy
  <2>2. \E x \in C : x \in t.parts
    BY <1>1, SaidFacts
  <2>3. Own(t, C)
    BY <1>1, SaidFacts
  <2> QED BY <2>1, <2>2, <2>3 DEF Own
<1>4. s.seq = c.seq /\ s = Sequence(c.seq, C)
  <2>1. c.seq = s.seq /\ s = Sequence(s.seq, C)
    BY <1>2, <1>3
  <2> QED BY <2>1, Zenon
<1>5. Sequence(o.seq, C) \in Said(C)
  BY DEF Said, Voices
<1>6. PICK t \in Said(C) : /\ t # s /\ t.text = s.text
                           /\ \E x \in s.parts \cup t.parts : x.work.kind = "recovery"
  <2>1. Sequence(o.seq, C).text # s.text
    BY <1>4
  <2> QED BY <1>2, <1>5, <2>1 DEF Outvotes
<1>7. t.seq # c.seq
  <2>1. SUFFICES ASSUME t.seq = c.seq PROVE FALSE
    OBVIOUS
  <2>2. PICK n : n = c.seq
    OBVIOUS
  <2>3. t = Sequence(n, C) /\ s = Sequence(n, C)
    BY <1>3, <1>4, <2>1, <2>2, Zenon
  <2> QED BY <1>6, <2>3
<1>8. ASSUME NEW e \in t.parts
      PROVE  /\ e \in C /\ e.seq # c.seq /\ Sequence(e.seq, C).text = Sequence(c.seq, C).text
  <2>1. e \in C /\ e.seq = t.seq
    BY <1>3
  <2>2. Sequence(e.seq, C) = t /\ Sequence(c.seq, C) = s
    <3>1. PICK n : n = t.seq
      OBVIOUS
    <3>2. t = Sequence(n, C) /\ e.seq = n
      BY <1>3, <2>1, <3>1, Zenon
    <3> QED BY <1>4, <3>2, Zenon
  <2> QED BY <1>6, <1>7, <2>1, <2>2
<1>9. CASE \E x \in t.parts : x.work.kind = "recovery"
  <2>1. PICK e \in t.parts : e.work.kind = "recovery"
    BY <1>9
  <2> QED BY <1>8, <2>1
<1>10. CASE \E x \in s.parts : x.work.kind = "recovery"
  <2>1. PICK x \in s.parts : x.work.kind = "recovery"
    BY <1>10
  <2>2. x \in C /\ c \in C /\ x.seq = c.seq
    <3>1. \A y \in s.parts : y \in C /\ y.seq = s.seq
      BY <1>3
    <3> QED BY <1>2, <1>4, <2>1, <3>1
  <2>3. x.work = ws[x.seq] /\ c.work = ws[c.seq]
    <3>1. x \in AllCandidates(ws, as) /\ c \in AllCandidates(ws, as)
      BY <1>1, <2>2
    <3>2. x.work = ws[x.seq]
      BY <3>1, WorkOf
    <3>3. c.work = ws[c.seq]
      BY <3>1, WorkOf
    <3> QED BY <3>2, <3>3
  <2>4. c.work.kind = "recovery"
    BY <2>1, <2>2, <2>3
  <2>5. PICK e \in C : e \in t.parts
    BY <1>3
  <2> QED BY <1>8, <2>4, <2>5
<1> QED BY <1>6, <1>9, <1>10

\* So what an analysis without gaps accepts is a sound transcript.
LEMMA AnalysisIsSound ==
    ASSUME NEW d \in Nat, Tolerance \in Nat, HeardIn(d, works, answers), speech \in SUBSET Grid(d),
           analysis = Analyze(works, answers), analysis.gaps = {}
    PROVE  SpeechCovered /\ Disjoint(Accepted) /\ DisputesOutvoted
<1>1. /\ \A c \in analysis.accepted : Stands(AllCandidates(works, answers), c)
      /\ Disjoint(TextsOf(analysis)) /\ Throughout(TextsOf(analysis))
  BY AnalysisFacts
<1>2. Accepted = TextsOf(analysis)
  BY DEF Accepted, TextsOf
<1>3. SpeechCovered
  BY <1>1, <1>2 DEF SpeechCovered, Throughout
<1>4. DisputesOutvoted
  <2> DEFINE all == AllCandidates(works, answers)
             Says(n, c) == Sequence(n, Around(c, all)).text
  <2>1. ASSUME NEW c \in analysis.accepted, NEW o \in Around(c, all), Says(o.seq, c) # Says(c.seq, c)
        PROVE  \E e \in Around(c, all) : /\ e.seq # c.seq /\ Says(e.seq, c) = Says(c.seq, c)
                                         /\ "recovery" \in {e.work.kind, c.work.kind}
    <3>1. PICK C : C = Around(c, all)
      OBVIOUS
    <3>2. Stands(AllCandidates(works, answers), c)
      BY <1>1
    <3>3. o \in C /\ Sequence(o.seq, C).text # Sequence(c.seq, C).text
      BY <2>1, <3>1
    <3>4. \E e \in C : /\ e.seq # c.seq /\ Sequence(e.seq, C).text = Sequence(c.seq, C).text
                       /\ "recovery" \in {e.work.kind, c.work.kind}
      BY <3>1, <3>2, <3>3, StandsOutvoted
    <3> QED BY <3>1, <3>4
  <2> HIDE DEF all
  <2> QED BY <2>1 DEF DisputesOutvoted, all
<1> QED BY <1>1, <1>2, <1>3, <1>4

-----------------------------------------------------------------------------
(* The reconciliation: the rounds and their budget                           *)

\* A window does not leave the recording.
LEMMA ContextType ==
    ASSUME duration \in Nat, Context \in Nat, NEW i \in Grid(duration)
    PROVE  WithContext(i) \in Grid(duration)
<1>1. PICK s, e, d : s = i.start /\ e = i.end /\ d = duration
  OBVIOUS
<1>2. s \in Nat /\ e \in Nat /\ s < e /\ e <= d /\ d \in Nat
  BY <1>1, InGrid
<1>3. PICK a, b : a = Max({0, s - Context}) /\ b = Min({d, e + Context})
  OBVIOUS
<1>4. a = IF 0 >= s - Context THEN 0 ELSE s - Context
  BY <1>2, <1>3, OfTwo
<1>5. b = IF d <= e + Context THEN d ELSE e + Context
  BY <1>2, <1>3, OfTwo
<1>6. a \in Nat /\ b \in Nat /\ a < b /\ b <= d
  BY <1>2, <1>4, <1>5, SMT
<1>7. WithContext(i) = Interval(a, b)
  BY <1>1, <1>3 DEF WithContext
<1> QED BY <1>1, <1>6, <1>7, OntoGrid

\* A round asks for each of its targets once.
LEMMA WorksForType ==
    ASSUME duration \in Nat, Context \in Nat, NEW kind \in {"primary", "recovery"}, NEW cores \in SUBSET Grid(duration)
    PROVE  /\ WorksFor(kind, cores) \in Seq(WorksIn(duration)) /\ Cardinality(cores) \in Nat
           /\ Len(WorksFor(kind, cores)) = Cardinality(cores)
           /\ \A n \in 1 .. Cardinality(cores) : WorksFor(kind, cores)[n].kind = kind
<1> DEFINE line == Listed(cores, Earlier)
           m == Cardinality(cores)
<1>1. line \in Seq(cores) /\ m \in Nat /\ Len(line) = m /\ DOMAIN line = 1 .. m
  BY ListedIntervals
<1>2. WorksFor(kind, cores) = [n \in 1 .. m |-> Work(kind, line[n])]
  BY <1>1 DEF WorksFor
<1> HIDE DEF line, m
<1>3. ASSUME NEW n \in 1 .. m PROVE Work(kind, line[n]) \in WorksIn(duration) /\ Work(kind, line[n]).kind = kind
  <2>1. line[n] \in cores
    BY <1>1, ElementOf
  <2>2. PICK c : c = line[n]
    OBVIOUS
  <2>3. c \in Grid(duration)
    BY <2>1, <2>2
  <2>4. WithContext(c) \in Grid(duration)
    BY <2>3, ContextType
  <2>5. Work(kind, c) \in WorksIn(duration) /\ Work(kind, c).kind = kind
    BY <2>3, <2>4 DEF Work, WorksIn
  <2> QED BY <2>2, <2>5
<1>4. WorksFor(kind, cores) \in [1 .. m -> WorksIn(duration)]
  BY <1>2, <1>3
<1>5. WorksFor(kind, cores) \in Seq(WorksIn(duration)) /\ Len(WorksFor(kind, cores)) = m
  <2>1. PICK w, W : w = WorksFor(kind, cores) /\ W = WorksIn(duration)
    OBVIOUS
  <2>2. w \in Seq(W) /\ Len(w) = m
    BY <1>1, <1>4, <2>1
  <2> QED BY <2>1, <2>2
<1> QED BY <1>1, <1>2, <1>3, <1>5 DEF m

\* One sequence after another.
Follows(u, s, t) ==
    /\ Len(s) \in Nat /\ Len(t) \in Nat /\ Len(u) = Len(s) + Len(t)
    /\ DOMAIN u = 1 .. Len(s) + Len(t) /\ DOMAIN s = 1 .. Len(s) /\ DOMAIN t = 1 .. Len(t)
    /\ \A x \in 1 .. Len(s) : u[x] = s[x]
    /\ \A x \in Len(s) + 1 .. Len(s) + Len(t) : u[x] = t[x - Len(s)]

\* The concatenation does so.
LEMMA Chained ==
    ASSUME NEW V, NEW s \in Seq(V), NEW t \in Seq(V)
    PROVE  s \o t \in Seq(V) /\ Follows(s \o t, s, t)
  BY DEF Follows

\* New answers to new works are heard in their windows.
LEMMA StillHeard ==
    ASSUME NEW d \in Nat, NEW ws, NEW as, HeardIn(d, ws, as), Len(as) = Len(ws),
           NEW new \in Seq(WorksIn(d)), NEW more \in Seq(Seq(Chunks)),
           Len(more) = Len(new), \A n \in DOMAIN new : Valid(new[n], more[n])
    PROVE  HeardIn(d, ws \o new, as \o more) /\ Len(as \o more) = Len(ws \o new)
<1>1. PICK W, A : W = WorksIn(d) /\ A = Seq(Chunks)
  OBVIOUS
<1>2. /\ ws \in Seq(W) /\ as \in Seq(A) /\ new \in Seq(W)
      /\ \A n \in 1 .. Len(as) : \A k \in 1 .. Len(as[n]) :
           as[n][k].start >= ws[n].request.start /\ as[n][k].end <= ws[n].request.end
  BY <1>1 DEF HeardIn
<1>3. PICK l, e, both : l = Len(ws) /\ e = Len(new) /\ both = ws \o new
  OBVIOUS
<1>0. both \in Seq(W) /\ Follows(both, ws, new)
  BY <1>2, <1>3, Chained
<1>4. l \in Nat /\ e \in Nat /\ both \in Seq(W) /\ Len(both) = l + e /\ DOMAIN new = 1 .. e
  BY <1>0, <1>3 DEF Follows
<1>5. \A x \in 1 .. l : both[x] = ws[x]
  BY <1>0, <1>3 DEF Follows
<1>6. \A x \in l + 1 .. l + e : both[x] = new[x - l] /\ x - l \in 1 .. e
  <2>1. \A x \in l + 1 .. l + e : both[x] = new[x - l]
    BY <1>0, <1>3 DEF Follows
  <2>2. \A x \in l + 1 .. l + e : x - l \in 1 .. e
    BY <1>4, SMT
  <2> QED BY <2>1, <2>2
<1>7. more \in Seq(A) /\ Len(more) = e /\ \A n \in 1 .. e : Valid(new[n], more[n])
  BY <1>1, <1>3, <1>4
<1>8. HeardIn(d, both, as \o more) /\ Len(as \o more) = Len(both)
  <2>1. PICK all : all = as \o more
    OBVIOUS
  <2>0. all \in Seq(A) /\ Follows(all, as, more)
    BY <1>2, <1>7, <2>1, Chained
  <2>2. all \in Seq(A) /\ Len(all) = l + e
    BY <1>3, <1>7, <2>0 DEF Follows
  <2>3. \A x \in 1 .. l : all[x] = as[x]
    BY <1>3, <2>0 DEF Follows
  <2>4. \A x \in l + 1 .. l + e : all[x] = more[x - l]
    BY <1>3, <1>7, <2>0 DEF Follows
  <2>5. ASSUME NEW n \in 1 .. l + e, NEW k \in 1 .. Len(all[n])
        PROVE  all[n][k].start >= both[n].request.start /\ all[n][k].end <= both[n].request.end
    <3>1. CASE n \in 1 .. l
      <4>1. all[n] = as[n] /\ both[n] = ws[n] /\ n \in 1 .. Len(as)
        BY <1>3, <1>5, <2>3, <3>1
      <4> QED BY <1>2, <2>5, <4>1
    <3>2. CASE n \in l + 1 .. l + e
      <4>1. all[n] = more[n - l] /\ both[n] = new[n - l] /\ n - l \in 1 .. e
        BY <1>6, <2>4, <3>2
      <4>2. PICK m : m = n - l
        OBVIOUS
      <4>3. more[m] \in Seq(Chunks)
        BY <1>1, <1>7, <4>1, <4>2, ElementOf
      <4>4. DOMAIN more[m] = 1 .. Len(more[m])
        BY <4>3, LengthOf
      <4>5. Valid(new[m], more[m]) /\ k \in DOMAIN more[m]
        BY <1>7, <2>5, <4>1, <4>2, <4>4
      <4> QED BY <4>1, <4>2, <4>5 DEF Valid
    <3>3. n \in 1 .. l \/ n \in l + 1 .. l + e
      BY <1>4, SMT
    <3> QED BY <3>1, <3>2, <3>3
  <2>6. Len(all) <= Len(both)
    BY <1>4, <2>2, SMT
  <2> QED BY <1>1, <1>4, <2>1, <2>2, <2>5, <2>6 DEF HeardIn
<1> QED BY <1>3, <1>8

\* Works that got no answer change nothing about what was heard.
LEMMA HeardLonger ==
    ASSUME NEW d \in Nat, NEW ws, NEW as, HeardIn(d, ws, as), Len(as) = Len(ws), NEW new \in Seq(WorksIn(d))
    PROVE  HeardIn(d, ws \o new, as)
<1>1. PICK W, A : W = WorksIn(d) /\ A = Seq(Chunks)
  OBVIOUS
<1>2. /\ ws \in Seq(W) /\ as \in Seq(A) /\ new \in Seq(W)
      /\ \A n \in 1 .. Len(as) : \A k \in 1 .. Len(as[n]) :
           as[n][k].start >= ws[n].request.start /\ as[n][k].end <= ws[n].request.end
  BY <1>1 DEF HeardIn
<1>3. PICK l, e, both : l = Len(ws) /\ e = Len(new) /\ both = ws \o new
  OBVIOUS
<1>0. both \in Seq(W) /\ Follows(both, ws, new)
  BY <1>2, <1>3, Chained
<1>4. l \in Nat /\ e \in Nat /\ both \in Seq(W) /\ Len(both) = l + e /\ DOMAIN new = 1 .. e
  BY <1>0, <1>3 DEF Follows
<1>5. \A x \in 1 .. l : both[x] = ws[x]
  BY <1>0, <1>3 DEF Follows
<1>7. HeardIn(d, ws \o new, as)
  <2>1. Len(as) = l /\ l <= Len(both)
    BY <1>3, <1>4
  <2> QED BY <1>1, <1>2, <1>3, <1>4, <1>5, <2>1 DEF HeardIn
<1> QED BY <1>7

\* The recovery requests among the works.
RecoveryNumbers(ws) == {n \in DOMAIN ws : ws[n].kind = "recovery"}

\* Their count is a number.
LEMMA AskedType ==
    ASSUME NEW V, NEW ws \in Seq(V)
    PROVE  IsFiniteSet(RecoveryNumbers(ws)) /\ Cardinality(RecoveryNumbers(ws)) \in Nat
<1>1. PICK l : l = Len(ws)
  OBVIOUS
<1>2. l \in Nat /\ DOMAIN ws = 1 .. l
  BY <1>1, LengthOf
<1>3. IsFiniteSet(1 .. l)
  BY <1>2, FS_Interval
<1>4. RecoveryNumbers(ws) \in SUBSET (1 .. l)
  BY <1>2 DEF RecoveryNumbers
<1>5. IsFiniteSet(RecoveryNumbers(ws))
  BY <1>3, <1>4, FS_Subset
<1> QED BY <1>5, FS_CardinalityType

\* A round adds all its works to the count, or none.
LEMMA AskedAgain ==
    ASSUME NEW V, NEW ws \in Seq(V), NEW new \in Seq(V)
    PROVE  /\ (\A n \in 1 .. Len(new) : new[n].kind # "recovery") => RecoveryNumbers(ws \o new) = RecoveryNumbers(ws)
           /\ (\A n \in 1 .. Len(new) : new[n].kind = "recovery") =>
                Cardinality(RecoveryNumbers(ws \o new)) = Cardinality(RecoveryNumbers(ws)) + Len(new)
<1>1. PICK l, e, u : l = Len(ws) /\ e = Len(new) /\ u = ws \o new
  OBVIOUS
<1>2. Follows(u, ws, new)
  BY <1>1, Chained
<1>3. /\ l \in Nat /\ e \in Nat /\ DOMAIN u = 1 .. l + e /\ DOMAIN ws = 1 .. l
      /\ \A x \in 1 .. l : u[x] = ws[x]
      /\ \A x \in l + 1 .. l + e : u[x] = new[x - l]
  BY <1>1, <1>2 DEF Follows
<1>4. /\ \A x \in 1 .. l + e : x \in 1 .. l \/ x \in l + 1 .. l + e
      /\ \A x \in 1 .. l : x \in 1 .. l + e
      /\ \A x \in l + 1 .. l + e : x \in 1 .. l + e /\ x - l \in 1 .. e /\ x \notin 1 .. l
  BY <1>3, SMT
<1>5. ASSUME \A n \in 1 .. e : new[n].kind # "recovery" PROVE RecoveryNumbers(u) = RecoveryNumbers(ws)
  <2>1. \A x \in l + 1 .. l + e : u[x].kind # "recovery"
    BY <1>3, <1>4, <1>5
  <2>2. \A x \in 1 .. l + e : u[x].kind = "recovery" <=> x \in 1 .. l /\ ws[x].kind = "recovery"
    BY <1>3, <1>4, <2>1
  <2> QED BY <1>3, <1>4, <2>2 DEF RecoveryNumbers
<1>6. ASSUME \A n \in 1 .. e : new[n].kind = "recovery"
      PROVE  Cardinality(RecoveryNumbers(u)) = Cardinality(RecoveryNumbers(ws)) + e
  <2>1. \A x \in l + 1 .. l + e : u[x].kind = "recovery"
    BY <1>3, <1>4, <1>6
  <2>2. RecoveryNumbers(u) = RecoveryNumbers(ws) \cup (l + 1 .. l + e)
    <3>1. \A x : x \in RecoveryNumbers(u) <=> x \in 1 .. l + e /\ u[x].kind = "recovery"
      BY <1>3 DEF RecoveryNumbers
    <3>2. \A x : x \in RecoveryNumbers(ws) <=> x \in 1 .. l /\ ws[x].kind = "recovery"
      BY <1>3 DEF RecoveryNumbers
    <3>3. \A x : x \in RecoveryNumbers(u) <=> x \in RecoveryNumbers(ws) \/ x \in l + 1 .. l + e
      BY <1>3, <1>4, <2>1, <3>1, <3>2
    <3> QED BY <3>3
  <2>3. RecoveryNumbers(ws) \cap (l + 1 .. l + e) = {}
    BY <1>3, <1>4 DEF RecoveryNumbers
  <2>4. IsFiniteSet(RecoveryNumbers(ws)) /\ Cardinality(RecoveryNumbers(ws)) \in Nat
    BY AskedType
  <2>5. IsFiniteSet(l + 1 .. l + e) /\ Cardinality(l + 1 .. l + e) = e
    <3>1. PICK a, b : a = l + 1 /\ b = l + e
      OBVIOUS
    <3>2. a \in Int /\ b \in Int /\ (IF a > b THEN 0 ELSE b - a + 1) = e
      BY <1>3, <3>1, SMT
    <3>3. IsFiniteSet(a .. b) /\ Cardinality(a .. b) = IF a > b THEN 0 ELSE b - a + 1
      BY <3>2, FS_Interval
    <3> QED BY <3>1, <3>2, <3>3
  <2>6. PICK A, B : A = RecoveryNumbers(ws) /\ B = l + 1 .. l + e
    OBVIOUS
  <2>7. Cardinality(A \cup B) = Cardinality(A) + Cardinality(B) - Cardinality(A \cap B)
    BY <2>4, <2>5, <2>6, FS_Union
  <2>8. Cardinality(A \cap B) = 0
    BY <2>3, <2>6, FS_EmptySet
  <2>9. PICK p, q : p = Cardinality(A) /\ q = Cardinality(B)
    OBVIOUS
  <2>10. Cardinality(A \cup B) = p + q - 0 /\ p \in Nat /\ q = e
    BY <2>4, <2>5, <2>6, <2>7, <2>8, <2>9
  <2>11. p + q - 0 = p + e
    BY <2>10, <1>3, SMT
  <2> QED BY <2>2, <2>6, <2>9, <2>10, <2>11
<1> QED BY <1>1, <1>5, <1>6

\* The rounds that asked for a moment.
AskedAt(rs, t) == {n \in DOMAIN rs : \E i \in rs[n] : i.start <= t /\ t < i.end}

\* A round that _recovery_budget_exhausted lets pass asks for no moment once too often.
LEMMA RoundsBounded ==
    ASSUME NEW d \in Nat, MaxRounds \in Nat \ {0}, NEW rs \in Seq(SUBSET Grid(d)), NEW T \in SUBSET Grid(d), NEW t \in Nat,
           Cardinality(AskedAt(rs, t)) <= MaxRounds,
           \A i \in T : ~(Cardinality({n \in DOMAIN rs : \E old \in rs[n] : Overlap(old, i) > 0}) >= MaxRounds)
    PROVE  Cardinality(AskedAt(Append(rs, T), t)) <= MaxRounds
<1>1. PICK V, l, u : V = SUBSET Grid(d) /\ l = Len(rs) /\ u = Append(rs, T)
  OBVIOUS
<1>2. rs \in Seq(V) /\ T \in V
  BY <1>1
<1>3. /\ l \in Nat /\ Len(u) = l + 1 /\ u \in Seq(V) /\ DOMAIN rs = 1 .. l /\ DOMAIN u = 1 .. l + 1
      /\ \A x \in 1 .. l : u[x] = rs[x]
      /\ u[l + 1] = T
  BY <1>1, <1>2
<1>4. /\ \A x \in 1 .. l + 1 : x \in 1 .. l \/ x = l + 1
      /\ \A x \in 1 .. l : x \in 1 .. l + 1
      /\ l + 1 \in 1 .. l + 1 /\ l + 1 \notin 1 .. l
  BY <1>3, SMT
<1>5. \A x \in 1 .. l : rs[x] \in SUBSET Grid(d)
  <2>1. \A x \in 1 .. l : rs[x] \in V
    BY <1>1, <1>2, ElementOf
  <2> QED BY <1>1, <2>1
<1>6. IsFiniteSet(1 .. l)
  BY <1>3, FS_Interval
<1>7. CASE \A i \in T : ~(i.start <= t /\ t < i.end)
  <2>1. \A x : x \in AskedAt(u, t) <=> x \in AskedAt(rs, t)
    BY <1>3, <1>4, <1>7 DEF AskedAt
  <2>2. AskedAt(u, t) = AskedAt(rs, t)
    BY <2>1
  <2> QED BY <1>1, <2>2
<1>8. CASE \E i \in T : i.start <= t /\ t < i.end
  <2>1. PICK i \in T : i.start <= t /\ t < i.end
    BY <1>8
  <2> DEFINE N == {n \in DOMAIN rs : \E old \in rs[n] : Overlap(old, i) > 0}
             P == AskedAt(rs, t)
  <2>2. N \in SUBSET (1 .. l)
    BY <1>3
  <2>3. P \in SUBSET N
    <3> SUFFICES ASSUME NEW n \in 1 .. l, NEW old \in rs[n], old.start <= t, t < old.end PROVE Overlap(old, i) > 0
      BY <1>3 DEF AskedAt
    <3>1. old \in Grid(d) /\ i \in Grid(d)
      BY <1>5
    <3>2. /\ old.start \in Nat /\ old.end \in Nat /\ old.start < old.end
          /\ i.start \in Nat /\ i.end \in Nat /\ i.start < i.end
      BY <3>1, InGrid
    <3>3. old.start < i.end /\ i.start < old.end
      <4>1. PICK a, b, e, f : a = old.start /\ b = old.end /\ e = i.start /\ f = i.end
        OBVIOUS
      <4>2. a \in Nat /\ b \in Nat /\ e \in Nat /\ f \in Nat /\ a <= t /\ t < b /\ e <= t /\ t < f
        BY <2>1, <3>2, <4>1
      <4>3. a < f /\ e < b
        BY <4>2, SMT
      <4> QED BY <4>1, <4>3
    <3> QED BY <3>2, <3>3, Meets, SMT
  <2>4. ~(Cardinality(N) >= MaxRounds)
    OBVIOUS
  <2>5. \A x : x \in AskedAt(u, t) <=> x \in AskedAt(rs, t) \/ x = l + 1
    BY <1>3, <1>4, <2>1 DEF AskedAt
  <2>6. AskedAt(u, t) = P \cup {l + 1} /\ l + 1 \notin P
    BY <2>5, <1>3, <1>4 DEF AskedAt
  <2> HIDE DEF N, P
  <2>7. IsFiniteSet(N) /\ Cardinality(N) \in Nat
    BY <1>6, <2>2, FS_Subset, FS_CardinalityType
  <2>8. IsFiniteSet(P) /\ Cardinality(P) <= Cardinality(N) /\ Cardinality(P) \in Nat
    BY <2>3, <2>7, FS_Subset, FS_CardinalityType
  <2>9. Cardinality(P \cup {l + 1}) = Cardinality(P) + 1
    BY <2>6, <2>8, FS_AddElement
  <2>10. PICK p, q : p = Cardinality(P) /\ q = Cardinality(N)
    OBVIOUS
  <2>11. p + 1 <= MaxRounds
    BY <2>4, <2>7, <2>8, <2>10, SMT
  <2> QED BY <1>1, <2>6, <2>9, <2>10, <2>11
<1> QED BY <1>7, <1>8

\* The audio that a round asks for is a number.
LEMMA AudioType ==
    ASSUME NEW d \in Nat, NEW n \in Nat, RecoveryWorks \in Seq(WorksIn(d)), Len(RecoveryWorks) = n
    PROVE  RecoveryAudio \in Nat
<1> DEFINE V == Nat
           need == [k \in 1 .. n |-> Length(RecoveryWorks[k].request)]
           G == [p \in V \X (1 .. n) |-> p[1] + need[p[2]]]
           ws == RecoveryWorks
           body(F) == [s \in SUBSET DOMAIN ws |-> IF s = {} THEN 0 ELSE F[s \ {Max(s)}] + Length(ws[Max(s)].request)]
           iter == CHOOSE F : F = body(F)
<1>0. DOMAIN ws = 1 .. n
  BY LengthOf
<1>1. RecoveryAudio = iter[DOMAIN ws]
  <2> HIDE DEF ws
  <2> QED BY DEF RecoveryAudio, FoldLeft, MapThenFoldSet, ws
<1>a. \A k \in 1 .. n : need[k] \in Nat /\ need[k] = Length(ws[k].request)
  <2> SUFFICES ASSUME NEW k \in 1 .. n PROVE Length(ws[k].request) \in Nat
    OBVIOUS
  <2>1. ws[k] \in WorksIn(d)
    BY ElementOf
  <2>2. PICK r : r = ws[k].request
    OBVIOUS
  <2>3. r \in Grid(d)
    BY <2>1, <2>2 DEF WorksIn
  <2>4. r.start \in Nat /\ r.end \in Nat /\ r.start < r.end
    BY <2>3, InGrid
  <2>5. Length(r) \in Nat
    BY <2>4, SMT DEF Length
  <2> QED BY <2>2, <2>5
<1> HIDE DEF ws, need
<1>2. G \in [V \X (1 .. n) -> V] /\ 0 \in V
  <2>1. \A p \in V \X (1 .. n) : p[1] + need[p[2]] \in V
    BY <1>a
  <2> QED BY <2>1
<1>3. PICK v, g, b, m : v = V /\ g = G /\ b = 0 /\ m = n
  OBVIOUS
<1>4. PICK F \in [SUBSET (1 .. m) -> v] : IsFold(F, m, b, g)
  <2>1. m \in Nat /\ g \in [v \X (1 .. m) -> v] /\ b \in v
    BY <1>0, <1>2, <1>3
  <2> HIDE DEF V, G, body, iter
  <2> QED BY <2>1, FoldExists
<1>5. F \in [SUBSET (1 .. n) -> V] /\ \A s \in SUBSET (1 .. n) : F[s] = IF s = {} THEN 0 ELSE G[<<F[s \ {Max(s)}], Max(s)>>]
  BY <1>3, <1>4 DEF IsFold
<1>b. ASSUME NEW s \in SUBSET (1 .. n), s # {} PROVE Max(s) \in s /\ Max(s) \in 1 .. n
  <2>1. s \in SUBSET (0 .. n)
    BY <1>0, SMT
  <2>2. Max(s) \in s
    BY <1>b, <2>1, MaxOf
  <2> QED BY <2>2
<1>6. ASSUME NEW s \in SUBSET (1 .. n), s # {} PROVE F[s] = F[s \ {Max(s)}] + Length(ws[Max(s)].request)
  <2>1. Max(s) \in 1 .. n
    BY <1>b, <1>6
  <2>2. F[s \ {Max(s)}] \in V
    BY <1>5
  <2>3. F[s] = G[<<F[s \ {Max(s)}], Max(s)>>]
    BY <1>5, <1>6
  <2>4. PICK p, q : p = F[s \ {Max(s)}] /\ q = Max(s)
    OBVIOUS
  <2>5. G[<<p, q>>] = p + need[q]
    BY <2>1, <2>2, <2>4
  <2>6. need[q] = Length(ws[q].request)
    BY <1>a, <2>1, <2>4
  <2> HIDE DEF G
  <2> QED BY <2>3, <2>4, <2>5, <2>6
<1>7. F = body(F)
  <2>1. F = [s \in SUBSET (1 .. n) |-> F[s]]
    BY <1>5
  <2>2. \A s \in SUBSET (1 .. n) : F[s] = IF s = {} THEN 0 ELSE F[s \ {Max(s)}] + Length(ws[Max(s)].request)
    BY <1>5, <1>6
  <2> QED BY <1>0, <2>1, <2>2, Zenon
<1> HIDE DEF body
<1>8. iter = body(iter)
  BY <1>7
<1>9. \A s \in SUBSET (1 .. n) : iter[s] = IF s = {} THEN 0 ELSE iter[s \ {Max(s)}] + Length(ws[Max(s)].request)
  BY <1>0, <1>8 DEF body
<1> HIDE DEF iter
<1> DEFINE T == {k \in 0 .. n : iter[1 .. k] \in Nat}
<1>10. 0 \in T
  <2>1. 0 \in 0 .. n /\ 1 .. 0 = {} /\ {} \in SUBSET (1 .. n)
    BY SMT
  <2>2. iter[{}] = 0
    BY <1>9, <2>1
  <2>3. iter[1 .. 0] = 0
    BY <2>1, <2>2, Zenon
  <2> QED BY <2>1, <2>3
<1>11. ASSUME NEW k \in 0 .. n - 1, k \in T PROVE k + 1 \in T
  <2>1. k + 1 \in 0 .. n /\ k + 1 \in 1 .. n /\ (k + 1) - 1 = k
    BY SMT
  <2>2. PICK l : l = k + 1
    OBVIOUS
  <2>3. /\ 1 .. l \in SUBSET (1 .. n) /\ Max(1 .. l) = l /\ (1 .. l) \ {l} = 1 .. l - 1 /\ 1 .. l # {}
    BY <2>1, <2>2, PrefixSets
  <2>4. iter[1 .. l] = iter[1 .. k] + Length(ws[l].request)
    <3>1. iter[1 .. l] = iter[(1 .. l) \ {Max(1 .. l)}] + Length(ws[Max(1 .. l)].request)
      BY <1>9, <2>3
    <3> QED BY <2>1, <2>2, <2>3, <3>1
  <2>5. Length(ws[l].request) \in Nat /\ iter[1 .. k] \in Nat
    BY <1>a, <1>11, <2>1, <2>2
  <2>6. iter[1 .. l] \in Nat
    BY <2>4, <2>5
  <2> QED BY <2>1, <2>2, <2>6
<1> HIDE DEF T
<1>12. 0 .. n \subseteq T
  BY <1>10, <1>11, UpTo
<1>13. n \in T
  <2>1. n \in 0 .. n
    BY SMT
  <2> QED BY <1>12, <2>1
<1> QED BY <1>0, <1>1, <1>13 DEF T

\* Finitely many numbers have a greatest.
LEMMA GreatestOf ==
    ASSUME NEW S \in SUBSET Nat, IsFiniteSet(S), S # {}
    PROVE  \E x \in S : \A y \in S : y <= x
<1> DEFINE r == [x \in S |-> <<x>>]
<1>1. r \in [S -> [1 .. 1 -> Int]]
  <2>1. ASSUME NEW x \in S PROVE <<x>> \in [1 .. 1 -> Int]
    <3>1. x \in Int /\ \A k \in 1 .. 1 : k = 1
      BY SMT
    <3> QED BY <3>1
  <2> QED BY <2>1
<1>2. \A x, y \in S : r[x] = r[y] => x = y
  BY DEF r
<1>3. \A x \in S : r[x] = <<x>>
  OBVIOUS
<1> HIDE DEF r
<1>4. PICK x \in S : \A y \in S \ {x} : Above(r[x], r[y])
  <2>1. PICK m : m = 1
    OBVIOUS
  <2>2. m \in Nat /\ r \in [S -> [1 .. m -> Int]]
    BY <1>1, <2>1
  <2> QED BY <1>2, <2>2, BestExists
<1>5. ASSUME NEW y \in S PROVE y <= x
  <2>1. CASE y = x
    <3>1. x \in Nat
      OBVIOUS
    <3> QED BY <2>1, <3>1, SMT
  <2>2. CASE y # x
    <3>1. Above(<<x>>, <<y>>)
      BY <1>3, <1>4, <2>2
    <3>2. \A k \in DOMAIN <<x>> : k = 1
      OBVIOUS
    <3>3. <<x>>[1] > <<y>>[1]
      BY <3>1, <3>2 DEF Above
    <3>4. x > y
      BY <3>3
    <3> QED BY <3>4, SMT
  <2> QED BY <2>1, <2>2
<1> QED BY <1>5

\* Merged speech is intervals.
LEMMA MergedSpeech ==
    ASSUME NEW S \in SUBSET Intervals, IsFiniteSet(S)
    PROVE  Merge(S, 0) \in SUBSET Intervals
<1> DEFINE E == {i.end : i \in S}
<1>1. CASE S = {}
  <2>1. S \in SUBSET Grid(0)
    BY <1>1
  <2>2. Merge(S, 0) \in SUBSET Grid(0)
    BY <2>1, MergeType
  <2> QED BY <2>2 DEF Grid
<1>2. CASE S # {}
  <2>1. IsFiniteSet(E)
    <3> DEFINE f == [i \in S |-> i.end]
    <3>1. f \in Surjection(S, E)
      BY DEF Surjection
    <3> HIDE DEF f, E
    <3> QED BY <3>1, FS_Surjection
  <2>2. E \in SUBSET Nat /\ E # {}
    BY <1>2 DEF Intervals
  <2>3. PICK d \in E : \A y \in E : y <= d
    <3> HIDE DEF E
    <3> QED BY <2>1, <2>2, GreatestOf
  <2>4. d \in Nat
    BY <2>2
  <2>5. S \in SUBSET Grid(d)
    BY <2>3 DEF Grid
  <2>6. Merge(S, 0) \in SUBSET Grid(d)
    BY <2>4, <2>5, MergeType
  <2> QED BY <2>6 DEF Grid
<1> QED BY <1>1, <1>2

-----------------------------------------------------------------------------
(* The reconciliation: complete_transcription                                *)

\* The inductive invariant of the search for a transcript.
ReconInv ==
    /\ duration \in Durations /\ speech \in SUBSET Intervals
    /\ works # <<>> => speech # {} /\ speech \in SUBSET Grid(duration)
    /\ HeardIn(duration, works, answers)
    /\ verdict = "open" => Len(answers) = Len(works)
    /\ verdict \in {"open", "complete"} /\ works # <<>> => analysis = Analyze(works, answers)
    /\ verdict = "complete" => works # <<>> /\ analysis.gaps \cup analysis.conflicts = {}
    /\ analysis.gaps \cup analysis.conflicts \in SUBSET Grid(duration)
    /\ rounds \in Seq(SUBSET Grid(duration))
    /\ \A t \in Nat : Cardinality(AskedAt(rounds, t)) <= MaxRounds
    /\ audio \in Nat /\ audio <= MaxAudio
    /\ Cardinality(RecoveryNumbers(works)) <= MaxRequests /\ (works = <<>> => RecoveryNumbers(works) = {})
    /\ reported \in Nat
    /\ verdict \in {"open", "absent", "interrupted", "failed", "incomplete", "complete"}
    /\ verdict \notin {"open", "interrupted"} => reported = Cardinality(RecoveryNumbers(works))

\* The assumptions about the policy and the evidence.
LEMMA ReconConstants ==
    /\ \A d \in Durations : d \in Nat /\ d # 0
    /\ PrimaryCore \in Nat \ {0} /\ RecoveryCore \in Nat \ {0} /\ MaxRounds \in Nat \ {0}
    /\ Context \in Nat /\ Tolerance \in Nat /\ MaxRequests \in Nat /\ MaxAudio \in Nat
    /\ \A d \in Durations : \A S \in SpeechOf(d) : S \in SUBSET Intervals /\ IsFiniteSet(S)
  BY ReconAssumption DEF ReconInputs

\* The works of the first round and of a recovery.
LEMMA PrimaryFacts ==
    ASSUME duration \in Durations
    PROVE  /\ PrimaryWork \in Seq(WorksIn(duration))
           /\ \A n \in 1 .. Len(PrimaryWork) : PrimaryWork[n].kind = "primary"
<1> DEFINE cores == Pieces(Interval(0, duration), PrimaryCore)
<1>1. duration \in Nat /\ duration # 0 /\ Context \in Nat /\ PrimaryCore \in Nat \ {0}
  BY ReconConstants
<1>2. Interval(0, duration) \in Grid(duration)
  <2>1. PICK d : d = duration
    OBVIOUS
  <2>2. d \in Nat /\ 0 < d /\ d <= d
    BY <1>1, <2>1
  <2>3. Interval(0, d) \in Grid(d)
    BY <2>2, OntoGrid
  <2> QED BY <2>1, <2>3
<1>3. cores \in SUBSET Grid(duration)
  BY <1>1, <1>2, PiecesType
<1>4. PrimaryWork = WorksFor("primary", cores)
  BY DEF PrimaryWork
<1> HIDE DEF cores
<1>5. /\ WorksFor("primary", cores) \in Seq(WorksIn(duration))
      /\ Len(WorksFor("primary", cores)) = Cardinality(cores)
      /\ \A n \in 1 .. Cardinality(cores) : WorksFor("primary", cores)[n].kind = "primary"
  BY <1>1, <1>3, WorksForType
<1> QED BY <1>4, <1>5

\* What a recovery asks for lies in the recording.
LEMMA TargetsType ==
    ASSUME duration \in Nat, analysis.gaps \cup analysis.conflicts \in SUBSET Grid(duration)
    PROVE  Targets \in SUBSET Grid(duration)
<1>1. Unresolved(analysis) \in SUBSET Grid(duration)
  BY MergeType DEF Unresolved
<1>2. \A i \in Unresolved(analysis) : Pieces(i, RecoveryCore) \in SUBSET Grid(duration)
  BY <1>1, ReconConstants, PiecesType
<1> QED BY <1>2 DEF Targets

\* It asks for each target once, and the audio of a round is a number.
LEMMA RecoveryFacts ==
    ASSUME duration \in Nat, analysis.gaps \cup analysis.conflicts \in SUBSET Grid(duration)
    PROVE  /\ RecoveryWorks \in Seq(WorksIn(duration)) /\ Len(RecoveryWorks) = Cardinality(Targets)
           /\ Cardinality(Targets) \in Nat /\ RecoveryAudio \in Nat
           /\ \A n \in 1 .. Len(RecoveryWorks) : RecoveryWorks[n].kind = "recovery"
<1>1. Targets \in SUBSET Grid(duration) /\ Context \in Nat
  BY TargetsType, ReconConstants
<1>2. /\ WorksFor("recovery", Targets) \in Seq(WorksIn(duration)) /\ Cardinality(Targets) \in Nat
      /\ Len(WorksFor("recovery", Targets)) = Cardinality(Targets)
      /\ \A n \in 1 .. Cardinality(Targets) : WorksFor("recovery", Targets)[n].kind = "recovery"
  BY <1>1, WorksForType
<1>3. RecoveryWorks = WorksFor("recovery", Targets)
  BY DEF RecoveryWorks
<1>4. RecoveryAudio \in Nat
  BY <1>2, <1>3, AudioType
<1> QED BY <1>2, <1>3, <1>4

\* What was observed was heard.
LEMMA ObservedFacts ==
    ASSUME duration \in Nat, HeardIn(duration, works, answers), Len(answers) = Len(works),
           NEW new \in Seq(WorksIn(duration)), Observed(new)
    PROVE  works' = works \o new /\ HeardIn(duration, works', answers') /\ Len(answers') = Len(works')
<1>1. PICK as \in Seq(Seq(Chunks)) : /\ Len(as) = Len(new) /\ \A n \in DOMAIN new : Valid(new[n], as[n])
                                     /\ works' = works \o new /\ answers' = answers \o as
  BY DEF Observed
<1>2. HeardIn(duration, works \o new, answers \o as) /\ Len(answers \o as) = Len(works \o new)
  BY <1>1, StillHeard
<1> QED BY <1>1, <1>2

\* Speech that ends with the recording lies in it.
LEMMA SpeechInside ==
    ASSUME speech \in SUBSET Intervals, \A i \in speech : i.end <= duration
    PROVE  speech \in SUBSET Grid(duration)
  BY DEF Grid

\* The invariant holds before the first round.
LEMMA ReconInitially == ReconInit => ReconInv
<1> SUFFICES ASSUME ReconInit PROVE ReconInv
  OBVIOUS
<1>1. /\ duration \in Durations /\ works = <<>> /\ answers = <<>> /\ rounds = <<>> /\ audio = 0
      /\ analysis = NoAnalysis /\ verdict = "open" /\ reported = 0
  BY DEF ReconInit
<1>2. speech \in SUBSET Intervals
  <2>1. PICK S \in SpeechOf(duration) : speech = Merge(S, 0)
    BY DEF ReconInit
  <2>2. S \in SUBSET Intervals /\ IsFiniteSet(S)
    BY <1>1, ReconConstants
  <2>3. Merge(S, 0) \in SUBSET Intervals
    BY <2>2, MergedSpeech
  <2> QED BY <2>1, <2>3
<1>3. HeardIn(duration, <<>>, <<>>)
  <2>1. \A n \in 1 .. Len(<<>>) : FALSE
    OBVIOUS
  <2>2. Len(<<>>) <= Len(<<>>) /\ <<>> \in Seq(WorksIn(duration)) /\ <<>> \in Seq(Seq(Chunks))
    OBVIOUS
  <2> QED BY <2>1, <2>2 DEF HeardIn
<1>4. analysis.gaps \cup analysis.conflicts = {}
  BY <1>1 DEF NoAnalysis
<1>5. ASSUME NEW t \in Nat PROVE Cardinality(AskedAt(<<>>, t)) <= MaxRounds
  <2>1. AskedAt(<<>>, t) = {}
    BY DEF AskedAt
  <2>2. Cardinality(AskedAt(<<>>, t)) = 0
    BY <2>1, FS_EmptySet
  <2> QED BY <2>2, ReconConstants
<1>6. RecoveryNumbers(<<>>) = {} /\ Cardinality(RecoveryNumbers(<<>>)) <= MaxRequests
  <2>1. RecoveryNumbers(<<>>) = {}
    BY DEF RecoveryNumbers
  <2>2. Cardinality(RecoveryNumbers(<<>>)) = 0
    BY <2>1, FS_EmptySet
  <2> QED BY <2>1, <2>2, ReconConstants
<1>7. <<>> \in Seq(SUBSET Grid(duration)) /\ 0 <= MaxAudio
  BY ReconConstants
<1> QED BY <1>1, <1>2, <1>3, <1>4, <1>5, <1>6, <1>7 DEF ReconInv

\* The count of the module is the one the invariant speaks of.
LEMMA RecoveriesAre == Recoveries = Cardinality(RecoveryNumbers(works))
  BY DEF Recoveries, RecoveryNumbers

\* It is a number, and none before the first round.
LEMMA RecoveriesType ==
    ASSUME ReconInv
    PROVE  Recoveries \in Nat /\ (works = <<>> => Recoveries = 0)
<1>1. works \in Seq(WorksIn(duration))
  BY DEF ReconInv, HeardIn
<1>2. Cardinality(RecoveryNumbers(works)) \in Nat
  BY <1>1, AskedType
<1>3. works = <<>> => Cardinality(RecoveryNumbers(works)) = 0
  BY FS_EmptySet DEF ReconInv
<1> QED BY <1>2, <1>3, RecoveriesAre

\* The steps that only leave with a result or a failure.
LEMMA LeavingKeeps ==
    ASSUME ReconInv, NEW how, NEW count, LeaveWith(how, count), count \in Nat,
           UNCHANGED <<duration, speech, works, answers, analysis, rounds, audio>>,
           how \in {"absent", "interrupted", "failed", "incomplete", "complete"},
           how = "complete" => analysis = Analyze(works, answers) /\ works # <<>> /\ analysis.gaps \cup analysis.conflicts = {},
           how = "interrupted" \/ count = Recoveries
    PROVE  ReconInv'
<1>1. verdict' = how /\ reported' = count
  BY DEF LeaveWith
<1>2. /\ duration' = duration /\ speech' = speech /\ works' = works /\ answers' = answers /\ analysis' = analysis
      /\ rounds' = rounds /\ audio' = audio
  OBVIOUS
<1>3. ASSUME how = "complete" PROVE analysis' = Analyze(works, answers)'
  <2>1. analysis = Analyze(works, answers)
    BY <1>3
  <2> QED BY <1>2, <2>1 DEF Analyze
<1> QED BY <1>1, <1>2, <1>3, RecoveriesAre DEF ReconInv

\* Evidence beyond the recording ends the search before the first round,
LEMMA InconclusiveKeeps == ASSUME ReconInv, Inconclusive PROVE ReconInv'
<1>1. works = <<>>
  <2> SUFFICES ASSUME works # <<>> PROVE FALSE
    OBVIOUS
  <2>1. speech \in SUBSET Grid(duration)
    BY DEF ReconInv
  <2>2. PICK i \in speech : i.end > duration
    BY DEF Inconclusive
  <2>3. duration \in Nat
    BY ReconConstants DEF ReconInv
  <2>4. i \in Grid(duration)
    BY <2>1
  <2>5. PICK e, d : e = i.end /\ d = duration
    OBVIOUS
  <2>6. e \in Nat /\ d \in Nat /\ e <= d /\ e > d
    BY <2>2, <2>3, <2>4, <2>5, InGrid
  <2> QED BY <2>6, SMT
<1>2. 0 = Recoveries /\ LeaveWith("failed", 0)
  BY <1>1, RecoveriesType DEF Inconclusive
<1> QED BY <1>2, LeavingKeeps DEF Inconclusive

\* and so does the absence of speech.
LEMMA SpeechAbsentKeeps == ASSUME ReconInv, SpeechAbsent PROVE ReconInv'
<1>1. works = <<>>
  BY DEF SpeechAbsent, ReconInv
<1>2. 0 = Recoveries /\ LeaveWith("absent", 0)
  BY <1>1, RecoveriesType DEF SpeechAbsent
<1> QED BY <1>2, LeavingKeeps DEF SpeechAbsent

\* A cancellation reports nothing.
LEMMA InterruptKeeps == ASSUME ReconInv, Interrupt PROVE ReconInv'
  BY LeavingKeeps DEF Interrupt

\* Out of budget: what was asked for is reported,
LEMMA GiveUpKeeps == ASSUME ReconInv, GiveUp PROVE ReconInv'
<1>1. Recoveries \in Nat /\ LeaveWith("incomplete", Recoveries)
  BY RecoveriesType DEF GiveUp
<1> QED BY <1>1, LeavingKeeps DEF GiveUp

\* as it is where nothing is open any more.
LEMMA CompleteKeeps == ASSUME ReconInv, Complete PROVE ReconInv'
<1>1. Recoveries \in Nat /\ LeaveWith("complete", Recoveries)
  BY RecoveriesType DEF Complete
<1>2. analysis = Analyze(works, answers) /\ works # <<>> /\ analysis.gaps \cup analysis.conflicts = {}
  BY DEF Complete, ReconInv
<1> QED BY <1>1, <1>2, LeavingKeeps DEF Complete

\* What holds of the analysis that follows a round.
LEMMA AnalysisKeeps ==
    ASSUME ReconInv, UNCHANGED <<duration, speech>>, speech \in SUBSET Grid(duration),
           HeardIn(duration, works', answers'),
           analysis' = Analyze(works', answers')
    PROVE  /\ (analysis = Analyze(works, answers))'
           /\ (analysis.gaps \cup analysis.conflicts \in SUBSET Grid(duration))'
<1>1. duration \in Nat /\ Tolerance \in Nat
  BY ReconConstants DEF ReconInv
<1>2. PICK ws, as, d : ws = works' /\ as = answers' /\ d = duration
  OBVIOUS
<1>3. HeardIn(d, ws, as) /\ speech \in SUBSET Grid(d) /\ d \in Nat
  BY <1>1, <1>2
<1>4. Analyze(ws, as).gaps \in SUBSET Grid(d) /\ Analyze(ws, as).conflicts \in SUBSET Grid(d)
  BY <1>1, <1>3, AnalysisFacts
<1>5. analysis' = Analyze(ws, as)
  BY <1>2
<1>6. (analysis = Analyze(works, answers))'
  BY DEF Analyze
<1>7. analysis'.gaps \cup analysis'.conflicts \in SUBSET Grid(d)
  BY <1>4, <1>5
<1> QED BY <1>2, <1>6, <1>7

\* The first round asks for no recovery.
LEMMA FirstRound ==
    ASSUME ReconInv, works = <<>>, works' = works \o PrimaryWork
    PROVE  RecoveryNumbers(works') = {} /\ Cardinality(RecoveryNumbers(works')) = 0
<1>1. /\ PrimaryWork \in Seq(WorksIn(duration))
      /\ \A n \in 1 .. Len(PrimaryWork) : PrimaryWork[n].kind = "primary"
  BY PrimaryFacts DEF ReconInv
<1>2. works \in Seq(WorksIn(duration)) /\ RecoveryNumbers(works) = {}
  BY DEF ReconInv, HeardIn
<1>3. \A n \in 1 .. Len(PrimaryWork) : PrimaryWork[n].kind # "recovery"
  BY <1>1
<1>4. RecoveryNumbers(works \o PrimaryWork) = RecoveryNumbers(works)
  BY <1>1, <1>2, <1>3, AskedAgain
<1> QED BY <1>2, <1>4, FS_EmptySet

\* A recovery asks within what is left.
LEMMA NextRound ==
    ASSUME ReconInv, ~Exhausted, works' = works \o RecoveryWorks
    PROVE  /\ Cardinality(RecoveryNumbers(works')) \in Nat /\ Cardinality(RecoveryNumbers(works')) <= MaxRequests
           /\ works' = <<>> => RecoveryNumbers(works') = {}
           /\ audio + RecoveryAudio \in Nat /\ audio + RecoveryAudio <= MaxAudio
<1>0. duration \in Nat /\ MaxRequests \in Nat /\ MaxAudio \in Nat
  BY ReconConstants DEF ReconInv
<1>1. /\ RecoveryWorks \in Seq(WorksIn(duration)) /\ Len(RecoveryWorks) = Cardinality(Targets)
      /\ Cardinality(Targets) \in Nat /\ RecoveryAudio \in Nat
      /\ \A n \in 1 .. Len(RecoveryWorks) : RecoveryWorks[n].kind = "recovery"
  BY <1>0, RecoveryFacts DEF ReconInv
<1>2. works \in Seq(WorksIn(duration))
  BY DEF ReconInv, HeardIn
<1>3. Cardinality(RecoveryNumbers(works \o RecoveryWorks)) = Cardinality(RecoveryNumbers(works)) + Len(RecoveryWorks)
  BY <1>1, <1>2, AskedAgain
<1>4. ~(Recoveries + Cardinality(Targets) > MaxRequests) /\ ~(audio + RecoveryAudio > MaxAudio)
  BY DEF Exhausted
<1>5. PICK p, q, a, r : p = Recoveries /\ q = Cardinality(Targets) /\ a = audio /\ r = RecoveryAudio
  OBVIOUS
<1>6. p \in Nat /\ q \in Nat /\ a \in Nat /\ r \in Nat
  BY <1>1, <1>5, RecoveriesType DEF ReconInv
<1>7. p + q \in Nat /\ p + q <= MaxRequests /\ a + r \in Nat /\ a + r <= MaxAudio
  BY <1>0, <1>4, <1>5, <1>6, SMT
<1>8. Cardinality(RecoveryNumbers(works')) = p + q
  BY <1>1, <1>3, <1>5, RecoveriesAre
<1>9. works' = <<>> => RecoveryNumbers(works') = {}
  BY DEF RecoveryNumbers
<1> QED BY <1>5, <1>7, <1>8, <1>9

\* The first round.
LEMMA PrimaryKeeps == ASSUME ReconInv, Primary PROVE ReconInv'
<1>1. /\ verdict = "open" /\ speech # {} /\ works = <<>> /\ \A i \in speech : i.end <= duration
      /\ Observed(PrimaryWork) /\ UNCHANGED <<duration, speech, rounds, audio>>
      /\ IF OutputInvalid(works', answers')
         THEN LeaveWith("failed", 0) /\ UNCHANGED analysis
         ELSE analysis' = Analyze(works', answers') /\ UNCHANGED <<verdict, reported>>
  BY DEF Primary
<1>2. duration \in Nat /\ speech \in SUBSET Grid(duration) /\ PrimaryWork \in Seq(WorksIn(duration))
  BY <1>1, ReconConstants, PrimaryFacts, SpeechInside DEF ReconInv
<1>3. works' = works \o PrimaryWork /\ HeardIn(duration, works', answers') /\ Len(answers') = Len(works')
  BY <1>1, <1>2, ObservedFacts DEF ReconInv
<1>4. RecoveryNumbers(works') = {} /\ Cardinality(RecoveryNumbers(works')) = 0
  BY <1>1, <1>3, FirstRound
<1>5. MaxRequests \in Nat
  BY ReconConstants
<1>6. CASE OutputInvalid(works', answers')
  <2>1. verdict' = "failed" /\ reported' = 0 /\ analysis' = analysis
    BY <1>1, <1>6 DEF LeaveWith
  <2> QED BY <1>1, <1>2, <1>3, <1>4, <1>5, <2>1 DEF ReconInv
<1>7. CASE ~OutputInvalid(works', answers')
  <2>1. verdict' = "open" /\ reported' = reported /\ analysis' = Analyze(works', answers')
    BY <1>1, <1>7
  <2>2. /\ (analysis = Analyze(works, answers))'
        /\ (analysis.gaps \cup analysis.conflicts \in SUBSET Grid(duration))'
    BY <1>1, <1>2, <1>3, <2>1, AnalysisKeeps
  <2> QED BY <1>1, <1>2, <1>3, <1>4, <1>5, <2>1, <2>2 DEF ReconInv
<1> QED BY <1>6, <1>7

\* A recovery.
LEMMA RecoverKeeps == ASSUME ReconInv, Recover PROVE ReconInv'
<1>1. /\ verdict = "open" /\ works # <<>> /\ ~Exhausted /\ Observed(RecoveryWorks)
      /\ rounds' = Append(rounds, Targets) /\ audio' = audio + RecoveryAudio
      /\ UNCHANGED <<duration, speech>>
  BY DEF Recover, Open
<1>2. /\ duration \in Nat /\ speech # {} /\ speech \in SUBSET Grid(duration)
      /\ analysis.gaps \cup analysis.conflicts \in SUBSET Grid(duration)
  BY <1>1, ReconConstants DEF ReconInv
<1>3. RecoveryWorks \in Seq(WorksIn(duration)) /\ Targets \in SUBSET Grid(duration)
  BY <1>2, RecoveryFacts, TargetsType
<1>4. works' = works \o RecoveryWorks /\ HeardIn(duration, works', answers') /\ Len(answers') = Len(works')
  BY <1>1, <1>2, <1>3, ObservedFacts DEF ReconInv
<1>5. /\ Cardinality(RecoveryNumbers(works')) \in Nat /\ Cardinality(RecoveryNumbers(works')) <= MaxRequests
      /\ works' = <<>> => RecoveryNumbers(works') = {}
      /\ audio' \in Nat /\ audio' <= MaxAudio
  BY <1>1, <1>4, NextRound
<1>6. rounds' \in Seq(SUBSET Grid(duration)) /\ \A t \in Nat : Cardinality(AskedAt(rounds', t)) <= MaxRounds
  <2>1. PICK d, rs, T : d = duration /\ rs = rounds /\ T = Targets
    OBVIOUS
  <2>2. rs \in Seq(SUBSET Grid(d)) /\ T \in SUBSET Grid(d) /\ MaxRounds \in Nat \ {0} /\ d \in Nat
    BY <1>2, <1>3, <2>1, ReconConstants DEF ReconInv
  <2>3. \A i \in T : ~(Cardinality({n \in DOMAIN rs : \E old \in rs[n] : Overlap(old, i) > 0}) >= MaxRounds)
    BY <1>1, <2>1 DEF Exhausted
  <2>4. \A t \in Nat : Cardinality(AskedAt(rs, t)) <= MaxRounds
    BY <2>1 DEF ReconInv
  <2>5. \A t \in Nat : Cardinality(AskedAt(Append(rs, T), t)) <= MaxRounds
    BY <2>2, <2>3, <2>4, RoundsBounded
  <2>6. Append(rs, T) \in Seq(SUBSET Grid(d))
    BY <2>2
  <2> QED BY <1>1, <2>1, <2>5, <2>6
<1>7. Recoveries' = Cardinality(RecoveryNumbers(works'))
  BY DEF Recoveries, RecoveryNumbers
<1>8. CASE OutputInvalid(works', answers')
  <2>1. verdict' = "failed" /\ reported' = Recoveries' /\ analysis' = analysis
    BY <1>8 DEF Recover, LeaveWith
  <2> QED BY <1>1, <1>2, <1>4, <1>5, <1>6, <1>7, <2>1 DEF ReconInv
<1>9. CASE ~OutputInvalid(works', answers')
  <2>1. /\ analysis' = Analyze(works', answers')
        /\ \/ verdict' = "open" /\ reported' = reported
           \/ verdict' = "incomplete" /\ reported' = Recoveries'
    <3>1. /\ analysis' = Analyze(works', answers')
          /\ IF MadeProgress(analysis, analysis') THEN UNCHANGED <<verdict, reported>>
             ELSE LeaveWith("incomplete", Recoveries')
      BY <1>9 DEF Recover
    <3>2. CASE MadeProgress(analysis, analysis')
      BY <1>1, <3>1, <3>2
    <3>3. CASE ~MadeProgress(analysis, analysis')
      BY <3>1, <3>3 DEF LeaveWith
    <3> QED BY <3>1, <3>2, <3>3
  <2>2. /\ (analysis = Analyze(works, answers))'
        /\ (analysis.gaps \cup analysis.conflicts \in SUBSET Grid(duration))'
    BY <1>1, <1>2, <1>4, <2>1, AnalysisKeeps
  <2> QED BY <1>1, <1>2, <1>4, <1>5, <1>6, <1>7, <2>1, <2>2 DEF ReconInv
<1> QED BY <1>8, <1>9

\* A round that the adapter fails in.
LEMMA RoundFailsKeeps == ASSUME ReconInv, RoundFails PROVE ReconInv'
<1>1. /\ verdict = "open" /\ speech # {} /\ \A i \in speech : i.end <= duration
      /\ works' = works \o (IF works = <<>> THEN PrimaryWork ELSE RecoveryWorks)
      /\ verdict' = "failed" /\ reported' = Recoveries'
      /\ UNCHANGED <<duration, speech, answers, analysis, rounds, audio>>
      /\ works = <<>> \/ ~Exhausted
  BY DEF RoundFails, LeaveWith
<1>2. duration \in Nat /\ speech \in SUBSET Grid(duration)
  BY <1>1, ReconConstants, SpeechInside DEF ReconInv
<1>3. ASSUME NEW new \in Seq(WorksIn(duration)), works' = works \o new PROVE HeardIn(duration, works', answers)
  BY <1>1, <1>2, <1>3, HeardLonger DEF ReconInv
<1>4. Recoveries' = Cardinality(RecoveryNumbers(works'))
  BY DEF Recoveries, RecoveryNumbers
<1>5. CASE works = <<>>
  <2>1. works' = works \o PrimaryWork /\ PrimaryWork \in Seq(WorksIn(duration))
    BY <1>1, <1>5, PrimaryFacts DEF ReconInv
  <2>2. RecoveryNumbers(works') = {} /\ Cardinality(RecoveryNumbers(works')) = 0
    BY <1>5, <2>1, FirstRound
  <2>3. HeardIn(duration, works', answers)
    BY <1>3, <2>1
  <2>4. MaxRequests \in Nat
    BY ReconConstants
  <2> QED BY <1>1, <1>2, <1>4, <2>2, <2>3, <2>4 DEF ReconInv
<1>6. CASE works # <<>>
  <2>1. works' = works \o RecoveryWorks /\ RecoveryWorks \in Seq(WorksIn(duration))
    BY <1>1, <1>2, <1>6, RecoveryFacts DEF ReconInv
  <2>2. /\ Cardinality(RecoveryNumbers(works')) \in Nat /\ Cardinality(RecoveryNumbers(works')) <= MaxRequests
        /\ works' = <<>> => RecoveryNumbers(works') = {}
    BY <1>1, <1>6, <2>1, NextRound
  <2>3. HeardIn(duration, works', answers)
    BY <1>3, <2>1
  <2> QED BY <1>1, <1>2, <1>4, <2>2, <2>3 DEF ReconInv
<1> QED BY <1>5, <1>6

\* Every step keeps the invariant.
LEMMA ReconKeeps == ReconInv /\ [ReconNext]_reconVars => ReconInv'
<1> SUFFICES ASSUME ReconInv, [ReconNext]_reconVars PROVE ReconInv'
  OBVIOUS
<1>1. CASE UNCHANGED reconVars
  BY <1>1 DEF reconVars, ReconInv, Analyze
<1> QED BY <1>1, InconclusiveKeeps, SpeechAbsentKeeps, InterruptKeeps, PrimaryKeeps, GiveUpKeeps, RecoverKeeps,
           RoundFailsKeeps, CompleteKeeps DEF ReconNext

\* The search for a transcript keeps to its types: works, answers and rounds of
\* this recording, gaps and conflicts that are intervals (complete_transcription).
THEOREM RecognitionTypeCorrect == ReconSpec => []ReconTypeOK
<1>1. ASSUME ReconInv PROVE ReconTypeOK
  <2>1. \A d : Grid(d) \in SUBSET Intervals
    BY DEF Grid
  <2>2. works \in Seq([kind : {"primary", "recovery"}, core : Intervals, request : Intervals])
    <3>1. PICK W, X : W = WorksIn(duration) /\ X = [kind : {"primary", "recovery"}, core : Intervals, request : Intervals]
      OBVIOUS
    <3>2. \A w \in W : w \in X
      BY <2>1, <3>1 DEF WorksIn
    <3>3. works \in Seq(W)
      BY <1>1, <3>1 DEF ReconInv, HeardIn
    <3>4. works \in Seq(X)
      BY <3>2, <3>3
    <3> QED BY <3>1, <3>4
  <2>3. rounds \in Seq(SUBSET Intervals)
    <3>1. PICK W, X : W = SUBSET Grid(duration) /\ X = SUBSET Intervals
      OBVIOUS
    <3>2. \A w \in W : w \in X
      BY <2>1, <3>1
    <3>3. rounds \in Seq(W)
      BY <1>1, <3>1 DEF ReconInv
    <3>4. rounds \in Seq(X)
      BY <3>2, <3>3
    <3> QED BY <3>1, <3>4
  <2>4. analysis.gaps \cup analysis.conflicts \subseteq Intervals
    BY <1>1, <2>1 DEF ReconInv
  <2> QED BY <1>1, <2>2, <2>3, <2>4 DEF ReconInv, ReconTypeOK, HeardIn
<1> QED BY <1>1, ReconInitially, ReconKeeps, PTL DEF ReconSpec

\* Whatever the adapter answers, a transcript that complete_transcription calls
\* complete covers all measured speech, repeats nothing and holds nothing an
\* outvoted observation said; and every search stays within its requests, its
\* audio and its rounds for each moment, and reports the requests it made.
THEOREM TranscriptIsSound == ReconSpec => []TranscriptSound
<1>1. ASSUME ReconInv PROVE TranscriptSound
  <2>1. duration \in Nat /\ Tolerance \in Nat
    BY <1>1, ReconConstants DEF ReconInv
  <2>2. RecoveryBounded
    <3>1. ASSUME NEW t \in 0 .. duration - 1
          PROVE  Cardinality({n \in DOMAIN rounds : \E i \in rounds[n] : i.start <= t /\ t < i.end}) <= MaxRounds
      <4>1. t \in Nat
        BY <2>1, SMT
      <4> QED BY <1>1, <4>1 DEF ReconInv, AskedAt
    <3>2. Recoveries <= MaxRequests /\ (verdict \notin {"open", "interrupted"} => reported = Recoveries)
      BY <1>1, RecoveriesAre DEF ReconInv
    <3> QED BY <1>1, <3>1, <3>2 DEF RecoveryBounded, ReconInv
  <2>3. ASSUME verdict = "complete" PROVE SpeechCovered /\ Disjoint(Accepted) /\ DisputesOutvoted
    <3>1. /\ HeardIn(duration, works, answers) /\ speech \in SUBSET Grid(duration)
          /\ analysis = Analyze(works, answers) /\ analysis.gaps = {}
      BY <1>1, <2>3 DEF ReconInv
    <3> QED BY <2>1, <3>1, AnalysisIsSound
  <2> QED BY <2>2, <2>3 DEF TranscriptSound
<1> QED BY <1>1, ReconInitially, ReconKeeps, PTL DEF ReconSpec

-----------------------------------------------------------------------------
(* The documents of a delivery: lists                                        *)

\* An interval of numbers is listed as it counts.
LEMMA ListedInterval ==
    ASSUME NEW a \in Nat, NEW n \in Nat
    PROVE  Ascending(a + 1 .. a + n) = [k \in 1 .. n |-> a + k]
<1> DEFINE S == a + 1 .. a + n
<1>1. Cardinality(S) = n
  BY FS_Interval, SMT
<1>2. ASSUME NEW i \in S PROVE Cardinality({j \in S : j < i}) = i - a - 1
  <2>1. i \in Nat /\ a < i
    BY SMT
  <2>2. {j \in S : j < i} = a + 1 .. i - 1
    BY SMT
  <2>3. a + 1 \in Int /\ i - 1 \in Int /\ (IF a + 1 > i - 1 THEN 0 ELSE (i - 1) - (a + 1) + 1) = i - a - 1
    BY <2>1, SMT
  <2> QED BY <2>2, <2>3, FS_Interval
<1>3. ASSUME NEW k \in 1 .. n PROVE (CHOOSE i \in S : Cardinality({j \in S : j < i}) = k - 1) = a + k
  <2>1. a + k \in S /\ (a + k) - a - 1 = k - 1 /\ \A i \in S : i - a - 1 = k - 1 => i = a + k
    BY SMT
  <2> HIDE DEF S
  <2>2. \A i \in S : Cardinality({j \in S : j < i}) = k - 1 => i = a + k
    BY <1>2, <2>1
  <2>3. Cardinality({j \in S : j < a + k}) = k - 1
    BY <1>2, <2>1
  <2> QED BY <2>1, <2>2, <2>3
<1>4. Listed(S, <) = [k \in 1 .. n |-> CHOOSE i \in S : Cardinality({j \in S : j < i}) = k - 1]
  BY <1>1 DEF Listed
<1> HIDE DEF S
<1>5. [k \in 1 .. n |-> CHOOSE i \in S : Cardinality({j \in S : j < i}) = k - 1] = [k \in 1 .. n |-> a + k]
  BY <1>3
<1> QED BY <1>4, <1>5 DEF S, Ascending

\* As many as places, if no two places show the same.
LEMMA CountedOnce ==
    ASSUME NEW n \in Nat, NEW s, DOMAIN s = 1 .. n, NoneTwice(s)
    PROVE  IsFiniteSet(Range(s)) /\ Cardinality(Range(s)) = n
<1>1. Range(s) = {s[k] : k \in 1 .. n}
  BY DEF Range
<1> DEFINE f == [k \in 1 .. n |-> s[k]]
<1>2. f \in Bijection(1 .. n, Range(s))
  <2>1. f \in [1 .. n -> Range(s)]
    BY <1>1
  <2>2. \A i, j \in 1 .. n : f[i] = f[j] => i = j
    BY DEF NoneTwice
  <2>3. \A t \in Range(s) : \E k \in 1 .. n : f[k] = t
    BY <1>1
  <2> HIDE DEF f
  <2>4. f \in Injection(1 .. n, Range(s))
    BY <2>1, <2>2, Zenon DEF Injection, IsInjective
  <2>5. f \in Surjection(1 .. n, Range(s))
    BY <2>1, <2>3, Zenon DEF Surjection
  <2> QED BY <2>4, <2>5 DEF Bijection
<1>3. ExistsBijection(1 .. n, Range(s))
  BY <1>2 DEF ExistsBijection
<1>4. IsFiniteSet(1 .. n) /\ Cardinality(1 .. n) = n
  BY FS_Interval, SMT
<1> QED BY <1>3, <1>4, FS_Bijection

-----------------------------------------------------------------------------
(* The documents of a delivery: sequences of records                         *)

\* The documents are sequences, and what is published of a plan is a part of it.
LEMMA SequentialFacts ==
    ASSUME NEW s, Sequential(s)
    PROVE  /\ Len(s) \in Nat /\ DOMAIN s = 1 .. Len(s) /\ s = [k \in 1 .. Len(s) |-> s[k]]
           /\ Range(s) = {s[k] : k \in 1 .. Len(s)}
  BY DEF Sequential, Range

LEMMA PickedFacts ==
    ASSUME NEW s, Sequential(s), NEW P \in SUBSET (DOMAIN s),
           NEW L, L = Ascending(P), NEW n, n = Cardinality(P)
    PROVE  /\ n \in Nat /\ DOMAIN L = 1 .. n /\ Picked(s, P) = [k \in 1 .. n |-> s[L[k]]]
           /\ \A k \in 1 .. n : L[k] \in P
           /\ \A i \in P : \E k \in 1 .. n : L[k] = i
           /\ \A k, l \in 1 .. n : k < l => L[k] < L[l]
           /\ \A k, l \in 1 .. n : L[k] = L[l] => k = l
           /\ Len(Picked(s, P)) = n /\ DOMAIN Picked(s, P) = 1 .. n
           /\ Range(Picked(s, P)) = {s[i] : i \in P}
           /\ Sequential(Picked(s, P))
<1> DEFINE q == Picked(s, P)
<1>1. P \in SUBSET Nat /\ IsFiniteSet(P)
  <2>1. P \subseteq 1 .. Len(s) /\ Len(s) \in Nat
    BY SequentialFacts
  <2>2. IsFiniteSet(1 .. Len(s))
    BY <2>1, FS_Interval
  <2>3. IsFiniteSet(P)
    BY <2>1, <2>2, FS_Subset
  <2> QED BY <2>1, <2>3, SMT
<1>2. /\ n \in Nat /\ DOMAIN L = 1 .. n
      /\ \A k \in 1 .. n : L[k] \in P
      /\ \A i \in P : \E k \in 1 .. n : L[k] = i
      /\ \A k, l \in 1 .. n : k < l => L[k] < L[l]
  BY <1>1, ListedInOrder
<1>3. \A k, l \in 1 .. n : L[k] = L[l] => k = l
  <2>1. ASSUME NEW k \in 1 .. n, NEW l \in 1 .. n, L[k] = L[l] PROVE k = l
    <3>1. L[k] \in Nat /\ L[l] \in Nat
      BY <1>1, <1>2
    <3>2. ~(k < l) /\ ~(l < k)
      BY <1>2, <2>1, <3>1, SMT
    <3> QED BY <3>2, <1>2, SMT
  <2> QED BY <2>1
<1>4. q = [k \in 1 .. n |-> s[L[k]]]
  BY <1>2 DEF Picked
<1> HIDE DEF q
<1>5. q \in Seq({s[i] : i \in P}) /\ Len(q) = n /\ DOMAIN q = 1 .. n
  <2>1. \A k \in 1 .. n : s[L[k]] \in {s[i] : i \in P}
    BY <1>2
  <2>2. q \in [1 .. n -> {s[i] : i \in P}]
    BY <2>1, <1>4
  <2> QED BY <2>2, <1>2
<1>6. Range(q) = {s[i] : i \in P}
  <2>1. Range(q) = {q[k] : k \in 1 .. n}
    BY <1>5 DEF Range
  <2>2. \A k \in 1 .. n : q[k] = s[L[k]]
    BY <1>4
  <2>3. \A i \in P : \E k \in 1 .. n : q[k] = s[i]
    <3>1. ASSUME NEW i \in P PROVE \E k \in 1 .. n : q[k] = s[i]
      <4>1. PICK k \in 1 .. n : L[k] = i
        BY <1>2
      <4> QED BY <4>1, <2>2
    <3> QED BY <3>1
  <2> QED BY <1>2, <2>1, <2>2, <2>3
<1>7. Sequential(q)
  BY <1>5, <1>6 DEF Sequential
<1> QED BY <1>2, <1>3, <1>4, <1>5, <1>6, <1>7 DEF q

\* The candidates with a video, and where they stand.
VideoPlaces(s) == {i \in DOMAIN s : s[i].video # NoVideo}

LEMMA PublishedFacts ==
    ASSUME NEW s, Sequential(s), NEW q, q = Published(s), NEW n, n = Len(Published(s)),
           NEW L, L = Ascending(VideoPlaces(s))
    PROVE  /\ Sequential(q) /\ n \in Nat /\ DOMAIN q = 1 .. n /\ n = Cardinality(VideoPlaces(s))
           /\ \A k \in 1 .. n : L[k] \in VideoPlaces(s) /\ q[k] = s[L[k]] /\ q[k].video # NoVideo
           /\ \A i \in VideoPlaces(s) : \E k \in 1 .. n : L[k] = i /\ q[k] = s[i]
           /\ \A k, l \in 1 .. n : L[k] = L[l] => k = l
           /\ Range(q) = {s[i] : i \in VideoPlaces(s)}
           /\ \A c \in Range(q) : c \in Range(s) /\ c.video # NoVideo
           /\ \A c \in Range(s) : c.video # NoVideo => c \in Range(q)
<1>0. VideoPlaces(s) \in SUBSET (DOMAIN s) /\ \A i \in DOMAIN s : i \in VideoPlaces(s) <=> s[i].video # NoVideo
  BY DEF VideoPlaces
<1>1. q = Picked(s, VideoPlaces(s))
  BY DEF Published, VideoPlaces
<1>2. /\ n \in Nat /\ n = Cardinality(VideoPlaces(s)) /\ DOMAIN q = 1 .. n
      /\ Sequential(q)
      /\ \A k \in 1 .. n : L[k] \in VideoPlaces(s)
      /\ \A i \in VideoPlaces(s) : \E k \in 1 .. n : L[k] = i
      /\ \A k, l \in 1 .. n : L[k] = L[l] => k = l
      /\ Range(q) = {s[i] : i \in VideoPlaces(s)}
  <2>1. PICK c : c = Cardinality(VideoPlaces(s))
    OBVIOUS
  <2>2. Len(q) = c
    BY <1>0, <1>1, <2>1, PickedFacts
  <2>3. n = Cardinality(VideoPlaces(s))
    BY <2>1, <2>2, <1>1
  <2> QED BY <1>0, <1>1, <2>3, PickedFacts
<1>3. \A k \in 1 .. n : q[k] = s[L[k]]
  <2>1. n = Cardinality(VideoPlaces(s))
    BY <1>2
  <2>2. q = [k \in 1 .. n |-> s[L[k]]]
    BY <1>0, <1>1, <2>1, PickedFacts
  <2> QED BY <2>2, Zenon
<1>4. \A k \in 1 .. n : q[k].video # NoVideo
  BY <1>0, <1>2, <1>3
<1>5. \A i \in VideoPlaces(s) : \E k \in 1 .. n : L[k] = i /\ q[k] = s[i]
  BY <1>2, <1>3
<1>6. Range(s) = {s[i] : i \in DOMAIN s}
  BY DEF Range
<1>7. /\ \A c \in Range(q) : c \in Range(s) /\ c.video # NoVideo
      /\ \A c \in Range(s) : c.video # NoVideo => c \in Range(q)
  BY <1>0, <1>2, <1>6
<1> QED BY <1>2, <1>3, <1>4, <1>5, <1>7

-----------------------------------------------------------------------------
(* The documents of a delivery: the order of the candidates                  *)

\* A candidate as a plan document can hold it.
Comparable(c) == c.id \in Nat /\ c.video \in Nat /\ c.final \in [start : Int, end : Int]

\* Of two candidates with different identities one is the sooner.
LEMMA SoonerIsLinear ==
    ASSUME NEW S, \A c \in S : Comparable(c)
    PROVE  /\ \A a \in S : ~Sooner(a, a)
           /\ \A a, b \in S : Sooner(a, b) => ~Sooner(b, a)
           /\ \A a, b \in S : a.id # b.id => Sooner(a, b) \/ Sooner(b, a)
           /\ \A a, b, c \in S : Sooner(a, b) /\ Sooner(b, c) => Sooner(a, c)
<1>1. \A a \in S : a.id \in Nat /\ a.final.start \in Int /\ a.final.end \in Int
  BY DEF Comparable
<1>2. \A a, b \in S : a.final = b.final <=> a.final.start = b.final.start /\ a.final.end = b.final.end
  BY DEF Comparable
<1>3. \A a, b \in S : Sooner(a, b) <=> \/ a.final.start < b.final.start
                                       \/ a.final.start = b.final.start /\ a.final.end < b.final.end
                                       \/ a.final.start = b.final.start /\ a.final.end = b.final.end /\ a.id < b.id
  BY <1>2 DEF Sooner, Earlier
<1> QED BY <1>1, <1>3, SMT

\* The candidates in the order of the material are the candidates.
LEMMA OrderedFacts ==
    ASSUME NEW s, Sequential(s), \A c \in Range(s) : Comparable(c), NoneTwice(Field(s, "id"))
    PROVE  /\ Sequential(Ordered(s)) /\ Len(Ordered(s)) = Len(s) /\ Range(Ordered(s)) = Range(s)
           /\ \A k, l \in 1 .. Len(s) : k < l => Sooner(Ordered(s)[k], Ordered(s)[l])
<1> DEFINE n == Len(s)
           S == DOMAIN s
           Leads(i, j) == Sooner(s[i], s[j]) \/ (~Sooner(s[j], s[i]) /\ i < j)
           R == {p \in S \X S : Sooner(s[p[1]], s[p[2]])}
           L == Listed(S, Leads)
           o == Ordered(s)
<1>1. n \in Nat /\ S = 1 .. n /\ \A i \in S : s[i] \in Range(s)
  BY SequentialFacts DEF Range
<1>2. \A i, j \in S : s[i].id = s[j].id => i = j
  BY DEF NoneTwice, Field
<1>3. /\ \A i \in S : ~Sooner(s[i], s[i])
      /\ \A i, j \in S : Sooner(s[i], s[j]) => ~Sooner(s[j], s[i])
      /\ \A i, j \in S : i # j => Sooner(s[i], s[j]) \/ Sooner(s[j], s[i])
      /\ \A i, j, k \in S : Sooner(s[i], s[j]) /\ Sooner(s[j], s[k]) => Sooner(s[i], s[k])
  BY <1>1, <1>2, SoonerIsLinear
<1>4. \A i, j \in S : Leads(i, j) <=> Sooner(s[i], s[j])
  <2>1. \A i, j \in S : i < j => i # j
    BY <1>1, SMT
  <2> QED BY <1>3, <2>1
<1>5. \A i, j \in S : <<i, j>> \in R <=> Sooner(s[i], s[j])
  OBVIOUS
<1>6. IsFiniteSet(S) /\ Cardinality(S) = n
  BY <1>1, FS_Interval, SMT
<1>7. L = [k \in 1 .. n |-> CHOOSE i \in S : Cardinality({j \in S : Leads(j, i)}) = k - 1]
  BY <1>6 DEF Listed
<1>8. o = [k \in DOMAIN L |-> s[L[k]]]
  BY DEF Ordered
<1> HIDE DEF R, L, o, n, Leads
<1>9. ASSUME NEW i \in S PROVE LowerIn(S, R, i) = {j \in S : Leads(j, i)}
  BY <1>4, <1>5 DEF LowerIn
<1>10. ASSUME NEW k \in 1 .. n PROVE L[k] = PickAt(S, R, k)
  <2>1. L[k] = CHOOSE i \in S : Cardinality({j \in S : Leads(j, i)}) = k - 1
    BY <1>7
  <2>2. (CHOOSE i \in S : Cardinality(LowerIn(S, R, i)) = k - 1)
                        = CHOOSE i \in S : Cardinality({j \in S : Leads(j, i)}) = k - 1
    BY <1>9
  <2> QED BY <2>1, <2>2 DEF PickAt
<1>11. Lists(L, S, R)
  <2>1. /\ \A i \in S : <<i, i>> \notin R
        /\ \A i, j \in S : i # j => <<i, j>> \in R \/ <<j, i>> \in R
        /\ \A i, j, k \in S : <<i, j>> \in R /\ <<j, k>> \in R => <<i, k>> \in R
    BY <1>3, <1>5
  <2> QED BY <1>6, <1>10, <2>1, Enumerated
<1>12. /\ \A k \in 1 .. n : L[k] \in S
       /\ \A i \in S : \E k \in 1 .. n : L[k] = i
       /\ \A k, l \in 1 .. n : k < l => Sooner(s[L[k]], s[L[l]])
  <2>1. \A k \in 1 .. n : L[k] \in S
    BY <1>6, <1>11 DEF Lists
  <2> QED BY <1>5, <1>6, <1>11, <2>1 DEF Lists
<1>13. o = [k \in 1 .. n |-> s[L[k]]]
  BY <1>7, <1>8
<1>14. o \in [1 .. n -> Range(s)]
  BY <1>1, <1>12, <1>13
<1>15. o \in Seq(Range(s)) /\ Len(o) = n /\ DOMAIN o = 1 .. n
  BY <1>1, <1>14
<1>16. \A k \in 1 .. n : o[k] = s[L[k]]
  BY <1>13
<1>17. Range(o) = Range(s)
  <2>1. Range(o) = {o[k] : k \in 1 .. n} /\ Range(s) = {s[i] : i \in S}
    BY <1>15 DEF Range
  <2>2. ASSUME NEW i \in S PROVE \E k \in 1 .. n : o[k] = s[i]
    BY <1>12, <1>16
  <2> QED BY <1>12, <1>16, <2>1, <2>2
<1>18. \A k, l \in 1 .. n : k < l => Sooner(o[k], o[l])
  BY <1>12, <1>16
<1> QED BY <1>15, <1>17, <1>18 DEF o, n, Sequential

\* Two neighbours of one topic are in a run that goes as far as it can.
LEMMA RunAround ==
    ASSUME NEW s, Sequential(s), NEW i \in 1 .. Len(s) - 1, OneTopic(s, i, i + 1)
    PROVE  \E p \in LongestRuns(s) : p[1] <= i /\ i + 1 <= p[2]
<1> DEFINE n == Len(s)
           F == {f \in 1 .. i : OneTopic(s, f, i + 1)}
           f == Min(F)
           E == {l \in i + 1 .. n : OneTopic(s, f, l)}
           l == Max(E)
<1>1. n \in Nat /\ DOMAIN s = 1 .. n /\ i \in 1 .. i
  BY SequentialFacts, SMT
<1>2. f \in F /\ \A g \in F : f <= g
  <2>1. F \in SUBSET Nat /\ i \in F
    BY <1>1, SMT
  <2> HIDE DEF F
  <2> QED BY <2>1, MinOf
<1>3. f \in 1 .. i /\ OneTopic(s, f, i + 1)
  <2> HIDE DEF f
  <2> QED BY <1>2
<1>4. f > 1 => ~OneTopic(s, f - 1, i + 1)
  <2>1. f > 1 => f - 1 \in 1 .. i /\ ~(f <= f - 1)
    <3> HIDE DEF f
    <3> QED BY <1>3, SMT
  <2> HIDE DEF f
  <2> QED BY <1>2, <2>1
<1> HIDE DEF f
<1>5. l \in E /\ \A g \in E : l >= g
  <2>1. E \in SUBSET (0 .. n) /\ i + 1 \in E
    BY <1>1, <1>3, SMT
  <2> HIDE DEF E
  <2> QED BY <1>1, <2>1, MaxOf
<1>6. l \in i + 1 .. n /\ OneTopic(s, f, l)
  <2> HIDE DEF l
  <2> QED BY <1>5
<1>7. l < n => ~OneTopic(s, f, l + 1)
  <2>1. l < n => l + 1 \in i + 1 .. n /\ ~(l >= l + 1)
    <3> HIDE DEF l
    <3> QED BY <1>1, <1>6, SMT
  <2> HIDE DEF l
  <2> QED BY <1>5, <2>1
<1> HIDE DEF l, n
<1>8. f > 1 => ~OneTopic(s, f - 1, l)
  <2>1. \A g \in f - 1 .. i + 1 : g \in f - 1 .. l
    BY <1>1, <1>3, <1>6, SMT
  <2>2. OneTopic(s, f - 1, l) => OneTopic(s, f - 1, i + 1)
    BY <2>1 DEF OneTopic
  <2> QED BY <1>4, <2>2
<1>9. f \in 1 .. n /\ l \in 1 .. n /\ f < l /\ f <= i /\ i + 1 <= l
  BY <1>1, <1>3, <1>6, SMT
<1>10. <<f, l>> \in (DOMAIN s) \X (DOMAIN s) /\ <<f, l>>[1] = f /\ <<f, l>>[2] = l
  BY <1>1, <1>9
<1>11. <<f, l>> \in LongestRuns(s)
  BY <1>6, <1>7, <1>8, <1>9, <1>10 DEF LongestRuns, n
<1> QED BY <1>9, <1>10, <1>11

-----------------------------------------------------------------------------
(* The documents of a delivery: what is accepted                             *)

\* Every check of the verification holds.
AllHold(x) ==
    /\ ManifestSchema(x.manifest) /\ ManifestPaths(x.manifest)
    /\ TranscriptSchema(x.files.transcript) /\ PlanSchema(x.files.plan) /\ MetadataSchema(x.files.metadata)
    /\ RunIds(x) /\ Identities(x) /\ References(x) /\ ResultKind(x) /\ TreeEntries(x) /\ ListedContents(x)
    /\ HumanReport(x) /\ x.files.srt = Rendering(x.files.transcript)

LEMMA AnswerIs ==
    ASSUME NEW x
    PROVE  Answer(x) = "verified" <=> AllHold(x)
<1> DEFINE C == Checks(x)
           failed == {i \in DOMAIN C : ~C[i].holds}
<1>1. DOMAIN C = 1 .. 11
  BY DEF Checks
<1>2. \A i \in 1 .. 11 : C[i].reason # "verified"
  BY SMT DEF Checks
<1>3. /\ C[1].holds = ManifestSchema(x.manifest) /\ C[2].holds = ManifestPaths(x.manifest)
      /\ C[3].holds = (/\ TranscriptSchema(x.files.transcript)
                       /\ PlanSchema(x.files.plan) /\ MetadataSchema(x.files.metadata))
      /\ C[4].holds = RunIds(x) /\ C[5].holds = Identities(x) /\ C[6].holds = References(x)
      /\ C[7].holds = ResultKind(x) /\ C[8].holds = TreeEntries(x) /\ C[9].holds = ListedContents(x)
      /\ C[10].holds = HumanReport(x) /\ C[11].holds = (x.files.srt = Rendering(x.files.transcript))
  BY DEF Checks
<1>4. Answer(x) = IF failed = {} THEN "verified" ELSE C[Min(failed)].reason
  BY DEF Answer
<1> HIDE DEF C
<1>5. failed # {} => C[Min(failed)].reason # "verified"
  <2>1. failed \subseteq 1 .. 11 /\ failed \in SUBSET Nat
    BY <1>1, SMT
  <2> HIDE DEF failed
  <2>2. failed # {} => Min(failed) \in failed
    BY <2>1, MinOf
  <2> QED BY <1>2, <2>1, <2>2
<1>6. failed = {} <=> \A i \in 1 .. 11 : C[i].holds
  BY <1>1
<1>7. 1 .. 11 = {1, 2, 3, 4, 5, 6, 7, 8, 9, 10, 11}
  BY SMT
<1>8. (\A i \in 1 .. 11 : C[i].holds) <=> AllHold(x)
  BY <1>3, <1>7, Zenon DEF AllHold
<1> HIDE DEF failed
<1> QED BY <1>4, <1>5, <1>6, <1>8

\* The times of chunks that follow one another.
LEMMA ChunksInOrder ==
    ASSUME NEW s, Sequential(s), \A c \in Range(s) : c.start \in Int /\ c.end \in Int,
           \A i \in DOMAIN s : s[i].start <= s[i].end /\ (i > 1 => s[i - 1].end <= s[i].start)
    PROVE  \A i, j \in DOMAIN s : i < j => s[i].end <= s[j].start
<1> DEFINE n == Len(s)
<1>1. n \in Nat /\ DOMAIN s = 1 .. n /\ \A i \in 1 .. n : s[i].start \in Int /\ s[i].end \in Int
  BY SequentialFacts DEF Range
<1>2. ASSUME NEW i \in 1 .. n PROVE \A j \in i + 1 .. n : s[i].end <= s[j].start
  <2> DEFINE T == {k \in 0 .. n : k > i => \A j \in i + 1 .. k : s[i].end <= s[j].start}
  <2>1. 0 \in T
    BY <1>1, SMT
  <2>2. ASSUME NEW k \in 0 .. n - 1, k \in T PROVE k + 1 \in T
    <3>1. k + 1 \in 0 .. n /\ k \in Int /\ i \in Int
      BY <1>1, SMT
    <3>2. ASSUME k + 1 > i PROVE s[i].end <= s[k + 1].start
      <4>1. k + 1 \in 1 .. n /\ k + 1 > 1 /\ (k + 1) - 1 = k /\ k \in 1 .. n
        BY <1>1, <3>2, SMT
      <4>2. s[k].end <= s[k + 1].start /\ s[k].start <= s[k].end
        BY <1>1, <4>1
      <4>3. k = i \/ s[i].end <= s[k].start
        <5>1. k = i \/ (k \in i + 1 .. k /\ k > i)
          BY <3>1, <3>2, SMT
        <5> QED BY <2>2, <5>1
      <4>4. \A m \in {i, k, k + 1} : s[m].start \in Int /\ s[m].end \in Int
        BY <1>1, <4>1
      <4> QED BY <4>2, <4>3, <4>4, SMT
    <3>3. \A j \in i + 1 .. k + 1 : k + 1 > i /\ (j = k + 1 \/ (j \in i + 1 .. k /\ k > i))
      BY <3>1, SMT
    <3> QED BY <2>2, <3>1, <3>2, <3>3
  <2> HIDE DEF T
  <2>3. n \in T
    <3>1. 0 .. n \subseteq T
      BY <1>1, <2>1, <2>2, UpTo
    <3> QED BY <1>1, <3>1, SMT
  <2>4. \A j \in i + 1 .. n : n > i
    BY <1>1, SMT
  <2> QED BY <2>3, <2>4 DEF T
<1>3. \A i, j \in 1 .. n : i < j => j \in i + 1 .. n
  BY <1>1, SMT
<1> QED BY <1>1, <1>2, <1>3

LEMMA AcceptedCues ==
    ASSUME NEW x, AllHold(x), Readable(x.files)
    PROVE  \A i, j \in DOMAIN x.files.srt : i < j => x.files.srt[i].end <= x.files.srt[j].start
<1> DEFINE s == x.files.transcript.chunks
<1>1. Sequential(s) /\ \A c \in Range(s) : c.start \in Int /\ c.end \in Int
  BY DEF Readable
<1>2. \A i \in DOMAIN s : s[i].start < s[i].end /\ (IF i = 1 THEN 0 ELSE s[i - 1].end) <= s[i].start
  BY DEF AllHold, TranscriptSchema
<1>3. x.files.srt = [i \in DOMAIN s |-> Cue(s[i])]
  BY DEF AllHold, Rendering
<1> HIDE DEF s
<1>4. \A i \in DOMAIN s : s[i].start \in Int /\ s[i].end \in Int
  BY <1>1 DEF Range
<1>5. \A i \in DOMAIN s : s[i].start <= s[i].end /\ (i > 1 => s[i - 1].end <= s[i].start)
  <2>1. \A i \in DOMAIN s : i > 1 => i # 1
    BY <1>1, SequentialFacts, SMT
  <2> QED BY <1>2, <1>4, <2>1, SMT
<1>6. \A i, j \in DOMAIN s : i < j => s[i].end <= s[j].start
  BY <1>1, <1>5, ChunksInOrder
<1> QED BY <1>3, <1>6 DEF Cue

\* A candidate with a video is in the catalogue once, and is the only one it names there.
LEMMA AcceptedClips ==
    ASSUME NEW x, AllHold(x), Readable(x.files)
    PROVE  LET p == x.files.plan  c == x.files.metadata
           IN  /\ \A k \in Range(p.candidates) :
                    /\ \A id \in k.chunks : \E t \in Range(x.files.transcript.chunks) : t.id = id
                    /\ k.video \in x.files.clips \/ k.video = NoVideo
                    /\ k.video \in x.files.clips =>
                         \E v \in Range(c.videos) : v.id = k.video /\ v.start = k.final.start /\ v.end = k.final.end
               /\ Cardinality(x.files.clips) = Len(c.videos)
<1> DEFINE s == x.files.plan.candidates
           vs == x.files.metadata.videos
<1>1. Sequential(s) /\ Sequential(vs)
  BY DEF Readable
<1>2. NoneTwice(Field(s, "id")) /\ NoneTwice(Field(vs, "id")) /\ 0 \notin Range(Field(vs, "id"))
  BY DEF AllHold, Identities, Identified
<1>3. /\ \A k \in Range(s) : k.chunks \subseteq {t.id : t \in Range(x.files.transcript.chunks)}
      /\ \A v \in Range(vs) : \E c \in Range(s) : /\ c.id = v.source
                                                  /\ [start |-> v.start, end |-> v.end] = c.final /\ v.path = v.id
      /\ {<<k.id, k.video>> : k \in Range(Published(s))} = {<<v.source, v.id>> : v \in Range(vs)}
      /\ x.files.clips = {v.path : v \in Range(vs)}
  BY DEF AllHold, References, CandidateRefers, VideoRefers, TreeEntries
<1> HIDE DEF s, vs
<1>4. \A v \in Range(vs) : v.path = v.id
  BY <1>3
<1>5. \A i, j \in DOMAIN vs : vs[i].id = vs[j].id => i = j
  BY <1>2 DEF NoneTwice, Field
<1>6. \A v, w \in Range(vs) : v.id = w.id => v = w
  BY <1>5 DEF Range
<1>7. \A k, l \in Range(s) : k.id = l.id => k = l
  <2>1. \A i, j \in DOMAIN s : s[i].id = s[j].id => i = j
    BY <1>2 DEF NoneTwice, Field
  <2> QED BY <2>1 DEF Range
<1>8. \A v \in Range(vs) : v.id # NoVideo
  <2>1. \A i \in DOMAIN vs : Field(vs, "id")[i] = vs[i].id /\ i \in DOMAIN Field(vs, "id")
    BY DEF Field
  <2>2. \A i \in DOMAIN vs : vs[i].id \in Range(Field(vs, "id"))
    BY <2>1 DEF Range
  <2> QED BY <1>2, <2>2 DEF Range, NoVideo
<1>9. x.files.clips = {v.id : v \in Range(vs)}
  BY <1>3, <1>4
<1>10. ASSUME NEW k \in Range(s), k.video # NoVideo
       PROVE  \E v \in Range(vs) : v.source = k.id /\ v.id = k.video
  <2>1. k \in Range(Published(s))
    BY <1>1, <1>10, PublishedFacts
  <2>2. <<k.id, k.video>> \in {<<v.source, v.id>> : v \in Range(vs)}
    BY <1>3, <2>1
  <2> QED BY <2>2
<1>11. ASSUME NEW k \in Range(s), k.video \in x.files.clips
       PROVE  \E v \in Range(vs) : v.id = k.video /\ v.start = k.final.start /\ v.end = k.final.end
  <2>1. k.video # NoVideo
    BY <1>8, <1>9, <1>11
  <2>2. PICK v \in Range(vs) : v.source = k.id /\ v.id = k.video
    BY <1>10, <2>1
  <2>3. PICK c \in Range(s) : c.id = v.source /\ [start |-> v.start, end |-> v.end] = c.final
    BY <1>3
  <2>4. c = k
    BY <1>7, <2>2, <2>3
  <2>5. c.final.start = v.start /\ c.final.end = v.end
    BY <2>3
  <2> QED BY <2>2, <2>4, <2>5
<1>12. Cardinality(x.files.clips) = Len(vs)
  <2> DEFINE ids == Field(vs, "id")
  <2>1. Len(vs) \in Nat /\ DOMAIN vs = 1 .. Len(vs)
    BY <1>1, SequentialFacts
  <2>2. ids = [i \in DOMAIN vs |-> vs[i].id] /\ DOMAIN ids = 1 .. Len(vs)
    BY <2>1 DEF Field
  <2>3. Range(ids) = {v.id : v \in Range(vs)}
    BY <2>2 DEF Range
  <2> HIDE DEF ids
  <2>4. NoneTwice(ids)
    BY <1>2 DEF ids
  <2>5. Cardinality(Range(ids)) = Len(vs)
    BY <2>1, <2>2, <2>4, CountedOnce
  <2> QED BY <1>9, <2>3, <2>5
<1>13. \A k \in Range(s) : k.video \in x.files.clips \/ k.video = NoVideo
  BY <1>9, <1>10
<1>14. \A k \in Range(s) : \A id \in k.chunks : \E t \in Range(x.files.transcript.chunks) : t.id = id
  BY <1>3
<1> QED BY <1>11, <1>12, <1>13, <1>14 DEF s, vs

\* Neighbours of one topic are in one series.
LEMMA AcceptedSeries ==
    ASSUME NEW x, AllHold(x), Readable(x.files),
           NEW a \in Range(x.files.plan.candidates), NEW b \in Range(x.files.plan.candidates),
           NoVideo \notin {a.video, b.video}, a.topic = b.topic, Sooner(a, b),
           {k \in Range(x.files.plan.candidates) : Sooner(a, k) /\ Sooner(k, b)} = {}
    PROVE  \E s \in Range(x.files.metadata.series) : {a.video, b.video} \subseteq Range(s.members)
<1> DEFINE cs == x.files.plan.candidates
           ss == x.files.metadata.series
           o == Ordered(cs)
<1>1. Sequential(cs) /\ \A c \in Range(cs) : Comparable(c)
  BY DEF Readable, Comparable
<1>2. NoneTwice(Field(cs, "id"))
  BY DEF AllHold, Identities, Identified
<1>3. {[topic |-> s.topic, members |-> s.members] : s \in Range(ss)} = SameTopicRuns(o)
  BY DEF AllHold, References, SeriesExpected
<1>4. a \in Range(cs) /\ b \in Range(cs) /\ \A k \in Range(cs) : ~(Sooner(a, k) /\ Sooner(k, b))
  OBVIOUS
<1> HIDE DEF cs, ss, o
<1>5. /\ Sequential(o) /\ Range(o) = Range(cs) /\ DOMAIN o = 1 .. Len(o) /\ Len(o) \in Nat
      /\ \A k, l \in 1 .. Len(o) : k < l => Sooner(o[k], o[l])
  <2>1. Sequential(o) /\ Len(o) = Len(cs) /\ Range(o) = Range(cs)
    BY <1>1, <1>2, OrderedFacts DEF o
  <2>2. \A k, l \in 1 .. Len(cs) : k < l => Sooner(o[k], o[l])
    BY <1>1, <1>2, OrderedFacts DEF o
  <2> QED BY <2>1, <2>2, SequentialFacts
<1>6. \A k \in 1 .. Len(o) : o[k] \in Range(cs)
  BY <1>5 DEF Range
<1>7. PICK i \in 1 .. Len(o) : o[i] = a
  BY <1>4, <1>5 DEF Range
<1>8. PICK j \in 1 .. Len(o) : o[j] = b
  BY <1>4, <1>5 DEF Range
<1>9. ~Sooner(a, a) /\ ~Sooner(b, a)
  BY <1>1, <1>4, SoonerIsLinear
<1>10. i < j
  <2>1. ~(j < i) /\ i # j
    BY <1>5, <1>7, <1>8, <1>9
  <2> QED BY <2>1, SMT
<1>11. j = i + 1
  <2>1. i + 1 \in 1 .. Len(o) /\ i < i + 1 /\ (i + 1 = j \/ i + 1 < j)
    BY <1>5, <1>10, SMT
  <2>2. Sooner(a, o[i + 1]) /\ (i + 1 < j => Sooner(o[i + 1], b))
    BY <1>5, <1>7, <1>8, <2>1
  <2> QED BY <1>4, <1>6, <2>1, <2>2
<1>12. OneTopic(o, i, i + 1)
  <2>1. \A k \in i .. i + 1 : k = i \/ k = i + 1
    BY SMT
  <2> QED BY <1>7, <1>8, <1>11, <2>1 DEF OneTopic
<1>13. i \in 1 .. Len(o) - 1
  BY <1>5, <1>8, <1>11, SMT
<1>14. PICK p \in LongestRuns(o) : p[1] <= i /\ i + 1 <= p[2]
  BY <1>5, <1>12, <1>13, RunAround
<1> DEFINE n == p[2] - p[1] + 1
           ms == VideosFrom(o, p[1], n)
<1>15. PICK s \in Range(ss) : s.members = ms
  <2>1. [topic |-> o[p[1]].topic, members |-> ms] \in SameTopicRuns(o)
    BY DEF SameTopicRuns
  <2>2. PICK s \in Range(ss) : [topic |-> s.topic, members |-> s.members] = [topic |-> o[p[1]].topic, members |-> ms]
    BY <1>3, <2>1
  <2> QED BY <2>2
<1>16. p[1] \in Nat /\ p[2] \in Nat
  BY <1>5 DEF LongestRuns
<1> DEFINE u == i - p[1] + 1
<1>17. u \in 1 .. n /\ u + 1 \in 1 .. n /\ p[1] + u - 1 = i /\ p[1] + (u + 1) - 1 = j
  BY <1>11, <1>14, <1>16, SMT
<1>18. ms = [k \in 1 .. n |-> o[p[1] + k - 1].video]
  BY DEF VideosFrom
<1> HIDE DEF u, n, ms
<1>19. DOMAIN ms = 1 .. n /\ ms[u] = a.video /\ ms[u + 1] = b.video
  BY <1>7, <1>8, <1>17, <1>18
<1>20. a.video \in Range(ms) /\ b.video \in Range(ms)
  BY <1>17, <1>19 DEF Range
<1> QED BY <1>15, <1>20 DEF ss

\* Every document is in the manifest with its content.
LEMMA AcceptedFiles ==
    ASSUME NEW x, AllHold(x), Sequential(x.manifest.files)
    PROVE  \A n \in {"metadata", "plan", "report", "transcript", "srt"} :
              \E f \in Range(x.manifest.files) : f.kind = "document" /\ f.name = n /\ f.content = {x.files[n]}
<1> DEFINE fs == x.manifest.files
           P == {i \in DOMAIN fs : fs[i].kind = "document"}
           L == Ascending(P)
           q == Picked(fs, P)
           c == Cardinality(P)
<1>1. Field(q, "name") = DocumentPaths
  BY DEF AllHold, ManifestPaths, Paths, NamesOf
<1>2. \A f \in Range(fs) : f.content = IF f.kind = "media" THEN {f.name} ELSE {x.files[f.name]}
  BY DEF AllHold, ListedContents
<1>3. Sequential(fs) /\ P \in SUBSET (DOMAIN fs) /\ \A i \in P : fs[i].kind = "document"
  OBVIOUS
<1> HIDE DEF fs, P, q, L, c
<1>4. DOMAIN q = 1 .. c /\ Range(q) = {fs[i] : i \in P}
  BY <1>3, PickedFacts DEF q, c, L
<1>5. \A k \in DOMAIN q : q[k] \in Range(fs) /\ q[k].kind = "document"
  <2>1. \A k \in DOMAIN q : q[k] \in Range(q)
    BY DEF Range
  <2>2. \A i \in P : fs[i] \in Range(fs)
    BY <1>3 DEF Range
  <2> QED BY <1>3, <1>4, <2>1, <2>2
<1>6. DOMAIN q = DOMAIN DocumentPaths /\ \A k \in DOMAIN q : q[k].name = DocumentPaths[k]
  <2>1. DOMAIN Field(q, "name") = DOMAIN q /\ \A k \in DOMAIN q : Field(q, "name")[k] = q[k].name
    BY DEF Field
  <2> QED BY <1>1, <2>1
<1>7. \A n \in {"metadata", "plan", "report", "transcript", "srt"} : \E k \in DOMAIN DocumentPaths : DocumentPaths[k] = n
  <2>1. /\ DOMAIN DocumentPaths = 1 .. 5 /\ DocumentPaths[1] = "metadata" /\ DocumentPaths[2] = "plan"
        /\ DocumentPaths[3] = "report" /\ DocumentPaths[4] = "transcript" /\ DocumentPaths[5] = "srt"
    BY DEF DocumentPaths
  <2>2. 1 .. 5 = {1, 2, 3, 4, 5}
    BY SMT
  <2> QED BY <2>1, <2>2
<1>8. ASSUME NEW n \in {"metadata", "plan", "report", "transcript", "srt"}
      PROVE  \E f \in Range(fs) : f.kind = "document" /\ f.name = n /\ f.content = {x.files[n]}
  <2>1. PICK k \in DOMAIN q : q[k].name = n
    BY <1>6, <1>7
  <2> QED BY <1>2, <1>5, <2>1
<1> QED BY <1>8 DEF fs

\* Whatever is accepted tells one story, and reads as complete to whoever knows its kind.
LEMMA AcceptedTellsOneStory ==
    ASSUME NEW x, AllHold(x), Readable(x.files), Sequential(x.manifest.files)
    PROVE  OneStory(x) /\ ReadsAs(x.manifest, x.run, x.manifest.kind) = "complete"
<1> DEFINE p == x.files.plan
           c == x.files.metadata
           m == x.manifest
<1>1. Len(c.videos) \in Nat /\ (c.videos = <<>> <=> Len(c.videos) = 0)
  <2>1. c.videos \in Seq(Range(c.videos))
    BY DEF Readable, Sequential
  <2> QED BY <2>1
<1>2. /\ m.facts.videos = Len(c.videos) /\ p.published = Len(c.videos) /\ (m.kind = "empty" <=> c.videos = <<>>)
  BY DEF AllHold, ResultKind
<1>3. x.files.report.published = Len(c.videos)
  <2>1. x.files.report.published = IF m.kind = "empty" THEN 0 ELSE p.published
    BY DEF AllHold, HumanReport, Report
  <2> QED BY <1>1, <1>2, <2>1
<1>4. OneStory(x)
  <2>1. \A a, b \in Range(p.candidates) :
           LET between == {k \in Range(p.candidates) : Sooner(a, k) /\ Sooner(k, b)}
           IN  /\ NoVideo \notin {a.video, b.video} /\ a.topic = b.topic
               /\ Sooner(a, b) /\ between = {}
               => \E s \in Range(c.series) : {a.video, b.video} \subseteq Range(s.members)
    BY AcceptedSeries
  <2> QED BY <1>2, <1>3, <2>1, AcceptedCues, AcceptedClips, AcceptedFiles, Zenon DEF OneStory
<1>5. ReadsAs(m, x.run, m.kind) = "complete"
  <2>1. ManifestSchema(m) /\ ManifestPaths(m) /\ SummaryConsistent(m)
    BY DEF AllHold, ResultKind
  <2>2. m.transcript = m.rendering
    BY DEF AllHold, References
  <2>3. m.run = x.run
    BY DEF AllHold, RunIds
  <2>4. 0 \notin {m.run, m.transcript, m.plan}
    BY <2>3 DEF AllHold, Identities
  <2> QED BY <2>1, <2>2, <2>3, <2>4 DEF ReadsAs
<1> QED BY <1>4, <1>5

-----------------------------------------------------------------------------
(* The documents of a delivery: what is built                                *)

LEMMA FileFactIs ==
    ASSUME NEW kind, NEW name, NEW content
    PROVE  LET f == FileFact(kind, name, content) IN f.kind = kind /\ f.name = name /\ f.content = content
  BY DEF FileFact

LEMMA Joined ==
    ASSUME NEW X, NEW f \in Seq(X), NEW g \in Seq(X)
    PROVE  /\ f \o g \in Seq(X) /\ Len(f \o g) = Len(f) + Len(g)
           /\ \A i \in 1 .. Len(f) : (f \o g)[i] = f[i]
           /\ \A i \in Len(f) + 1 .. Len(f) + Len(g) : (f \o g)[i] = g[i - Len(f)]
  OBVIOUS

\* The manifest names the clips in their order, then the documents.
LEMMA BuiltFiles ==
    ASSUME NEW r, NEW d, d.clips \in SUBSET Nat, IsFiniteSet(d.clips), NEW m, m = Manifest(r, d)
    PROVE  /\ Sequential(m.files) /\ ManifestPaths(m)
           /\ Range(MediaPaths(m)) = d.clips /\ Len(MediaPaths(m)) = Cardinality(d.clips)
           /\ \A f \in Range(m.files) : f.content = IF f.kind = "media" THEN {f.name} ELSE {d[f.name]}
<1> DEFINE A == Ascending(d.clips)
           n == Cardinality(d.clips)
           F == [i \in 1 .. n |-> MediaFact(A[i])]
           G == [i \in 1 .. 5 |-> DocumentFact(d, DocumentPaths[i])]
           X == {F[i] : i \in 1 .. n} \cup {G[i] : i \in 1 .. 5}
           fs == F \o G
           N(i) == IF i \in 1 .. n THEN A[i] ELSE DocumentPaths[i - n]
<1>1. m.files = fs
  BY DEF Manifest
<1>2. /\ n \in Nat /\ DOMAIN A = 1 .. n /\ A = [k \in 1 .. n |-> A[k]]
      /\ \A k \in 1 .. n : A[k] \in d.clips
      /\ \A i \in d.clips : \E k \in 1 .. n : A[k] = i
      /\ \A k, l \in 1 .. n : k < l => A[k] < A[l]
  BY ListedInOrder
<1> HIDE DEF A, n
<1>3. F \in Seq(X) /\ G \in Seq(X) /\ Len(F) = n /\ Len(G) = 5
  <2> HIDE DEF X
  <2>1. F \in [1 .. n -> X] /\ G \in [1 .. 5 -> X]
    BY DEF X
  <2> QED BY <1>2, <2>1
<1>4. /\ fs \in Seq(X) /\ Len(fs) = n + 5 /\ DOMAIN fs = 1 .. n + 5
      /\ \A i \in 1 .. n : fs[i] = F[i]
      /\ \A i \in n + 1 .. n + 5 : fs[i] = G[i - n] /\ i - n \in 1 .. 5
  <2> HIDE DEF F, G, X
  <2>1. n \in Nat
    BY <1>2
  <2>2. /\ fs \in Seq(X) /\ Len(fs) = Len(F) + Len(G)
        /\ \A i \in 1 .. Len(F) : fs[i] = F[i]
        /\ \A i \in Len(F) + 1 .. Len(F) + Len(G) : fs[i] = G[i - Len(F)]
    BY <1>3, Joined, Zenon
  <2> HIDE DEF fs
  <2>3. Len(fs) = n + 5 /\ DOMAIN fs = 1 .. n + 5
    BY <1>3, <2>2
  <2>4. /\ \A i \in 1 .. n : fs[i] = F[i]
        /\ \A i \in n + 1 .. n + 5 : fs[i] = G[i - n]
    BY <1>3, <2>2
  <2>5. ASSUME NEW i \in n + 1 .. n + 5 PROVE i - n \in 1 .. 5
    BY <2>1, SMT
  <2> QED BY <2>2, <2>3, <2>4, <2>5
<1>5. Sequential(fs)
  <2> HIDE DEF fs, X
  <2> QED BY <1>4 DEF Sequential, Range
<1> HIDE DEF fs, X
<1>6. \A i \in 1 .. n : fs[i].kind = "media" /\ fs[i].name = A[i] /\ fs[i].content = {fs[i].name}
  <2>1. ASSUME NEW i \in 1 .. n PROVE fs[i].kind = "media" /\ fs[i].name = A[i] /\ fs[i].content = {fs[i].name}
    <3>1. fs[i] = FileFact("media", A[i], {A[i]})
      BY <1>4 DEF MediaFact
    <3>2. fs[i].kind = "media" /\ fs[i].name = A[i] /\ fs[i].content = {A[i]}
      BY <3>1, FileFactIs
    <3> QED BY <3>2
  <2> QED BY <2>1
<1>7. \A i \in n + 1 .. n + 5 : /\ fs[i].kind = "document" /\ fs[i].name = DocumentPaths[i - n]
                                /\ fs[i].content = {d[fs[i].name]}
  <2>1. ASSUME NEW i \in n + 1 .. n + 5
        PROVE  fs[i].kind = "document" /\ fs[i].name = DocumentPaths[i - n] /\ fs[i].content = {d[fs[i].name]}
    <3> DEFINE path == DocumentPaths[i - n]
    <3>1. fs[i] = FileFact("document", path, {d[path]})
      BY <1>4 DEF DocumentFact
    <3> HIDE DEF path
    <3>2. fs[i].kind = "document" /\ fs[i].name = path /\ fs[i].content = {d[path]}
      BY <3>1, FileFactIs
    <3> QED BY <3>2 DEF path
  <2> QED BY <2>1
<1>8. \A i \in 1 .. n + 5 : i \in 1 .. n \/ i \in n + 1 .. n + 5
  BY <1>2, SMT
<1> HIDE DEF F, G
<1> DEFINE M == {i \in DOMAIN fs : fs[i].kind = "media"}
           D == {i \in DOMAIN fs : fs[i].kind = "document"}
<1>9. M = 0 + 1 .. 0 + n /\ D = n + 1 .. n + 5
  <2>1. \A i \in 1 .. n : i \in 1 .. n + 5
    BY <1>2, SMT
  <2>2. \A i \in n + 1 .. n + 5 : i \in 1 .. n + 5
    BY <1>2, SMT
  <2>3. M = 1 .. n /\ D = n + 1 .. n + 5
    BY <1>4, <1>6, <1>7, <1>8, <2>1, <2>2
  <2> HIDE DEF M, D
  <2> QED BY <1>2, <2>3, SMT
<1>10. Ascending(M) = [k \in 1 .. n |-> 0 + k] /\ Ascending(D) = [k \in 1 .. 5 |-> n + k]
  <2> HIDE DEF M, D
  <2>1. Ascending(M) = [k \in 1 .. n |-> 0 + k]
    BY <1>2, <1>9, ListedInterval
  <2>2. Ascending(D) = [k \in 1 .. 5 |-> n + k]
    BY <1>2, <1>9, ListedInterval
  <2> QED BY <2>1, <2>2
<1>11. NamesOf(m, "media") = A
  <2>1. NamesOf(m, "media") = Field(Picked(fs, M), "name")
    BY <1>1 DEF NamesOf
  <2>2. Picked(fs, M) = [k \in 1 .. n |-> fs[Ascending(M)[k]]]
    BY <1>10 DEF Picked
  <2>3. ASSUME NEW k \in 1 .. n PROVE Ascending(M)[k] = k
    BY <1>10, <1>2, SMT
  <2> HIDE DEF M
  <2>4. Picked(fs, M) = [k \in 1 .. n |-> fs[k]]
    BY <2>2, <2>3
  <2>5. Field(Picked(fs, M), "name") = [k \in 1 .. n |-> fs[k].name]
    BY <2>4 DEF Field
  <2>6. [k \in 1 .. n |-> fs[k].name] = [k \in 1 .. n |-> A[k]]
    BY <1>6
  <2> QED BY <1>2, <2>1, <2>5, <2>6
<1>12. NamesOf(m, "document") = DocumentPaths
  <2>1. NamesOf(m, "document") = Field(Picked(fs, D), "name")
    BY <1>1 DEF NamesOf
  <2>2. Picked(fs, D) = [k \in 1 .. 5 |-> fs[Ascending(D)[k]]]
    BY <1>10 DEF Picked
  <2>3. ASSUME NEW k \in 1 .. 5 PROVE Ascending(D)[k] = n + k /\ n + k \in n + 1 .. n + 5 /\ (n + k) - n = k
    BY <1>10, <1>2, SMT
  <2> HIDE DEF D
  <2>4. Picked(fs, D) = [k \in 1 .. 5 |-> fs[n + k]]
    BY <2>2, <2>3
  <2>5. Field(Picked(fs, D), "name") = [k \in 1 .. 5 |-> fs[n + k].name]
    BY <2>4 DEF Field
  <2>6. [k \in 1 .. 5 |-> fs[n + k].name] = [k \in 1 .. 5 |-> DocumentPaths[k]]
    BY <1>7, <2>3
  <2>7. DocumentPaths = [k \in 1 .. 5 |-> DocumentPaths[k]]
    BY DEF DocumentPaths
  <2> QED BY <2>1, <2>5, <2>6, <2>7
<1>13. MediaPaths(m) = A /\ Paths(m) = DocumentPaths
  BY <1>11, <1>12 DEF MediaPaths, Paths
<1>14. Len(A) = n /\ Range(A) = d.clips
  BY <1>2 DEF Range
<1>15. \A i \in 1 .. n - 1 : A[i] < A[i + 1]
  <2>1. \A i \in 1 .. n - 1 : i \in 1 .. n /\ i + 1 \in 1 .. n /\ i < i + 1
    BY <1>2, SMT
  <2> QED BY <1>2, <2>1
<1>16. \A i, j \in DOMAIN fs : fs[i].kind = "document" /\ fs[j].kind = "media" => j < i
  <2>1. \A i \in D, j \in M : j < i
    BY <1>2, <1>9, SMT
  <2> QED BY <2>1
<1>17. ManifestPaths(m)
  BY <1>1, <1>13, <1>14, <1>15, <1>16 DEF ManifestPaths
<1>18. \A f \in Range(fs) : f.content = IF f.kind = "media" THEN {f.name} ELSE {d[f.name]}
  <2>1. ASSUME NEW i \in 1 .. n + 5
        PROVE  fs[i].content = IF fs[i].kind = "media" THEN {fs[i].name} ELSE {d[fs[i].name]}
    BY <1>6, <1>7, <1>8
  <2> QED BY <1>4, <2>1 DEF Range
<1> QED BY <1>1, <1>5, <1>13, <1>14, <1>17, <1>18 DEF n

\* What keeps its order is in order.
LEMMA OrderKept ==
    ASSUME NEW s, Sequential(s), \A c \in Range(s) : Comparable(c), KeepsOrder(s)
    PROVE  Ordered(s) = s
<1> DEFINE n == Len(s)
           S == DOMAIN s
           Leads(i, j) == Sooner(s[i], s[j]) \/ (~Sooner(s[j], s[i]) /\ i < j)
           L == Listed(S, Leads)
<1>1. n \in Nat /\ S = 1 .. n /\ s = [k \in 1 .. n |-> s[k]] /\ \A i \in S : s[i] \in Range(s)
  BY SequentialFacts DEF Range
<1>2. /\ \A i \in S : ~Sooner(s[i], s[i])
      /\ \A i, j \in S : Sooner(s[i], s[j]) => ~Sooner(s[j], s[i])
      /\ \A i, j, k \in S : Sooner(s[i], s[j]) /\ Sooner(s[j], s[k]) => Sooner(s[i], s[k])
  BY <1>1, SoonerIsLinear
<1>3. \A i \in 1 .. n - 1 : Sooner(s[i], s[i + 1])
  BY DEF KeepsOrder
<1>4. Ordered(s) = [k \in DOMAIN L |-> s[L[k]]]
  BY DEF Ordered
<1>5. IsFiniteSet(S) /\ Cardinality(S) = n
  <2>0. n \in Int /\ 1 \in Int /\ (IF 1 > n THEN 0 ELSE n - 1 + 1) = n
    BY <1>1, SMT
  <2>1. IsFiniteSet(1 .. n) /\ Cardinality(1 .. n) = IF 1 > n THEN 0 ELSE n - 1 + 1
    BY <2>0, FS_Interval, Zenon
  <2> QED BY <1>1, <2>0, <2>1
<1>6. L = [k \in 1 .. n |-> CHOOSE i \in S : Cardinality({j \in S : Leads(j, i)}) = k - 1]
  BY <1>5 DEF Listed
<1>7. Ascending(S) = [k \in 1 .. n |-> CHOOSE i \in S : Cardinality({j \in S : j < i}) = k - 1]
  BY <1>5 DEF Listed, Ascending
<1> HIDE DEF n, L
<1>8. \A i, j \in S : i < j => Sooner(s[i], s[j])
  <2>1. ASSUME NEW i \in 1 .. n PROVE \A j \in i + 1 .. n : Sooner(s[i], s[j])
    <3> DEFINE T == {k \in 0 .. n : k > i => \A j \in i + 1 .. k : Sooner(s[i], s[j])}
    <3>1. 0 \in T
      BY <1>1, SMT
    <3>2. ASSUME NEW k \in 0 .. n - 1, k \in T PROVE k + 1 \in T
      <4>1. k + 1 \in 0 .. n /\ k \in Int /\ i \in Int
        BY <1>1, SMT
      <4>2. ASSUME k + 1 > i PROVE Sooner(s[i], s[k + 1])
        <5>1. k + 1 \in 1 .. n /\ k \in 1 .. n /\ k \in 1 .. n - 1
          BY <1>1, <4>2, SMT
        <5>2. k = i \/ (k \in i + 1 .. k /\ k > i)
          BY <4>1, <4>2, SMT
        <5> QED BY <1>1, <1>2, <1>3, <3>2, <5>1, <5>2
      <4>3. \A j \in i + 1 .. k + 1 : k + 1 > i /\ (j = k + 1 \/ (j \in i + 1 .. k /\ k > i))
        BY <4>1, SMT
      <4> QED BY <3>2, <4>1, <4>2, <4>3
    <3> HIDE DEF T
    <3>3. n \in T
      <4>1. 0 .. n \subseteq T
        BY <1>1, <3>1, <3>2, UpTo
      <4> QED BY <1>1, <4>1, SMT
    <3>4. \A j \in i + 1 .. n : n > i
      BY <1>1, SMT
    <3> QED BY <3>3, <3>4 DEF T
  <2>2. \A i, j \in 1 .. n : i < j => j \in i + 1 .. n
    BY <1>1, SMT
  <2> QED BY <1>1, <2>1, <2>2
<1>9. \A i, j \in S : Leads(i, j) <=> i < j
  <2>1. \A i, j \in S : ~(i < j) => i = j \/ j < i
    BY <1>1, SMT
  <2> QED BY <1>2, <1>8, <2>1
<1>10. L = Ascending(S)
  <2> HIDE DEF Leads
  <2>1. \A i \in S : {j \in S : Leads(j, i)} = {j \in S : j < i}
    BY <1>9
  <2>2. \A k \in 1 .. n : (CHOOSE i \in S : Cardinality({j \in S : Leads(j, i)}) = k - 1)
                           = CHOOSE i \in S : Cardinality({j \in S : j < i}) = k - 1
    BY <2>1
  <2> QED BY <1>6, <1>7, <2>2
<1>11. L = [k \in 1 .. n |-> 0 + k]
  <2>1. S = 0 + 1 .. 0 + n
    BY <1>1
  <2> QED BY <1>1, <1>10, <2>1, ListedInterval
<1>12. DOMAIN L = 1 .. n /\ \A k \in 1 .. n : L[k] = k
  BY <1>1, <1>11, SMT
<1>13. [k \in DOMAIN L |-> s[L[k]]] = [k \in 1 .. n |-> s[k]]
  BY <1>12
<1> QED BY <1>1, <1>4, <1>13

\* What the members of a run are.
LEMMA RunMembers ==
    ASSUME NEW s, Sequential(s), NEW p \in LongestRuns(s), NEW ms, ms = VideosFrom(s, p[1], p[2] - p[1] + 1)
    PROVE  /\ p[1] \in 1 .. Len(s) /\ p[2] \in 1 .. Len(s) /\ p[1] < p[2] /\ p = <<p[1], p[2]>>
           /\ DOMAIN ms = 1 .. p[2] - p[1] + 1 /\ Len(ms) = p[2] - p[1] + 1 /\ Len(ms) >= 2
           /\ \A k \in DOMAIN ms : p[1] + k - 1 \in p[1] .. p[2] /\ ms[k] = s[p[1] + k - 1].video
           /\ \A i \in p[1] .. p[2] : /\ i \in DOMAIN s /\ s[i].video # NoVideo
                                      /\ s[i].topic = s[p[1]].topic
<1>1. Len(s) \in Nat /\ DOMAIN s = 1 .. Len(s)
  BY SequentialFacts
<1>2. /\ p \in (DOMAIN s) \X (DOMAIN s) /\ p[1] < p[2]
      /\ \A i \in p[1] .. p[2] : s[i].video # NoVideo /\ s[i].topic = s[p[1]].topic
  BY DEF LongestRuns, OneTopic
<1>3. p[1] \in 1 .. Len(s) /\ p[2] \in 1 .. Len(s) /\ p = <<p[1], p[2]>>
  BY <1>1, <1>2
<1>4. p[1] \in Nat /\ p[2] \in Nat /\ \A i \in p[1] .. p[2] : i \in 1 .. Len(s)
  BY <1>1, <1>3, SMT
<1> DEFINE a == p[1]
           n == p[2] - p[1] + 1
<1>5. n \in Nat /\ n >= 2 /\ a \in Nat /\ p[2] = a + n - 1
  BY <1>2, <1>4, SMT
<1>6. ms = [k \in 1 .. n |-> s[a + k - 1].video]
  BY DEF VideosFrom
<1> HIDE DEF n, a
<1>7. DOMAIN ms = 1 .. n /\ \A k \in 1 .. n : ms[k] = s[a + k - 1].video
  BY <1>6
<1>8. Len(ms) = n
  BY <1>5, <1>6
<1>9. \A k \in 1 .. n : a + k - 1 \in a .. p[2]
  BY <1>5, SMT
<1> QED BY <1>1, <1>2, <1>3, <1>4, <1>5, <1>7, <1>8, <1>9 DEF n, a

LEMMA RunMembersAre ==
    ASSUME NEW s, Sequential(s), NEW p \in LongestRuns(s), NEW ms, ms = VideosFrom(s, p[1], p[2] - p[1] + 1)
    PROVE  \A v : v \in Range(ms) <=> \E i \in p[1] .. p[2] : v = s[i].video
<1>1. /\ p[1] \in 1 .. Len(s) /\ p[2] \in 1 .. Len(s) /\ p[1] < p[2] /\ DOMAIN ms = 1 .. p[2] - p[1] + 1
      /\ \A k \in DOMAIN ms : p[1] + k - 1 \in p[1] .. p[2] /\ ms[k] = s[p[1] + k - 1].video
  BY RunMembers
<1>2. ASSUME NEW i \in p[1] .. p[2] PROVE \E k \in DOMAIN ms : ms[k] = s[i].video
  <2>1. i - p[1] + 1 \in 1 .. p[2] - p[1] + 1 /\ p[1] + (i - p[1] + 1) - 1 = i
    <3>1. Len(s) \in Nat
      BY SequentialFacts
    <3> QED BY <1>1, <3>1, SMT
  <2> QED BY <1>1, <2>1
<1>3. \A v : v \in Range(ms) <=> \E k \in DOMAIN ms : v = ms[k]
  BY DEF Range
<1>4. \A k \in DOMAIN ms : \E i \in p[1] .. p[2] : ms[k] = s[i].video
  BY <1>1
<1>5. ASSUME NEW v PROVE v \in Range(ms) <=> \E i \in p[1] .. p[2] : v = s[i].video
  <2>1. v \in Range(ms) => \E i \in p[1] .. p[2] : v = s[i].video
    BY <1>3, <1>4
  <2>2. ASSUME NEW i \in p[1] .. p[2], v = s[i].video PROVE v \in Range(ms)
    BY <1>2, <1>3, <2>2
  <2> QED BY <2>1, <2>2
<1> QED BY <1>5

\* A place is in one run.
LEMMA OneRunOnly ==
    ASSUME NEW s, Sequential(s), NEW p \in LongestRuns(s), NEW q \in LongestRuns(s),
           NEW l \in p[1] .. p[2], l \in q[1] .. q[2]
    PROVE  p = q
<1>1. Len(s) \in Nat /\ DOMAIN s = 1 .. Len(s)
  BY SequentialFacts
<1>2. ASSUME NEW u \in LongestRuns(s)
      PROVE  /\ u[1] \in 1 .. Len(s) /\ u[2] \in 1 .. Len(s) /\ u = <<u[1], u[2]>>
             /\ \A i \in u[1] .. u[2] : s[i].video # NoVideo /\ s[i].topic = s[u[1]].topic
             /\ u[1] > 1 => ~OneTopic(s, u[1] - 1, u[2])
             /\ u[2] < Len(s) => ~OneTopic(s, u[1], u[2] + 1)
  BY <1>1, RunMembers DEF LongestRuns
<1>3. ASSUME NEW u \in LongestRuns(s), NEW v \in LongestRuns(s), l \in u[1] .. u[2], l \in v[1] .. v[2]
      PROVE  u[1] <= v[1] /\ u[2] >= v[2]
  <2>1. /\ u[1] \in Nat /\ u[2] \in Nat /\ v[1] \in Nat /\ v[2] \in Nat /\ l \in Nat
        /\ u[1] <= l /\ l <= u[2] /\ v[1] <= l /\ l <= v[2] /\ v[1] >= 1 /\ v[2] <= Len(s)
    BY <1>1, <1>2, <1>3, SMT
  <2>2. s[u[1]].topic = s[l].topic /\ s[v[1]].topic = s[l].topic
    BY <1>2, <1>3
  <2>3. \A i : i \in u[1] .. u[2] \/ i \in v[1] .. v[2] => s[i].video # NoVideo /\ s[i].topic = s[l].topic
    BY <1>2, <2>2
  <2>4. u[1] <= v[1]
    <3> SUFFICES ASSUME u[1] > v[1] PROVE FALSE
      BY <2>1, SMT
    <3>1. u[1] > 1 /\ \A i \in u[1] - 1 .. u[2] : i \in u[1] .. u[2] \/ i \in v[1] .. v[2]
      BY <2>1, SMT
    <3>2. u[1] - 1 \in u[1] - 1 .. u[2]
      BY <2>1, SMT
    <3>3. OneTopic(s, u[1] - 1, u[2])
      BY <2>3, <3>1, <3>2 DEF OneTopic
    <3> QED BY <1>2, <3>1, <3>3
  <2>5. u[2] >= v[2]
    <3> SUFFICES ASSUME u[2] < v[2] PROVE FALSE
      BY <2>1, SMT
    <3>1. u[2] < Len(s) /\ \A i \in u[1] .. u[2] + 1 : i \in u[1] .. u[2] \/ i \in v[1] .. v[2]
      BY <1>1, <2>1, SMT
    <3>2. OneTopic(s, u[1], u[2] + 1)
      BY <2>2, <2>3, <3>1 DEF OneTopic
    <3> QED BY <1>2, <3>1, <3>2
  <2> QED BY <2>4, <2>5
<1>4. p[1] <= q[1] /\ q[1] <= p[1] /\ p[2] >= q[2] /\ q[2] >= p[2]
  BY <1>3
<1>5. p[1] = q[1] /\ p[2] = q[2]
  <2>1. p[1] \in Nat /\ p[2] \in Nat /\ q[1] \in Nat /\ q[2] \in Nat
    BY <1>1, <1>2, SMT
  <2> QED BY <1>4, <2>1, SMT
<1> QED BY <1>2, <1>5

-----------------------------------------------------------------------------
(* The documents of a delivery: what is built passes every check             *)

\* A request that exists, of documents that can be read.
Handed(r) == Requestable(r) /\ Issued(r) /\ Readable(Documents(r))

\* The catalogue shows the candidates with a video, each once.
Catalogues(vs, q) == Range(vs) = {ShortVideo(c) : c \in Range(q)}

LEMMA BuiltVideos ==
    ASSUME NEW r, Handed(r), NEW s, s = r.plan.candidates, NEW q, q = Published(s),
           NEW vs, vs = Documents(r).metadata.videos
    PROVE  /\ Sequential(s) /\ Sequential(vs) /\ Sequential(q) /\ \A c \in Range(s) : Comparable(c)
           /\ Len(vs) = Len(q) /\ Len(q) \in Nat /\ DOMAIN vs = 1 .. Len(q) /\ DOMAIN q = 1 .. Len(q)
           /\ \A k \in 1 .. Len(q) : vs[k] = ShortVideo(q[k])
           /\ Catalogues(vs, q)
           /\ \A c \in Range(q) : c \in Range(s) /\ c.video # NoVideo
           /\ \A c \in Range(s) : c.video # NoVideo => c \in Range(q)
           /\ \A k, l \in 1 .. Len(q) : q[k].id = q[l].id => k = l
           /\ \A k, l \in 1 .. Len(q) : q[k].video = q[l].video => k = l
           /\ \A i, j \in DOMAIN s : s[i].video # NoVideo /\ s[i].video = s[j].video => i = j
<1>1. Documents(r).plan.candidates = s /\ vs = [k \in DOMAIN q |-> ShortVideo(q[k])]
  BY DEF Documents, PlanDocument, MetadataDocument
<1>2. Sequential(s) /\ Sequential(vs) /\ \A c \in Range(s) : Comparable(c)
  BY <1>1 DEF Handed, Readable, Comparable
<1>2a. PICK L : L = Ascending(VideoPlaces(s))
  OBVIOUS
<1>2b. PICK n : n = Len(q)
  OBVIOUS
<1>3. /\ Sequential(q) /\ n \in Nat /\ DOMAIN q = 1 .. n
      /\ \A k \in 1 .. n : L[k] \in VideoPlaces(s) /\ q[k] = s[L[k]]
      /\ \A i \in VideoPlaces(s) : \E k \in 1 .. n : L[k] = i /\ q[k] = s[i]
      /\ \A k, l \in 1 .. n : L[k] = L[l] => k = l
      /\ \A c \in Range(q) : c \in Range(s) /\ c.video # NoVideo
      /\ \A c \in Range(s) : c.video # NoVideo => c \in Range(q)
  <2>1. n = Len(Published(s))
    BY <1>2b
  <2> QED BY <1>2, <1>2a, <2>1, PublishedFacts
<1>4. NoneTwice(Field(s, "id")) /\ NoneTwice(Field(q, "video"))
  BY DEF Handed, Issued, Identified
<1>5. /\ \A i, j \in DOMAIN s : s[i].id = s[j].id => i = j
      /\ \A k, l \in 1 .. n : q[k].video = q[l].video => k = l
  BY <1>3, <1>4 DEF NoneTwice, Field
<1>6. \A i : i \in VideoPlaces(s) <=> i \in DOMAIN s /\ s[i].video # NoVideo
  BY DEF VideoPlaces
<1>7. ASSUME NEW k \in 1 .. n, NEW l \in 1 .. n, q[k].id = q[l].id PROVE k = l
  <2>1. q[k] = s[L[k]] /\ q[l] = s[L[l]] /\ L[k] \in DOMAIN s /\ L[l] \in DOMAIN s
    BY <1>3, <1>6
  <2>2. L[k] = L[l]
    BY <1>5, <1>7, <2>1
  <2> QED BY <1>3, <2>2
<1>8. ASSUME NEW i \in DOMAIN s, NEW j \in DOMAIN s, s[i].video # NoVideo, s[i].video = s[j].video PROVE i = j
  <2>1. PICK k \in 1 .. n : L[k] = i /\ q[k] = s[i]
    BY <1>3, <1>6, <1>8
  <2>2. PICK l \in 1 .. n : L[l] = j /\ q[l] = s[j]
    BY <1>3, <1>6, <1>8
  <2> QED BY <1>5, <1>8, <2>1, <2>2
<1>9. DOMAIN vs = 1 .. n /\ \A k \in 1 .. n : vs[k] = ShortVideo(q[k])
  BY <1>1, <1>3
<1>10. Len(vs) = n
  BY <1>2, <1>3, <1>9, SequentialFacts
<1>11. Catalogues(vs, q)
  BY <1>3, <1>9 DEF Range, Catalogues
<1> QED BY <1>2, <1>2b, <1>3, <1>5, <1>7, <1>8, <1>9, <1>10, <1>11

LEMMA VideosNamedOnce ==
    ASSUME NEW r, Handed(r), NEW s, s = r.plan.candidates
    PROVE  /\ Sequential(s) /\ \A c \in Range(s) : Comparable(c)
           /\ \A i, j \in DOMAIN s : s[i].video # NoVideo /\ s[i].video = s[j].video => i = j
<1>1. PICK q, vs : q = Published(s) /\ vs = Documents(r).metadata.videos
  OBVIOUS
<1> QED BY <1>1, BuiltVideos

\* Each document is as the verification requires it.
LEMMA BuiltAlone ==
    ASSUME NEW r, Handed(r), NEW x, x = Delivery(r, Documents(r))
    PROVE  /\ ManifestSchema(x.manifest)
           /\ TranscriptSchema(x.files.transcript) /\ PlanSchema(x.files.plan) /\ MetadataSchema(x.files.metadata)
<1> DEFINE s == r.plan.candidates
           q == Published(s)
           vs == Documents(r).metadata.videos
<1>0. KindOf(r) \in {"clips", "empty"}
  BY DEF KindOf
<1>1. ManifestSchema(x.manifest)
  <2>1. /\ x.manifest.kind = KindOf(r) /\ x.manifest.started = 0 /\ x.manifest.published = 1
        /\ x.manifest.duration = r.transcript.duration /\ x.manifest.facts = r.facts
    BY DEF Delivery, Manifest
  <2>2. r.transcript.duration > 0 /\ CountsAgree(r.facts)
    BY DEF Handed, Issued
  <2>3. 0 <= 1
    BY SMT
  <2> QED BY <1>0, <2>1, <2>2, <2>3 DEF ManifestSchema
<1>2. TranscriptSchema(x.files.transcript)
  <2> DEFINE ks == r.transcript.chunks
             t == x.files.transcript
  <2>1. t.chunks = ks /\ t.duration = r.transcript.duration /\ t.present = (ks # <<>>)
    BY DEF Delivery, Documents, TranscriptDocument
  <2>2. Sequential(ks)
    BY DEF Handed, Readable, Documents, TranscriptDocument
  <2>3. /\ \A c \in Range(ks) : 0 <= c.start /\ c.start < c.end /\ CharactersInside(c)
        /\ \A i \in DOMAIN ks : ks[i].end <= r.transcript.duration /\ (i > 1 => ks[i - 1].end <= ks[i].start)
        /\ r.transcript.duration > 0
    BY DEF Handed, Requestable, Issued
  <2> HIDE DEF ks, t
  <2>4. \A i \in DOMAIN ks : ks[i] \in Range(ks) /\ (i # 1 => i > 1)
    BY <2>2, SequentialFacts, SMT DEF Range
  <2>5. \A i \in DOMAIN ks : /\ (IF i = 1 THEN 0 ELSE ks[i - 1].end) <= ks[i].start /\ ks[i].start < ks[i].end
                             /\ ks[i].end <= r.transcript.duration /\ CharactersInside(ks[i])
    BY <2>3, <2>4
  <2> QED BY <2>1, <2>3, <2>5 DEF TranscriptSchema, t
<1>3. PlanSchema(x.files.plan)
  <2> DEFINE p == x.files.plan
  <2>1. p.kind = KindOf(r) /\ p.count = Len(s) /\ p.published = Len(q) /\ p.candidates = s
    BY DEF Delivery, Documents, PlanDocument
  <2>2. \A c \in Range(s) : /\ c.chunks # {} /\ MaterialRange(c.initial) /\ MaterialRange(c.final)
                            /\ c.requested = NoRange \/ MaterialRange(c.requested)
                            /\ RemedySchema(c)
    BY DEF Handed, Issued, IssuedCandidate
  <2> HIDE DEF s, p
  <2> QED BY <1>0, <2>1, <2>2 DEF PlanSchema, p
<1>4. MetadataSchema(x.files.metadata)
  <2> DEFINE c == x.files.metadata
  <2>1. c.kind = KindOf(r) /\ c.series = r.plan.series /\ c.videos = vs
    BY DEF Delivery, Documents, MetadataDocument
  <2>2. ASSUME NEW v \in Range(vs) PROVE v.start >= 0 /\ v.duration > 0 /\ v.duration = v.end - v.start
    <3>0. Catalogues(vs, q)
      BY BuiltVideos
    <3>1. PICK k \in Range(q) : v = ShortVideo(k)
      BY <3>0 DEF Catalogues
    <3>2. k \in Range(s) /\ Comparable(k)
      BY <3>1, BuiltVideos
    <3>3. MaterialRange(k.final)
      BY <3>2 DEF Handed, Issued, IssuedCandidate
    <3>4. v.start = k.final.start /\ v.end = k.final.end /\ v.duration = k.final.end - k.final.start
      BY <3>1 DEF ShortVideo
    <3>5. k.final.start \in Int /\ k.final.end \in Int
      BY <3>2 DEF Comparable
    <3> QED BY <3>3, <3>4, <3>5, SMT DEF MaterialRange
  <2>3. ASSUME NEW sr \in Range(r.plan.series) PROVE Len(sr.members) >= 2
    <3>1. [topic |-> sr.topic, members |-> sr.members] \in SameTopicRuns(s)
      BY DEF Handed, Issued, IssuedSeries
    <3>2. PICK p \in LongestRuns(s) : sr.members = VideosFrom(s, p[1], p[2] - p[1] + 1)
      BY <3>1 DEF SameTopicRuns
    <3> QED BY <3>2, BuiltVideos, RunMembers
  <2> HIDE DEF c
  <2> QED BY <1>0, <2>1, <2>2, <2>3 DEF MetadataSchema, c
<1> QED BY <1>1, <1>2, <1>3, <1>4

\* A series of the plan is a run of its candidates, and each run is one series only.
LEMMA BuiltSeries ==
    ASSUME NEW r, Handed(r), NEW s, s = r.plan.candidates, NEW ss, ss = r.plan.series
    PROVE  /\ Sequential(ss)
           /\ \A x \in Range(ss) : \E p \in LongestRuns(s) :
                x.topic = s[p[1]].topic /\ x.members = VideosFrom(s, p[1], p[2] - p[1] + 1)
           /\ \A i, j \in DOMAIN ss : ss[i].members = ss[j].members => i = j
           /\ {[topic |-> x.topic, members |-> x.members] : x \in Range(ss)} = SameTopicRuns(s)
<1>1. Documents(r).metadata.series = ss
  BY DEF Documents, MetadataDocument
<1>2. Sequential(ss)
  BY <1>1 DEF Handed, Readable
<1>3. {[topic |-> x.topic, members |-> x.members] : x \in Range(ss)} = SameTopicRuns(s)
  BY DEF Handed, Issued, IssuedSeries
<1>4. NoneTwice(Field(ss, "members"))
  BY DEF Handed, Issued, IssuedSeries
<1>5. \A i, j \in DOMAIN ss : ss[i].members = ss[j].members => i = j
  BY <1>4 DEF NoneTwice, Field
<1>6. ASSUME NEW x \in Range(ss)
      PROVE  \E p \in LongestRuns(s) : x.topic = s[p[1]].topic /\ x.members = VideosFrom(s, p[1], p[2] - p[1] + 1)
  <2>1. [topic |-> x.topic, members |-> x.members] \in SameTopicRuns(s)
    BY <1>3
  <2>2. PICK p \in LongestRuns(s) : [topic |-> x.topic, members |-> x.members]
                        = [topic |-> s[p[1]].topic, members |-> VideosFrom(s, p[1], p[2] - p[1] + 1)]
    BY <2>1 DEF SameTopicRuns
  <2> QED BY <2>2
<1> QED BY <1>2, <1>3, <1>5, <1>6

\* A series follows the candidates of a run.
AlongRun(sr, s, p) ==
    /\ p \in LongestRuns(s) /\ sr.topic = s[p[1]].topic
    /\ sr.members = VideosFrom(s, p[1], p[2] - p[1] + 1)
    /\ p[1] \in 1 .. Len(s) /\ p[2] \in 1 .. Len(s) /\ p[1] < p[2]
    /\ DOMAIN sr.members = 1 .. p[2] - p[1] + 1 /\ Len(sr.members) = p[2] - p[1] + 1
    /\ \A k \in DOMAIN sr.members : p[1] + k - 1 \in p[1] .. p[2] /\ sr.members[k] = s[p[1] + k - 1].video
    /\ \A i \in p[1] .. p[2] : i \in DOMAIN s /\ s[i].video # NoVideo /\ s[i].topic = s[p[1]].topic
    /\ \A v : v \in Range(sr.members) <=> \E i \in p[1] .. p[2] : v = s[i].video

LEMMA SeriesMembers ==
    ASSUME NEW r, Handed(r), NEW s, s = r.plan.candidates, NEW sr \in Range(r.plan.series)
    PROVE  \E p : AlongRun(sr, s, p)
<1>1. Sequential(s)
  BY VideosNamedOnce
<1>2. PICK p \in LongestRuns(s) : sr.topic = s[p[1]].topic /\ sr.members = VideosFrom(s, p[1], p[2] - p[1] + 1)
  BY BuiltSeries
<1>3. p[1] \in 1 .. Len(s) /\ p[2] \in 1 .. Len(s) /\ p[1] < p[2]
  BY <1>1, <1>2, RunMembers
<1>4. DOMAIN sr.members = 1 .. p[2] - p[1] + 1 /\ Len(sr.members) = p[2] - p[1] + 1
  BY <1>1, <1>2, RunMembers
<1>5. \A k \in DOMAIN sr.members : p[1] + k - 1 \in p[1] .. p[2] /\ sr.members[k] = s[p[1] + k - 1].video
  BY <1>1, <1>2, RunMembers
<1>6. \A i \in p[1] .. p[2] : i \in DOMAIN s /\ s[i].video # NoVideo /\ s[i].topic = s[p[1]].topic
  BY <1>1, <1>2, RunMembers
<1>7. ASSUME NEW v PROVE v \in Range(sr.members) <=> \E i \in p[1] .. p[2] : v = s[i].video
  BY <1>1, <1>2, RunMembersAre
<1>8. AlongRun(sr, s, p)
  BY <1>2, <1>3, <1>4, <1>5, <1>6, <1>7, Zenon DEF AlongRun
<1> QED BY <1>8

\* The parts of what is built.
LEMMA BuiltParts ==
    ASSUME NEW r, NEW x, x = Delivery(r, Documents(r))
    PROVE  /\ x.run = r.run /\ x.manifest = Manifest(r, Documents(r)) /\ x.files = Documents(r)
           /\ x.directories = {"clips"} /\ x.others = {}
           /\ x.manifest.run = r.run /\ x.manifest.kind = KindOf(r) /\ x.manifest.duration = r.transcript.duration
           /\ x.manifest.transcript = r.transcript.id /\ x.manifest.rendering = r.transcript.id
           /\ x.manifest.plan = r.plan.id /\ x.manifest.facts = r.facts
           /\ x.files.transcript.run = r.run /\ x.files.transcript.id = r.transcript.id
           /\ x.files.transcript.duration = r.transcript.duration /\ x.files.transcript.chunks = r.transcript.chunks
           /\ x.files.plan.run = r.run /\ x.files.plan.id = r.plan.id /\ x.files.plan.transcript = r.plan.transcript
           /\ x.files.plan.kind = KindOf(r) /\ x.files.plan.candidates = r.plan.candidates
           /\ x.files.plan.count = Len(r.plan.candidates) /\ x.files.plan.published = Len(Published(r.plan.candidates))
           /\ x.files.metadata.run = r.run /\ x.files.metadata.kind = KindOf(r) /\ x.files.metadata.series = r.plan.series
           /\ x.files.srt = Rendering(x.files.transcript)
           /\ x.files.clips = {c.video : c \in Range(Published(r.plan.candidates))}
           /\ x.files.report = Report(r.run, KindOf(r), Len(r.plan.candidates), Len(Published(r.plan.candidates)))
<1>1. x.run = r.run /\ x.manifest = Manifest(r, Documents(r)) /\ x.files = Documents(r)
      /\ x.directories = {"clips"} /\ x.others = {}
  BY DEF Delivery
<1>2. /\ x.manifest.run = r.run /\ x.manifest.kind = KindOf(r) /\ x.manifest.duration = r.transcript.duration
      /\ x.manifest.transcript = r.transcript.id /\ x.manifest.rendering = r.transcript.id
      /\ x.manifest.plan = r.plan.id /\ x.manifest.facts = r.facts
  BY <1>1 DEF Manifest
<1>3. /\ x.files.transcript = TranscriptDocument(r) /\ x.files.plan = PlanDocument(r)
      /\ x.files.metadata = MetadataDocument(r) /\ x.files.srt = Rendering(TranscriptDocument(r))
      /\ x.files.clips = {c.video : c \in Range(Published(r.plan.candidates))}
      /\ x.files.report = Report(r.run, KindOf(r), Len(r.plan.candidates), Len(Published(r.plan.candidates)))
  <2>1. PICK T, P, M, R, C : /\ T = TranscriptDocument(r) /\ P = PlanDocument(r) /\ M = MetadataDocument(r)
                              /\ R = Report(r.run, KindOf(r), Len(r.plan.candidates), Len(Published(r.plan.candidates)))
                              /\ C = {c.video : c \in Range(Published(r.plan.candidates))}
    OBVIOUS
  <2>2. PICK S : S = Rendering(T)
    OBVIOUS
  <2>3. x.files = [transcript |-> T, plan |-> P, metadata |-> M, srt |-> S, report |-> R, clips |-> C]
    BY <1>1, <2>1, <2>2, Zenon DEF Documents
  <2> QED BY <2>1, <2>2, <2>3
<1> QED BY <1>1, <1>2, <1>3 DEF TranscriptDocument, PlanDocument, MetadataDocument

\* Every identity is one, and each names one thing.
LEMMA BuiltIdentities ==
    ASSUME NEW r, Handed(r), NEW x, x = Delivery(r, Documents(r))
    PROVE  RunIds(x) /\ Identities(x)
<1> DEFINE s == r.plan.candidates
           q == Published(s)
           vs == x.files.metadata.videos
           ss == r.plan.series
<1>1. RunIds(x)
  BY BuiltParts DEF RunIds
<1>2. 0 \notin {x.run, x.files.transcript.id, x.files.plan.id, x.files.plan.transcript, x.manifest.transcript,
                x.manifest.rendering, x.manifest.plan}
  <2>1. 0 \notin {r.run, r.transcript.id, r.plan.id} /\ r.plan.transcript = r.transcript.id
    BY DEF Handed, Issued, Requestable
  <2> QED BY <2>1, BuiltParts
<1>3. /\ Identified(Field(r.transcript.chunks, "id")) /\ Identified(Field(s, "id"))
      /\ Identified(Field(q, "video")) /\ Identified(Field(ss, "id"))
  BY DEF Handed, Issued
<1>4. Field(vs, "id") = Field(q, "video")
  <2>0. vs = Documents(r).metadata.videos
    BY BuiltParts
  <2>1. DOMAIN vs = 1 .. Len(q) /\ DOMAIN q = 1 .. Len(q) /\ \A k \in 1 .. Len(q) : vs[k] = ShortVideo(q[k])
    BY <2>0, BuiltVideos
  <2> HIDE DEF vs, q
  <2>2. ASSUME NEW k \in 1 .. Len(q) PROVE vs[k].id = q[k].video
    <3>1. vs[k] = ShortVideo(q[k])
      BY <2>1
    <3> QED BY <3>1 DEF ShortVideo
  <2> QED BY <2>1, <2>2 DEF Field
<1>5. ASSUME NEW sr \in Range(ss) PROVE Identified(sr.members)
  <2> DEFINE ms == sr.members
  <2>1. Sequential(s) /\ \A i, j \in DOMAIN s : s[i].video # NoVideo /\ s[i].video = s[j].video => i = j
    BY VideosNamedOnce
  <2>2. PICK p : AlongRun(sr, s, p)
    BY SeriesMembers
  <2>3. /\ p[1] \in 1 .. Len(s) /\ DOMAIN ms = 1 .. p[2] - p[1] + 1
        /\ \A k \in DOMAIN ms : p[1] + k - 1 \in p[1] .. p[2] /\ ms[k] = s[p[1] + k - 1].video
        /\ \A i \in p[1] .. p[2] : i \in DOMAIN s /\ s[i].video # NoVideo
        /\ \A v \in Range(ms) : \E i \in p[1] .. p[2] : v = s[i].video
    BY <2>2, Zenon DEF AlongRun
  <2> HIDE DEF ms, s
  <2>4. ASSUME NEW k \in DOMAIN ms, NEW l \in DOMAIN ms, ms[k] = ms[l] PROVE k = l
    <3>0. PICK i, j : i = p[1] + k - 1 /\ j = p[1] + l - 1
      OBVIOUS
    <3>0a. i \in p[1] .. p[2] /\ j \in p[1] .. p[2] /\ ms[k] = s[i].video /\ ms[l] = s[j].video
      BY <2>3, <3>0
    <3>0b. i \in DOMAIN s /\ j \in DOMAIN s /\ s[i].video # NoVideo
      BY <2>3, <3>0a
    <3>1. p[1] + k - 1 = p[1] + l - 1
      BY <2>1, <2>4, <3>0, <3>0a, <3>0b
    <3>2. p[1] \in Int /\ k \in Int /\ l \in Int
      BY <2>3, <2>4, SMT
    <3> QED BY <3>1, <3>2, SMT
  <2>5. 0 \notin Range(ms)
    BY <2>3 DEF NoVideo
  <2> QED BY <2>4, <2>5 DEF Identified, NoneTwice, ms
<1>6. x.files.transcript.chunks = r.transcript.chunks /\ x.files.plan.candidates = s /\ x.files.metadata.series = ss
  BY BuiltParts
<1>7. Identities(x)
  <2> HIDE DEF s, q, vs, ss
  <2>1. /\ Identified(Field(x.files.transcript.chunks, "id")) /\ Identified(Field(x.files.plan.candidates, "id"))
        /\ Identified(Field(Published(x.files.plan.candidates), "video"))
        /\ Identified(Field(vs, "id")) /\ Identified(Field(x.files.metadata.series, "id"))
        /\ \A sr \in Range(x.files.metadata.series) : Identified(sr.members)
    BY <1>3, <1>4, <1>5, <1>6 DEF q
  <2> QED BY <1>2, <2>1 DEF Identities, vs
<1> QED BY <1>1, <1>7

\* What a candidate and a video of the catalogue refer to.
LEMMA BuiltVideosRefer ==
    ASSUME NEW r, Handed(r), NEW x, x = Delivery(r, Documents(r))
    PROVE  LET m == x.manifest  t == x.files.transcript  p == x.files.plan  c == x.files.metadata
           IN  /\ {m.transcript, m.rendering, p.transcript} = {t.id} /\ m.plan = p.id /\ t.duration = m.duration
               /\ \A k \in Range(p.candidates) : CandidateRefers(k, t, m.duration)
               /\ \A v \in Range(c.videos) : VideoRefers(v, p)
               /\ NoneTwice(Field(c.videos, "source"))
               /\ {<<k.id, k.video>> : k \in Range(Published(p.candidates))} = {<<v.source, v.id>> : v \in Range(c.videos)}
               /\ Range(MediaPaths(m)) = {v.path : v \in Range(c.videos)}
<1> DEFINE m == x.manifest
           t == x.files.transcript
           p == x.files.plan
           c == x.files.metadata
<1>0. PICK s, q, vs : s = r.plan.candidates /\ q = Published(s) /\ vs = Documents(r).metadata.videos
  OBVIOUS
<1>1. p.candidates = s /\ c.videos = vs /\ Published(p.candidates) = q
  BY <1>0, BuiltParts
<1>2. {m.transcript, m.rendering, p.transcript} = {t.id} /\ m.plan = p.id /\ t.duration = m.duration
  BY BuiltParts DEF Handed, Requestable
<1>3. /\ DOMAIN vs = 1 .. Len(q) /\ DOMAIN q = 1 .. Len(q)
      /\ \A k \in 1 .. Len(q) : vs[k] = ShortVideo(q[k])
      /\ \A k, l \in 1 .. Len(q) : q[k].id = q[l].id => k = l
  BY <1>0, BuiltVideos
<1>4. \A k \in Range(q) : k \in Range(s) /\ Comparable(k)
  BY <1>0, BuiltVideos
<1>5. Range(vs) = {ShortVideo(k) : k \in Range(q)}
  <2>1. Catalogues(vs, q)
    BY <1>0, BuiltVideos
  <2> QED BY <2>1 DEF Catalogues
<1>6. t.chunks = r.transcript.chunks /\ m.duration = r.transcript.duration
  BY BuiltParts
<1> HIDE DEF m, t, p, c
<1>7. ASSUME NEW k \in Range(s) PROVE CandidateRefers(k, t, m.duration)
  <2>1. k.chunks \subseteq {u.id : u \in Range(t.chunks)}
    BY <1>0, <1>6 DEF Handed, Requestable
  <2>2. IssuedCandidate(k, m.duration)
    BY <1>0, <1>6 DEF Handed, Issued
  <2> QED BY <2>1, <2>2 DEF CandidateRefers, IssuedCandidate
<1>8. ASSUME NEW k PROVE /\ ShortVideo(k).id = k.video /\ ShortVideo(k).source = k.id /\ ShortVideo(k).topic = k.topic
                         /\ ShortVideo(k).start = k.final.start /\ ShortVideo(k).end = k.final.end
                         /\ ShortVideo(k).path = k.video
  BY DEF ShortVideo
<1>9. ASSUME NEW v \in Range(vs) PROVE VideoRefers(v, p)
  <2>1. PICK k \in Range(q) : v = ShortVideo(k)
    BY <1>5
  <2>2. k \in Range(p.candidates) /\ k.final \in [start : Int, end : Int]
    BY <1>1, <1>4 DEF Comparable
  <2>3. [start |-> v.start, end |-> v.end] = k.final
    BY <1>8, <2>1, <2>2
  <2>4. k.id = v.source /\ v.topic = k.topic /\ v.path = v.id
    BY <1>8, <2>1
  <2> QED BY <2>2, <2>3, <2>4 DEF VideoRefers
<1>10. NoneTwice(Field(vs, "source"))
  <2>1. ASSUME NEW k \in 1 .. Len(q) PROVE vs[k].source = q[k].id
    BY <1>3, <1>8
  <2>2. Field(vs, "source") = [k \in 1 .. Len(q) |-> vs[k].source]
    BY <1>3 DEF Field
  <2> QED BY <1>3, <2>1, <2>2 DEF NoneTwice
<1>11. {<<k.id, k.video>> : k \in Range(q)} = {<<v.source, v.id>> : v \in Range(vs)}
  <2>1. \A k \in Range(q) : <<k.id, k.video>> = <<ShortVideo(k).source, ShortVideo(k).id>>
    BY <1>8
  <2> QED BY <1>5, <2>1
<1>12. Range(MediaPaths(m)) = {v.path : v \in Range(vs)}
  <2>1. Documents(r).clips \in SUBSET Nat /\ IsFiniteSet(Documents(r).clips)
    BY DEF Handed, Readable
  <2>2. Range(MediaPaths(m)) = Documents(r).clips
    <3>1. m = Manifest(r, Documents(r))
      BY BuiltParts DEF m
    <3> QED BY <2>1, <3>1, BuiltFiles
  <2>3. Documents(r).clips = {k.video : k \in Range(q)}
    BY <1>0, BuiltParts
  <2>4. \A k \in Range(q) : k.video = ShortVideo(k).path
    BY <1>8
  <2> QED BY <1>5, <2>2, <2>3, <2>4
<1> QED BY <1>1, <1>2, <1>7, <1>9, <1>10, <1>11, <1>12, Zenon DEF m, t, p, c

\* A series refers to videos that follow one another, and no video is in two.
LEMMA BuiltSeriesRefer ==
    ASSUME NEW r, Handed(r), NEW x, x = Delivery(r, Documents(r)), KeepsOrder(r.plan.candidates)
    PROVE  SeriesRefer(x.files.plan, x.files.metadata) /\ SeriesExpected(x.files.plan, x.files.metadata)
<1>0. PICK s, q, vs, ss : /\ s = r.plan.candidates /\ q = Published(s) /\ vs = Documents(r).metadata.videos
                          /\ ss = r.plan.series
  OBVIOUS
<1> DEFINE p == x.files.plan
           c == x.files.metadata
<1>1. p.candidates = s /\ c.videos = vs /\ c.series = ss
  BY <1>0, BuiltParts
<1>2. Sequential(s) /\ \A k \in Range(s) : Comparable(k)
  BY <1>0, VideosNamedOnce
<1>2a. \A i, j \in DOMAIN s : s[i].video # NoVideo /\ s[i].video = s[j].video => i = j
  BY <1>0, VideosNamedOnce
<1>3. Ordered(p.candidates) = s
  BY <1>0, <1>1, <1>2, OrderKept
<1>4. Range(vs) = {ShortVideo(k) : k \in Range(q)} /\ \A k \in Range(q) : k \in Range(s) /\ k.video # NoVideo
  <2>1. Catalogues(vs, q)
    BY <1>0, BuiltVideos
  <2>2. ASSUME NEW k \in Range(q) PROVE k \in Range(s) /\ k.video # NoVideo
    BY <1>0, BuiltVideos
  <2> QED BY <2>1, <2>2 DEF Catalogues
<1>4a. \A k \in Range(s) : k.video # NoVideo => k \in Range(q)
  BY <1>0, BuiltVideos
<1>5. Len(s) \in Nat /\ DOMAIN s = 1 .. Len(s) /\ \A k \in Range(s) : \E i \in DOMAIN s : k = s[i]
  BY <1>2, SequentialFacts
<1>5a. \A i \in DOMAIN s : s[i] \in Range(s)
  BY DEF Range
<1> HIDE DEF p, c
<1>6. SeriesExpected(p, c)
  <2>1. {[topic |-> sr.topic, members |-> sr.members] : sr \in Range(ss)} = SameTopicRuns(s)
    BY <1>0 DEF Handed, Issued, IssuedSeries
  <2> QED BY <1>1, <1>3, <2>1 DEF SeriesExpected
<1>7. ASSUME NEW sr \in Range(ss) PROVE \E u : AlongRun(sr, s, u)
  BY <1>0, SeriesMembers
<1>8. ASSUME NEW sr \in Range(ss)
      PROVE  /\ Range(sr.members) \subseteq {v.id : v \in Range(vs)}
             /\ \A v \in Range(vs) : v.id \in Range(sr.members) => v.topic = sr.topic
             /\ \E first \in DOMAIN s : /\ first + Len(sr.members) - 1 <= Len(s)
                                        /\ sr.members = VideosFrom(s, first, Len(sr.members))
  <2>1. PICK u : AlongRun(sr, s, u)
    BY <1>7
  <2>2. ASSUME NEW w \in Range(sr.members) PROVE w \in {v.id : v \in Range(vs)}
    <3>1. PICK i \in u[1] .. u[2] : w = s[i].video
      BY <2>1 DEF AlongRun
    <3>2. i \in DOMAIN s /\ s[i].video # NoVideo
      BY <2>1, <3>1 DEF AlongRun
    <3>3. ShortVideo(s[i]) \in Range(vs) /\ ShortVideo(s[i]).id = s[i].video
      <4>1. s[i] \in Range(q)
        BY <1>4a, <1>5a, <3>2
      <4> QED BY <1>4, <4>1 DEF ShortVideo
    <3> QED BY <3>1, <3>3
  <2>3. ASSUME NEW v \in Range(vs), v.id \in Range(sr.members) PROVE v.topic = sr.topic
    <3>1. PICK k \in Range(q) : v = ShortVideo(k)
      BY <1>4
    <3>2. k \in Range(s) /\ k.video # NoVideo /\ v.id = k.video /\ v.topic = k.topic
      BY <1>4, <3>1 DEF ShortVideo
    <3>3. PICK j \in DOMAIN s : k = s[j]
      BY <1>5, <3>2
    <3>4. PICK i \in u[1] .. u[2] : v.id = s[i].video
      BY <2>1, <2>3 DEF AlongRun
    <3>5. i \in DOMAIN s /\ s[i].topic = s[u[1]].topic /\ sr.topic = s[u[1]].topic
      BY <2>1, <3>4 DEF AlongRun
    <3>6. i = j
      BY <1>2a, <3>2, <3>3, <3>4, <3>5
    <3> QED BY <3>2, <3>3, <3>5, <3>6
  <2>4. /\ u[1] \in DOMAIN s /\ u[1] + Len(sr.members) - 1 <= Len(s)
        /\ sr.members = VideosFrom(s, u[1], Len(sr.members))
    <3>1. /\ u[1] \in 1 .. Len(s) /\ u[2] \in 1 .. Len(s) /\ Len(sr.members) = u[2] - u[1] + 1
          /\ sr.members = VideosFrom(s, u[1], u[2] - u[1] + 1)
      BY <2>1 DEF AlongRun
    <3>2. u[1] + (u[2] - u[1] + 1) - 1 <= Len(s)
      BY <1>5, <3>1, SMT
    <3> QED BY <1>5, <3>1, <3>2
  <2> QED BY <2>2, <2>3, <2>4
<1>9. ASSUME NEW i \in DOMAIN ss, NEW j \in DOMAIN ss, i # j
      PROVE  Range(ss[i].members) \cap Range(ss[j].members) = {}
  <2> SUFFICES ASSUME NEW w \in Range(ss[i].members), w \in Range(ss[j].members) PROVE FALSE
    OBVIOUS
  <2>1. ss[i] \in Range(ss) /\ ss[j] \in Range(ss)
    BY DEF Range
  <2>2. PICK u : AlongRun(ss[i], s, u)
    BY <1>7, <2>1
  <2>3. PICK v : AlongRun(ss[j], s, v)
    BY <1>7, <2>1
  <2>4. PICK a \in u[1] .. u[2] : w = s[a].video
    BY <2>2 DEF AlongRun
  <2>5. PICK b \in v[1] .. v[2] : w = s[b].video
    BY <2>3 DEF AlongRun
  <2>6. a \in DOMAIN s /\ s[a].video # NoVideo /\ b \in DOMAIN s
    BY <2>2, <2>3, <2>4, <2>5 DEF AlongRun
  <2>7. a = b
    BY <1>2a, <2>4, <2>5, <2>6
  <2>8. u \in LongestRuns(s) /\ v \in LongestRuns(s)
    BY <2>2, <2>3 DEF AlongRun
  <2>9. u = v
    BY <1>2, <2>4, <2>5, <2>7, <2>8, OneRunOnly
  <2>10. ss[i].members = ss[j].members
    BY <2>2, <2>3, <2>9 DEF AlongRun
  <2>11. ss[i].members = ss[j].members => i = j
    BY <1>0, BuiltSeries
  <2> QED BY <1>9, <2>10, <2>11
<1>10. SeriesRefer(p, c)
  BY <1>1, <1>3, <1>8, <1>9, Zenon DEF SeriesRefer
<1> QED BY <1>6, <1>10 DEF p, c

\* The manifest counts the clips, and says empty exactly if there are none.
LEMMA BuiltResult ==
    ASSUME NEW r, Handed(r), NEW x, x = Delivery(r, Documents(r))
    PROVE  ResultKind(x) /\ TreeEntries(x) /\ ListedContents(x) /\ HumanReport(x)
<1> DEFINE m == x.manifest
           p == x.files.plan
           c == x.files.metadata
<1>0. PICK s, q, vs, ss : /\ s = r.plan.candidates /\ q = Published(s) /\ vs = Documents(r).metadata.videos
                          /\ ss = r.plan.series
  OBVIOUS
<1>1. c.videos = vs /\ c.series = ss /\ c.kind = KindOf(r)
  BY <1>0, BuiltParts
<1>1a. p.kind = KindOf(r) /\ p.published = Len(q) /\ p.count = Len(s)
  BY <1>0, BuiltParts
<1>1b. m.run = r.run /\ m.kind = KindOf(r) /\ m.facts = r.facts /\ m = Manifest(r, Documents(r)) /\ x.files = Documents(r)
  BY BuiltParts
<1>2. Documents(r).clips \in SUBSET Nat /\ IsFiniteSet(Documents(r).clips)
  BY DEF Handed, Readable
<1>3. /\ Range(MediaPaths(m)) = Documents(r).clips /\ Len(MediaPaths(m)) = Cardinality(Documents(r).clips)
      /\ \A f \in Range(m.files) : f.content = IF f.kind = "media" THEN {f.name} ELSE {Documents(r)[f.name]}
  <2> HIDE DEF m
  <2>1. PICK d : d = Documents(r)
    OBVIOUS
  <2>2. d.clips \in SUBSET Nat /\ IsFiniteSet(d.clips) /\ m = Manifest(r, d)
    BY <1>1b, <1>2, <2>1
  <2>3. Range(MediaPaths(m)) = d.clips /\ Len(MediaPaths(m)) = Cardinality(d.clips)
    BY <2>2, BuiltFiles
  <2>4. ASSUME NEW f \in Range(m.files) PROVE f.content = IF f.kind = "media" THEN {f.name} ELSE {d[f.name]}
    BY <2>2, BuiltFiles
  <2> QED BY <2>1, <2>3, <2>4
<1>4. Sequential(vs) /\ Sequential(q) /\ Len(vs) = Len(q) /\ Len(q) \in Nat /\ DOMAIN q = 1 .. Len(q)
  BY <1>0, BuiltVideos
<1>5. \A k \in Range(s) : k.video # NoVideo => k \in Range(q)
  BY <1>0, BuiltVideos
<1> HIDE DEF m, p, c
<1>6. Cardinality(Documents(r).clips) = Len(q)
  <2> DEFINE vq == Field(q, "video")
  <2>1. NoneTwice(vq)
    BY <1>0 DEF Handed, Issued, Identified
  <2>2. vq = [k \in DOMAIN q |-> q[k].video]
    BY DEF Field
  <2> HIDE DEF vq
  <2>3. DOMAIN vq = 1 .. Len(q)
    BY <1>4, <2>2
  <2>4. Cardinality(Range(vq)) = Len(q)
    BY <1>4, <2>1, <2>3, CountedOnce
  <2>5. Documents(r).clips = {k.video : k \in Range(q)}
    BY <1>0, BuiltParts
  <2>6. Range(vq) = {k.video : k \in Range(q)}
    BY <2>2 DEF Range
  <2> QED BY <2>4, <2>5, <2>6
<1>7. m.facts.videos = Len(q) /\ r.facts.videos = Len(q)
  BY <1>0, <1>1b DEF Handed, Requestable
<1>8. \A l \in {q, vs} : l = <<>> <=> Len(l) = 0
  <2>1. ASSUME NEW l, Sequential(l) PROVE l = <<>> <=> Len(l) = 0
    <3>1. l \in Seq(Range(l))
      BY <2>1 DEF Sequential
    <3> QED BY <3>1
  <2> QED BY <1>4, <2>1
<1>9. KindOf(r) = IF q = <<>> THEN "empty" ELSE "clips"
  BY <1>0 DEF KindOf
<1>10. q = <<>> => ss = <<>>
  <2>1. ASSUME q = <<>>, NEW sr \in Range(ss) PROVE FALSE
    <3>1. PICK u : AlongRun(sr, s, u)
      BY <1>0, <2>1, SeriesMembers
    <3>2. u[1] \in 1 .. Len(s) /\ u[2] \in 1 .. Len(s) /\ u[1] < u[2]
      BY <3>1 DEF AlongRun
    <3>3. u[1] \in u[1] .. u[2]
      <4>1. Len(s) \in Nat
        <5>1. Sequential(s)
          BY <1>0, VideosNamedOnce
        <5> QED BY <5>1, SequentialFacts
      <4> QED BY <3>2, <4>1, SMT
    <3>4. u[1] \in DOMAIN s /\ s[u[1]].video # NoVideo
      BY <3>1, <3>3 DEF AlongRun
    <3>5. s[u[1]] \in Range(q)
      BY <1>5, <3>4 DEF Range
    <3>6. Range(q) = {}
      BY <2>1 DEF Range
    <3> QED BY <3>5, <3>6
  <2>2. Sequential(ss)
    BY <1>0, BuiltSeries
  <2>3. Range(ss) = {} => ss = <<>>
    <3>1. ss \in Seq(Range(ss))
      BY <2>2 DEF Sequential
    <3>2. Range(ss) = {} => Len(ss) = 0
      <4>1. Len(ss) \in Nat /\ \A k \in 1 .. Len(ss) : ss[k] \in Range(ss)
        BY <3>1
      <4>2. Len(ss) # 0 => 1 \in 1 .. Len(ss)
        BY <4>1, SMT
      <4> QED BY <4>1, <4>2
    <3> QED BY <3>1, <3>2
  <2> QED BY <2>1, <2>3
<1>11. SummaryConsistent(m)
  <2>1. KindOf(r) = "empty" => NoneCounted(r.facts)
    BY DEF Handed, Issued
  <2>2. KindOf(r) # "empty" => Len(q) > 0
    BY <1>4, <1>8, <1>9, SMT
  <2>3. m.facts.videos = Len(MediaPaths(m))
    BY <1>3, <1>6, <1>7
  <2> QED BY <1>1b, <1>7, <2>1, <2>2, <2>3, Zenon DEF SummaryConsistent
<1>12. ResultKind(x)
  <2>1. {p.kind, c.kind} = {m.kind} /\ p.published = Len(c.videos) /\ m.facts.videos = Len(c.videos)
    BY <1>1, <1>1a, <1>1b, <1>4, <1>7
  <2>2. IF m.kind = "empty" THEN c.videos = <<>> /\ c.series = <<>> ELSE c.videos # <<>>
    BY <1>1, <1>1b, <1>4, <1>8, <1>9, <1>10
  <2> QED BY <1>11, <2>1, <2>2 DEF ResultKind, m, p, c
<1>13. TreeEntries(x)
  <2>1. x.directories = {"clips"} /\ x.others = {}
    BY BuiltParts
  <2> QED BY <1>1b, <1>3, <2>1 DEF TreeEntries, m
<1>14. ListedContents(x)
  BY <1>1b, <1>3 DEF ListedContents, m
<1>15. HumanReport(x)
  <2>1. x.files.report = Report(r.run, KindOf(r), Len(s), Len(q))
    BY <1>0, BuiltParts
  <2> QED BY <1>1a, <1>1b, <2>1 DEF HumanReport, m, p
<1> QED BY <1>12, <1>13, <1>14, <1>15

\* What the builder makes of a request that exists is accepted, unless a fix
\* made one candidate overtake another.
LEMMA BuiltAccepted ==
    ASSUME NEW r, Handed(r), KeepsOrder(r.plan.candidates), NEW x, x = Delivery(r, Documents(r))
    PROVE  AllHold(x)
<1>1. References(x)
  BY BuiltVideosRefer, BuiltSeriesRefer, Zenon DEF References
<1>2. ManifestPaths(x.manifest)
  <2>1. Documents(r).clips \in SUBSET Nat /\ IsFiniteSet(Documents(r).clips)
    BY DEF Handed, Readable
  <2>2. x.manifest = Manifest(r, Documents(r))
    BY BuiltParts
  <2> QED BY <2>1, <2>2, BuiltFiles
<1>3. x.files.srt = Rendering(x.files.transcript)
  BY BuiltParts
<1> QED BY <1>1, <1>2, <1>3, BuiltAlone, BuiltIdentities, BuiltResult, Zenon DEF AllHold

-----------------------------------------------------------------------------
(* The documents of a delivery: the invariant                                *)

\* What lies in the directory is of the run of a request that exists, and either
\* the manifest or what it describes is as it was built.
Found ==
    /\ Requestable(request) /\ docs.run = request.run
    /\ Readable(docs.files) /\ Sequential(docs.manifest.files)
    /\ docs.manifest.kind = KindOf(request) \/ docs.files = Documents(request)
    /\ ~defective => docs = Delivery(request, Documents(request))

DocsInv ==
    /\ request \in Requests /\ defective \in BOOLEAN /\ phase \in {"build", "verify", "done"}
    /\ phase # "done" => verified = "none"
    /\ phase = "verify" => Found
    /\ phase = "done" => verified = "refused" \/ (verified = Answer(docs) /\ Found)

LEMMA DocsInvStart == DocsInit => DocsInv
  BY DEF DocsInit, DocsInv

LEMMA DocsBuilt ==
    ASSUME DocsInv, BuildDocuments
    PROVE  DocsInv'
<1>1. request \in Requests /\ verified = "none" /\ Requestable(request)
  BY DEF DocsInv, BuildDocuments
<1>2. /\ Readable(Documents(request))
      /\ \A d \in DefectsOf(Documents(request)) : Readable(d) /\ \A e \in DefectsOf(d) : Readable(e)
  BY <1>1, DocsAssumption DEF DocsInputs
<1>3. phase' = "verify" /\ request' = request /\ verified' = verified
  BY DEF BuildDocuments
<1>4. PICK e : /\ docs' = Delivery(request, e) /\ defective' \in BOOLEAN /\ Readable(e)
               /\ ~defective' => e = Documents(request)
  <2>1. CASE docs' = Delivery(request, Documents(request)) /\ defective' = FALSE
    BY <1>2, <2>1
  <2>2. CASE \E d \in DefectsOf(Documents(request)) : \E e \in DefectsOf(d) \cup {d} :
                docs' = Delivery(request, e) /\ defective' = TRUE
    <3>1. PICK d \in DefectsOf(Documents(request)) : \E e \in DefectsOf(d) \cup {d} :
                docs' = Delivery(request, e) /\ defective' = TRUE
      BY <2>2
    <3>2. PICK e \in DefectsOf(d) \cup {d} : docs' = Delivery(request, e) /\ defective' = TRUE
      BY <3>1
    <3> QED BY <1>2, <3>2
  <2> QED BY <2>1, <2>2 DEF BuildDocuments
<1>5. /\ docs'.run = request.run /\ docs'.files = e /\ docs'.manifest = Manifest(request, e)
  BY <1>4 DEF Delivery
<1>6. Sequential(docs'.manifest.files)
  <2>1. e.clips \in SUBSET Nat /\ IsFiniteSet(e.clips)
    BY <1>4 DEF Readable
  <2> QED BY <1>5, <2>1, BuiltFiles
<1>7. docs'.manifest.kind = KindOf(request)
  BY <1>5 DEF Manifest
<1>8. Found'
  BY <1>1, <1>3, <1>4, <1>5, <1>6, <1>7 DEF Found
<1> QED BY <1>1, <1>3, <1>4, <1>8 DEF DocsInv

LEMMA DocsDeviated ==
    ASSUME DocsInv, Deviate
    PROVE  DocsInv'
<1>1. request \in Requests /\ verified = "none" /\ Found /\ docs = Delivery(request, Documents(request))
  BY DEF DocsInv, Deviate, Found
<1>2. /\ phase' = "verify" /\ request' = request /\ verified' = verified /\ defective' = TRUE
      /\ docs' \in DeviationsOf(docs)
  BY DEF Deviate
<1>3. /\ docs'.run = request.run /\ Readable(docs'.files) /\ Sequential(docs'.manifest.files)
      /\ docs'.manifest = Manifest(request, Documents(request)) \/ docs'.files = Documents(request)
  BY <1>1, <1>2, DocsAssumption DEF DocsInputs, Found
<1>4. docs'.manifest.kind = KindOf(request) \/ docs'.files = Documents(request)
  BY <1>3 DEF Manifest
<1>5. Found'
  BY <1>1, <1>2, <1>3, <1>4 DEF Found
<1> QED BY <1>1, <1>2, <1>5 DEF DocsInv

LEMMA DocsInvStep == DocsInv /\ [DocsNext]_docsVars => DocsInv'
<1> SUFFICES ASSUME DocsInv, [DocsNext]_docsVars PROVE DocsInv'
  OBVIOUS
<1>1. CASE BuildDocuments
  BY <1>1, DocsBuilt
<1>2. CASE Deviate
  BY <1>2, DocsDeviated
<1>3. CASE Refuse
  BY <1>3 DEF Refuse, DocsInv
<1>4. CASE VerifyDocuments
  <2>1. /\ Found /\ verified' = Answer(docs) /\ phase' = "done" /\ request' = request /\ docs' = docs
        /\ defective' = defective
    BY <1>4 DEF VerifyDocuments, DocsInv
  <2>2. Found'
    BY <2>1 DEF Found
  <2> QED BY <2>1, <2>2 DEF DocsInv
<1>5. CASE UNCHANGED docsVars
  <2>1. Found => Found'
    BY <1>5 DEF Found, docsVars
  <2> QED BY <1>5, <2>1 DEF DocsInv, docsVars
<1> QED BY <1>1, <1>2, <1>3, <1>4, <1>5 DEF DocsNext

\* What is accepted is complete to whoever knows the run and what came of it.
LEMMA VerifiedIsSound ==
    ASSUME DocsInv, verified = "verified"
    PROVE  /\ OneStory(docs) /\ docs.run = request.run
           /\ ReadsAs(docs.manifest, request.run, KindOf(request)) = "complete"
<1>1. Found /\ AllHold(docs)
  BY AnswerIs DEF DocsInv
<1>2. OneStory(docs) /\ ReadsAs(docs.manifest, docs.run, docs.manifest.kind) = "complete"
  BY <1>1, AcceptedTellsOneStory DEF Found
<1>3. docs.manifest.kind = KindOf(request)
  <2>1. ASSUME docs.files = Documents(request) PROVE docs.manifest.kind = KindOf(request)
    <3>1. {docs.files.plan.kind, docs.files.metadata.kind} = {docs.manifest.kind}
      BY <1>1 DEF AllHold, ResultKind
    <3>2. docs.files.plan.kind = KindOf(request)
      BY <2>1 DEF Documents, PlanDocument
    <3> QED BY <3>1, <3>2
  <2> QED BY <1>1, <2>1 DEF Found
<1> QED BY <1>1, <1>2, <1>3 DEF Found

LEMMA DocsInvSafe == DocsInv => DocsTypeOK /\ DocumentsSound
<1> SUFFICES ASSUME DocsInv PROVE DocsTypeOK /\ DocumentsSound
  OBVIOUS
<1>1. verified = "verified" => /\ OneStory(docs) /\ docs.run = request.run
                               /\ ReadsAs(docs.manifest, request.run, KindOf(request)) = "complete"
  BY VerifiedIsSound
<1>2. ASSUME phase = "done", ~defective, KeepsOrder(request.plan.candidates)
      PROVE  verified \in {"verified", "refused"}
  <2>1. ASSUME verified = Answer(docs), Found PROVE verified = "verified"
    <3>1. Requestable(request) /\ docs = Delivery(request, Documents(request))
      BY <1>2, <2>1 DEF Found
    <3>2. Handed(request)
      BY <3>1, DocsAssumption DEF DocsInputs, DocsInv, Handed
    <3>3. AllHold(docs)
      BY <1>2, <3>1, <3>2, BuiltAccepted
    <3> QED BY <2>1, <3>3, AnswerIs
  <2> QED BY <1>2, <2>1 DEF DocsInv
<1> QED BY <1>1, <1>2 DEF DocsInv, DocsTypeOK, DocumentsSound

\* What is verified is a delivery of the run it was asked of.
THEOREM DocumentsTypeCorrect == DocsSpec => []DocsTypeOK
<1> QED BY DocsInvStart, DocsInvStep, DocsInvSafe, PTL DEF DocsSpec

\* What the verification accepts tells one story whoever wrote it, and reads as
\* complete later; what a builder without a defect wrote is accepted, unless a
\* fix made one candidate overtake another.
THEOREM DocumentsAreSound == DocsSpec => []DocumentsSound
<1> QED BY DocsInvStart, DocsInvStep, DocsInvSafe, PTL DEF DocsSpec

-----------------------------------------------------------------------------
(* The plan as it is handed over: what an issued plan holds                   *)

\* The parts of a plan, in terms of the candidates and their reviews.
FinalStands(i) ==
    LET c == candidates[i]  r == reviews[i]  f == plan.finals[i]
    IN  /\ f.remedy = Remedy(c, r) /\ f.range = IF Remedy(c, r) = "applied" THEN r.fix ELSE RangeOf(c)
        /\ f.selection.published <=> i \in plan.videos
        /\ i \in plan.videos => Fit(r) /\ Remedy(c, r) # "invalid"
RunStands(r) ==
    /\ Len(r) >= 2
    /\ \A x \in 1 .. Len(r) : r[x] = r[1] + x - 1 /\ r[x] \in plan.videos /\ Topic(r[x]) = Topic(r[1])
SeriesStand ==
    /\ plan.series \in Seq(Seq(Nat))
    /\ \A d \in 1 .. Len(plan.series) : RunStands(plan.series[d])
    /\ \A d, e \in 1 .. Len(plan.series) : d < e => Precedes(plan.series[d], plan.series[e])
    /\ \A i \in plan.videos : i + 1 \in plan.videos /\ Topic(i) = Topic(i + 1) =>
         \E d \in 1 .. Len(plan.series) : Together(i, plan.series[d])
PlanStands ==
    /\ outcome \in {"finalize", "issued"} =>
         \A i \in 1 .. Len(candidates) : reviews[i].fix \in [start : Int, end : Int]
    /\ outcome = "issued" => (\A i \in 1 .. Len(candidates) : FinalStands(i)) /\ SeriesStand

\* Whoever is selected is fit, and its boundary can be had.
LEMMA SelectedIsFit ==
    ASSUME NEW i, Reason(i) = "none"
    PROVE  Fit(reviews[i]) /\ Remedy(candidates[i], reviews[i]) # "invalid"
<1>1. ~Excluded(i) /\ ~reviews[i].human /\ ~(~reviews[i].complete)
  BY DEF Reason
<1>2. reviews[i].decision = "publish_ready" /\ ~reviews[i].rejected /\ Remedy(candidates[i], reviews[i]) # "invalid"
  BY <1>1 DEF Reason
<1> QED BY <1>1, <1>2 DEF Fit

\* Finalize makes such a plan.
LEMMA FinalizedStands ==
    ASSUME PlanReady, PlanMade
    PROVE  (\A i \in 1 .. Len(candidates) : FinalStands(i))' /\ SeriesStand'
<1>1. /\ plan'.videos = Selected /\ plan'.series = Series /\ DOMAIN plan'.finals = 1 .. Len(candidates)
      /\ Selected \in SUBSET Eligible /\ Eligible \in SUBSET (1 .. Len(candidates))
      /\ \A i \in 1 .. Len(candidates) :
           /\ plan'.finals[i] = FinalCandidate(i) /\ plan'.finals[i].range = Final(i)
           /\ plan'.finals[i].selection.published <=> i \in Selected
  BY PlanFields DEF PlanMade
<1>2. UNCHANGED <<chunks, policy, candidates, reviews>>
  BY DEF PlanMade
<1>3. ASSUME NEW i \in 1 .. Len(candidates) PROVE FinalStands(i)'
  <2>1. plan'.finals[i].remedy = Remedy(candidates[i], reviews[i])
    <3>1. PICK x, y, z : x = Final(i) /\ y = Remedy(candidates[i], reviews[i]) /\ z = Selection(i)
      OBVIOUS
    <3>2. FinalCandidate(i) = [range |-> x, remedy |-> y, selection |-> z]
      BY <3>1, Zenon DEF FinalCandidate
    <3>3. FinalCandidate(i).remedy = y
      BY <3>2
    <3> QED BY <1>1, <3>1, <3>3
  <2>2. plan'.finals[i].range =
           IF Remedy(candidates[i], reviews[i]) = "applied" THEN reviews[i].fix ELSE RangeOf(candidates[i])
    BY <1>1 DEF Final, RangeOf
  <2>3. i \in Selected => Fit(reviews[i]) /\ Remedy(candidates[i], reviews[i]) # "invalid"
    <3>1. i \in Selected => Reason(i) = "none"
      BY <1>1 DEF Eligible
    <3> QED BY <3>1, SelectedIsFit
  <2>4. Remedy(candidates[i], reviews[i])' = Remedy(candidates[i], reviews[i])
    BY <1>2 DEF Remedy, LegalFix, Requested
  <2>5. plan'.finals[i].selection.published <=> i \in plan'.videos
    BY <1>1
  <2> QED BY <1>1, <1>2, <2>1, <2>2, <2>3, <2>4, <2>5 DEF FinalStands, Fit, RangeOf
<1>4. SeriesStand'
  <2>0. PICK s : s = Series
    OBVIOUS
  <2>1. /\ s \in Seq(Seq(Nat))
        /\ \A d \in 1 .. Len(s) : Len(s[d]) >= 2 /\ IsRun(s[d], Len(candidates))
        /\ \A d, e \in 1 .. Len(s) : d < e => Precedes(s[d], s[e])
        /\ \A i \in Selected : Neighbours(i, Len(candidates)) => \E d \in 1 .. Len(s) : Together(i, s[d])
    BY <2>0, SeriesPass DEF Closed
  <2>2. plan'.series = s /\ plan'.videos = Selected /\ reviews' = reviews
    BY <1>1, <1>2, <2>0
  <2>3. ASSUME NEW r, Len(r) >= 2, IsRun(r, Len(candidates)) PROVE RunStands(r)'
    BY <2>2, <2>3 DEF IsRun, RunStands, Topic
  <2>4. ASSUME NEW i \in Selected, i + 1 \in Selected, Topic(i) = Topic(i + 1)
        PROVE  \E d \in 1 .. Len(s) : Together(i, s[d])
    <3>1. i + 1 <= Len(candidates)
      BY <2>4, SelectedNumbers, SMT
    <3> QED BY <2>1, <2>4, <3>1 DEF Neighbours
  <2>5. \A d \in 1 .. Len(plan'.series) : RunStands(plan.series[d])'
    <3>1. ASSUME NEW d \in 1 .. Len(s) PROVE RunStands(plan.series[d])'
      <4>1. PICK r : r = s[d]
        OBVIOUS
      <4>2. Len(r) >= 2 /\ IsRun(r, Len(candidates)) /\ plan'.series[d] = r
        BY <2>1, <2>2, <4>1
      <4>3. RunStands(r)'
        BY <2>3, <4>2
      <4> QED BY <4>2, <4>3 DEF RunStands, Topic
    <3> QED BY <2>2, <3>1
  <2>6. \A i \in plan'.videos : i + 1 \in plan'.videos /\ Topic(i)' = Topic(i + 1)' =>
           \E d \in 1 .. Len(plan'.series) : Together(i, plan'.series[d])
    BY <2>2, <2>4 DEF Topic
  <2>7. \A d, e \in 1 .. Len(plan'.series) : d < e => Precedes(plan'.series[d], plan'.series[e])
    BY <2>1, <2>2
  <2> QED BY <2>1, <2>2, <2>5, <2>6, <2>7 DEF SeriesStand, Precedes, Together
<1> QED BY <1>2, <1>3, <1>4

LEMMA PlanStandsHolds == PlanSpec => []PlanStands
<1>1. PlanInit => PlanStands
  BY DEF PlanInit, PlanStands
<1>2. PlanInv /\ PlanStands /\ [PlanNext]_planVars => PlanStands'
  <2> SUFFICES ASSUME PlanInv, PlanStands, [PlanNext]_planVars PROVE PlanStands'
    OBVIOUS
  <2>1. CASE PrepareCandidates
    BY <2>1 DEF PrepareCandidates, PlanStands
  <2>2. CASE ReviewCandidates
    <3>1. PlanGiven /\ CandidatesTaken /\ UNCHANGED <<chunks, policy, candidates, plan>> /\ outcome' = "finalize"
      BY <2>2, PlanAssumption DEF ReviewCandidates, PlanInv, PlanGiven
    <3>2. ASSUME NEW i \in 1 .. Len(candidates) PROVE reviews'[i].fix \in [start : Int, end : Int]
      <4>1. i \in DOMAIN candidates /\ candidates[i] \in Candidates(chunks)
        BY <3>1, EveryCandidate
      <4>2. reviews'[i] \in ReviewsOf(candidates[i])
        BY <2>2, <4>1 DEF ReviewCandidates
      <4> QED BY <3>1, <4>1, <4>2 DEF PlanGiven, PlanInputs
    <3> QED BY <3>1, <3>2 DEF PlanStands
  <2>3. CASE ReviewIncomplete
    BY <2>3 DEF ReviewIncomplete, PlanStands
  <2>4. CASE Finalize
    <3>1. PlanReady /\ PlanMade /\ outcome = "finalize"
      BY <2>4, PlanAssumption DEF PlanInv, PlanReady, PlanGiven, PlanMade, Finalize
    <3>2. UNCHANGED <<chunks, policy, candidates, reviews>>
      BY <3>1 DEF PlanMade
    <3>3. (\A i \in 1 .. Len(candidates) : FinalStands(i))' /\ SeriesStand'
      BY <3>1, FinalizedStands
    <3> QED BY <3>1, <3>2, <3>3 DEF PlanStands
  <2>5. CASE UNCHANGED planVars
    <3>1. UNCHANGED <<chunks, policy, candidates, reviews, plan, outcome>>
      BY <2>5 DEF planVars
    <3>2. \A i : FinalStands(i) => FinalStands(i)'
      <4>1. \A i : Remedy(candidates[i], reviews[i])' = Remedy(candidates[i], reviews[i])
        BY <3>1 DEF Remedy, LegalFix, Requested
      <4> QED BY <3>1, <4>1 DEF FinalStands, Fit, RangeOf
    <3>3. SeriesStand => SeriesStand'
      BY <3>1 DEF SeriesStand, RunStands, Precedes, Together, Topic
    <3> QED BY <3>1, <3>2, <3>3 DEF PlanStands
  <2> QED BY <2>1, <2>2, <2>3, <2>4, <2>5 DEF PlanNext
<1> QED BY <1>1, <1>2, PlanInvHolds, PTL DEF PlanSpec

-----------------------------------------------------------------------------
(* The plan as it is handed over: its candidates                             *)

\* A function of the numbers up to one is a sequence of what it shows.
LEMMA Listable ==
    ASSUME NEW n \in Nat, NEW s, DOMAIN s = 1 .. n, s = [k \in 1 .. n |-> s[k]]
    PROVE  Sequential(s) /\ Len(s) = n
<1>1. \A k \in 1 .. n : s[k] \in Range(s)
  BY DEF Range
<1>2. s \in [1 .. n -> Range(s)]
  BY <1>1
<1>3. s \in Seq(Range(s))
  BY <1>2
<1> QED BY <1>3 DEF Sequential

\* A plan is issued of reviews that can be relied on.
Issuing == PlanInv /\ PlanStands /\ Reviewed

\* A candidate, field by field.
LEMMA HandedFields ==
    ASSUME NEW i, NEW h, h = CandidateHanded(i)
    PROVE  /\ h.id = i /\ h.chunks = candidates[i].first .. candidates[i].last
           /\ h.initial = RangeOf(candidates[i]) /\ h.final = plan.finals[i].range
           /\ h.status = plan.finals[i].remedy /\ h.suggested = reviews[i].suggested /\ h.requested = reviews[i].fix
           /\ h.review.suggested = reviews[i].suggested /\ h.review.requested = reviews[i].fix
           /\ h.topic = Topic(i) /\ h.fit = Fit(reviews[i])
           /\ h.video = IF plan.finals[i].selection.published THEN i ELSE NoVideo
<1>1. PICK c, r, f, t, g, v, a, q, u :
         /\ c = candidates[i].first .. candidates[i].last /\ r = reviews[i] /\ f = plan.finals[i]
         /\ t = Topic(i) /\ g = Fit(r) /\ v = (IF plan.finals[i].selection.published THEN i ELSE NoVideo)
         /\ a = RangeOf(candidates[i]) /\ q = r.suggested /\ u = r.fix
  OBVIOUS
<1>2. PICK x, y, z : x = f.range /\ y = f.remedy /\ z = [suggested |-> q, requested |-> u]
  OBVIOUS
<1>3. h = [id |-> i, chunks |-> c, initial |-> a, final |-> x, status |-> y, suggested |-> q, requested |-> u,
           review |-> z, topic |-> t, fit |-> g, video |-> v]
  BY <1>1, <1>2, Zenon DEF CandidateHanded
<1>4. /\ h.id = i /\ h.chunks = c /\ h.initial = a /\ h.final = x /\ h.status = y /\ h.suggested = q
      /\ h.requested = u /\ h.review = z /\ h.topic = t /\ h.fit = g /\ h.video = v
  BY <1>3
<1>5. h.review.suggested = q /\ h.review.requested = u
  BY <1>2, <1>4
<1> QED BY <1>1, <1>2, <1>4, <1>5, Zenon

\* Where a candidate lies, and what became of its boundary.
LEMMA HandedRange ==
    ASSUME Issuing, NEW i \in 1 .. Len(candidates), NEW h, h = CandidateHanded(i)
    PROVE  /\ h.final \in [start : Int, end : Int]
           /\ h.chunks # {} /\ MaterialRange(h.initial) /\ MaterialRange(h.final)
           /\ h.initial.end <= Duration /\ h.final.end <= Duration
           /\ h.requested = NoRange \/ MaterialRange(h.requested)
           /\ RemedySchema(h)
<1> DEFINE c == candidates[i]
           r == reviews[i]
<1>1. PlanGiven /\ CandidatesTaken /\ r.fix \in [start : Int, end : Int] /\ FinalStands(i)
  BY PlanAssumption DEF Issuing, PlanInv, PlanStands, Reviewed, PlanGiven
<1>2. /\ c.first \in 1 .. Len(chunks) /\ c.last \in c.first .. Len(chunks)
      /\ c.start \in Int /\ c.end \in Int /\ 0 <= c.start /\ c.start < c.end /\ c.end <= Duration
      /\ DOMAIN candidates = 1 .. Len(candidates)
  BY <1>1, EveryCandidate
<1>3. r.suggested = (r.fix # NoFix) /\ (r.suggested => LegalFix(c, r.fix))
  BY <1>2 DEF Issuing, Reviewed, Reviewable
<1>4. /\ h.chunks = c.first .. c.last /\ h.initial = RangeOf(c) /\ h.final = plan.finals[i].range
      /\ h.status = plan.finals[i].remedy /\ h.suggested = r.suggested /\ h.requested = r.fix
  BY HandedFields
<1>5. h.status = Remedy(c, r) /\ h.final = IF Remedy(c, r) = "applied" THEN r.fix ELSE RangeOf(c)
  BY <1>1, <1>4 DEF FinalStands
<1>6. Duration \in Nat /\ Len(chunks) \in Nat
  BY <1>1, ChunkFacts
<1>7. RangeOf(c) \in [start : Int, end : Int] /\ RangeOf(c).start = c.start /\ RangeOf(c).end = c.end
  BY <1>2 DEF RangeOf
<1>8. h.chunks # {}
  <2>1. c.first \in c.first .. c.last
    BY <1>2, <1>6, SMT
  <2> QED BY <1>4, <2>1
<1>9. r.fix = NoFix \/ /\ r.fix.start \in 0 .. c.start /\ r.fix.end \in c.end .. Duration
                       /\ r.fix.start # c.start \/ r.fix.end # c.end
  BY <1>3 DEF LegalFix
<1>10. r.fix.start \in Int /\ r.fix.end \in Int /\ NoFix = NoRange
  BY <1>1 DEF NoFix, NoRange
<1>11. r.fix = NoFix \/ /\ 0 <= r.fix.start /\ r.fix.start <= c.start /\ c.end <= r.fix.end /\ r.fix.end <= Duration
                        /\ r.fix # RangeOf(c)
  <2>1. r.fix.start # c.start \/ r.fix.end # c.end => r.fix # RangeOf(c)
    BY <1>7
  <2> QED BY <1>2, <1>6, <1>9, <1>10, <2>1
<1>12. r.fix = NoFix \/ MaterialRange(r.fix)
  BY <1>2, <1>10, <1>11, SMT DEF MaterialRange
<1>13. MaterialRange(RangeOf(c))
  BY <1>2, <1>7 DEF MaterialRange
<1>14. /\ ~r.suggested => r.fix = NoFix /\ Remedy(c, r) = "not_needed"
       /\ r.suggested => r.fix # NoFix /\ Remedy(c, r) = "applied"
  BY <1>3 DEF Remedy, Requested
<1>15. CASE r.suggested
  <2>1. h.status = "applied" /\ h.final = r.fix /\ r.fix # NoFix /\ h.final # h.initial
    BY <1>4, <1>5, <1>11, <1>14, <1>15
  <2>2. h.final.start <= h.initial.start /\ h.initial.end <= h.final.end
    BY <1>4, <1>7, <1>11, <2>1
  <2>3. RemedySchema(h)
    BY <1>4, <2>1, <2>2 DEF RemedySchema
  <2> QED BY <1>1, <1>2, <1>4, <1>7, <1>8, <1>11, <1>12, <1>13, <2>1, <2>3
<1>16. CASE ~r.suggested
  <2>1. h.status = "not_needed" /\ h.final = RangeOf(c) /\ r.fix = NoFix /\ h.final = h.initial
    BY <1>4, <1>5, <1>14, <1>16
  <2>2. RemedySchema(h)
    BY <1>4, <1>10, <1>16, <2>1 DEF RemedySchema
  <2> QED BY <1>2, <1>4, <1>7, <1>8, <1>10, <1>13, <2>1, <2>2
<1> QED BY <1>15, <1>16

\* The candidates are those of the plan, numbered.
LEMMA HandedCandidates ==
    ASSUME Issuing, NEW s, s = PlanHanded.candidates
    PROVE  /\ Sequential(s) /\ Len(candidates) \in Nat /\ Len(s) = Len(candidates) /\ DOMAIN s = 1 .. Len(candidates)
           /\ \A i \in 1 .. Len(candidates) :
                /\ s[i] = CandidateHanded(i) /\ s[i].id = i /\ s[i].topic = Topic(i)
                /\ i \in plan.videos => s[i].video = i
                /\ i \notin plan.videos => s[i].video = NoVideo
                /\ IssuedCandidate(s[i], Duration) /\ Comparable(s[i])
<1>1. PlanGiven /\ CandidatesTaken /\ \A i \in 1 .. Len(candidates) : FinalStands(i)
  BY PlanAssumption DEF Issuing, PlanInv, PlanStands, Reviewed, PlanGiven
<1>2. Len(candidates) \in Nat /\ DOMAIN candidates = 1 .. Len(candidates)
  BY <1>1, EveryCandidate
<1>3. s = [i \in 1 .. Len(candidates) |-> CandidateHanded(i)]
  BY <1>2 DEF PlanHanded
<1>4. DOMAIN s = 1 .. Len(candidates) /\ Len(s) = Len(candidates) /\ Sequential(s)
  BY <1>2, <1>3, Listable
<1>5. ASSUME NEW i \in 1 .. Len(candidates)
      PROVE  /\ s[i] = CandidateHanded(i) /\ s[i].id = i /\ s[i].topic = Topic(i)
             /\ i \in plan.videos => s[i].video = i
             /\ i \notin plan.videos => s[i].video = NoVideo
             /\ IssuedCandidate(s[i], Duration) /\ Comparable(s[i])
  <2>1. PICK h : h = CandidateHanded(i)
    OBVIOUS
  <2>2. s[i] = h
    BY <1>3, <2>1
  <2>3. /\ h.id = i /\ h.topic = Topic(i) /\ h.fit = Fit(reviews[i]) /\ h.status = plan.finals[i].remedy
        /\ h.suggested = h.review.suggested /\ h.requested = h.review.requested
        /\ h.video = IF plan.finals[i].selection.published THEN i ELSE NoVideo
    BY <2>1, HandedFields
  <2>4. /\ plan.finals[i].selection.published <=> i \in plan.videos
        /\ i \in plan.videos => Fit(reviews[i]) /\ plan.finals[i].remedy # "invalid"
    BY <1>1 DEF FinalStands
  <2>5. i \in plan.videos => h.video = i
    BY <2>3, <2>4
  <2>6. i \notin plan.videos => h.video = NoVideo
    BY <2>3, <2>4
  <2>7. h.video # NoVideo => h.fit /\ h.status # "invalid"
    BY <2>3, <2>4, <2>6
  <2>8. /\ h.final \in [start : Int, end : Int]
        /\ h.chunks # {} /\ MaterialRange(h.initial) /\ MaterialRange(h.final)
        /\ h.initial.end <= Duration /\ h.final.end <= Duration
        /\ h.requested = NoRange \/ MaterialRange(h.requested)
        /\ RemedySchema(h)
    BY <2>1, HandedRange
  <2>9. IssuedCandidate(h, Duration)
    BY <2>3, <2>7, <2>8, Zenon DEF IssuedCandidate
  <2>10. i \in Nat /\ h.video \in Nat
    BY <1>2, <2>5, <2>6 DEF NoVideo
  <2>11. Comparable(h)
    BY <2>3, <2>8, <2>10 DEF Comparable
  <2> QED BY <2>1, <2>2, <2>3, <2>5, <2>6, <2>9, <2>11
<1> QED BY <1>2, <1>4, <1>5

-----------------------------------------------------------------------------
(* The plan as it is handed over: its series                                 *)

\* Where a series starts and ends.
FromOf(d) == plan.series[d][1]
ToOf(d)   == plan.series[d][1] + Len(plan.series[d]) - 1

LEMMA SeriesPlaces ==
    ASSUME Issuing, NEW d \in 1 .. Len(plan.series)
    PROVE  /\ FromOf(d) \in 1 .. Len(candidates) /\ ToOf(d) \in 1 .. Len(candidates) /\ FromOf(d) < ToOf(d)
           /\ Len(candidates) \in Nat /\ Len(plan.series[d]) = ToOf(d) - FromOf(d) + 1
           /\ plan.series[d] = [k \in 1 .. ToOf(d) - FromOf(d) + 1 |-> FromOf(d) + k - 1]
           /\ \A i \in FromOf(d) .. ToOf(d) : i \in plan.videos /\ Topic(i) = Topic(FromOf(d))
<1>1. PICK q : q = plan.series[d]
  OBVIOUS
<1>2. PICK n, l, a : n = Len(candidates) /\ l = Len(q) /\ a = q[1]
  OBVIOUS
<1>3. SeriesStand /\ plan.videos \subseteq DOMAIN candidates /\ n \in Nat /\ DOMAIN candidates = 1 .. n
  <2>1. SeriesStand /\ plan.videos \subseteq DOMAIN candidates /\ PlanGiven /\ CandidatesTaken
    BY PlanAssumption DEF Issuing, PlanInv, PlanStands, Reviewed, PlanGiven
  <2> QED BY <1>2, <2>1, EveryCandidate
<1>4. q \in Seq(Nat) /\ RunStands(q)
  <2>1. plan.series \in Seq(Seq(Nat)) /\ RunStands(plan.series[d])
    BY <1>3 DEF SeriesStand
  <2> QED BY <1>1, <2>1, ElementOf
<1>5. /\ l \in Nat /\ l >= 2 /\ DOMAIN q = 1 .. l /\ q = [k \in 1 .. l |-> q[k]]
      /\ \A x \in 1 .. l : q[x] = a + x - 1 /\ q[x] \in plan.videos /\ Topic(q[x]) = Topic(a)
  BY <1>2, <1>4 DEF RunStands
<1>6. a \in Nat /\ \A x \in 1 .. l : q[x] \in 1 .. n
  <2>1. 1 \in 1 .. l
    BY <1>5, SMT
  <2>2. q[1] \in Nat
    BY <1>4, <1>5, <2>1
  <2> QED BY <1>2, <1>3, <1>5, <2>2
<1>7. a \in 1 .. n /\ a + l - 1 \in 1 .. n /\ a < a + l - 1 /\ l = (a + l - 1) - a + 1
  <2>1. 1 \in 1 .. l /\ l \in 1 .. l /\ a + 1 - 1 = a
    BY <1>5, <1>6, SMT
  <2>2. q[1] = a /\ q[l] = a + l - 1
    BY <1>2, <1>5, <2>1
  <2> QED BY <1>3, <1>5, <1>6, <2>1, <2>2, SMT
<1>8. q = [k \in 1 .. l |-> a + k - 1]
  BY <1>5
<1>9. ASSUME NEW i \in a .. a + l - 1 PROVE i \in plan.videos /\ Topic(i) = Topic(a)
  <2>1. i - a + 1 \in 1 .. l /\ a + (i - a + 1) - 1 = i
    BY <1>5, <1>6, SMT
  <2> QED BY <1>5, <2>1
<1>10. FromOf(d) = a /\ ToOf(d) = a + l - 1 /\ plan.series[d] = q
  BY <1>1, <1>2 DEF FromOf, ToOf
<1>11. (a + l - 1) - a + 1 = l
  BY <1>5, <1>6, SMT
<1> QED BY <1>1, <1>2, <1>3, <1>7, <1>8, <1>9, <1>10, <1>11

\* Two series share no candidate, and neighbours of one topic share a series.
LEMMA SeriesApart ==
    ASSUME Issuing, NEW d \in 1 .. Len(plan.series), NEW e \in 1 .. Len(plan.series),
           NEW i \in FromOf(d) .. ToOf(d), i \in FromOf(e) .. ToOf(e)
    PROVE  d = e
<1>1. Len(plan.series) \in Nat /\ \A g, h \in 1 .. Len(plan.series) : g < h => Precedes(plan.series[g], plan.series[h])
  BY DEF Issuing, PlanStands, Reviewed, SeriesStand
<1>2. ASSUME NEW g \in 1 .. Len(plan.series), NEW h \in 1 .. Len(plan.series), g < h PROVE ToOf(g) < FromOf(h)
  <2>1. plan.series[g][Len(plan.series[g])] < plan.series[h][1]
    BY <1>1, <1>2 DEF Precedes
  <2>2. PICK a, b, l : a = FromOf(g) /\ b = ToOf(g) /\ l = Len(plan.series[g])
    OBVIOUS
  <2>3. /\ a \in 1 .. Len(candidates) /\ b \in 1 .. Len(candidates) /\ a < b /\ Len(candidates) \in Nat
        /\ l = b - a + 1 /\ plan.series[g] = [k \in 1 .. l |-> a + k - 1]
    BY <2>2, SeriesPlaces
  <2>4. l \in 1 .. l /\ a + l - 1 = b
    BY <2>3, SMT
  <2>5. plan.series[g][l] = b
    BY <2>3, <2>4
  <2> QED BY <2>1, <2>2, <2>5 DEF FromOf
<1>3. PICK a, b, c, f : a = FromOf(d) /\ b = ToOf(d) /\ c = FromOf(e) /\ f = ToOf(e)
  OBVIOUS
<1>4. /\ Len(candidates) \in Nat
      /\ {a, b, c, f} \subseteq 1 .. Len(candidates) /\ i \in a .. b /\ i \in c .. f
  BY <1>3, SeriesPlaces
<1>5. a \in Nat /\ b \in Nat /\ c \in Nat /\ f \in Nat
  BY <1>4
<1>6. ~(b < c) /\ ~(f < a)
  BY <1>4, <1>5, SMT
<1>7. ~(d < e) /\ ~(e < d)
  BY <1>2, <1>3, <1>6
<1> QED BY <1>1, <1>7, SMT

LEMMA NeighboursShare ==
    ASSUME Issuing, NEW i \in plan.videos, i + 1 \in plan.videos, Topic(i) = Topic(i + 1)
    PROVE  \E d \in 1 .. Len(plan.series) : i \in FromOf(d) .. ToOf(d) /\ i + 1 \in FromOf(d) .. ToOf(d)
<1>1. PICK d \in 1 .. Len(plan.series) : Together(i, plan.series[d])
  BY DEF Issuing, PlanStands, Reviewed, SeriesStand
<1>2. PICK a, b, l : a = FromOf(d) /\ b = ToOf(d) /\ l = Len(plan.series[d])
  OBVIOUS
<1>3. /\ a \in 1 .. Len(candidates) /\ b \in 1 .. Len(candidates) /\ Len(candidates) \in Nat
      /\ l = b - a + 1 /\ plan.series[d] = [k \in 1 .. l |-> a + k - 1]
  BY <1>2, SeriesPlaces
<1>4. PICK x \in 1 .. l, y \in 1 .. l : plan.series[d][x] = i /\ plan.series[d][y] = i + 1
  BY <1>1, <1>2 DEF Together
<1>5. i = a + x - 1 /\ i + 1 = a + y - 1
  BY <1>3, <1>4
<1>6. i \in a .. b /\ i + 1 \in a .. b
  BY <1>3, <1>5, SMT
<1> QED BY <1>2, <1>6

\* To the documents, too, such neighbours are of one topic.
LEMMA OneTopicHanded ==
    ASSUME Issuing, NEW s, s = PlanHanded.candidates, NEW a \in 1 .. Len(candidates), NEW b \in 1 .. Len(candidates), a <= b
    PROVE  OneTopic(s, a, b) <=> \A i \in a .. b : i \in plan.videos /\ Topic(i) = Topic(a)
<1>1. /\ Len(candidates) \in Nat
      /\ \A i \in 1 .. Len(candidates) : /\ s[i].topic = Topic(i)
                                         /\ i \in plan.videos => s[i].video = i
                                         /\ i \notin plan.videos => s[i].video = NoVideo
  BY HandedCandidates
<1>2. \A i \in a .. b : i \in 1 .. Len(candidates) /\ i # NoVideo
  BY <1>1, SMT DEF NoVideo
<1>3. \A i \in a .. b : (s[i].video # NoVideo <=> i \in plan.videos) /\ s[i].topic = Topic(i)
  BY <1>1, <1>2
<1> QED BY <1>1, <1>3 DEF OneTopic

\* A series of the plan is a longest run of neighbours,
LEMMA SeriesIsRun ==
    ASSUME Issuing, NEW s, s = PlanHanded.candidates, NEW d \in 1 .. Len(plan.series)
    PROVE  <<FromOf(d), ToOf(d)>> \in LongestRuns(s)
<1>1. PICK n, a, b : n = Len(candidates) /\ a = FromOf(d) /\ b = ToOf(d)
  OBVIOUS
<1>2. /\ n \in Nat /\ a \in 1 .. n /\ b \in 1 .. n /\ a < b
      /\ \A i \in a .. b : i \in plan.videos /\ Topic(i) = Topic(a)
  BY <1>1, SeriesPlaces
<1>3. DOMAIN s = 1 .. n /\ Len(s) = n
  BY <1>1, HandedCandidates
<1>4. OneTopic(s, a, b)
  <2>1. a <= b
    BY <1>2, SMT
  <2> QED BY <1>1, <1>2, <2>1, OneTopicHanded
<1>5. ASSUME NEW i \in Nat, i \in a .. b, i \in plan.videos, i + 1 \in plan.videos, Topic(i) = Topic(i + 1)
      PROVE  i + 1 \in a .. b
  <2>1. PICK e \in 1 .. Len(plan.series) : i \in FromOf(e) .. ToOf(e) /\ i + 1 \in FromOf(e) .. ToOf(e)
    BY <1>5, NeighboursShare
  <2>2. d = e
    BY <1>1, <1>5, <2>1, SeriesApart
  <2> QED BY <1>1, <2>1, <2>2
<1>6. ASSUME NEW i \in Nat, i + 1 \in a .. b, i \in plan.videos, i + 1 \in plan.videos, Topic(i) = Topic(i + 1)
      PROVE  i \in a .. b
  <2>1. PICK e \in 1 .. Len(plan.series) : i \in FromOf(e) .. ToOf(e) /\ i + 1 \in FromOf(e) .. ToOf(e)
    BY <1>6, NeighboursShare
  <2>2. d = e
    BY <1>1, <1>6, <2>1, SeriesApart
  <2> QED BY <1>1, <2>1, <2>2
<1>7. ASSUME a > 1 PROVE ~OneTopic(s, a - 1, b)
  <2>1. /\ a - 1 \in 1 .. n /\ a - 1 \in Nat /\ a - 1 <= b /\ a - 1 \in a - 1 .. b /\ a \in a - 1 .. b
        /\ (a - 1) + 1 = a /\ a \in a .. b /\ a - 1 \notin a .. b
    BY <1>2, <1>7, SMT
  <2> SUFFICES ASSUME OneTopic(s, a - 1, b) PROVE FALSE
    OBVIOUS
  <2>2. a - 1 \in plan.videos /\ a \in plan.videos /\ Topic(a) = Topic(a - 1)
    BY <1>1, <1>2, <2>1, OneTopicHanded
  <2>3. PICK i : i = a - 1
    OBVIOUS
  <2>4. i \in Nat /\ i + 1 = a /\ i \in plan.videos /\ Topic(i) = Topic(a) /\ i \notin a .. b
    BY <2>1, <2>2, <2>3
  <2> QED BY <1>6, <2>1, <2>2, <2>4
<1>8. ASSUME b < n PROVE ~OneTopic(s, a, b + 1)
  <2>1. /\ b + 1 \in 1 .. n /\ b \in Nat /\ a <= b + 1 /\ b \in a .. b + 1 /\ b + 1 \in a .. b + 1
        /\ b \in a .. b /\ b + 1 \notin a .. b
    BY <1>2, <1>8, SMT
  <2> SUFFICES ASSUME OneTopic(s, a, b + 1) PROVE FALSE
    OBVIOUS
  <2>2. b \in plan.videos /\ b + 1 \in plan.videos /\ Topic(b) = Topic(b + 1)
    BY <1>1, <1>2, <2>1, OneTopicHanded
  <2> QED BY <1>5, <2>1, <2>2
<1>9. <<a, b>> \in (DOMAIN s) \X (DOMAIN s) /\ <<a, b>>[1] = a /\ <<a, b>>[2] = b
  BY <1>2, <1>3
<1>10. <<a, b>> \in LongestRuns(s)
  BY <1>2, <1>3, <1>4, <1>7, <1>8, <1>9 DEF LongestRuns
<1> QED BY <1>1, <1>10

\* and there is no other such run.
LEMMA RunIsSeries ==
    ASSUME Issuing, NEW s, s = PlanHanded.candidates, NEW p \in LongestRuns(s)
    PROVE  \E d \in 1 .. Len(plan.series) : p = <<FromOf(d), ToOf(d)>>
<1>1. Sequential(s) /\ Len(s) = Len(candidates) /\ Len(candidates) \in Nat /\ DOMAIN s = 1 .. Len(candidates)
  BY HandedCandidates
<1>2. p[1] \in 1 .. Len(candidates) /\ p[2] \in 1 .. Len(candidates) /\ p[1] < p[2]
  <2>1. p \in (DOMAIN s) \X (DOMAIN s) /\ p[1] < p[2]
    BY DEF LongestRuns
  <2> QED BY <1>1, <2>1
<1>3. \A i \in p[1] .. p[2] : i \in plan.videos /\ Topic(i) = Topic(p[1])
  <2>1. OneTopic(s, p[1], p[2]) /\ p[1] <= p[2]
    BY <1>1, <1>2, SMT DEF LongestRuns
  <2> QED BY <1>2, <2>1, OneTopicHanded
<1>4. p[1] \in p[1] .. p[2] /\ p[1] + 1 \in p[1] .. p[2]
  BY <1>1, <1>2, SMT
<1>5. PICK d \in 1 .. Len(plan.series) : p[1] \in FromOf(d) .. ToOf(d)
  <2>1. p[1] \in plan.videos /\ p[1] + 1 \in plan.videos /\ Topic(p[1]) = Topic(p[1] + 1)
    BY <1>3, <1>4
  <2> QED BY <2>1, NeighboursShare
<1>6. PICK q : q = <<FromOf(d), ToOf(d)>>
  OBVIOUS
<1>7. q \in LongestRuns(s) /\ q[1] = FromOf(d) /\ q[2] = ToOf(d)
  BY <1>6, SeriesIsRun
<1>8. p[1] \in q[1] .. q[2]
  BY <1>5, <1>7
<1>9. p = q
  BY <1>1, <1>4, <1>7, <1>8, OneRunOnly
<1> QED BY <1>6, <1>9

\* The members of a series are the videos of its run.
LEMMA SeriesShows ==
    ASSUME Issuing, NEW s, s = PlanHanded.candidates, NEW d \in 1 .. Len(plan.series)
    PROVE  /\ s[FromOf(d)].topic = Topic(FromOf(d))
           /\ VideosFrom(s, FromOf(d), ToOf(d) - FromOf(d) + 1) = plan.series[d]
<1>1. PICK n, a, b : n = Len(candidates) /\ a = FromOf(d) /\ b = ToOf(d)
  OBVIOUS
<1>2. /\ n \in Nat /\ a \in 1 .. n /\ b \in 1 .. n /\ a < b
      /\ plan.series[d] = [k \in 1 .. b - a + 1 |-> a + k - 1]
      /\ \A i \in a .. b : i \in plan.videos
  BY <1>1, SeriesPlaces
<1>3. \A i \in 1 .. n : s[i].topic = Topic(i) /\ (i \in plan.videos => s[i].video = i)
  BY <1>1, HandedCandidates
<1>4. ASSUME NEW k \in 1 .. b - a + 1 PROVE s[a + k - 1].video = a + k - 1
  <2>1. a + k - 1 \in a .. b /\ a + k - 1 \in 1 .. n
    BY <1>2, SMT
  <2> QED BY <1>2, <1>3, <2>1
<1>5. VideosFrom(s, a, b - a + 1) = [k \in 1 .. b - a + 1 |-> a + k - 1]
  BY <1>4 DEF VideosFrom
<1> QED BY <1>1, <1>2, <1>3, <1>5

\* The series are handed over as the builder expects them.
LEMMA HandedSeries ==
    ASSUME Issuing, NEW s, s = PlanHanded.candidates, NEW line, line = PlanHanded.series
    PROVE  IssuedSeries(line, s) /\ Identified(Field(line, "id")) /\ Sequential(line)
<1>1. PICK m : m = Len(plan.series)
  OBVIOUS
<1>2. plan.series \in Seq(Seq(Nat)) /\ m \in Nat /\ DOMAIN plan.series = 1 .. m
  BY <1>1 DEF Issuing, PlanStands, Reviewed, SeriesStand
<1>3. line = [k \in 1 .. m |-> SeriesHanded(k)]
  BY <1>2 DEF PlanHanded
<1>4. DOMAIN line = 1 .. m /\ Len(line) = m /\ Sequential(line)
  BY <1>2, <1>3, Listable
<1>5. ASSUME NEW k \in 1 .. m
      PROVE  line[k].id = k /\ line[k].topic = Topic(FromOf(k)) /\ line[k].members = plan.series[k]
  <2>1. PICK t, q : t = Topic(FromOf(k)) /\ q = plan.series[k]
    OBVIOUS
  <2>2. line[k] = [id |-> k, topic |-> t, members |-> q]
    BY <1>3, <2>1, Zenon DEF SeriesHanded, FromOf
  <2>3. line[k].id = k /\ line[k].topic = t /\ line[k].members = q
    BY <2>2
  <2> QED BY <2>1, <2>3
<1> DEFINE RunOf(p) == [topic |-> s[p[1]].topic, members |-> VideosFrom(s, p[1], p[2] - p[1] + 1)]
           Plain(t) == [topic |-> t.topic, members |-> t.members]
<1>6. ASSUME NEW k \in 1 .. m PROVE Plain(line[k]) = RunOf(<<FromOf(k), ToOf(k)>>)
  <2>1. s[FromOf(k)].topic = Topic(FromOf(k)) /\ VideosFrom(s, FromOf(k), ToOf(k) - FromOf(k) + 1) = plan.series[k]
    BY <1>1, SeriesShows
  <2>2. PICK p : p = <<FromOf(k), ToOf(k)>>
    OBVIOUS
  <2>3. p[1] = FromOf(k) /\ p[2] = ToOf(k)
    BY <2>2
  <2>4. s[p[1]].topic = line[k].topic /\ VideosFrom(s, p[1], p[2] - p[1] + 1) = line[k].members
    BY <1>5, <2>1, <2>3
  <2> QED BY <2>2, <2>4
<1>7. Range(line) = {line[k] : k \in 1 .. m}
  BY <1>4 DEF Range
<1>8. SameTopicRuns(s) = {RunOf(p) : p \in LongestRuns(s)}
  BY DEF SameTopicRuns
<1>9. \A k \in 1 .. m : <<FromOf(k), ToOf(k)>> \in LongestRuns(s)
  BY <1>1, SeriesIsRun
<1>10. \A p \in LongestRuns(s) : \E k \in 1 .. m : p = <<FromOf(k), ToOf(k)>>
  BY <1>1, RunIsSeries
<1>11. {[topic |-> t.topic, members |-> t.members] : t \in Range(line)} = {Plain(t) : t \in Range(line)}
  OBVIOUS
<1> HIDE DEF RunOf, Plain
<1>12. {Plain(t) : t \in Range(line)} = {RunOf(p) : p \in LongestRuns(s)}
  <2>1. ASSUME NEW t \in Range(line) PROVE \E p \in LongestRuns(s) : Plain(t) = RunOf(p)
    <3>1. PICK k \in 1 .. m : t = line[k]
      BY <1>7
    <3> QED BY <1>6, <1>9, <3>1
  <2>2. ASSUME NEW p \in LongestRuns(s) PROVE \E t \in Range(line) : Plain(t) = RunOf(p)
    <3>1. PICK k \in 1 .. m : p = <<FromOf(k), ToOf(k)>>
      BY <1>10
    <3>2. line[k] \in Range(line)
      BY <1>7
    <3> QED BY <1>6, <3>1, <3>2
  <2> QED BY <2>1, <2>2
<1>13. NoneTwice(Field(line, "members"))
  <2>1. ASSUME NEW i \in 1 .. m, NEW j \in 1 .. m, line[i].members = line[j].members PROVE i = j
    <3>1. plan.series[i] = plan.series[j]
      BY <1>5, <2>1
    <3>2. FromOf(i) = FromOf(j) /\ ToOf(i) = ToOf(j)
      BY <3>1 DEF FromOf, ToOf
    <3>3. FromOf(i) \in FromOf(i) .. ToOf(i)
      <4>1. FromOf(i) \in 1 .. Len(candidates) /\ ToOf(i) \in 1 .. Len(candidates) /\ FromOf(i) < ToOf(i) /\ Len(candidates) \in Nat
        BY <1>1, SeriesPlaces
      <4> QED BY <4>1, SMT
    <3> QED BY <1>1, <3>2, <3>3, SeriesApart
  <2>2. PICK f : f = Field(line, "members")
    OBVIOUS
  <2>3. DOMAIN f = 1 .. m /\ \A k \in 1 .. m : f[k] = line[k].members
    BY <1>4, <2>2 DEF Field
  <2>4. \A i, j \in DOMAIN f : f[i] = f[j] => i = j
    BY <2>1, <2>3
  <2> QED BY <2>2, <2>4 DEF NoneTwice
<1>14. Identified(Field(line, "id"))
  <2>1. Field(line, "id") = [k \in 1 .. m |-> k]
    BY <1>4, <1>5 DEF Field
  <2>2. NoneTwice([k \in 1 .. m |-> k]) /\ 0 \notin Range([k \in 1 .. m |-> k])
    BY DEF NoneTwice, Range
  <2> QED BY <2>1, <2>2 DEF Identified
<1> QED BY <1>4, <1>8, <1>11, <1>12, <1>13, <1>14 DEF IssuedSeries

-----------------------------------------------------------------------------
(* The plan as it is handed over: the request                                *)

\* The transcript, chunk by chunk.
LEMMA HandedTranscript ==
    ASSUME Issuing, NEW t, t = TranscriptHanded
    PROVE  /\ t.id = 2 /\ t.duration = Duration /\ Duration \in Nat /\ Duration > 0
           /\ Sequential(t.chunks) /\ Identified(Field(t.chunks, "id"))
           /\ \A c \in Range(t.chunks) : /\ c.start \in Int /\ c.end \in Int /\ 0 <= c.start /\ c.start < c.end
                                         /\ CharactersInside(c)
<1>1. PlanGiven
  BY PlanAssumption DEF Issuing, PlanInv, PlanGiven
<1>2. PICK n : n = Len(chunks)
  OBVIOUS
<1>3. /\ n \in Nat /\ DOMAIN chunks = 1 .. n /\ Duration \in Nat
      /\ \A j \in 1 .. n : /\ chunks[j].start \in Int /\ chunks[j].end \in Int
                           /\ 0 <= chunks[j].start /\ chunks[j].start < chunks[j].end
  BY <1>1, <1>2, ChunkFacts
<1>4. Duration > 0
  BY <1>1, <1>3 DEF PlanGiven, PlanInputs
<1> DEFINE Word(i) == [id |-> i, start |-> chunks[i].start, end |-> chunks[i].end, text |-> i, chars |-> 1, spans |-> <<>>]
<1>5. PICK cs : cs = [i \in 1 .. n |-> Word(i)]
  OBVIOUS
<1>6. t = [id |-> 2, duration |-> Duration, chunks |-> cs]
  BY <1>3, <1>5 DEF TranscriptHanded
<1>7. t.id = 2 /\ t.duration = Duration /\ t.chunks = cs
  BY <1>6
<1>8. DOMAIN cs = 1 .. n /\ Sequential(cs)
  BY <1>3, <1>5, Listable
<1>9. ASSUME NEW i \in 1 .. n
      PROVE  /\ cs[i].id = i /\ cs[i].start = chunks[i].start /\ cs[i].end = chunks[i].end
             /\ cs[i].chars = 1 /\ cs[i].spans = <<>>
  <2>1. PICK a, b : a = chunks[i].start /\ b = chunks[i].end
    OBVIOUS
  <2>2. cs[i] = [id |-> i, start |-> a, end |-> b, text |-> i, chars |-> 1, spans |-> <<>>]
    BY <1>5, <2>1
  <2>3. cs[i].id = i /\ cs[i].start = a /\ cs[i].end = b /\ cs[i].chars = 1 /\ cs[i].spans = <<>>
    BY <2>2
  <2> QED BY <2>1, <2>3
<1>10. Range(cs) = {cs[i] : i \in 1 .. n}
  BY <1>8 DEF Range
<1>11. ASSUME NEW i \in 1 .. n PROVE CharactersInside(cs[i])
  BY <1>9 DEF CharactersInside
<1>12. Identified(Field(cs, "id"))
  <2>1. PICK f : f = Field(cs, "id")
    OBVIOUS
  <2>2. DOMAIN f = 1 .. n /\ \A k \in 1 .. n : f[k] = k
    BY <1>8, <1>9, <2>1 DEF Field
  <2>3. NoneTwice(f) /\ 0 \notin Range(f)
    BY <2>2 DEF NoneTwice, Range
  <2> QED BY <2>1, <2>3 DEF Identified
<1> QED BY <1>3, <1>4, <1>7, <1>8, <1>9, <1>10, <1>11, <1>12

\* What is published of the plan, and the facts about it.
LEMMA HandedPublished ==
    ASSUME Issuing, NEW s, s = PlanHanded.candidates, NEW q, q = Published(s)
    PROVE  /\ Sequential(q) /\ Len(q) \in Nat /\ DOMAIN q = 1 .. Len(q)
           /\ Identified(Field(s, "id")) /\ Identified(Field(q, "video"))
           /\ \A c \in Range(q) : c \in Range(s) /\ c.video \in Nat
<1>1. PICK n : n = Len(candidates)
  OBVIOUS
<1>2. /\ n \in Nat /\ DOMAIN s = 1 .. n /\ Sequential(s)
      /\ \A i \in 1 .. n : /\ s[i].id = i /\ s[i].video \in Nat
                           /\ s[i].video # NoVideo => s[i].video = i
  BY <1>1, HandedCandidates DEF Comparable
<1>3. PICK L : L = Ascending(VideoPlaces(s))
  OBVIOUS
<1>4. PICK m : m = Len(q)
  OBVIOUS
<1>5. /\ Sequential(q) /\ m \in Nat /\ DOMAIN q = 1 .. m
      /\ \A k \in 1 .. m : L[k] \in VideoPlaces(s) /\ q[k] = s[L[k]] /\ q[k].video # NoVideo
      /\ \A k, l \in 1 .. m : L[k] = L[l] => k = l
      /\ \A c \in Range(q) : c \in Range(s)
  <2>1. m = Len(Published(s))
    BY <1>4
  <2> QED BY <1>2, <1>3, <2>1, PublishedFacts
<1>6. \A k \in 1 .. m : L[k] \in 1 .. n /\ q[k].video = L[k] /\ q[k].video # NoVideo
  BY <1>2, <1>5 DEF VideoPlaces
<1>7. Identified(Field(s, "id"))
  <2>1. PICK f : f = Field(s, "id")
    OBVIOUS
  <2>2. DOMAIN f = 1 .. n /\ \A k \in 1 .. n : f[k] = k
    BY <1>2, <2>1 DEF Field
  <2>3. NoneTwice(f) /\ 0 \notin Range(f)
    BY <2>2 DEF NoneTwice, Range
  <2> QED BY <2>1, <2>3 DEF Identified
<1>8. Identified(Field(q, "video"))
  <2>1. PICK f : f = Field(q, "video")
    OBVIOUS
  <2>2. DOMAIN f = 1 .. m /\ \A k \in 1 .. m : f[k] = L[k] /\ f[k] # NoVideo
    BY <1>5, <1>6, <2>1 DEF Field
  <2>3. NoneTwice(f) /\ 0 \notin Range(f)
    BY <1>5, <2>2 DEF NoneTwice, Range, NoVideo
  <2> QED BY <2>1, <2>3 DEF Identified
<1>9. Range(s) = {s[i] : i \in 1 .. n}
  BY <1>2 DEF Range
<1> QED BY <1>2, <1>4, <1>5, <1>7, <1>8, <1>9

\* The request, field by field.
LEMMA HandedRequest ==
    ASSUME NEW r, r = DeliveryOfPlan
    PROVE  /\ r.run = 1 /\ r.transcript = TranscriptHanded /\ r.plan = PlanHanded /\ r.facts = FactsHanded
           /\ r.plan.id = 3 /\ r.plan.transcript = 2
<1>1. PICK t, p, f : t = TranscriptHanded /\ p = PlanHanded /\ f = FactsHanded
  OBVIOUS
<1>2. r = [run |-> 1, transcript |-> t, plan |-> p, facts |-> f]
  BY <1>1, Zenon DEF DeliveryOfPlan
<1>3. r.run = 1 /\ r.transcript = t /\ r.plan = p /\ r.facts = f
  BY <1>2
<1>4. PlanHanded.id = 3 /\ PlanHanded.transcript = 2
  BY DEF PlanHanded
<1> QED BY <1>1, <1>3, <1>4

\* The facts agree with one another and with what is published.
LEMMA HandedFacts ==
    ASSUME Issuing, NEW f, f = FactsHanded
    PROVE  CountsAgree(f) /\ f.videos = Len(Published(PlanHanded.candidates)) /\ (f.videos = 0 => NoneCounted(f))
<1>1. PICK n : n = Len(Published(PlanHanded.candidates))
  OBVIOUS
<1>2. n \in Nat
  BY <1>1, HandedPublished
<1>3. f = [videos |-> n, windows |-> n, hits |-> n, misses |-> 0, requests |-> 0, semanticRetries |-> 0,
           attempts |-> 0, retries |-> 0]
  BY <1>1 DEF FactsHanded
<1>4. DOMAIN f = {"videos", "windows", "hits", "misses", "requests", "semanticRetries", "attempts", "retries"}
  BY <1>3
<1>5. /\ f.videos = n /\ f.windows = n /\ f.hits = n /\ f.misses = 0 /\ f.requests = 0 /\ f.semanticRetries = 0
      /\ f.attempts = 0 /\ f.retries = 0
  BY <1>3
<1>6. \A k \in DOMAIN f : f[k] = n \/ f[k] = 0
  BY <1>4, <1>5
<1>7. \A k \in DOMAIN f : f[k] >= 0
  BY <1>2, <1>6
<1>8. CountsAgree(f)
  BY <1>2, <1>5, <1>7, SMT DEF CountsAgree
<1>9. f.videos = 0 => NoneCounted(f)
  BY <1>5, <1>6 DEF NoneCounted
<1> QED BY <1>1, <1>5, <1>8, <1>9

\* The earlier stages' part of the bargain is kept.
LEMMA HandedIssued ==
    ASSUME Issuing, NEW r, r = DeliveryOfPlan
    PROVE  Issued(r) /\ Readable(Documents(r))
<1>1. PICK t, p, s, q, f, v : /\ t = TranscriptHanded /\ p = PlanHanded /\ s = PlanHanded.candidates
                              /\ q = Published(s) /\ f = FactsHanded /\ v = PlanHanded.series
  OBVIOUS
<1>2. /\ r.run = 1 /\ r.transcript = t /\ r.plan = p /\ r.facts = f /\ r.plan.id = 3
      /\ r.plan.candidates = s /\ r.plan.series = v
  BY <1>1, HandedRequest
<1>3. /\ t.id = 2 /\ t.duration = Duration /\ Duration \in Nat /\ Duration > 0
      /\ Sequential(t.chunks) /\ Identified(Field(t.chunks, "id"))
      /\ \A c \in Range(t.chunks) : /\ c.start \in Int /\ c.end \in Int /\ 0 <= c.start /\ c.start < c.end
                                    /\ CharactersInside(c)
  BY <1>1, HandedTranscript
<1>4. /\ Sequential(q) /\ Len(q) \in Nat /\ DOMAIN q = 1 .. Len(q)
      /\ Identified(Field(s, "id")) /\ Identified(Field(q, "video"))
      /\ \A c \in Range(q) : c \in Range(s) /\ c.video \in Nat
  BY <1>1, HandedPublished
<1>5. Sequential(s) /\ \A c \in Range(s) : IssuedCandidate(c, Duration) /\ Comparable(c)
  <2>1. Sequential(s) /\ DOMAIN s = 1 .. Len(candidates)
        /\ \A i \in 1 .. Len(candidates) : IssuedCandidate(s[i], Duration) /\ Comparable(s[i])
    BY <1>1, HandedCandidates
  <2> QED BY <2>1 DEF Range
<1>6. IssuedSeries(v, s) /\ Identified(Field(v, "id")) /\ Sequential(v)
  BY <1>1, HandedSeries
<1>7. CountsAgree(f) /\ f.videos = Len(q) /\ (f.videos = 0 => NoneCounted(f))
  BY <1>1, HandedFacts
<1>8. KindOf(r) = "empty" => NoneCounted(f)
  <2>1. KindOf(r) = "empty" => q = <<>>
    BY <1>1, <1>2 DEF KindOf
  <2> QED BY <1>7, <2>1
<1>9. Issued(r)
  <2>1. 0 \notin {r.run, r.transcript.id, r.plan.id} /\ r.transcript.duration > 0
    BY <1>2, <1>3
  <2>2. \A c \in Range(r.transcript.chunks) : 0 <= c.start /\ c.start < c.end /\ CharactersInside(c)
    BY <1>2, <1>3
  <2>3. \A c \in Range(r.plan.candidates) : IssuedCandidate(c, r.transcript.duration)
    BY <1>2, <1>3, <1>5
  <2>4. /\ Identified(Field(r.transcript.chunks, "id")) /\ Identified(Field(r.plan.candidates, "id"))
        /\ Identified(Field(Published(r.plan.candidates), "video")) /\ Identified(Field(r.plan.series, "id"))
        /\ IssuedSeries(r.plan.series, r.plan.candidates)
    BY <1>1, <1>2, <1>3, <1>4, <1>6
  <2> QED BY <1>2, <1>7, <1>8, <2>1, <2>2, <2>3, <2>4, Zenon DEF Issued
<1>10. Readable(Documents(r))
  <2>1. PICK d, x : d = Documents(r) /\ x = Delivery(r, d)
    OBVIOUS
  <2>2. /\ d.transcript.chunks = t.chunks /\ d.plan.candidates = s /\ d.metadata.series = v
        /\ d.clips = {c.video : c \in Range(q)}
    <3>1. x = Delivery(r, Documents(r))
      BY <2>1
    <3>2. x.files = d
      BY <2>1, BuiltParts
    <3> QED BY <1>1, <1>2, <3>1, <3>2, BuiltParts
  <2>3. Sequential(d.metadata.videos)
    <3>1. d.metadata.videos = [k \in DOMAIN q |-> ShortVideo(q[k])]
      BY <1>1, <1>2, <2>1 DEF Documents, MetadataDocument
    <3>2. PICK w, n : w = d.metadata.videos /\ n = Len(q)
      OBVIOUS
    <3>3. w = [k \in 1 .. n |-> ShortVideo(q[k])]
      BY <1>4, <3>1, <3>2
    <3>4. DOMAIN w = 1 .. n /\ w = [k \in 1 .. n |-> w[k]] /\ n \in Nat
      BY <1>4, <3>2, <3>3
    <3> QED BY <3>2, <3>4, Listable
  <2>4. d.clips \in SUBSET Nat /\ IsFiniteSet(d.clips)
    <3>1. d.clips \in SUBSET Nat
      BY <1>4, <2>2
    <3>2. PICK g, n : g = Field(q, "video") /\ n = Len(q)
      OBVIOUS
    <3>3. n \in Nat /\ DOMAIN g = 1 .. n /\ NoneTwice(g) /\ \A k \in 1 .. n : g[k] = q[k].video
      BY <1>4, <3>2 DEF Field, Identified
    <3>4. IsFiniteSet(Range(g))
      BY <3>3, CountedOnce
    <3>5. Range(q) = {q[k] : k \in 1 .. n} /\ Range(g) = {g[k] : k \in 1 .. n}
      BY <1>4, <3>2, <3>3 DEF Range
    <3>6. d.clips = Range(g)
      BY <2>2, <3>3, <3>5
    <3> QED BY <3>1, <3>4, <3>6
  <2>5. /\ \A c \in Range(d.transcript.chunks) : c.start \in Int /\ c.end \in Int
        /\ \A c \in Range(d.plan.candidates) : {c.id, c.video} \subseteq Nat /\ c.final \in [start : Int, end : Int]
    BY <1>3, <1>5, <2>2 DEF Comparable
  <2>6. Sequential(d.transcript.chunks) /\ Sequential(d.plan.candidates) /\ Sequential(d.metadata.series)
    BY <1>3, <1>5, <1>6, <2>2
  <2> QED BY <2>1, <2>3, <2>4, <2>5, <2>6 DEF Readable
<1> QED BY <1>9, <1>10

\* What is issued is what the builder expects, and what keeps the order can be delivered.
LEMMA IssuedIsAccepted ==
    ASSUME PlanInv, PlanStands
    PROVE  PlansDeliverable
<1>0. Reviewed => Issued(DeliveryOfPlan) /\ Readable(Documents(DeliveryOfPlan))
  BY HandedIssued DEF Issuing
<1> SUFFICES ASSUME Reviewed, KeepsOrder(DeliveryOfPlan.plan.candidates), Requestable(DeliveryOfPlan),
                    NEW r, r = DeliveryOfPlan, NEW x, x = Delivery(r, Documents(r))
             PROVE  Answer(x) = "verified" /\ ReadsAs(x.manifest, r.run, KindOf(r)) = "complete"
  BY <1>0 DEF PlansDeliverable, BuiltIsAccepted
<1>1. Handed(r)
  BY HandedIssued DEF Issuing, Handed
<1>2. AllHold(x)
  BY <1>1, BuiltAccepted
<1>3. x.run = r.run /\ x.manifest.kind = KindOf(r) /\ x.files = Documents(r) /\ x.manifest = Manifest(r, Documents(r))
  BY BuiltParts
<1>4. Readable(x.files) /\ Sequential(x.manifest.files)
  <2>1. Documents(r).clips \in SUBSET Nat /\ IsFiniteSet(Documents(r).clips)
    BY <1>1 DEF Handed, Readable
  <2> QED BY <1>1, <1>3, <2>1, BuiltFiles DEF Handed
<1>5. ReadsAs(x.manifest, x.run, x.manifest.kind) = "complete"
  BY <1>2, <1>4, AcceptedTellsOneStory
<1> QED BY <1>2, <1>3, <1>5, AnswerIs

\* A plan that is issued of reviews that can be relied on is what the builder may
\* expect, and if its fixes keep the order, the verification accepts it as the
\* builder writes it.
THEOREM PlansAreDeliverable == PlanSpec => []PlansDeliverable
<1>1. PlanInv /\ PlanStands => PlansDeliverable
  BY IssuedIsAccepted
<1> QED BY <1>1, PlanInvHolds, PlanStandsHolds, PTL
=============================================================================
