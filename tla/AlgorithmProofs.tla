-------------------------- MODULE AlgorithmProofs --------------------------
(* Theorems of the algorithms that keep nothing on the disk.               *)
(*   DenseSearch     for any number of rows, scores, ids, block size and   *)
(*                   limit, the batched search is exact                    *)
(*   QuestionSplit   for any texts and any threshold, the prefix filter    *)
(*                   loses no near duplicate                               *)
(*   WorkerPool      for any number of threads and tasks and any set of    *)
(*                   failing tasks, the outcome is that of the sequential  *)
(*                   loop; where the main thread waits for the threads,    *)
(*                   every connection is closed after its last use; and a  *)
(*                   map aborted to the end starts no further task         *)
EXTENDS DenseSearch, QuestionSplit, WorkerPool, FiniteSetTheorems,
        SequenceTheorems, WellFoundedInduction, TLAPS

\* A strict order has a minimal element in every finite set that is not empty.
LEMMA MinimalElement ==
  ASSUME NEW S, IsFiniteSet(S), S # {}, NEW Order,
         \A r \in S : <<r, r>> \notin Order,
         \A p, q, r \in S :
           <<p, q>> \in Order /\ <<q, r>> \in Order => <<p, r>> \in Order
  PROVE  \E m \in S : \A q \in S : <<q, m>> \notin Order
<1> DEFINE Under(x) == {q \in S : <<q, x>> \in Order}
           R == StrictSubsetOrdering(S)
           F == FiniteSubsetsOf(S)
           T == {Under(x) : x \in S}
<1>1. IsWellFoundedOn(R, F)
  BY FS_StrictSubsetOrderingWellFounded
<1>2. T \subseteq F /\ T # {}
  <2>1. \A x \in S : Under(x) \in SUBSET S
    OBVIOUS
  <2>2. \A x \in S : IsFiniteSet(Under(x))
    BY <2>1, FS_Subset
  <2>3. \A x \in S : Under(x) \in F
    BY <2>1, <2>2 DEF FiniteSubsetsOf
  <2> HIDE DEF F, Under
  <2> QED BY <2>3
<1> HIDE DEF R, F
<1>3. PICK A \in T : \A B \in T : ~ (<<B, A>> \in R)
  BY <1>1, <1>2, WFMin
<1>4. PICK m \in S : A = Under(m)
  BY <1>3
<1>5. ASSUME NEW q \in S, <<q, m>> \in Order PROVE FALSE
  <2>1. Under(q) \subseteq Under(m)
    BY <1>5
  <2>2. q \in Under(m) /\ q \notin Under(q)
    BY <1>5
  <2>3. Under(q) \in T /\ Under(q) \in SUBSET S /\ A \in SUBSET S
    BY <1>4, <1>5
  <2>4. <<Under(q), A>> \in R
    BY <2>1, <2>2, <2>3, <1>4 DEF R, StrictSubsetOrdering
  <2> QED BY <2>3, <2>4, <1>3
<1> QED BY <1>4, <1>5

\* A set of natural numbers that is not empty has a smallest one.
LEMMA LeastNumber ==
  ASSUME NEW S \in SUBSET Nat, S # {}
  PROVE  Smallest(S) \in S /\ \A n \in S : Smallest(S) <= n
<1>1. PICK x \in S : TRUE
  OBVIOUS
<1> DEFINE T == {n \in S : n <= x}
           Order == {p \in T \X T : p[1] < p[2]}
<1>2. \A p, q \in T : <<p, q>> \in Order <=> p < q
  OBVIOUS
<1>3. IsFiniteSet(T) /\ T # {} /\ T \in SUBSET Nat
  <2>1. x \in Nat /\ 0 \in Int /\ x \in Int
    BY <1>1
  <2>2. IsFiniteSet(0 .. x)
    BY <2>1, FS_Interval
  <2>3. T \in SUBSET (0 .. x) /\ x \in T
    <3>1. \A n \in T : n \in Nat /\ n <= x
      OBVIOUS
    <3>2. x \in T
      BY <1>1, <2>1
    <3> HIDE DEF T
    <3> QED BY <2>1, <3>1, <3>2
  <2> QED BY <2>2, <2>3, FS_Subset
<1> HIDE DEF Order
<1>4. PICK m \in T : \A q \in T : <<q, m>> \notin Order
  <2> HIDE DEF T
  <2>1. /\ \A r \in T : <<r, r>> \notin Order
        /\ \A p, q, r \in T : <<p, q>> \in Order /\ <<q, r>> \in Order => <<p, r>> \in Order
    BY <1>2, <1>3
  <2> QED BY <1>3, <2>1, MinimalElement
<1>5. m \in S /\ \A n \in S : m <= n
  <2>1. \A n \in T : m <= n
    <3> HIDE DEF T
    <3>1. \A n \in T : ~ (n < m)
      BY <1>2, <1>4
    <3>2. m \in Nat /\ \A n \in T : n \in Nat
      BY <1>3
    <3> QED BY <3>1, <3>2
  <2>2. \A n \in S : n \notin T => m <= n
    <3>1. m <= x /\ x \in Nat /\ m \in Nat
      BY <1>1
    <3> QED BY <3>1
  <2> QED BY <2>1, <2>2
<1> QED BY <1>5 DEF Smallest

\* Induction over an interval: what holds of a number if it does of the lower ones.
LEMMA FromBelow ==
  ASSUME NEW n \in Nat, NEW S,
         \A i \in 1 .. n : (\A j \in 1 .. n : j < i => j \in S) => i \in S
  PROVE  \A i \in 1 .. n : i \in S
<1> DEFINE Bad == {i \in 1 .. n : i \notin S}
<1> SUFFICES ASSUME Bad # {} PROVE FALSE
  OBVIOUS
<1>1. Bad \in SUBSET Nat
  OBVIOUS
<1>2. PICK m \in Bad : \A i \in Bad : m <= i
  BY <1>1, LeastNumber
<1> QED BY <1>2

-----------------------------------------------------------------------------
(* DenseSearch *)

USE SearchAssumption

\* The part of the type invariant the rankings rest on.
Ordered ==
  /\ score \in [Rows -> Int]
  /\ id \in [Rows -> Int]
  /\ \A r, q \in Rows : id[r] = id[q] => r = q

-----------------------------------------------------------------------------
(* Better is a strict total order of the rows *)

\* No row is better than itself, of two rows one is, and better is transitive.
LEMMA BetterIsOrder ==
  ASSUME Ordered
  PROVE  /\ \A r \in Rows : ~ Better(r, r)
         /\ \A r, q \in Rows : r # q => Better(r, q) \/ Better(q, r)
         /\ \A p, q, r \in Rows : Better(p, q) /\ Better(q, r) => Better(p, r)
BY DEF Ordered, Better

\* Sets of rows are finite.
LEMMA RowsFinite ==
  ASSUME NEW S \in SUBSET Rows
  PROVE  /\ IsFiniteSet(S) /\ Cardinality(S) \in Nat
         /\ \A T \in SUBSET S : /\ IsFiniteSet(T) /\ Cardinality(T) \in Nat
                                /\ Cardinality(T) <= Cardinality(S)
                                /\ Cardinality(T) = Cardinality(S) => T = S
<1>1. IsFiniteSet(Rows)
  BY FS_Interval DEF Rows
<1>2. \A T \in SUBSET Rows : IsFiniteSet(T) /\ Cardinality(T) \in Nat
  BY <1>1, FS_Subset, FS_CardinalityType
<1>3. \A T \in SUBSET S : T \in SUBSET Rows
  OBVIOUS
<1>4. \A T \in SUBSET S : /\ Cardinality(T) <= Cardinality(S)
                          /\ Cardinality(T) = Cardinality(S) => T = S
  BY <1>2, FS_Subset
<1> QED BY <1>2, <1>3, <1>4

\* A set of rows that is not empty has a first row ...
LEMMA FirstRow ==
  ASSUME Ordered, NEW S \in SUBSET Rows, S # {}
  PROVE  \E m \in S : Ahead(S, m) = {}
<1> DEFINE Order == {x \in Rows \X Rows : Better(x[1], x[2])}
<1>1. \A p, q \in Rows : <<p, q>> \in Order <=> Better(p, q)
  OBVIOUS
<1> HIDE DEF Order
<1>2. /\ \A r \in S : <<r, r>> \notin Order
      /\ \A p, q, r \in S : <<p, q>> \in Order /\ <<q, r>> \in Order => <<p, r>> \in Order
  BY <1>1, BetterIsOrder
<1>3. \E m \in S : \A q \in S : <<q, m>> \notin Order
  BY <1>2, RowsFinite, MinimalElement
<1> QED BY <1>1, <1>3 DEF Ahead

\* ... and a last one.
LEMMA LastRow ==
  ASSUME Ordered, NEW S \in SUBSET Rows, S # {}
  PROVE  \E m \in S : \A q \in S : q # m => Better(q, m)
<1> DEFINE Order == {x \in Rows \X Rows : Better(x[2], x[1])}
<1>1. \A p, q \in Rows : <<p, q>> \in Order <=> Better(q, p)
  OBVIOUS
<1> HIDE DEF Order
<1>2. /\ \A r \in S : <<r, r>> \notin Order
      /\ \A p, q, r \in S : <<p, q>> \in Order /\ <<q, r>> \in Order => <<p, r>> \in Order
  BY <1>1, BetterIsOrder
<1>3. \E m \in S : \A q \in S : <<q, m>> \notin Order
  BY <1>2, RowsFinite, MinimalElement
<1> QED BY <1>1, <1>3, BetterIsOrder

-----------------------------------------------------------------------------
(* What Best returns *)

\* A ranking of at least k rows has k rows in its first k.
LEMMA BestIsFull ==
  ASSUME Ordered, NEW S \in SUBSET Rows, NEW k \in Nat, k <= Cardinality(S)
  PROVE  k <= Cardinality(Best(S, k))
<1> DEFINE B == Best(S, k)
<1>1. B \in SUBSET S
  BY DEF Best
<1> SUFFICES ASSUME Cardinality(B) < k PROVE FALSE
  BY <1>1, RowsFinite
<1>2. S \ B # {} /\ S \ B \in SUBSET Rows
  BY <1>1, RowsFinite
<1>3. PICK m \in S \ B : Ahead(S \ B, m) = {}
  BY <1>2, FirstRow
<1>4. Ahead(S, m) \in SUBSET B /\ B \in SUBSET Rows /\ Ahead(S, m) \in SUBSET Rows
  BY <1>1, <1>3 DEF Ahead
<1>5. Cardinality(Ahead(S, m)) <= Cardinality(B)
      /\ Cardinality(Ahead(S, m)) \in Nat /\ Cardinality(B) \in Nat
  BY <1>4, RowsFinite
<1>6. m \in Best(S, k)
  BY <1>5, <1>3 DEF Best
<1> QED BY <1>3, <1>6

\* All of at most k rows are the first k.
LEMMA BestOfFew ==
  ASSUME Ordered, NEW S \in SUBSET Rows, NEW k \in Nat, Cardinality(S) <= k
  PROVE  Best(S, k) = S
<1>1. ASSUME NEW r \in S PROVE Cardinality(Ahead(S, r)) < k
  <2>1. Ahead(S, r) \in SUBSET S /\ Ahead(S, r) # S
    BY BetterIsOrder DEF Ahead
  <2> QED BY <2>1, RowsFinite
<1> QED BY <1>1 DEF Best

\* The first k of two sets together are the first k of the first k of each.
LEMMA BestOfUnion ==
  ASSUME Ordered, NEW A \in SUBSET Rows, NEW B \in SUBSET Rows, NEW k \in Nat
  PROVE  Best(Best(A, k) \cup Best(B, k), k) = Best(A \cup B, k)
<1> DEFINE U == A \cup B
           V == Best(A, k) \cup Best(B, k)
<1>1. U \in SUBSET Rows /\ V \in SUBSET U
  BY DEF Best
<1>2. ASSUME NEW r \in Best(U, k) PROVE r \in V /\ r \in Best(V, k)
  <2>1. r \in U /\ Cardinality(Ahead(U, r)) < k
    BY DEF Best
  <2>2. \A S \in SUBSET U : Ahead(S, r) \in SUBSET Ahead(U, r)
    BY DEF Ahead
  <2>3. Ahead(U, r) \in SUBSET Rows
    BY <1>1 DEF Ahead
  <2>4. \A S \in SUBSET U : r \in S => r \in Best(S, k)
    <3> SUFFICES ASSUME NEW S \in SUBSET U, r \in S
                 PROVE  Cardinality(Ahead(S, r)) < k
      BY DEF Best
    <3> QED BY <2>1, <2>2, <2>3, RowsFinite
  <2>5. r \in V
    BY <2>1, <2>4
  <2> QED BY <1>1, <2>4, <2>5
<1>3. ASSUME NEW r \in Best(V, k) PROVE r \in Best(U, k)
  <2> DEFINE W == Ahead(U, r)
  <2>1. r \in V /\ Cardinality(Ahead(V, r)) < k
    BY DEF Best
  <2>2. W \in SUBSET U /\ W \in SUBSET Rows
    BY <1>1 DEF Ahead
  <2>a. r \in U /\ Cardinality(W) \in Nat
    BY <1>1, <2>1, <2>2, RowsFinite
  <2> SUFFICES ASSUME k <= Cardinality(W) PROVE FALSE
    BY <2>a DEF Best
  <2>3. k <= Cardinality(Best(W, k))
    BY <2>2, BestIsFull
  <2>4. ASSUME NEW q \in Best(W, k) PROVE q \in Ahead(V, r)
    <3>1. q \in W /\ Cardinality(Ahead(W, q)) < k
      BY DEF Best
    <3>2. q \in U /\ Better(q, r)
      BY <3>1 DEF Ahead
    <3>3. Ahead(U, q) = Ahead(W, q)
      BY <3>2, <2>1, <1>1, BetterIsOrder DEF Ahead
    <3>4. q \in Best(U, k)
      BY <3>1, <3>2, <3>3 DEF Best
    <3>5. q \in V
      BY <3>4, <1>2
    <3> QED BY <3>2, <3>5 DEF Ahead
  <2>5. Best(W, k) \in SUBSET Ahead(V, r) /\ Ahead(V, r) \in SUBSET Rows
    BY <2>4, <1>1 DEF Ahead
  <2>6. Cardinality(Best(W, k)) <= Cardinality(Ahead(V, r))
        /\ Cardinality(Best(W, k)) \in Nat /\ Cardinality(Ahead(V, r)) \in Nat
    BY <2>5, RowsFinite
  <2> QED BY <2>1, <2>3, <2>6
<1> QED BY <1>2, <1>3

-----------------------------------------------------------------------------
(* What SelectTopKRows returns *)

\* Two disjoint sets of rows.
LEMMA TwoParts ==
  ASSUME NEW S \in SUBSET Rows, NEW T \in SUBSET Rows, S \cap T = {}
  PROVE  Cardinality(S \cup T) = Cardinality(S) + Cardinality(T)
<1>1. IsFiniteSet(S) /\ IsFiniteSet(T)
  BY RowsFinite
<1>2. Cardinality(S) \in Nat /\ Cardinality(T) \in Nat
  BY RowsFinite
<1>3. Cardinality(S \cup T) = Cardinality(S) + Cardinality(T) - Cardinality(S \cap T)
  BY <1>1, FS_Union
<1>4. Cardinality(S \cap T) = 0
  BY FS_EmptySet
<1> QED BY <1>2, <1>3, <1>4

\* A block has a threshold.
LEMMA ThresholdExists ==
  ASSUME Ordered, NEW S \in SUBSET Rows,
         NEW take \in Nat \ {0}, take <= Cardinality(S)
  PROVE  /\ Threshold(S, take) \in Int
         /\ IsThreshold(S, take, Threshold(S, take))
<1> DEFINE B == Best(S, take)
<1>1. take <= Cardinality(B) /\ B \in SUBSET S /\ B \in SUBSET Rows
  BY BestIsFull DEF Best
<1>2. B # {}
  BY <1>1, FS_EmptySet
<1>3. PICK m \in B : \A q \in B : q # m => Better(q, m)
  BY <1>1, <1>2, LastRow
<1> DEFINE t == score[m]
<1>4. m \in S /\ Cardinality(Ahead(S, m)) < take /\ t \in Int
  BY <1>1, <1>3 DEF Best, Ordered
<1>5. Above(S, t) \in SUBSET Rows /\ Ties(S, t) \in SUBSET Rows
      /\ Above(S, t) \cap Ties(S, t) = {}
  BY <1>4 DEF Above, Ties, Ordered
<1>6. Cardinality(Above(S, t)) < take
  <2>1. Above(S, t) \in SUBSET Ahead(S, m) /\ Ahead(S, m) \in SUBSET Rows
    BY <1>4 DEF Above, Ahead, Better
  <2> QED BY <1>4, <2>1, RowsFinite
<1>7. take <= Cardinality(Above(S, t)) + Cardinality(Ties(S, t))
  <2>1. B \in SUBSET (Above(S, t) \cup Ties(S, t))
    <3> SUFFICES ASSUME NEW q \in B PROVE score[q] > t \/ score[q] = t
      BY <1>1 DEF Above, Ties
    <3> QED BY <1>3 DEF Better
  <2>2. Cardinality(B) <= Cardinality(Above(S, t) \cup Ties(S, t))
    BY <2>1, <1>5, RowsFinite
  <2> QED BY <1>1, <1>5, <2>2, TwoParts, RowsFinite
<1>8. t \in {score[r] : r \in S} /\ IsThreshold(S, take, t)
  BY <1>4, <1>6, <1>7 DEF IsThreshold
<1>9. Threshold(S, take) \in {score[r] : r \in S} /\ IsThreshold(S, take, Threshold(S, take))
  BY <1>8 DEF Threshold
<1> QED BY <1>9 DEF Ordered

\* What a threshold and its ties select are the first rows.
LEMMA ThresholdSelects ==
  ASSUME Ordered, NEW S \in SUBSET Rows, NEW take \in Nat,
         NEW t \in Int, IsThreshold(S, take, t)
  PROVE  Above(S, t) \cup FirstTies(Ties(S, t), take - Cardinality(Above(S, t)))
           = Best(S, take)
<1> DEFINE A == Above(S, t)
           T == Ties(S, t)
           E(r) == {q \in T : id[q] < id[r]}
<1>1. /\ A \in SUBSET Rows /\ T \in SUBSET Rows
      /\ Cardinality(A) \in Nat /\ Cardinality(T) \in Nat
      /\ A \cap T = {}
  <2>1. A \in SUBSET Rows /\ T \in SUBSET Rows /\ A \cap T = {}
    BY DEF Above, Ties, Ordered
  <2> QED BY <2>1, RowsFinite
<1>2. Cardinality(A) < take /\ take <= Cardinality(A) + Cardinality(T)
  BY DEF IsThreshold
<1>3. ASSUME NEW r \in T
      PROVE  /\ Cardinality(Ahead(S, r)) = Cardinality(A) + Cardinality(E(r))
             /\ Cardinality(E(r)) \in Nat
  <2>1. Ahead(S, r) = A \cup E(r)
    BY DEF Ahead, Better, Above, Ties, Ordered
  <2>2. E(r) \in SUBSET Rows /\ A \cap E(r) = {}
    BY <1>1
  <2> HIDE DEF A, T, E
  <2>3. Cardinality(A \cup E(r)) = Cardinality(A) + Cardinality(E(r))
    BY <1>1, <2>2, TwoParts
  <2> QED BY <2>1, <2>2, <2>3, RowsFinite
<1>4. ASSUME NEW r \in S, score[r] > t PROVE Cardinality(Ahead(S, r)) < take
  <2>1. Ahead(S, r) \in SUBSET A
    BY <1>4 DEF Ahead, Better, Above, Ordered
  <2> QED BY <1>1, <1>2, <2>1, RowsFinite
<1>5. ASSUME NEW r \in S, score[r] < t PROVE ~ (Cardinality(Ahead(S, r)) < take)
  <2>1. A \cup T \in SUBSET Ahead(S, r) /\ Ahead(S, r) \in SUBSET Rows
    BY <1>5 DEF Ahead, Better, Above, Ties, Ordered
  <2>2. Cardinality(A \cup T) <= Cardinality(Ahead(S, r))
        /\ Cardinality(Ahead(S, r)) \in Nat
    BY <2>1, RowsFinite
  <2>3. Cardinality(A \cup T) = Cardinality(A) + Cardinality(T)
    BY <1>1, TwoParts
  <2> HIDE DEF A, T
  <2> QED BY <1>1, <1>2, <2>2, <2>3
<1>6. ASSUME NEW r \in S
      PROVE  r \in A \cup FirstTies(T, take - Cardinality(A)) <=> r \in Best(S, take)
  <2>1. CASE score[r] > t
    BY <2>1, <1>4 DEF Above, Best
  <2>2. CASE score[r] < t
    BY <2>2, <1>5 DEF Above, Ties, FirstTies, Best, Ordered
  <2>3. CASE score[r] = t
    <3>1. r \in T /\ r \notin A
      BY <2>3 DEF Above, Ties
    <3>2. r \in FirstTies(T, take - Cardinality(A)) <=> Cardinality(E(r)) < take - Cardinality(A)
      BY <3>1 DEF FirstTies
    <3>3. r \in Best(S, take) <=> Cardinality(Ahead(S, r)) < take
      BY DEF Best
    <3> HIDE DEF A, T, E
    <3> QED BY <3>1, <3>2, <3>3, <1>1, <1>3
  <2> QED BY <2>1, <2>2, <2>3 DEF Ordered
<1> QED BY <1>6 DEF Best, FirstTies, Above, Ties

\* select_top_k_rows returns the first rows of its block.
LEMMA SelectIsBest ==
  ASSUME Ordered, NEW S \in SUBSET Rows, S # {}, limit \in Nat \ {0}
  PROVE  SelectTopKRows(S) = Best(S, limit)
<1> DEFINE take == Smaller(limit, Cardinality(S))
<1>1. Cardinality(S) \in Nat \ {0}
  BY RowsFinite, FS_EmptySet
<1>2. CASE take = Cardinality(S)
  <2>1. Cardinality(S) <= limit
    BY <1>1, <1>2 DEF Smaller
  <2>2. Best(S, take) = S /\ Best(S, limit) = S
    BY <1>1, <1>2, <2>1, BestOfFew
  <2> QED BY <1>2, <2>2 DEF SelectTopKRows
<1>3. CASE take # Cardinality(S)
  <2> DEFINE t == Threshold(S, take)
  <2>1. take = limit /\ take \in Nat \ {0} /\ take <= Cardinality(S)
    BY <1>1, <1>3 DEF Smaller
  <2> HIDE DEF take
  <2>2. t \in Int /\ IsThreshold(S, take, t)
    BY <2>1, ThresholdExists
  <2>3. Above(S, t) \cup FirstTies(Ties(S, t), take - Cardinality(Above(S, t))) = Best(S, take)
    BY <2>1, <2>2, ThresholdSelects
  <2>4. Best(Best(S, take), take) = Best(S, take)
    <3>1. Best({}, take) = {}
      BY DEF Best
    <3> QED BY <2>1, <3>1, BestOfUnion
  <2>5. SelectTopKRows(S) = Best(Best(S, take), take)
    BY <1>3, <2>3 DEF SelectTopKRows, take
  <2> QED BY <2>1, <2>4, <2>5
<1> QED BY <1>2, <1>3

-----------------------------------------------------------------------------
(* How often a score is reached *)

AtLeast(S, v) == {r \in S : score[r] >= v}

\* A ranking cut at k has k rows, or all when they are fewer.
LEMMA BestCardinality ==
  ASSUME Ordered, NEW S \in SUBSET Rows, NEW k \in Nat \ {0}
  PROVE  Cardinality(Best(S, k)) = Smaller(k, Cardinality(S))
<1> DEFINE B == Best(S, k)
<1>1. B \in SUBSET S /\ B \in SUBSET Rows /\ Cardinality(B) \in Nat
      /\ Cardinality(S) \in Nat
  <2>1. B \in SUBSET S /\ B \in SUBSET Rows
    BY DEF Best
  <2> QED BY <2>1, RowsFinite
<1>2. Cardinality(B) <= k
  <2>1. CASE B = {}
    BY <2>1, FS_EmptySet
  <2>2. CASE B # {}
    <3>1. PICK m \in B : \A q \in B : q # m => Better(q, m)
      BY <1>1, <2>2, LastRow
    <3>2. Cardinality(Ahead(S, m)) < k
      BY <3>1 DEF Best
    <3>3. B \ {m} \in SUBSET Ahead(S, m) /\ Ahead(S, m) \in SUBSET Rows
      BY <1>1, <3>1 DEF Ahead
    <3>4. Cardinality(B \ {m}) <= Cardinality(Ahead(S, m))
          /\ Cardinality(B \ {m}) \in Nat /\ Cardinality(Ahead(S, m)) \in Nat
      BY <3>3, RowsFinite
    <3>5. Cardinality(B \ {m}) = Cardinality(B) - 1
      BY <1>1, <3>1, RowsFinite, FS_RemoveElement
    <3> QED BY <1>1, <3>2, <3>4, <3>5
  <2> QED BY <2>1, <2>2
<1>3. CASE k <= Cardinality(S)
  <2>1. k <= Cardinality(B)
    BY <1>3, BestIsFull
  <2> QED BY <1>1, <1>2, <1>3, <2>1 DEF Smaller
<1>4. CASE Cardinality(S) <= k
  <2>1. B = S
    BY <1>4, BestOfFew
  <2> QED BY <1>1, <1>4, <2>1 DEF Smaller
<1> QED BY <1>1, <1>3, <1>4

\* The rows of a ranking that reach v are the ranking of those that reach v.
LEMMA BestAtLeast ==
  ASSUME Ordered, NEW S \in SUBSET Rows, NEW k \in Nat \ {0}, NEW v \in Int
  PROVE  Cardinality(AtLeast(Best(S, k), v)) = Smaller(k, Cardinality(AtLeast(S, v)))
<1>1. ASSUME NEW r \in AtLeast(S, v) PROVE Ahead(AtLeast(S, v), r) = Ahead(S, r)
  BY DEF AtLeast, Ahead, Better, Ordered
<1>2. AtLeast(Best(S, k), v) = Best(AtLeast(S, v), k)
  BY <1>1 DEF AtLeast, Best
<1>3. AtLeast(S, v) \in SUBSET Rows
  BY DEF AtLeast
<1> QED BY <1>2, <1>3, BestCardinality

\* The rows argpartition chooses reach v as often as they can.
LEMMA PartitionedAtLeast ==
  ASSUME Ordered, NEW S \in SUBSET Rows, NEW take \in Nat, take <= Cardinality(S),
         NEW C \in Partitioned(S, take), NEW v \in Int
  PROVE  /\ C \in SUBSET S
         /\ Cardinality(AtLeast(C, v)) = Smaller(take, Cardinality(AtLeast(S, v)))
<1>1. /\ C \in SUBSET S /\ C \in SUBSET Rows /\ Cardinality(C) = take
      /\ \A r \in C, q \in S \ C : score[r] >= score[q]
  BY DEF Partitioned
<1>2. /\ AtLeast(C, v) \in SUBSET C /\ AtLeast(C, v) \in SUBSET AtLeast(S, v)
      /\ AtLeast(S, v) \in SUBSET Rows
  BY <1>1 DEF AtLeast
<1>3. /\ Cardinality(AtLeast(C, v)) \in Nat /\ Cardinality(AtLeast(S, v)) \in Nat
      /\ Cardinality(AtLeast(C, v)) <= take
      /\ Cardinality(AtLeast(C, v)) <= Cardinality(AtLeast(S, v))
  BY <1>1, <1>2, RowsFinite
<1>4. CASE \E q \in S \ C : score[q] >= v
  <2>1. AtLeast(C, v) = C
    BY <1>1, <1>4 DEF AtLeast, Ordered
  <2> QED BY <1>1, <1>3, <2>1 DEF Smaller
<1>5. CASE ~ \E q \in S \ C : score[q] >= v
  <2>1. AtLeast(C, v) = AtLeast(S, v)
    BY <1>1, <1>5 DEF AtLeast
  <2> QED BY <1>1, <1>3, <2>1 DEF Smaller
<1> QED BY <1>1, <1>4, <1>5

-----------------------------------------------------------------------------
(* The search *)

\* The plain search has rows of those searched, and of each score as many as
\* the limit allows.
PlainIsFull ==
  /\ plain \subseteq Searched
  /\ \A v \in Scores : Cardinality(AtLeast(plain, v))
                         = Smaller(limit, Cardinality(AtLeast(Searched, v)))

SearchInv == SearchTypeOK /\ BatchIsExact /\ PlainIsFull

\* The type invariant gives what the rankings rest on.
LEMMA SearchTypeOKOrdered == SearchTypeOK => Ordered /\ limit \in Nat \ {0}
<1> SUFFICES ASSUME SearchTypeOK PROVE Ordered /\ limit \in Nat \ {0}
  OBVIOUS
<1>1. score \in [Rows -> Int]
  BY DEF SearchTypeOK
<1>2. id \in [Rows -> Int]
  BY DEF SearchTypeOK, Rows
<1>3. limit \in Nat \ {0}
  BY DEF SearchTypeOK
<1> QED BY <1>1, <1>2, <1>3 DEF SearchTypeOK, Ordered

\* Nothing is searched at the start.
LEMMA SearchInitEstablishes == SearchInit => SearchInv
<1> SUFFICES ASSUME SearchInit PROVE SearchInv
  OBVIOUS
<1>1. SearchTypeOK
  BY DEF SearchInit, SearchTypeOK, Rows
<1>2. Searched = {}
  BY DEF SearchInit, Searched, Rows
<1>3. \A v : AtLeast(plain, v) = {} /\ AtLeast(Searched, v) = {}
  BY <1>2 DEF SearchInit, AtLeast
<1>4. PlainIsFull
  BY <1>1, <1>2, <1>3, FS_EmptySet DEF PlainIsFull, Smaller, SearchInit
<1> QED BY <1>1, <1>2, <1>4 DEF SearchInv, BatchIsExact, Best, SearchInit

\* Every block adds its rows to those searched, and keeps the hits exact.
LEMMA SearchNextPreserves == SearchInv /\ [SearchNext]_searchVars => SearchInv'
<1> SUFFICES ASSUME SearchInv, [SearchNext]_searchVars PROVE SearchInv'
  OBVIOUS
<1> USE DEF SearchInv
<1>1. CASE SearchBlock
  <2>1. /\ score' = score /\ id' = id /\ blockRows' = blockRows /\ limit' = limit
        /\ start < NRows /\ start' = Stop
        /\ batch' = Best(batch \cup SelectTopKRows(Block), limit)
        /\ plain' \subseteq plain \cup Block
    BY <1>1 DEF SearchBlock, MergeTopKBlocks, Partitioned, Extend, Best
  <2>2. /\ Stop \in 0 .. NRows /\ start < Stop /\ start \in 0 .. NRows
        /\ Block \in SUBSET Rows /\ Block # {}
        /\ Searched \in SUBSET Rows
    <3>1. Stop \in 0 .. NRows /\ start < Stop /\ start \in 0 .. NRows
      BY <2>1 DEF SearchTypeOK, Stop, Smaller
    <3>2. start + 1 \in Block
      BY <3>1 DEF Block, Rows
    <3> QED BY <3>1, <3>2 DEF Block, Searched
  <2>3. Searched' = Searched \cup Block
    BY <2>1, <2>2 DEF Searched, Block, Rows
  <2>4. Ordered /\ limit \in Nat \ {0}
    BY SearchTypeOKOrdered
  <2>5. SelectTopKRows(Block) = Best(Block, limit)
    BY <2>2, <2>4, SelectIsBest
  <2>6. batch' = Best(Searched \cup Block, limit)
    BY <2>1, <2>2, <2>4, <2>5, BestOfUnion DEF BatchIsExact
  <2>7. Best(Searched, limit)' = Best(Searched \cup Block, limit)
    BY <2>1, <2>3 DEF Best, Ahead, Better
  <2>8. batch' \subseteq Rows /\ plain' \subseteq Rows
    BY <2>1, <2>2, <2>6 DEF Best, SearchTypeOK
  <2>9. SearchTypeOK'
    BY <2>1, <2>2, <2>8 DEF SearchTypeOK
  <2>10. PICK C \in Partitioned(Block, Smaller(limit, Cardinality(Block))) :
           plain' = Best(plain \cup C, limit)
    BY <1>1 DEF SearchBlock, Extend
  <2>11. plain' \subseteq Searched'
    <3>1. C \subseteq Block
      BY DEF Partitioned
    <3> QED BY <2>3, <2>10, <3>1 DEF Best, PlainIsFull
  <2>12. ASSUME NEW v \in Scores
         PROVE  Cardinality(AtLeast(plain, v)')
                  = Smaller(limit, Cardinality(AtLeast(Searched', v)))
    <3> DEFINE take == Smaller(limit, Cardinality(Block))
    <3>1. v \in Int /\ Cardinality(Block) \in Nat
      BY <2>2, RowsFinite
    <3>2. take \in Nat /\ take <= Cardinality(Block)
      BY <2>4, <3>1 DEF Smaller
    <3> HIDE DEF take
    <3>3. /\ C \in SUBSET Block
          /\ Cardinality(AtLeast(C, v)) = Smaller(take, Cardinality(AtLeast(Block, v)))
      BY <2>2, <2>4, <2>10, <3>1, <3>2, PartitionedAtLeast DEF take
    <3>4. /\ plain \cup C \in SUBSET Rows /\ AtLeast(plain, v) \cap AtLeast(C, v) = {}
          /\ AtLeast(Searched, v) \cap AtLeast(Block, v) = {}
      <4>1. Searched \cap Block = {}
        BY <2>2 DEF Searched, Block, Rows
      <4>2. plain \subseteq Searched
        BY DEF PlainIsFull
      <4> QED BY <4>1, <4>2, <2>2, <3>3 DEF AtLeast
    <3>5. /\ AtLeast(plain, v) \in SUBSET Rows /\ AtLeast(C, v) \in SUBSET Rows
          /\ AtLeast(Searched, v) \in SUBSET Rows /\ AtLeast(Block, v) \in SUBSET Rows
          /\ AtLeast(Block, v) \in SUBSET Block
          /\ AtLeast(plain \cup C, v) = AtLeast(plain, v) \cup AtLeast(C, v)
          /\ AtLeast(Searched', v) = AtLeast(Searched, v) \cup AtLeast(Block, v)
      BY <2>2, <2>3, <3>3, <3>4 DEF AtLeast
    <3>6. Cardinality(AtLeast(plain, v)')
            = Smaller(limit, Cardinality(AtLeast(plain \cup C, v)))
      <4>1. AtLeast(plain, v)' = AtLeast(Best(plain \cup C, limit), v)
        BY <2>1, <2>10 DEF AtLeast
      <4> QED BY <2>4, <3>1, <3>4, <4>1, BestAtLeast
    <3>7. Cardinality(AtLeast(plain \cup C, v))
            = Cardinality(AtLeast(plain, v)) + Cardinality(AtLeast(C, v))
      BY <3>4, <3>5, TwoParts
    <3>8. Cardinality(AtLeast(Searched', v))
            = Cardinality(AtLeast(Searched, v)) + Cardinality(AtLeast(Block, v))
      BY <3>4, <3>5, TwoParts
    <3>9. /\ Cardinality(AtLeast(Searched, v)) \in Nat
          /\ Cardinality(AtLeast(Block, v)) \in Nat
          /\ Cardinality(AtLeast(Block, v)) <= Cardinality(Block)
      BY <2>2, <3>5, RowsFinite
    <3>10. Cardinality(AtLeast(plain, v)) = Smaller(limit, Cardinality(AtLeast(Searched, v)))
      BY DEF PlainIsFull
    <3> QED
      BY <2>4, <3>1, <3>3, <3>6, <3>7, <3>8, <3>9, <3>10 DEF Smaller, take
  <2>13. PlainIsFull'
    BY <2>1, <2>11, <2>12 DEF PlainIsFull, AtLeast
  <2> QED BY <2>6, <2>7, <2>9, <2>13 DEF BatchIsExact
<1>2. CASE UNCHANGED searchVars
  BY <1>2 DEF searchVars, SearchTypeOK, BatchIsExact, Best, Ahead, Better, Searched,
              PlainIsFull, AtLeast
<1> QED BY <1>1, <1>2 DEF SearchNext

\* Every variable of the search has its type, for any rows and limits.
THEOREM SearchTypeCorrect == SearchSpec => []SearchTypeOK
<1>1. SearchInv => SearchTypeOK
  BY DEF SearchInv
<1> QED BY <1>1, SearchInitEstablishes, SearchNextPreserves, PTL DEF SearchSpec

\* The batched search (select_top_k_rows, merge_top_k_blocks) has exactly the
\* first rows of those searched, whatever the scores, the ids, the limit and
\* the size of the blocks.
THEOREM BatchedSearchIsExact == SearchSpec => []BatchIsExact
<1>1. SearchInv => BatchIsExact
  BY DEF SearchInv
<1> QED BY <1>1, SearchInitEstablishes, SearchNextPreserves, PTL DEF SearchSpec

\* MemmapDenseIndex.retrieve finds the best scores, each as often as it must
\* be, whatever rows argpartition chooses at the boundary of a block.
THEOREM PlainSearchFindsTheBestScores == SearchSpec => []PlainScoresAreBest
<1>1. ASSUME SearchInv PROVE PlainScoresAreBest
  <2> SUFFICES ASSUME NEW v \in Scores
               PROVE  Cardinality(AtLeast(plain, v))
                        = Cardinality(AtLeast(Best(Searched, limit), v))
    BY DEF PlainScoresAreBest, AtLeast
  <2>1. Ordered /\ limit \in Nat \ {0} /\ Searched \in SUBSET Rows /\ v \in Int
    BY <1>1, SearchTypeOKOrdered DEF SearchInv, Searched
  <2>2. Cardinality(AtLeast(Best(Searched, limit), v))
          = Smaller(limit, Cardinality(AtLeast(Searched, v)))
    BY <2>1, BestAtLeast
  <2> QED BY <1>1, <2>2 DEF SearchInv, PlainIsFull
<1>2. SearchInv => PlainScoresAreBest
  BY <1>1
<1> QED BY <1>2, SearchInitEstablishes, SearchNextPreserves, PTL DEF SearchSpec

-----------------------------------------------------------------------------
(* QuestionSplit *)

HIDE SearchAssumption

-----------------------------------------------------------------------------
(* Arithmetic of the threshold *)

\* A factor keeps an order of natural numbers.
LEMMA FactorKeepsOrder ==
  ASSUME NEW k \in Nat, NEW a \in Nat, NEW b \in Nat, a <= b
  PROVE  k * a \in Nat /\ k * b \in Nat /\ k * a <= k * b
<1>1. PICK c \in Nat : b = a + c
  <2>1. b - a \in Nat /\ b = a + (b - a)
    OBVIOUS
  <2> QED BY <2>1
<1>2. k * b = k * a + k * c
  BY <1>1
<1>3. k * a \in Nat /\ k * c \in Nat
  OBVIOUS
<1> QED BY <1>2, <1>3

\* What is at most d * k is, divided by d and rounded up, at most k.
LEMMA RoundedUp ==
  ASSUME NEW d \in Nat \ {0}, NEW a \in Nat, NEW k \in Nat, a <= d * k
  PROVE  /\ (a + d - 1) \div d \in Int
         /\ (a + d - 1) \div d <= k
<1> DEFINE b == a + d - 1
           c == b \div d
<1>1. b \in Nat /\ b < d * k + d
  OBVIOUS
<1>2. c \in Nat /\ d * c <= b
  BY <1>1
<1> HIDE DEF b, c
<1>3. CASE k + 1 <= c
  <2>1. d * (k + 1) <= d * c
    BY <1>2, <1>3, FactorKeepsOrder
  <2>2. d * (k + 1) = d * k + d /\ d * k \in Nat
    OBVIOUS
  <2> QED BY <1>1, <1>2, <2>1, <2>2
<1> QED BY <1>2, <1>3 DEF b, c

-----------------------------------------------------------------------------
(* The texts a scan goes through, and their order *)

\* Every question has a text.
SplitTyped ==
  /\ size \in Nat \X Nat
  /\ text \in [1..size[1] + size[2] -> Texts]
  /\ phase \in {"scan_train", "unite", "scan_all", "done"}
  /\ scanned \in Nat

\* The texts have the lengths and grams the constants give them; of both there are finitely many.
LEMMA ScannedFinite ==
  ASSUME SplitTyped
  PROVE  /\ IsFiniteSet(Train) /\ Train \in SUBSET Nat
         /\ IsFiniteSet(Scanned) /\ Scanned \in SUBSET Texts
<1>1. IsFiniteSet(Train) /\ IsFiniteSet(Train \union Public)
  <2>1. size[1] \in Int /\ size[1] + 1 \in Int /\ size[1] + size[2] \in Int
    BY DEF SplitTyped
  <2>2. IsFiniteSet(Train) /\ IsFiniteSet(Public)
    BY <2>1, FS_Interval DEF Train, Public
  <2> QED BY <2>2, FS_Union
<1>2. Train \in SUBSET (1..size[1] + size[2]) /\ Public \in SUBSET (1..size[1] + size[2])
  BY DEF SplitTyped, Train, Public
<1>3. ASSUME NEW S, IsFiniteSet(S) PROVE IsFiniteSet({text[q] : q \in S})
  <2> DEFINE f == [q \in S |-> text[q]]
  <2>1. f \in Surjection(S, {text[q] : q \in S})
    BY DEF Surjection
  <2> QED BY <1>3, <2>1, FS_Surjection DEF ExistsSurjection
<1>4. \A S \in SUBSET (1..size[1] + size[2]) : {text[q] : q \in S} \in SUBSET Texts
  BY DEF SplitTyped
<1>5. Train \in SUBSET Nat
  BY DEF SplitTyped, Train
<1> QED BY <1>1, <1>2, <1>3, <1>4, <1>5 DEF Scanned

\* The first question with a text has this text.
LEMMA FirstHasText ==
  ASSUME SplitTyped, NEW t \in {text[q] : q \in Train}
  PROVE  /\ FirstWith(t) \in Train /\ text[FirstWith(t)] = t
         /\ \A q \in Train : text[q] = t => FirstWith(t) <= q
<1> DEFINE S == {q \in Train : text[q] = t}
<1>1. S # {} /\ S \in SUBSET Nat
  BY ScannedFinite
<1>2. FirstWith(t) \in S /\ \A q \in S : FirstWith(t) <= q
  BY <1>1, LeastNumber DEF FirstWith
<1> QED BY <1>2

\* Before is a strict total order of the texts of a scan.
LEMMA BeforeIsOrder ==
  ASSUME SplitTyped
  PROVE  /\ \A t \in Scanned : ~ Before(t, t)
         /\ \A s, t \in Scanned : s # t => Before(s, t) \/ Before(t, s)
         /\ \A r, s, t \in Scanned : Before(r, s) /\ Before(s, t) => Before(r, t)
<1>1. CASE phase = "scan_all"
  <2>1. Scanned \in SUBSET Nat
    BY ScannedFinite, SplitAssumption
  <2> QED BY <1>1, <2>1 DEF Before
<1>2. CASE phase # "scan_all"
  <2>1. \A t \in Scanned : FirstWith(t) \in Nat /\ text[FirstWith(t)] = t
    BY <1>2, ScannedFinite, FirstHasText DEF Scanned
  <2> QED BY <1>2, <2>1 DEF Before
<1> QED BY <1>1, <1>2

\* A text that is before another has a lower position; no two have the same.
LEMMA PositionsDiffer ==
  ASSUME SplitTyped
  PROVE  /\ \A t \in Scanned : Position(t) \in 1 .. Cardinality(Scanned)
         /\ \A s, t \in Scanned : Position(s) = Position(t) => s = t
<1> DEFINE Sooner(t) == {s \in Scanned : Before(s, t)}
<1>1. \A t \in Scanned : /\ Sooner(t) \in SUBSET Scanned /\ IsFiniteSet(Sooner(t))
                         /\ Cardinality(Sooner(t)) \in Nat
  BY ScannedFinite, FS_Subset, FS_CardinalityType
<1>2. ASSUME NEW s \in Scanned, NEW t \in Scanned, Before(s, t)
      PROVE  Cardinality(Sooner(s)) # Cardinality(Sooner(t))
  <2>1. Sooner(s) \in SUBSET Sooner(t) /\ s \in Sooner(t) /\ s \notin Sooner(s)
    BY <1>2, BeforeIsOrder
  <2> HIDE DEF Sooner
  <2> QED BY <1>1, <2>1, FS_Subset
<1>3. ASSUME NEW t \in Scanned PROVE Cardinality(Sooner(t)) + 1 \in 1 .. Cardinality(Scanned)
  <2>1. t \notin Sooner(t)
    BY BeforeIsOrder
  <2> HIDE DEF Sooner
  <2>2. Cardinality(Scanned) \in Nat /\ Cardinality(Sooner(t)) <= Cardinality(Scanned)
        /\ Cardinality(Sooner(t)) # Cardinality(Scanned)
    BY <1>1, <2>1, ScannedFinite, FS_Subset, FS_CardinalityType
  <2> QED BY <1>1, <2>2
<1>4. \A t \in Scanned : Position(t) = Cardinality(Sooner(t)) + 1
  BY DEF Position
<1> HIDE DEF Sooner
<1> QED BY <1>1, <1>2, <1>3, <1>4, BeforeIsOrder

-----------------------------------------------------------------------------
(* The prefix filter *)

\* Rarer is a strict total order of the grams.
LEMMA RarerIsOrder ==
  ASSUME SplitTyped
  PROVE  /\ \A g \in Int : ~ Rarer(g, g)
         /\ \A g, h \in Int : g # h => Rarer(g, h) \/ Rarer(h, g)
         /\ \A f, g, h \in Int : Rarer(f, g) /\ Rarer(g, h) => Rarer(f, h)
<1>1. ASSUME NEW g PROVE Frequency(g) \in Nat
  <2>1. {t \in Scanned : g \in Grams(t)} \in SUBSET Scanned
    OBVIOUS
  <2> QED BY <2>1, ScannedFinite, FS_Subset, FS_CardinalityType DEF Frequency
<1> QED BY <1>1 DEF Rarer

\* Of two texts that share a share Num / Den of their grams, the rarest common gram
\* has too few grams before it, in either text, to be outside its prefix.
LEMMA RarestIsInPrefix ==
  ASSUME SplitTyped, NEW t \in Texts,
         NEW C \in SUBSET Grams(t), NEW g \in C, \A h \in C : ~ Rarer(h, g),
         Num * Cardinality(Grams(t)) <= Den * Cardinality(C)
  PROVE  g \in Prefix(t)
<1> DEFINE G == Grams(t)
           n == Cardinality(G)
           k == Cardinality(C)
           H == {h \in G : Rarer(h, g)}
<1>1. IsFiniteSet(G) /\ IsFiniteSet(C) /\ n \in Nat /\ k \in Nat
  BY SplitAssumption, FS_Subset, FS_CardinalityType
<1>2. Cardinality(H) <= n - k /\ Cardinality(H) \in Nat
  <2>1. H \in SUBSET (G \ C)
    OBVIOUS
  <2>2. IsFiniteSet(G \ C) /\ Cardinality(G \ C) = n - k
    <3>1. G \intersect C = C
      OBVIOUS
    <3> QED BY <1>1, <3>1, FS_Difference
  <2> HIDE DEF G, H, n, k
  <2> QED BY <2>1, <2>2, FS_Subset, FS_CardinalityType
<1>3. /\ (Num * n + Den - 1) \div Den \in Int
      /\ (Num * n + Den - 1) \div Den <= k
  <2>1. Num * n \in Nat /\ Num * n <= Den * k /\ Den \in Nat \ {0}
    BY <1>1, SplitAssumption
  <2> HIDE DEF n, k
  <2> QED BY <1>1, <2>1, RoundedUp
<1>4. Cardinality(H) < PrefixLength(n)
  <2> HIDE DEF H, n, k
  <2> QED BY <1>1, <1>2, <1>3 DEF PrefixLength
<1> QED BY <1>4 DEF Prefix

\* A near duplicate among the earlier texts is a candidate.
LEMMA NearDuplicatesAreCandidates ==
  ASSUME SplitTyped, NEW s \in Scanned, NEW t \in Scanned,
         Before(s, t), AreNearDuplicates(s, t)
  PROVE  s \in Candidates(t)
<1> DEFINE G == Grams(s)
           H == Grams(t)
           C == G \intersect H
           U == G \union H
           n == Cardinality(G)
           m == Cardinality(H)
           i == Cardinality(C)
           u == Cardinality(U)
<1>1. s \in Texts /\ t \in Texts
  BY ScannedFinite
<1>2. /\ G # {} /\ G \in SUBSET Int /\ IsFiniteSet(G)
      /\ H # {} /\ H \in SUBSET Int /\ IsFiniteSet(H)
  BY <1>1, SplitAssumption DEF AreNearDuplicates
<1>3. /\ IsFiniteSet(C) /\ IsFiniteSet(U)
      /\ n \in Nat /\ m \in Nat /\ i \in Nat /\ u \in Nat
  <2>1. IsFiniteSet(U)
    BY <1>2, FS_Union
  <2>2. C \in SUBSET G
    OBVIOUS
  <2>3. IsFiniteSet(C)
    BY <1>2, <2>2, FS_Subset
  <2> QED BY <1>2, <2>1, <2>3, FS_CardinalityType
<1>4. /\ n # 0
      /\ n <= u /\ m <= u /\ i <= n /\ i <= m
  BY <1>2, <1>3, FS_Subset, FS_EmptySet
<1>5. Num * u <= Den * i
  BY DEF AreNearDuplicates
<1>6. /\ Num \in Nat \ {0} /\ Den \in Nat \ {0}
  BY SplitAssumption
<1> HIDE DEF n, m, i, u
<1>7. Num * n <= Den * i /\ Num * m <= Den * i
  BY <1>3, <1>4, <1>5, <1>6, FactorKeepsOrder
<1>8. i # 0
  BY <1>3, <1>4, <1>6, <1>7
<1>9. Prefix(s) \intersect Prefix(t) # {}
  <2> DEFINE Order == {x \in Int \X Int : Rarer(x[1], x[2])}
  <2>1. \A g, h \in Int : <<g, h>> \in Order <=> Rarer(g, h)
    OBVIOUS
  <2>2. C # {} /\ C \in SUBSET Int
    BY <1>2, <1>8, FS_EmptySet DEF i
  <2> HIDE DEF Order, C
  <2>3. /\ \A g \in C : <<g, g>> \notin Order
        /\ \A f, g, h \in C : <<f, g>> \in Order /\ <<g, h>> \in Order => <<f, h>> \in Order
    BY <2>1, <2>2, RarerIsOrder
  <2>4. PICK g \in C : \A h \in C : <<h, g>> \notin Order
    BY <2>2, <2>3, <1>3, MinimalElement
  <2>5. \A h \in C : ~ Rarer(h, g)
    BY <2>1, <2>2, <2>4
  <2>6. C \in SUBSET G /\ C \in SUBSET H
    BY DEF C
  <2>7. g \in Prefix(s)
    BY <1>1, <1>7, <2>5, <2>6, RarestIsInPrefix DEF n, i
  <2>8. g \in Prefix(t)
    BY <1>1, <1>7, <2>5, <2>6, RarestIsInPrefix DEF m, i
  <2> QED BY <2>7, <2>8
<1>10. Den * Lesser(n, m) >= Num * Greater(n, m)
  <2>1. Lesser(n, m) \in Nat /\ i <= Lesser(n, m)
    BY <1>3, <1>4 DEF Lesser
  <2>2. Greater(n, m) \in Nat /\ Greater(n, m) <= u
    BY <1>3, <1>4 DEF Greater
  <2>3. Den * i <= Den * Lesser(n, m) /\ Den * i \in Nat /\ Den * Lesser(n, m) \in Nat
    BY <1>3, <1>6, <2>1, FactorKeepsOrder
  <2>4. Num * Greater(n, m) <= Num * u /\ Num * u \in Nat /\ Num * Greater(n, m) \in Nat
    BY <1>3, <1>6, <2>2, FactorKeepsOrder
  <2> QED BY <1>5, <2>3, <2>4
<1> QED BY <1>9, <1>10 DEF Candidates, n, m

-----------------------------------------------------------------------------
(* The disjoint set *)

\* Every question has a question above it, which is not greater.
Forest(above) ==
  /\ above \in [Train -> Train]
  /\ \A i \in Train : above[i] <= i

\* The recursion of find() has a solution, from the smallest question upwards.
LEMMA PassedExists ==
  ASSUME SplitTyped, NEW above, Forest(above)
  PROVE  \E f : f = [i \in Train |-> IF above[i] = i THEN {i}
                                     ELSE {i} \union f[above[above[i]]]]
<1> DEFINE N == size[1]
           Upto(n, f) == f = [i \in 1 .. n |-> IF above[i] = i THEN {i}
                                               ELSE {i} \union f[above[above[i]]]]
           S == {n \in 1 .. N : \E f : Upto(n, f)}
<1>1. N \in Nat /\ Train = 1 .. N
  BY DEF SplitTyped, Train
<1>2. \A i \in 1 .. N : above[i] \in 1 .. N /\ above[i] <= i
  BY <1>1 DEF Forest
<1> HIDE DEF N
<1>3. Upto(0, [i \in 1 .. 0 |-> {}])
  OBVIOUS
<1>4. ASSUME NEW n \in 1 .. N, \A j \in 1 .. N : j < n => j \in S
      PROVE  n \in S
  <2>1. PICK f : Upto(n - 1, f)
    <3>1. CASE n = 1
      BY <1>3, <3>1
    <3>2. CASE n # 1
      <4>1. n - 1 \in 1 .. N /\ n - 1 < n
        BY <1>1, <3>2
      <4> HIDE DEF Upto
      <4> QED BY <1>4, <4>1
    <3> QED BY <3>1, <3>2
  <2> DEFINE g == [i \in 1 .. n |-> IF i < n THEN f[i]
                                    ELSE IF above[i] = i THEN {i}
                                    ELSE {i} \union f[above[above[i]]]]
  <2>2. \A i \in 1 .. n - 1 : f[i] = IF above[i] = i THEN {i}
                                     ELSE {i} \union f[above[above[i]]]
    BY <2>1
  <2>3. ASSUME NEW i \in 1 .. n
        PROVE  g[i] = IF above[i] = i THEN {i} ELSE {i} \union g[above[above[i]]]
    <3>1. /\ above[i] \in 1 .. N /\ above[i] <= i
          /\ above[above[i]] \in 1 .. N /\ above[above[i]] <= above[i]
      BY <1>1, <1>2
    <3>2. CASE i < n
      <4>1. i \in 1 .. n - 1 /\ above[above[i]] \in 1 .. n - 1
        BY <1>1, <3>1, <3>2
      <4>2. g[i] = f[i] /\ g[above[above[i]]] = f[above[above[i]]]
        BY <1>1, <4>1
      <4> HIDE DEF g
      <4> QED BY <2>2, <4>1, <4>2
    <3>3. CASE i = n /\ above[i] = i
      BY <3>3
    <3>4. CASE i = n /\ above[i] # i
      <4>1. above[above[i]] \in 1 .. n - 1
        BY <1>1, <3>1, <3>4
      <4>2. g[above[above[i]]] = f[above[above[i]]]
        BY <1>1, <4>1
      <4>3. g[i] = {i} \union f[above[above[i]]]
        BY <3>4
      <4> HIDE DEF g
      <4> QED BY <3>4, <4>2, <4>3
    <3> QED BY <1>1, <3>2, <3>3, <3>4
  <2>4. g = [i \in 1 .. n |-> g[i]]
    OBVIOUS
  <2> HIDE DEF g
  <2>5. Upto(n, g)
    BY <2>3, <2>4
  <2> QED BY <2>5
<1>5. \A n \in 1 .. N : n \in S
  <2> HIDE DEF S
  <2> QED BY <1>1, <1>4, FromBelow
<1>6. \E f : Upto(N, f)
  <2>1. CASE N = 0
    BY <1>3, <2>1
  <2>2. CASE N # 0
    <3>1. N \in 1 .. N
      BY <1>1, <2>2
    <3> HIDE DEF Upto
    <3> QED BY <1>5, <3>1
  <2> QED BY <2>1, <2>2
<1> QED BY <1>1, <1>6

\* find() passes an item and then what it passes from the item's grandparent.
LEMMA PathRecurs ==
  ASSUME SplitTyped, NEW above, Forest(above), NEW i \in Train
  PROVE  Path(above, i) = IF above[i] = i THEN {i}
                          ELSE {i} \union Path(above, above[above[i]])
<1> DEFINE P(f) == f = [j \in Train |-> IF above[j] = j THEN {j}
                                        ELSE {j} \union f[above[above[j]]]]
           passed == CHOOSE f : P(f)
<1>1. \A j : Path(above, j) = passed[j]
  BY DEF Path
<1>2. \E f : P(f)
  BY PassedExists
<1> HIDE DEF P
<1>3. P(passed)
  BY <1>2
<1> HIDE DEF passed
<1>4. passed[i] = IF above[i] = i THEN {i} ELSE {i} \union passed[above[above[i]]]
  BY <1>3 DEF P
<1> QED BY <1>1, <1>4

\* The root of a root is itself, that of another item the root of its grandparent.
LEMMA RootRecurs ==
  ASSUME SplitTyped, NEW above, Forest(above)
  PROVE  /\ \A i \in Train : above[i] = i => Root(above, i) = i
         /\ \A i \in Train : above[i] # i => Root(above, i) = Root(above, above[above[i]])
<1> DEFINE N == size[1]
           S == {i \in Train : Path(above, i) # {} /\ Path(above, i) \in SUBSET (1 .. i)}
<1>1. N \in Nat /\ Train = 1 .. N
  BY DEF SplitTyped, Train
<1>2. \A i \in Train : /\ above[i] \in Train /\ above[i] <= i
                       /\ above[above[i]] \in Train /\ above[above[i]] <= above[i]
  BY DEF Forest
<1> HIDE DEF N
<1>3. ASSUME NEW i \in 1 .. N, \A j \in 1 .. N : j < i => j \in S
      PROVE  i \in S
  <2>1. CASE above[i] = i
    BY <1>1, <2>1, PathRecurs
  <2>2. CASE above[i] # i
    <3>1. above[above[i]] \in 1 .. N /\ above[above[i]] < i
      BY <1>1, <1>2, <2>2
    <3>2. Path(above, i) = {i} \union Path(above, above[above[i]])
      BY <1>1, <2>2, PathRecurs
    <3>3. Path(above, above[above[i]]) \in SUBSET (1 .. above[above[i]])
      BY <1>3, <3>1
    <3> QED BY <1>1, <3>1, <3>2, <3>3
  <2> QED BY <2>1, <2>2
<1>4. \A i \in 1 .. N : i \in S
  <2> HIDE DEF S
  <2> QED BY <1>1, <1>3, FromBelow
<1>5. ASSUME NEW i \in Train, above[i] = i PROVE Root(above, i) = i
  <2>1. Path(above, i) = {i} /\ {i} \in SUBSET Nat
    BY <1>1, <1>5, PathRecurs
  <2> QED BY <2>1, LeastNumber DEF Root
<1>6. ASSUME NEW i \in Train, above[i] # i
      PROVE  Root(above, i) = Root(above, above[above[i]])
  <2> DEFINE a == above[above[i]]
             A == Path(above, a)
  <2>1. a \in 1 .. N /\ a < i /\ i \in Nat
    BY <1>1, <1>2, <1>6
  <2>2. Path(above, i) = {i} \union A
    BY <1>6, PathRecurs
  <2>3. A # {} /\ A \in SUBSET (1 .. a)
    BY <1>4, <2>1
  <2> HIDE DEF a, A
  <2>4. A \in SUBSET Nat /\ \A n \in A : n < i
    BY <1>1, <2>1, <2>3
  <2>5. Smallest(A) \in A /\ \A n \in A : Smallest(A) <= n
    BY <2>3, <2>4, LeastNumber
  <2>6. /\ Smallest({i} \union A) \in {i} \union A
        /\ \A n \in {i} \union A : Smallest({i} \union A) <= n
    BY <2>1, <2>4, LeastNumber
  <2>7. Smallest({i} \union A) = Smallest(A)
    <3> DEFINE x == Smallest(A)
               y == Smallest({i} \union A)
    <3>1. x \in A /\ x \in Nat /\ x < i /\ i \in Nat
      BY <2>1, <2>4, <2>5
    <3>2. y <= x /\ (y = i \/ y \in A)
      BY <2>6, <3>1
    <3>3. y \in A => x <= y /\ y \in Nat
      BY <2>4, <2>5
    <3> HIDE DEF x, y
    <3>4. x = y
      BY <3>1, <3>2, <3>3
    <3> QED BY <3>4 DEF x, y
  <2> QED BY <2>2, <2>7 DEF Root, a, A
<1> QED BY <1>5, <1>6

\* A root is a question with nothing above it; an item and its parent have the same.
LEMMA RootIsAtTheTop ==
  ASSUME SplitTyped, NEW above, Forest(above)
  PROVE  \A i \in Train :
            /\ Root(above, i) \in Train /\ above[Root(above, i)] = Root(above, i)
            /\ Root(above, above[i]) = Root(above, i)
<1> DEFINE N == size[1]
           Top(i) == /\ Root(above, i) \in Train
                     /\ above[Root(above, i)] = Root(above, i)
                     /\ Root(above, above[i]) = Root(above, i)
           S == {i \in Train : Top(i)}
<1>1. N \in Nat /\ Train = 1 .. N
  BY DEF SplitTyped, Train
<1>2. \A i \in Train : /\ above[i] \in Train /\ above[i] <= i
                       /\ above[above[i]] \in Train /\ above[above[i]] <= above[i]
  BY DEF Forest
<1> HIDE DEF N
<1>3. ASSUME NEW i \in 1 .. N, \A j \in 1 .. N : j < i => j \in S
      PROVE  i \in S
  <2>1. CASE above[i] = i
    BY <1>1, <2>1, RootRecurs
  <2>2. CASE above[i] # i
    <3>1. above[i] \in 1 .. N /\ above[i] < i
          /\ above[above[i]] \in 1 .. N /\ above[above[i]] < i
      BY <1>1, <1>2, <2>2
    <3>2. Top(above[i]) /\ Top(above[above[i]])
      BY <1>3, <3>1
    <3>3. Root(above, i) = Root(above, above[above[i]])
      BY <1>1, <2>2, RootRecurs
    <3> QED BY <1>1, <3>2, <3>3
  <2> QED BY <2>1, <2>2
<1>4. \A i \in 1 .. N : i \in S
  <2> HIDE DEF S
  <2> QED BY <1>1, <1>3, FromBelow
<1> QED BY <1>1, <1>4

\* Roots are the only numbering that items share with their parents and that leaves
\* roots alone.
LEMMA RootsAreUnique ==
  ASSUME SplitTyped, NEW above, Forest(above), NEW f,
         \A i \in Train : f[above[i]] = f[i],
         \A i \in Train : above[i] = i => f[i] = i
  PROVE  \A i \in Train : Root(above, i) = f[i]
<1>1. \A i \in Train : Root(above, i) \in Train /\ above[Root(above, i)] = Root(above, i)
                       /\ Root(above, above[i]) = Root(above, i)
  BY RootIsAtTheTop
<1> DEFINE N == size[1]
           S == {i \in Train : Root(above, i) = f[i]}
<1>2. N \in Nat /\ Train = 1 .. N
  BY DEF SplitTyped, Train
<1> HIDE DEF N
<1>3. ASSUME NEW i \in 1 .. N, \A j \in 1 .. N : j < i => j \in S
      PROVE  i \in S
  <2>1. CASE above[i] = i
    BY <1>2, <2>1, RootRecurs
  <2>2. CASE above[i] # i
    <3>1. above[i] \in 1 .. N /\ above[i] < i
      BY <1>2, <2>2 DEF Forest
    <3> QED BY <1>1, <1>2, <1>3, <3>1
  <2> QED BY <2>1, <2>2
<1>4. \A i \in 1 .. N : i \in S
  <2> HIDE DEF S
  <2> QED BY <1>2, <1>3, FromBelow
<1> QED BY <1>2, <1>4

\* Halving a path changes no root.
LEMMA HalvedKeepsRoots ==
  ASSUME SplitTyped, NEW above, Forest(above), NEW item
  PROVE  /\ Forest(Halved(above, item))
         /\ \A i \in Train : Root(Halved(above, item), i) = Root(above, i)
<1> DEFINE h == Halved(above, item)
           f == [i \in Train |-> Root(above, i)]
<1>1. \A i \in Train : /\ above[i] \in Train /\ above[i] <= i
                       /\ above[above[i]] \in Train /\ above[above[i]] <= above[i]
  BY DEF Forest
<1>2. Train \in SUBSET Nat
  BY ScannedFinite
<1>3. h = [i \in Train |-> h[i]] /\ \A i \in Train : h[i] \in {above[i], above[above[i]]}
  BY DEF Halved
<1> HIDE DEF h
<1>4. \A i \in Train : h[i] \in Train /\ h[i] <= i /\ (h[i] = i => above[i] = i)
  BY <1>1, <1>2, <1>3
<1>5. Forest(h)
  BY <1>3, <1>4 DEF Forest
<1>6. \A i \in Train : f[h[i]] = f[i]
  BY <1>1, <1>3, RootIsAtTheTop
<1>7. \A i \in Train : h[i] = i => f[i] = i
  BY <1>4, RootRecurs
<1>8. \A i \in Train : Root(h, i) = f[i]
  <2> HIDE DEF f
  <2> QED BY <1>5, <1>6, <1>7, RootsAreUnique
<1> QED BY <1>5, <1>8 DEF h

\* A union hangs the items of the greater root under the smaller one; all other
\* items keep their roots.
LEMMA UnionMergesRoots ==
  ASSUME SplitTyped, NEW above, Forest(above), NEW left \in Train, NEW right \in Train
  PROVE  LET l == Root(above, left)
             r == Root(above, right)
         IN  /\ Forest(Union(above, left, right))
             /\ \A i \in Train :
                   Root(Union(above, left, right), i)
                      = IF Root(above, i) = Greater(l, r) THEN Lesser(l, r)
                        ELSE Root(above, i)
<1> DEFINE l == Root(above, left)
           r == Root(above, right)
           g == Greater(l, r)
           s == Lesser(l, r)
           h == Halved(Halved(above, left), right)
           u == Union(above, left, right)
           f == [i \in Train |-> IF Root(above, i) = g THEN s ELSE Root(above, i)]
<1>1. Forest(h) /\ \A i \in Train : Root(h, i) = Root(above, i)
  BY HalvedKeepsRoots
<1>2. u = [h EXCEPT ![g] = s]
  BY HalvedKeepsRoots DEF Union
<1>3. /\ Train \in SUBSET Nat /\ g \in Train /\ s \in Train /\ s <= g
      /\ l \in Train /\ r \in Train
      /\ Root(above, g) = g /\ Root(above, s) = s
  <2>1. l \in Train /\ r \in Train /\ Train \in SUBSET Nat
        /\ above[l] = l /\ above[r] = r
    BY ScannedFinite, RootIsAtTheTop
  <2>2. Root(above, l) = l /\ Root(above, r) = r
    BY <2>1, RootRecurs
  <2> HIDE DEF l, r
  <2> QED BY <2>1, <2>2 DEF Greater, Lesser
<1>4. \A i \in Train : h[i] \in Train /\ h[i] <= i /\ Root(above, h[i]) = Root(above, i)
                       /\ (h[i] = i => Root(above, i) = i)
  BY <1>1, RootIsAtTheTop, RootRecurs DEF Forest
<1> HIDE DEF l, r, g, s, h, u
<1>5. u \in [Train -> Train] /\ \A i \in Train : u[i] = IF i = g THEN s ELSE h[i]
  BY <1>1, <1>2, <1>3 DEF Forest
<1>6. Forest(u)
  BY <1>3, <1>4, <1>5 DEF Forest
<1>7. \A i \in Train : f[u[i]] = f[i]
  BY <1>3, <1>4, <1>5
<1>8. \A i \in Train : u[i] = i => f[i] = i
  BY <1>3, <1>4, <1>5
<1>9. \A i \in Train : Root(u, i) = f[i]
  <2> HIDE DEF f
  <2> QED BY <1>6, <1>7, <1>8, RootsAreUnique
<1> QED BY <1>6, <1>9 DEF u, g, s, l, r

-----------------------------------------------------------------------------
(* The steps of the split *)

\* The texts of the training questions.
TrainTexts == {text[q] : q \in Train}

\* A set that has every question alike to one of its own.
Closed(part) == \A q \in part, r \in Train : Alike(q, r) => r \in part

\* A root is shared only by questions that a chain of questions alike connects.
RootsAreLinked ==
  \A part \in SUBSET Train : Closed(part) =>
    \A q \in part, r \in Train : Root(parent, q) = Root(parent, r) => r \in part

\* What the disjoint set knows of the near duplicates.
Uniting ==
  /\ Forest(parent)
  /\ RootsAreLinked
  /\ \A q, r \in Train : text[q] = text[r] => Root(parent, q) = Root(parent, r)
  /\ phase = "unite" =>
       /\ \A x \in found : /\ x \in TrainTexts \X TrainTexts
                           /\ AreNearDuplicates(x[1], x[2])
       /\ \A q, r \in Train : AreNearDuplicates(text[q], text[r]) =>
             \/ Root(parent, q) = Root(parent, r)
             \/ <<text[q], text[r]>> \in found
             \/ <<text[r], text[q]>> \in found

SplitIInv == SplitTyped /\ CandidatesAreExact /\ Uniting /\ NothingLeaks

\* The relation of near duplicates is symmetric.
LEMMA NearIsSymmetric ==
  ASSUME NEW s \in Texts, NEW t \in Texts, AreNearDuplicates(s, t)
  PROVE  AreNearDuplicates(t, s)
<1>1. Grams(s) \intersect Grams(t) = Grams(t) \intersect Grams(s)
      /\ Grams(s) \union Grams(t) = Grams(t) \union Grams(s)
  OBVIOUS
<1>2. /\ Greater(Length(s), Length(t)) = Greater(Length(t), Length(s))
      /\ Lesser(Length(s), Length(t)) = Lesser(Length(t), Length(s))
  BY SplitAssumption DEF Greater, Lesser
<1>3. Length(s) # 0 /\ Length(t) # 0
  BY DEF AreNearDuplicates
<1>4. Den * Cardinality(Grams(s) \intersect Grams(t))
          >= Num * Cardinality(Grams(s) \union Grams(t))
  BY DEF AreNearDuplicates
<1>5. Den * (Greater(Length(s), Length(t)) - Lesser(Length(s), Length(t)))
          <= (Den - Num) * Greater(Length(s), Length(t))
  BY DEF AreNearDuplicates
<1> QED BY <1>1, <1>2, <1>3, <1>4, <1>5 DEF AreNearDuplicates

\* When every text is scanned, of two different texts that are near duplicates the
\* pair is found.
LEMMA AllPairsFound ==
  ASSUME SplitTyped, CandidatesAreExact, phase \in {"scan_train", "scan_all"}, AllScanned
  PROVE  /\ \A x \in found : x \in Scanned \X Scanned /\ AreNearDuplicates(x[1], x[2])
                             /\ x[1] # x[2]
         /\ \A s, t \in Scanned :
               s # t /\ AreNearDuplicates(s, t) => <<s, t>> \in found \/ <<t, s>> \in found
<1>1. \A t \in Scanned : Position(t) <= scanned
  BY PositionsDiffer DEF AllScanned
<1>2. found = {x \in Scanned \X Scanned :
                  /\ Before(x[1], x[2]) /\ Position(x[2]) <= scanned
                  /\ AreNearDuplicates(x[1], x[2])}
  BY DEF CandidatesAreExact
<1>3. \A x \in found : x \in Scanned \X Scanned /\ AreNearDuplicates(x[1], x[2])
                       /\ x[1] # x[2]
  BY <1>2, BeforeIsOrder
<1>4. ASSUME NEW s \in Scanned, NEW t \in Scanned, s # t, AreNearDuplicates(s, t)
      PROVE  <<s, t>> \in found \/ <<t, s>> \in found
  <2>1. AreNearDuplicates(t, s)
    BY <1>4, ScannedFinite, NearIsSymmetric
  <2>2. Before(s, t) \/ Before(t, s)
    BY <1>4, BeforeIsOrder
  <2> QED BY <1>1, <1>2, <1>4, <2>1, <2>2
<1> QED BY <1>3, <1>4

\* Questions of one text start with one root, and no others.
LEMMA SameTextRoots ==
  ASSUME SplitTyped
  PROVE  /\ Forest(SameText)
         /\ \A q, r \in Train : Root(SameText, q) = Root(SameText, r) <=> text[q] = text[r]
<1>1. \A q \in Train : /\ FirstWith(text[q]) \in Train /\ FirstWith(text[q]) <= q
                       /\ text[FirstWith(text[q])] = text[q]
  BY FirstHasText
<1>2. SameText \in [Train -> Train] /\ \A q \in Train : SameText[q] = FirstWith(text[q])
  BY <1>1 DEF SameText
<1>3. Forest(SameText)
  BY <1>1, <1>2 DEF Forest
<1>4. \A q \in Train : SameText[SameText[q]] = SameText[q]
  BY <1>1, <1>2
<1>5. \A q \in Train : Root(SameText, q) = FirstWith(text[q])
  BY <1>2, <1>3, <1>4, RootsAreUnique
<1> QED BY <1>1, <1>3, <1>5

\* What a step that leaves the questions alone leaves alone.
LEMMA RootsStay ==
  ASSUME size' = size, NEW i
  PROVE  /\ Train' = Train /\ Public' = Public
         /\ Root(parent, i)' = Root(parent', i)
<1>1. Train' = Train /\ Public' = Public
  BY DEF Train, Public
<1>2. Path(parent, i)' = Path(parent', i)
  BY <1>1, Zenon DEF Path
<1> QED BY <1>1, <1>2 DEF Root, Smallest

-----------------------------------------------------------------------------
(* The pairs found *)

\* At the start of a scan no pair is due.
LEMMA ScanBegins == SplitTyped /\ scanned = 0 /\ found = {} => CandidatesAreExact
BY PositionsDiffer DEF CandidatesAreExact

\* Every step leaves the pairs found exact.
LEMMA CandidatesStayExact ==
  ASSUME SplitTyped, SplitTyped', CandidatesAreExact, [SplitNext]_splitVars
  PROVE  CandidatesAreExact'
<1>1. CASE ScanNext
  <2>1. PICK t \in Scanned :
          /\ Position(t) = scanned + 1
          /\ found' = found \union {<<s, t>> : s \in {s \in Candidates(t) :
                                                       AreNearDuplicates(s, t)}}
    BY <1>1 DEF ScanNext
  <2>2. scanned \in Nat
    BY DEF SplitTyped
  <2>3. /\ Scanned' = Scanned
        /\ \A r, s \in Scanned : Before(r, s)' <=> Before(r, s)
        /\ \A s \in Scanned : Position(s)' = Position(s)
    BY <1>1 DEF ScanNext, Scanned, Before, Position, FirstWith, Train, Public
  <2>4. found = {x \in Scanned \X Scanned :
                    /\ Before(x[1], x[2]) /\ Position(x[2]) <= scanned
                    /\ AreNearDuplicates(x[1], x[2])}
    BY <1>1 DEF CandidatesAreExact, ScanNext
  <2>5. {s \in Candidates(t) : AreNearDuplicates(s, t)}
           = {s \in Scanned : Before(s, t) /\ AreNearDuplicates(s, t)}
    BY <2>1, <2>2, NearDuplicatesAreCandidates DEF Candidates
  <2>6. \A s \in Scanned : Position(s) <= scanned + 1 <=>
                              Position(s) <= scanned \/ s = t
    BY <2>1, <2>2, PositionsDiffer
  <2>7. found' = {x \in Scanned \X Scanned :
                     /\ Before(x[1], x[2]) /\ Position(x[2]) <= scanned + 1
                     /\ AreNearDuplicates(x[1], x[2])}
    BY <2>1, <2>4, <2>5, <2>6
  <2> QED BY <1>1, <2>3, <2>7 DEF CandidatesAreExact, ScanNext
<1>2. CASE BeginUnions \/ UniteNext \/ Report
  <2>1. phase' \notin {"scan_train", "scan_all"}
    BY <1>2 DEF BeginUnions, UniteNext, Report
  <2> QED BY <2>1 DEF CandidatesAreExact
<1>3. CASE Group
  <2>1. (scanned = 0)' /\ (found = {})'
    BY <1>3 DEF Group
  <2> QED BY <2>1, ScanBegins, PTL
<1>4. CASE UNCHANGED splitVars
  <2>1. CandidatesAreExact' <=> CandidatesAreExact
    BY <1>4 DEF CandidatesAreExact, splitVars, Scanned, Before, Position, FirstWith,
                Train, Public
  <2> QED BY <2>1
<1> QED BY <1>1, <1>2, <1>3, <1>4 DEF SplitNext

-----------------------------------------------------------------------------
(* The groups *)

\* A step that keeps the questions, the disjoint set and what is due of it.
LEMMA UnitingUnchanged ==
  ASSUME UNCHANGED <<size, text, parent>>, Uniting,
         phase' = "unite" => phase = "unite" /\ found' = found
  PROVE  Uniting'
<1>1. Train' = Train /\ \A i : Root(parent, i)' = Root(parent, i)
  <2>1. ASSUME NEW i PROVE Root(parent, i)' = Root(parent', i)
    BY RootsStay
  <2> QED BY <2>1, RootsStay
<1>2. \A part : Closed(part)' <=> Closed(part)
  BY <1>1 DEF Closed, Alike
<1>3. RootsAreLinked'
  BY <1>1, <1>2 DEF Uniting, RootsAreLinked
<1>4. Forest(parent)'
  BY <1>1 DEF Uniting, Forest
<1>5. TrainTexts' = TrainTexts
  BY <1>1 DEF TrainTexts
<1> QED BY <1>1, <1>3, <1>4, <1>5 DEF Uniting

\* Every step leaves the disjoint set a matter of near duplicates.
LEMMA UnitingStays ==
  ASSUME SplitTyped, CandidatesAreExact, Uniting, [SplitNext]_splitVars
  PROVE  Uniting'
<1>1. CASE ScanNext \/ Group \/ Report \/ UNCHANGED splitVars
  BY <1>1, UnitingUnchanged DEF ScanNext, Group, Report, splitVars
<1>2. CASE BeginUnions
  <2>1. UNCHANGED <<size, text, parent, found>> /\ phase = "scan_train" /\ AllScanned
    BY <1>2 DEF BeginUnions
  <2>2. Scanned = TrainTexts
    BY <2>1 DEF Scanned, TrainTexts
  <2>3. /\ \A x \in found : x \in TrainTexts \X TrainTexts /\ AreNearDuplicates(x[1], x[2])
        /\ \A q, r \in Train : AreNearDuplicates(text[q], text[r]) =>
              \/ text[q] = text[r]
              \/ <<text[q], text[r]>> \in found
              \/ <<text[r], text[q]>> \in found
    <3>1. \A q \in Train : text[q] \in TrainTexts
      BY DEF TrainTexts
    <3> QED BY <2>1, <2>2, <3>1, AllPairsFound
  <2>4. Train' = Train /\ TrainTexts' = TrainTexts
        /\ \A i : Root(parent, i)' = Root(parent, i)
    <3>1. ASSUME NEW i PROVE Root(parent, i)' = Root(parent', i)
      BY <2>1, RootsStay
    <3> QED BY <2>1, <3>1, RootsStay DEF TrainTexts
  <2>5. \A part : Closed(part)' <=> Closed(part)
    BY <2>1, <2>4 DEF Closed, Alike
  <2>6. RootsAreLinked' /\ Forest(parent)'
    BY <2>1, <2>4, <2>5 DEF Uniting, RootsAreLinked, Forest
  <2> QED BY <2>1, <2>3, <2>4, <2>6 DEF Uniting
<1>3. CASE UniteNext
  <2> DEFINE T == TrainTexts
  <2>1. PICK p \in found :
           /\ parent' = Union(parent, FirstWith(p[1]), FirstWith(p[2]))
           /\ found' = found \ {p}
    BY <1>3 DEF UniteNext
  <2>2. UNCHANGED <<size, text, phase>> /\ phase = "unite"
    BY <1>3 DEF UniteNext
  <2> DEFINE left == FirstWith(p[1])
             right == FirstWith(p[2])
             l == Root(parent, left)
             r == Root(parent, right)
             Old(i) == Root(parent, i)
             New(i) == Root(parent', i)
  <2>3. /\ p = <<p[1], p[2]>> /\ AreNearDuplicates(p[1], p[2])
        /\ left \in Train /\ text[left] = p[1]
        /\ right \in Train /\ text[right] = p[2]
        /\ p[1] \in Texts /\ p[2] \in Texts
    <3>1. p \in T \X T /\ AreNearDuplicates(p[1], p[2])
      BY <2>1, <2>2 DEF Uniting
    <3>2. T \in SUBSET Texts
      BY DEF TrainTexts, SplitTyped, Train
    <3> QED BY <3>1, <3>2, FirstHasText DEF TrainTexts
  <2>4. /\ Forest(parent')
        /\ \A i \in Train : New(i) = IF Old(i) = Greater(l, r) THEN Lesser(l, r) ELSE Old(i)
    BY <2>1, <2>3, UnionMergesRoots DEF Uniting
  <2>5. /\ \A i, j \in Train : Old(i) = Old(j) => New(i) = New(j)
        /\ \A i, j \in Train : Old(i) = l /\ Old(j) = r => New(i) = New(j)
        /\ \A i, j \in Train : New(i) = New(j) =>
              Old(i) = Old(j) \/ (Old(i) = l /\ Old(j) = r) \/ (Old(i) = r /\ Old(j) = l)
    <3>1. {Greater(l, r), Lesser(l, r)} = {l, r}
      <4>1. l \in Nat /\ r \in Nat
        BY <2>3, ScannedFinite, RootIsAtTheTop DEF Uniting
      <4> HIDE DEF l, r
      <4> QED BY <4>1 DEF Greater, Lesser
    <3> HIDE DEF l, r, Old, New
    <3> QED BY <2>4, <3>1
  <2>6. Train' = Train /\ T' = T /\ \A i : Root(parent, i)' = New(i)
    <3>1. ASSUME NEW i PROVE Root(parent, i)' = Root(parent', i)
      BY <2>2, RootsStay
    <3> QED BY <2>2, <3>1, RootsStay DEF TrainTexts
  <2>7. \A part : Closed(part)' <=> Closed(part)
    BY <2>2, <2>6 DEF Closed, Alike
  <2>8. Alike(left, right) /\ Alike(right, left)
    BY <2>3, NearIsSymmetric DEF Alike
  <2>9. RootsAreLinked'
    <3> SUFFICES ASSUME NEW part \in SUBSET Train, Closed(part),
                        NEW q \in part, NEW x \in Train, New(q) = New(x)
                 PROVE  x \in part
      BY <2>6, <2>7 DEF RootsAreLinked
    <3>1. \A i \in part, j \in Train : Old(i) = Old(j) => j \in part
      BY DEF Uniting, RootsAreLinked
    <3>2. left \in part <=> right \in part
      BY <2>3, <2>8 DEF Closed
    <3> HIDE DEF left, right, New
    <3> QED BY <2>3, <2>5, <3>1, <3>2
  <2>10. Forest(parent)'
    BY <2>4, <2>6 DEF Forest
  <2>11. \A q, x \in Train : text[q] = text[x] => New(q) = New(x)
    BY <2>5 DEF Uniting
  <2>12. \A x \in found' : x \in T \X T /\ AreNearDuplicates(x[1], x[2])
    BY <2>1, <2>2 DEF Uniting
  <2>13. ASSUME NEW q \in Train, NEW x \in Train, AreNearDuplicates(text[q], text[x])
         PROVE  \/ New(q) = New(x)
                \/ <<text[q], text[x]>> \in found'
                \/ <<text[x], text[q]>> \in found'
    <3>1. \/ Old(q) = Old(x)
          \/ <<text[q], text[x]>> \in found
          \/ <<text[x], text[q]>> \in found
      BY <2>2, <2>13 DEF Uniting
    <3>2. \A i \in Train : /\ text[i] = p[1] => Old(i) = l
                           /\ text[i] = p[2] => Old(i) = r
      BY <2>3 DEF Uniting
    <3>3. CASE Old(q) = Old(x)
      BY <2>5, <3>3
    <3>4. CASE p \in {<<text[q], text[x]>>, <<text[x], text[q]>>}
      <4>1. (text[q] = p[1] /\ text[x] = p[2]) \/ (text[x] = p[1] /\ text[q] = p[2])
        BY <3>4
      <4> HIDE DEF l, r, Old, New
      <4> QED BY <2>5, <3>2, <4>1
    <3>5. CASE Old(q) # Old(x) /\ p \notin {<<text[q], text[x]>>, <<text[x], text[q]>>}
      BY <2>1, <3>1, <3>5
    <3> QED BY <3>3, <3>4, <3>5
  <2> HIDE DEF T, left, right, l, r, Old
  <2> QED BY <2>2, <2>6, <2>9, <2>10, <2>11, <2>12, <2>13 DEF Uniting, T
<1> QED BY <1>1, <1>2, <1>3 DEF SplitNext

\* The sets of one root are the components, when no pair is left to unite.
LEMMA GroupFormsComponents ==
  ASSUME SplitTyped, Uniting, Group
  PROVE  GroupsAreComponents'
<1> DEFINE Old(i) == Root(parent, i)
           M(r) == {q \in Train : Old(q) = Old(r)}
<1>1. /\ groups' = {M(r) : r \in Train}
      /\ split' = [r \in Train |-> Assignment(Smallest(M(r)))]
      /\ UNCHANGED <<size, text, parent>> /\ phase = "unite" /\ found = {}
  BY DEF Group
<1>2. Train' = Train /\ \A q, r : Alike(q, r)' <=> Alike(q, r)
  BY <1>1 DEF Train, Alike
<1>3. \A q, r \in Train : Alike(q, r) => Old(q) = Old(r)
  BY <1>1 DEF Uniting, Alike
<1>4. \A G \in groups' : \E r \in Train : G = M(r)
  BY <1>1
<1>5. \A q, r \in Train : Old(q) = Old(r) => M(q) = M(r)
  OBVIOUS
<1>6. \A q, r \in Train : q \in M(r) <=> Old(q) = Old(r)
  OBVIOUS
<1>7. UNION groups' = Train
  BY <1>1
<1>8. \A G, H \in groups' : \A q \in Train : q \in G /\ q \in H => G = H
  <2> HIDE DEF Old, M
  <2> QED BY <1>4, <1>5, <1>6
<1>9. \A G \in groups' : G \in SUBSET Train
  BY <1>7
<1>10. \A q, r \in Train : Alike(q, r) => split'[q] = split'[r]
  <2> HIDE DEF Old, M
  <2> QED BY <1>1, <1>3, <1>5
<1>11. ASSUME NEW G \in groups', NEW q \in G, NEW r \in Train, Alike(q, r) PROVE r \in G
  BY <1>1, <1>3, <1>11
<1>12. ASSUME NEW G \in groups', NEW part \in (SUBSET G) \ {{}, G},
              \A q \in part, r \in G \ part : ~ Alike(q, r)
       PROVE  FALSE
  <2>1. Closed(part)
    BY <1>9, <1>11, <1>12 DEF Closed
  <2>2. part \in SUBSET Train
    BY <1>9
  <2>3. PICK q \in part, r \in G : r \notin part
    <3>1. part # {} /\ part # G /\ part \subseteq G
      OBVIOUS
    <3> QED BY <3>1
  <2>4. q \in Train /\ r \in Train /\ Old(q) = Old(r)
    BY <1>1, <2>2, <2>3
  <2> HIDE DEF Old
  <2> QED BY <2>1, <2>2, <2>3, <2>4 DEF Uniting, RootsAreLinked, Old
<1> HIDE DEF Old, M
<1>13. \A G, H \in groups' : G = H \/ G \intersect H = {}
  BY <1>8, <1>9
<1>14. \A G, H \in groups' : \A q \in G, r \in H : Alike(q, r) => G = H
  BY <1>8, <1>9, <1>11
<1>15. \A G \in groups' : \A part \in (SUBSET G) \ {{}, G} :
          \E q \in part, r \in G \ part : Alike(q, r)
  BY <1>12
<1> QED BY <1>2, <1>7, <1>10, <1>13, <1>14, <1>15 DEF GroupsAreComponents

\* The report has the pairs of one text and those that the second scan has found.
LEMMA ReportIsWhole ==
  ASSUME SplitTyped, CandidatesAreExact, Report
  PROVE  ReportIsComplete'
<1>1. phase = "scan_all" /\ AllScanned /\ UNCHANGED <<size, text>>
  BY DEF Report
<1>2. /\ \A x \in found : AreNearDuplicates(x[1], x[2]) /\ x[1] # x[2]
                          /\ x \in Scanned \X Scanned
      /\ \A s, t \in Scanned :
            s # t /\ AreNearDuplicates(s, t) => <<s, t>> \in found \/ <<t, s>> \in found
  BY <1>1, AllPairsFound
<1>3. \A q \in Train \union Public : text[q] \in Scanned
  BY <1>1 DEF Scanned
<1>4. Scanned \in SUBSET Texts
  BY ScannedFinite
<1>5. ASSUME NEW q \in Train, NEW p \in Public
      PROVE  (<<text[q], text[p]>> \in found \/ <<text[p], text[q]>> \in found)
                <=> text[q] # text[p] /\ AreNearDuplicates(text[q], text[p])
  BY <1>2, <1>3, <1>4, NearIsSymmetric
<1> DEFINE Exact == {x \in Train \X Public : text[x[1]] = text[x[2]]}
           Near == {x \in Train \X Public :
                      \/ <<text[x[1]], text[x[2]]>> \in found
                      \/ <<text[x[2]], text[x[1]]>> \in found}
           Both == {x \in Train \X Public : Alike(x[1], x[2])}
           Match(x) == IF text[x[1]] = text[x[2]] THEN "exact_normalized" ELSE "near_duplicate"
<1>6. /\ \A x \in Exact : x \in Both /\ Match(x) = "exact_normalized"
      /\ \A x \in Near : x \in Both /\ Match(x) = "near_duplicate"
      /\ \A x \in Both : x \in Exact \/ x \in Near
  BY <1>5 DEF Alike
<1>7. overlaps' = {Row(x[1], x[2], "exact_normalized") : x \in Exact}
                  \union {Row(x[1], x[2], "near_duplicate") : x \in Near}
  BY DEF Report
<1>8. /\ Both' = Both
      /\ \A x \in Both : Match(x)' = Match(x)
  BY <1>1 DEF Train, Public, Alike
<1> HIDE DEF Exact, Near, Both, Match
<1>9. overlaps' = {Row(x[1], x[2], Match(x)) : x \in Both}
  BY <1>6, <1>7
<1>10. overlaps' = {Row(x[1], x[2], Match(x)') : x \in Both'}
  BY <1>8, <1>9
<1> QED BY <1>10 DEF ReportIsComplete, Row, Both, Match

\* No step makes the splits leak.
LEMMA NothingStartsToLeak ==
  ASSUME SplitTyped, CandidatesAreExact, Uniting, NothingLeaks, [SplitNext]_splitVars
  PROVE  NothingLeaks'
<1>1. CASE BeginUnions \/ UniteNext
  <2>1. phase' = "unite"
    BY <1>1 DEF BeginUnions, UniteNext
  <2> QED BY <2>1 DEF NothingLeaks
<1>2. CASE Group
  <2>1. phase' = "scan_all"
    BY <1>2 DEF Group
  <2> QED BY <1>2, <2>1, GroupFormsComponents DEF NothingLeaks
<1>3. CASE ScanNext \/ Report \/ UNCHANGED splitVars
  <2>1. UNCHANGED <<size, text, groups, split>>
    BY <1>3 DEF ScanNext, Report, splitVars
  <2>2. GroupsAreComponents' <=> GroupsAreComponents
    BY <2>1 DEF GroupsAreComponents, Alike, Train
  <2>3. phase' \in {"scan_all", "done"} => phase \in {"scan_all", "done"}
    BY <1>3 DEF ScanNext, Report, splitVars
  <2>4. phase' = "done" => ReportIsComplete'
    <3>1. CASE ScanNext
      BY <3>1 DEF ScanNext
    <3>2. CASE Report
      BY <3>2, ReportIsWhole
    <3>3. CASE UNCHANGED splitVars
      <4>1. ReportIsComplete' <=> ReportIsComplete
        BY <3>3 DEF ReportIsComplete, splitVars, Alike, Train, Public
      <4> QED BY <3>3, <4>1 DEF NothingLeaks, splitVars
    <3> QED BY <1>3, <3>1, <3>2, <3>3
  <2> QED BY <2>2, <2>3, <2>4 DEF NothingLeaks
<1> QED BY <1>1, <1>2, <1>3 DEF SplitNext

-----------------------------------------------------------------------------
(* The theorems of the split *)

\* The scan, the disjoint set, the groups and the report keep what they say of the questions.
THEOREM SplitInvariance == SplitSpec => []SplitIInv
<1>1. ASSUME SplitInit PROVE SplitIInv
  <2>1. SplitTyped
    BY <1>1, SplitAssumption DEF SplitInit, SplitTyped
  <2>2. CandidatesAreExact
    BY <1>1, <2>1, ScanBegins DEF SplitInit
  <2>3. Uniting
    <3>1. parent = SameText /\ phase = "scan_train"
      BY <1>1 DEF SplitInit
    <3>2. \A q, r \in Train : Root(parent, q) = Root(parent, r) <=> text[q] = text[r]
      BY <2>1, <3>1, SameTextRoots
    <3>3. RootsAreLinked
      BY <3>2 DEF RootsAreLinked, Closed, Alike
    <3> QED BY <2>1, <3>1, <3>2, <3>3, SameTextRoots DEF Uniting
  <2>4. NothingLeaks
    BY <1>1 DEF SplitInit, NothingLeaks
  <2> QED BY <2>1, <2>2, <2>3, <2>4 DEF SplitIInv
<1>2. ASSUME SplitIInv, [SplitNext]_splitVars PROVE SplitIInv'
  <2>1. SplitTyped /\ CandidatesAreExact /\ Uniting /\ NothingLeaks
    BY <1>2 DEF SplitIInv
  <2>2. SplitTyped'
    BY <1>2, <2>1 DEF SplitTyped, SplitNext, splitVars, ScanNext, BeginUnions, UniteNext,
                      Group, Report
  <2> QED BY <1>2, <2>1, <2>2, CandidatesStayExact, UnitingStays, NothingStartsToLeak
          DEF SplitIInv
<1> QED BY <1>1, <1>2, PTL DEF SplitSpec

\* "an exact global prefix filter" (split.py): _candidate_pairs loses no pair, for any
\* texts and threshold, in the scan of the training questions and in that of all questions.
THEOREM PrefixFilterIsExact == SplitSpec => []CandidatesAreExact
BY SplitInvariance, PTL DEF SplitIInv

\* The groups build_splits assigns as a whole are the connected components of the near
\* duplicates, none is torn between splits, and the report misses no public question.
THEOREM SplitsLeakNothing == SplitSpec => []NothingLeaks
BY SplitInvariance, PTL DEF SplitIInv

------------------------------------------------------------------------------
(* WorkerPool.  That the outcome is that of the loop is not inductive: it  *)
(* needs that a result once consumed never changes, hence that no two      *)
(* threads work for one future.  That the connections are closed after     *)
(* their last use needs that the queue is empty and every thread idle when *)
(* the main thread closes them, which only the undisturbed wait for the    *)
(* threads gives.  That the map ends is liveness and stays with TLC.       *)

\* Each busy thread works for a running future of its own.
OwnFuture ==
    \A w \in Workers : worker[w].at # "idle" =>
        /\ worker[w].task \in Tasks
        /\ future[worker[w].task] = "running"
        /\ \A u \in Workers : worker[u].at # "idle" /\ u # w =>
              worker[u].task # worker[w].task

\* What a future's state says of its task.
FuturesSound ==
    \A t \in Tasks :
        /\ future[t] = "done" => t \notin failing
        /\ future[t] = "raised" =>
              t \in failing \/ leaked > 0 \/ "shutdown" \in interrupted

\* The main thread has consumed the first results, in order.
ConsumedInOrder ==
    \A k \in DOMAIN outputs : outputs[k] = k /\ future[k] = "done"

\* Why the main thread left the loop.
LoopLeft ==
    /\ main \in {"submit", "consume"} => error = NoError
    /\ main \notin {"submit", "consume"} /\ error = NoError => Len(outputs) = NTasks
    /\ main = "returned" => error = NoError
    /\ main = "raised" => error # NoError
    /\ error # Interrupt => interrupted = {}
    /\ error \in Tasks =>
          /\ future[error] = "raised"
          /\ \A t \in 1 .. error - 1 : future[t] = "done"

\* What is cancelled, or consumed, to the end leaves no future that could start.
Emptied ==
    /\ main \notin {"submit", "consume", "cancel"}
    /\ interrupted \intersect {"submit", "cancel"} = {}
    => Pending = {}

\* Where a thread's connection is while it works: opened and kept with its first
\* task, then known to the list, and closed by nobody but the main thread's last
\* loop.
Registered ==
    \A w \in Workers :
        /\ worker[w].at \in {"open", "audit"} => connection[w] = "none"
        /\ worker[w].at = "register" => connection[w] = "open" /\ w \notin created
        /\ connection[w] = "none" => w \notin created
        /\ connection[w] = "open" => w \in created \/ worker[w].at = "register"
        /\ connection[w] = "closed" => main \in {"close"} \union Over

\* When the connections are closed, nobody works any more.
Quiet ==
    main \in {"close"} \union Over /\ "shutdown" \notin interrupted => AllIdle

AllClosed ==
    main \in Over /\ interrupted \intersect {"shutdown", "close"} = {} =>
        \A w \in Workers : connection[w] # "open"

IInv ==
    /\ TypeOK
    /\ OwnFuture
    /\ FuturesSound
    /\ ConsumedInOrder
    /\ LoopLeft
    /\ Emptied
    /\ Registered
    /\ Quiet
    /\ AllClosed

------------------------------------------------------------------------------
(* Lemmas about the operators *)

LEMMA Places ==
  /\ DOMAIN After = {"submit", "consume", "cancel", "shutdown", "close"}
  /\ After["submit"] = "shutdown" /\ After["consume"] = "cancel"
  /\ After["cancel"] = "shutdown" /\ After["shutdown"] = "close"
  /\ After["close"] = "raised"
  /\ Over = {"returned", "raised"}
  BY DEF After, Over

\* A set of tasks that is not empty has a least one.
LEMMA LeastIsLeast ==
  ASSUME NEW S \in SUBSET Tasks, S # {}
  PROVE  Least(S) \in S /\ \A u \in S : Least(S) <= u
<1>1. S \subseteq Nat
  BY PoolAssumption DEF Tasks
<1> DEFINE R == OpToRel(<, Nat)
<1>2. IsWellFoundedOn(R, Nat)
  BY NatLessThanWellFounded
<1>3. PICK t \in S : \A u \in S : <<u, t>> \notin R
  <2> HIDE DEF R
  <2> QED
    BY <1>1, <1>2, WFMin
<1>4. \A u \in S : t <= u
  <2>1. R = {pair \in Nat \X Nat : pair[1] < pair[2]}
    BY Zenon DEF OpToRel
  <2> HIDE DEF R
  <2>2. \A u \in S : ~(u < t)
    BY <1>1, <1>3, <2>1
  <2> QED
    BY <1>1, <2>2
<1> QED
  BY <1>4 DEF Least

\* And a greatest one: what it is far from the end of the list.
LEMMA GreatestIsIn ==
  ASSUME NEW S \in SUBSET Tasks, S # {}
  PROVE  Greatest(S) \in S
<1>1. S \subseteq 1 .. NTasks /\ NTasks \in Nat
  BY PoolAssumption DEF Tasks
<1> DEFINE Far == {NTasks - t : t \in S}
<1>2. Far \in SUBSET Nat /\ Far # {}
  <2>1. \A t \in S : NTasks - t \in Nat
    BY <1>1
  <2> QED
    BY <2>1
<1>3. Smallest(Far) \in Far /\ \A n \in Far : Smallest(Far) <= n
  BY <1>2, LeastNumber
<1>4. PICK t \in S : Smallest(Far) = NTasks - t
  BY <1>3
<1>5. \A u \in S : u <= t
  <2> SUFFICES ASSUME NEW u \in S PROVE u <= t
    OBVIOUS
  <2>1. NTasks - u \in Far
    OBVIOUS
  <2>2. NTasks - t <= NTasks - u
    BY <1>3, <1>4, <2>1
  <2>3. u \in Int /\ t \in Int
    BY <1>1
  <2> QED
    BY <1>1, <2>2, <2>3
<1> QED
  BY <1>5 DEF Greatest

LEMMA NumbersDiffer ==
  /\ NTasks \in Nat
  /\ NoError \notin Tasks /\ Interrupt \notin Tasks /\ NoTask \notin Tasks
  /\ NoError # Interrupt
  BY PoolAssumption DEF NoError, Interrupt, NoTask, Tasks

\* A thread's next place keeps its task and every other thread.
LEMMA GoesOn ==
  ASSUME TypeOK, NEW w \in Workers, NEW place \in {"idle", "open", "audit", "register", "run"},
         Goes(w, place)
  PROVE  /\ worker' \in [Workers -> [at : {"idle", "open", "audit", "register", "run"},
                                     task : Tasks \union {NoTask}]]
         /\ worker'[w].at = place /\ worker'[w].task = worker[w].task
         /\ \A u \in Workers \ {w} : worker'[u] = worker[u]
  BY DEF TypeOK, Goes

LEMMA GoesIdle ==
  ASSUME TypeOK, NEW w \in Workers, worker' = Idle(w)
  PROVE  /\ worker' \in [Workers -> [at : {"idle", "open", "audit", "register", "run"},
                                     task : Tasks \union {NoTask}]]
         /\ worker'[w].at = "idle"
         /\ \A u \in Workers \ {w} : worker'[u] = worker[u]
  BY DEF TypeOK, Idle

\* A thread that goes from one step of its task to the next keeps the invariant
\* if its connection is in order there.
LEMMA OnItsWay ==
  ASSUME IInv, NEW w \in Workers, worker[w].at # "idle",
         NEW place \in {"open", "audit", "register", "run"}, Goes(w, place),
         UNCHANGED <<failing, future, leaked, main, outputs, error, interrupted>>,
         created \subseteq created', created' \subseteq Workers,
         \A u \in Workers \ {w} : u \in created' => u \in created,
         connection' \in [Workers -> {"none", "open", "closed"}],
         \A u \in Workers \ {w} : connection'[u] = connection[u],
         place \in {"open", "audit"} => connection'[w] = "none",
         place = "register" => w \notin created',
         place \in {"register", "run"} => connection'[w] = "open",
         connection'[w] = "none" => w \notin created',
         connection'[w] = "open" => w \in created' \/ place = "register"
  PROVE  IInv'
<1> USE DEF IInv
<1>1. /\ worker' \in [Workers -> [at : {"idle", "open", "audit", "register", "run"},
                                  task : Tasks \union {NoTask}]]
      /\ worker'[w].at = place /\ worker'[w].task = worker[w].task
      /\ \A u \in Workers \ {w} : worker'[u] = worker[u]
  BY GoesOn
<1>2. ~ (main \in {"close"} \union Over /\ "shutdown" \notin interrupted)
  BY DEF Quiet, AllIdle
<1>3. TypeOK'
  BY <1>1 DEF TypeOK
<1>4. OwnFuture'
  BY <1>1 DEF OwnFuture
<1>5. FuturesSound' /\ ConsumedInOrder' /\ LoopLeft' /\ Emptied'
  BY DEF FuturesSound, ConsumedInOrder, LoopLeft, Emptied, Pending
<1>6. Registered'
  BY <1>1 DEF Registered
<1>7. Quiet' /\ AllClosed'
  BY <1>2, Places DEF Quiet, AllClosed
<1> QED
  BY <1>3, <1>4, <1>5, <1>6, <1>7

------------------------------------------------------------------------------
(* The invariant is inductive *)

LEMMA OutputsTyped ==
  ASSUME TypeOK
  PROVE  /\ outputs \in Seq(Tasks) /\ Len(outputs) \in 0 .. NTasks
         /\ DOMAIN outputs = 1 .. Len(outputs)
  BY LenProperties DEF TypeOK

LEMMA Initially == Init => IInv
<1> SUFFICES ASSUME Init PROVE IInv
  OBVIOUS
<1> USE PoolAssumption DEF Init
<1>1. TypeOK
  <2>1. outputs \in UNION {[1 .. n -> Tasks] : n \in 0 .. NTasks}
    <3>1. outputs \in [1 .. 0 -> Tasks] /\ 0 \in 0 .. NTasks
      BY EmptySeq, LenProperties
    <3> QED
      BY <3>1
  <2> QED
    BY <2>1, Places DEF TypeOK
<1>2. ConsumedInOrder
  BY DEF ConsumedInOrder
<1>3. OwnFuture /\ FuturesSound /\ Registered /\ Quiet /\ AllClosed
  BY Places DEF OwnFuture, FuturesSound, Registered, Quiet, AllClosed
<1>4. LoopLeft /\ Emptied
  BY NumbersDiffer DEF LoopLeft, Emptied
<1> QED
  BY <1>1, <1>2, <1>3, <1>4 DEF IInv

\* The futures start one by one, each for the thread that took it.
LEMMA TakeKeeps ==
  ASSUME IInv, NEW w \in Workers, Take(w)
  PROVE  IInv'
<1> USE DEF IInv
<1> DEFINE t == Least(Pending)
           place == IF connection[w] = "none" THEN "open" ELSE "run"
<1>1. t \in Tasks /\ future[t] = "pending" /\ Pending # {}
  <2>1. Pending \in SUBSET Tasks /\ Pending # {}
    BY DEF Take, Pending
  <2>2. t \in Pending
    BY <2>1, LeastIsLeast
  <2> QED
    BY <2>1, <2>2 DEF Pending
<1>2. /\ worker[w].at = "idle"
      /\ future' = [future EXCEPT ![t] = "running"]
      /\ worker' = [worker EXCEPT ![w] = [at |-> place, task |-> t]]
      /\ UNCHANGED <<failing, connection, leaked, created, main, outputs, error,
                     interrupted>>
  BY DEF Take, pool, caller
<1> HIDE DEF t
<1>3. ~ (main \in {"close"} \union Over /\ "shutdown" \notin interrupted)
  BY <1>1 DEF Quiet, AllIdle
<1>4. /\ worker'[w].at = place /\ worker'[w].task = t
      /\ \A u \in Workers \ {w} : worker'[u] = worker[u]
      /\ future'[t] = "running"
      /\ \A u \in Tasks \ {t} : future'[u] = future[u]
  BY <1>1, <1>2 DEF TypeOK
<1>5. TypeOK'
  BY <1>1, <1>2 DEF TypeOK
<1>6. OwnFuture'
  <2>1. \A u \in Workers \ {w} : worker[u].at # "idle" => worker[u].task # t
    BY <1>1 DEF OwnFuture
  <2> QED
    BY <1>1, <1>4, <2>1 DEF OwnFuture
<1>7. FuturesSound'
  BY <1>1, <1>2, <1>4 DEF FuturesSound
<1>8. ConsumedInOrder'
  <2>1. \A k \in DOMAIN outputs : k \in Tasks
    BY OutputsTyped, NumbersDiffer DEF Tasks
  <2> QED
    BY <1>1, <1>2, <1>4, <2>1 DEF ConsumedInOrder
<1>9. LoopLeft'
  <2>1. error \in Tasks => \A u \in 1 .. error - 1 : u \in Tasks
    BY NumbersDiffer DEF Tasks
  <2> QED
    BY <1>1, <1>2, <1>4, <2>1 DEF LoopLeft
<1>10. Emptied'
  BY <1>1, <1>2 DEF Emptied
<1>11. Registered'
  BY <1>2, <1>4 DEF Registered
<1>12. Quiet' /\ AllClosed'
  BY <1>2, <1>3 DEF Quiet, AllClosed
<1> QED
  BY <1>5, <1>6, <1>7, <1>8, <1>9, <1>10, <1>11, <1>12

\* A thread that ends its task changes no future but its own.
LEMMA EndsTask ==
  ASSUME IInv, NEW w \in Workers, worker[w].at \notin {"idle", "register"},
         worker' = Idle(w), NEW state \in {"done", "raised"},
         future' = [future EXCEPT ![worker[w].task] = state],
         leaked' \in 0 .. MaxAuditFailures, leaked' >= leaked,
         state = "done" => worker[w].task \notin failing,
         state = "raised" =>
            worker[w].task \in failing \/ leaked' > 0 \/ "shutdown" \in interrupted,
         UNCHANGED <<failing, connection, created, main, outputs, error, interrupted>>
  PROVE  IInv'
<1> USE DEF IInv
<1> DEFINE t == worker[w].task
<1>1. t \in Tasks /\ future[t] = "running"
  BY DEF OwnFuture
<1>2. /\ worker' \in [Workers -> [at : {"idle", "open", "audit", "register", "run"},
                                  task : Tasks \union {NoTask}]]
      /\ worker'[w].at = "idle"
      /\ \A u \in Workers \ {w} : worker'[u] = worker[u]
  BY GoesIdle
<1>3. /\ future' \in [Tasks -> {"new", "pending", "running", "done", "raised", "cancelled"}]
      /\ future'[t] = state
      /\ \A u \in Tasks \ {t} : future'[u] = future[u]
  BY <1>1 DEF TypeOK
<1>4. \A u \in Workers \ {w} : worker[u].at # "idle" => worker[u].task # t
  BY DEF OwnFuture
<1> HIDE DEF t
<1>5. TypeOK'
  BY <1>2, <1>3 DEF TypeOK
<1>6. OwnFuture'
  BY <1>2, <1>3, <1>4 DEF OwnFuture
<1>7. FuturesSound'
  <2>1. leaked > 0 => leaked' > 0
    BY PoolAssumption DEF TypeOK
  <2> QED
    BY <1>1, <1>3, <2>1 DEF FuturesSound, t
<1>8. ConsumedInOrder'
  <2>1. \A k \in DOMAIN outputs : k \in Tasks
    BY OutputsTyped, NumbersDiffer DEF Tasks
  <2> QED
    BY <1>1, <1>3, <2>1 DEF ConsumedInOrder
<1>9. LoopLeft'
  <2>1. error \in Tasks => \A u \in 1 .. error - 1 : u \in Tasks
    BY NumbersDiffer DEF Tasks
  <2> QED
    BY <1>1, <1>3, <2>1 DEF LoopLeft
<1>10. Pending = {} => Pending' = {}
  BY <1>1, <1>3 DEF Pending
<1>11. Emptied'
  BY <1>10 DEF Emptied
<1>12. Registered' /\ AllClosed'
  BY <1>2 DEF Registered, AllClosed
<1>13. Quiet'
  BY <1>2, <1>10 DEF Quiet, AllIdle
<1> QED
  BY <1>5, <1>6, <1>7, <1>8, <1>9, <1>11, <1>12, <1>13

LEMMA WorkKeeps ==
  ASSUME IInv, NEW w \in Workers, Work(w)
  PROVE  IInv'
<1>1. CASE Take(w)
  BY <1>1, TakeKeeps
<1>2. CASE Open(w)
  <2>1. connection[w] = "none" /\ w \notin created
    BY <1>2 DEF Open, IInv, Registered
  <2> QED
    BY <1>2, <2>1, OnItsWay DEF Open, pool, caller, IInv, TypeOK
<1>3. CASE Audit(w)
  <2>1. CASE connection' = [connection EXCEPT ![w] = "open"] /\ Goes(w, "register")
             /\ UNCHANGED <<future, leaked>>
    <3>1. /\ connection' \in [Workers -> {"none", "open", "closed"}]
          /\ connection'[w] = "open"
          /\ \A u \in Workers \ {w} : connection'[u] = connection[u]
      BY <2>1 DEF IInv, TypeOK
    <3>2. w \notin created
      BY <1>3 DEF Audit, IInv, Registered
    <3> QED
      BY <1>3, <2>1, <3>1, <3>2, OnItsWay DEF Audit, caller, IInv, TypeOK
  <2>2. CASE /\ leaked < MaxAuditFailures /\ leaked' = leaked + 1
             /\ future' = [future EXCEPT ![worker[w].task] = "raised"]
             /\ worker' = Idle(w) /\ UNCHANGED connection
    <3>1. leaked' \in 0 .. MaxAuditFailures /\ leaked' >= leaked /\ leaked' > 0
      BY <2>2, PoolAssumption DEF IInv, TypeOK
    <3> QED
      BY <1>3, <2>2, <3>1, EndsTask DEF Audit, caller
  <2> QED
    BY <1>3, <2>1, <2>2 DEF Audit
<1>4. CASE Register(w)
  <2>1. connection[w] = "open"
    BY <1>4 DEF Register, IInv, Registered
  <2> QED
    BY <1>4, <2>1, OnItsWay DEF Register, caller, IInv, TypeOK
<1>5. CASE Run(w)
  <2>1. leaked' \in 0 .. MaxAuditFailures /\ leaked' >= leaked
    BY <1>5, PoolAssumption DEF Run, pool, IInv, TypeOK
  <2>2. UNCHANGED <<failing, connection, created, main, outputs, error, interrupted>>
    BY <1>5 DEF Run, pool, caller
  <2>3. PICK state \in {"done", "raised"} :
          /\ state = "done" => worker[w].task \notin failing
          /\ state = "raised" => worker[w].task \in failing \/ connection[w] = "closed"
          /\ future' = [future EXCEPT ![worker[w].task] = state]
    BY <1>5 DEF Run
  <2>4. connection[w] = "closed" => "shutdown" \in interrupted
    BY <1>5 DEF Run, IInv, Registered, Quiet, AllIdle
  <2> QED
    BY <1>5, <2>1, <2>2, <2>3, <2>4, EndsTask DEF Run
<1> QED
  BY <1>1, <1>2, <1>3, <1>4, <1>5 DEF Work

\* What the main thread does with futures nobody has taken yet disturbs no
\* thread, and no result.
LEMMA UntakenChange ==
  ASSUME IInv, NEW t \in Tasks, future[t] \in {"new", "pending"},
         NEW state \in {"pending", "cancelled"},
         future' = [future EXCEPT ![t] = state],
         UNCHANGED <<failing, worker, leaked, outputs>>,
         interrupted \subseteq interrupted'
  PROVE  /\ future' \in [Tasks -> {"new", "pending", "running", "done", "raised", "cancelled"}]
         /\ OwnFuture' /\ FuturesSound' /\ ConsumedInOrder'
         /\ error \in Tasks =>
               /\ future'[error] = "raised"
               /\ \A u \in 1 .. error - 1 : future'[u] = "done"
<1> USE DEF IInv
<1>1. /\ future' \in [Tasks -> {"new", "pending", "running", "done", "raised", "cancelled"}]
      /\ future'[t] = state
      /\ \A u \in Tasks \ {t} : future'[u] = future[u]
  BY DEF TypeOK
<1>2. OwnFuture'
  BY <1>1 DEF OwnFuture
<1>3. FuturesSound'
  BY <1>1 DEF FuturesSound
<1>4. ConsumedInOrder'
  <2>1. \A k \in DOMAIN outputs : k \in Tasks
    BY OutputsTyped, NumbersDiffer DEF Tasks
  <2> QED
    BY <1>1, <2>1 DEF ConsumedInOrder
<1>5. error \in Tasks => /\ future'[error] = "raised"
                         /\ \A u \in 1 .. error - 1 : future'[u] = "done"
  <2>1. error \in Tasks => \A u \in 1 .. error - 1 : u \in Tasks
    BY NumbersDiffer DEF Tasks
  <2> QED
    BY <1>1, <2>1 DEF LoopLeft
<1> QED
  BY <1>1, <1>2, <1>3, <1>4, <1>5

LEMMA SubmitKeeps ==
  ASSUME IInv, Submit
  PROVE  IInv'
<1> USE DEF IInv
<1>1. /\ main = "submit" /\ main' \in {"submit", "consume"} /\ error = NoError
      /\ UNCHANGED <<failing, worker, connection, leaked, created, outputs, error,
                     interrupted>>
  BY DEF Submit, pool, LoopLeft
<1>2. LoopLeft' /\ Emptied' /\ Registered' /\ Quiet' /\ AllClosed'
  BY <1>1, Places, NumbersDiffer DEF LoopLeft, Emptied, Registered, Quiet, AllClosed
<1>3. CASE Unsubmitted # {} /\ future' = [future EXCEPT ![Least(Unsubmitted)] = "pending"]
  <2>1. Unsubmitted \in SUBSET Tasks /\ Least(Unsubmitted) \in Unsubmitted
    BY <1>3, LeastIsLeast DEF Unsubmitted
  <2>2. Least(Unsubmitted) \in Tasks /\ future[Least(Unsubmitted)] = "new"
    BY <2>1 DEF Unsubmitted
  <2>3. /\ future' \in [Tasks -> {"new", "pending", "running", "done", "raised", "cancelled"}]
        /\ OwnFuture' /\ FuturesSound' /\ ConsumedInOrder'
    BY <1>1, <1>3, <2>2, UntakenChange
  <2>4. TypeOK'
    BY <1>1, <2>3, Places DEF TypeOK
  <2> QED
    BY <1>2, <2>3, <2>4
<1>4. CASE UNCHANGED future
  <2>1. TypeOK' /\ OwnFuture' /\ FuturesSound' /\ ConsumedInOrder'
    BY <1>1, <1>4, Places DEF TypeOK, OwnFuture, FuturesSound, ConsumedInOrder
  <2> QED
    BY <1>2, <2>1
<1> QED
  BY <1>3, <1>4 DEF Submit

LEMMA ConsumeKeeps ==
  ASSUME IInv, Consume
  PROVE  IInv'
<1> USE DEF IInv
<1> DEFINE t == Len(outputs) + 1
<1>1. /\ main = "consume" /\ t \in Tasks
      /\ UNCHANGED <<future, worker, failing, connection, leaked, created, interrupted>>
  BY DEF Consume, NextResult, pool
<1>2. /\ outputs \in Seq(Tasks) /\ Len(outputs) \in Nat /\ DOMAIN outputs = 1 .. Len(outputs)
      /\ error = NoError /\ interrupted = {}
  BY <1>1, OutputsTyped, NumbersDiffer DEF LoopLeft
<1>3. OwnFuture' /\ FuturesSound'
  BY <1>1 DEF OwnFuture, FuturesSound
<1>4. CASE /\ future[t] = "done" /\ outputs' = Append(outputs, t)
           /\ UNCHANGED <<main, error>>
  <2>1. /\ outputs' \in Seq(Tasks) /\ Len(outputs') = t
        /\ \A k \in 1 .. Len(outputs) : outputs'[k] = outputs[k]
        /\ outputs'[t] = t
    BY <1>1, <1>2, <1>4, AppendProperties
  <2>2. DOMAIN outputs' = 1 .. t /\ t \in 0 .. NTasks
    BY <1>1, <2>1, LenProperties, NumbersDiffer DEF Tasks
  <2>3. outputs' \in UNION {[1 .. n -> Tasks] : n \in 0 .. NTasks}
    BY <2>1, <2>2, LenProperties
  <2>4. TypeOK'
    BY <1>1, <1>4, <2>3 DEF TypeOK
  <2>5. ConsumedInOrder'
    <3>1. ASSUME NEW k \in 1 .. t PROVE outputs'[k] = k /\ future[k] = "done"
      <4>1. CASE k = t
        BY <1>4, <2>1, <4>1
      <4>2. CASE k # t
        <5>1. k \in 1 .. Len(outputs)
          BY <1>2, <4>2
        <5> QED
          BY <1>2, <2>1, <5>1 DEF ConsumedInOrder
      <4> QED
        BY <4>1, <4>2
    <3> QED
      BY <1>1, <2>2, <3>1 DEF ConsumedInOrder
  <2>6. LoopLeft' /\ Emptied'
    BY <1>1, <1>2, <1>4, NumbersDiffer DEF LoopLeft, Emptied
  <2>7. Registered' /\ Quiet' /\ AllClosed'
    BY <1>1, <1>4, Places DEF Registered, Quiet, AllClosed
  <2> QED
    BY <1>3, <2>4, <2>5, <2>6, <2>7
<1>5. CASE future[t] = "raised" /\ error' = t /\ main' = "cancel" /\ UNCHANGED outputs
  <2>1. \A u \in 1 .. t - 1 : future[u] = "done"
    BY <1>2 DEF ConsumedInOrder
  <2>2. /\ error' \in Tasks /\ future'[error'] = "raised"
        /\ \A u \in 1 .. error' - 1 : future'[u] = "done"
    BY <1>1, <1>5, <2>1
  <2> HIDE DEF t
  <2>3. TypeOK'
    BY <1>1, <1>5, <2>2, Places DEF TypeOK
  <2>4. ConsumedInOrder'
    BY <1>1, <1>5 DEF ConsumedInOrder
  <2>5. LoopLeft' /\ Emptied'
    BY <1>1, <1>2, <1>5, <2>2, NumbersDiffer DEF LoopLeft, Emptied
  <2>6. Registered' /\ Quiet' /\ AllClosed'
    BY <1>1, <1>5, Places DEF Registered, Quiet, AllClosed
  <2> QED
    BY <1>3, <2>3, <2>4, <2>5, <2>6
<1> QED
  BY <1>4, <1>5 DEF Consume, NextResult

LEMMA AllConsumedKeeps ==
  ASSUME IInv, AllConsumed
  PROVE  IInv'
<1> USE DEF IInv, AllConsumed, pool
<1>1. Pending = {}
  <2>1. \A t \in Tasks : future[t] = "done"
    BY OutputsTyped, NumbersDiffer DEF ConsumedInOrder, Tasks
  <2> QED
    BY <2>1 DEF Pending
<1>2. error = NoError
  BY DEF LoopLeft
<1>3. LoopLeft' /\ Emptied'
  BY <1>1, <1>2, NumbersDiffer DEF LoopLeft, Emptied, Pending
<1>4. TypeOK'
  BY Places DEF TypeOK
<1>5. OwnFuture' /\ FuturesSound' /\ ConsumedInOrder' /\ Registered' /\ Quiet' /\ AllClosed'
  BY Places DEF OwnFuture, FuturesSound, ConsumedInOrder, Registered, Quiet, AllClosed
<1> QED
  BY <1>3, <1>4, <1>5

\* The main thread goes on cancelling as long as a future could start.
LEMMA CancelKeeps ==
  ASSUME IInv, Cancel
  PROVE  IInv'
<1> USE DEF IInv
<1>1. /\ main = "cancel"
      /\ UNCHANGED <<failing, worker, connection, leaked, created, outputs, error,
                     interrupted>>
  BY DEF Cancel, pool
<1>2. CASE /\ Pending # {} /\ UNCHANGED main
           /\ future' = [future EXCEPT ![Greatest(Pending)] = "cancelled"]
  <2>1. Pending \in SUBSET Tasks /\ Greatest(Pending) \in Pending
    BY <1>2, GreatestIsIn DEF Pending
  <2>2. Greatest(Pending) \in Tasks /\ future[Greatest(Pending)] = "pending"
    BY <2>1 DEF Pending
  <2>3. /\ future' \in [Tasks -> {"new", "pending", "running", "done", "raised", "cancelled"}]
        /\ OwnFuture' /\ FuturesSound' /\ ConsumedInOrder'
        /\ error \in Tasks =>
              /\ future'[error] = "raised"
              /\ \A u \in 1 .. error - 1 : future'[u] = "done"
    BY <1>1, <1>2, <2>2, UntakenChange
  <2>4. TypeOK' /\ LoopLeft'
    BY <1>1, <1>2, <2>3, Places DEF TypeOK, LoopLeft
  <2>5. Emptied' /\ Registered' /\ Quiet' /\ AllClosed'
    BY <1>1, <1>2, Places DEF Emptied, Registered, Quiet, AllClosed
  <2> QED
    BY <2>3, <2>4, <2>5
<1>3. CASE Pending = {} /\ main' = "shutdown" /\ UNCHANGED future
  <2>1. TypeOK' /\ OwnFuture' /\ FuturesSound' /\ ConsumedInOrder'
    BY <1>1, <1>3, Places DEF TypeOK, OwnFuture, FuturesSound, ConsumedInOrder
  <2>2. LoopLeft' /\ Emptied'
    BY <1>1, <1>3 DEF LoopLeft, Emptied, Pending
  <2>3. Registered' /\ Quiet' /\ AllClosed'
    BY <1>1, <1>3, Places DEF Registered, Quiet, AllClosed
  <2> QED
    BY <2>1, <2>2, <2>3
<1> QED
  BY <1>2, <1>3 DEF Cancel, ToCancel

LEMMA ShutdownKeeps ==
  ASSUME IInv, Shutdown
  PROVE  IInv'
<1> USE DEF IInv, Shutdown, pool
<1>1. TypeOK' /\ LoopLeft' /\ Emptied'
  BY Places DEF TypeOK, LoopLeft, Emptied, Pending
<1>2. OwnFuture' /\ FuturesSound' /\ ConsumedInOrder' /\ Registered'
  BY Places DEF OwnFuture, FuturesSound, ConsumedInOrder, Registered
<1>3. Quiet' /\ AllClosed'
  BY Places DEF Quiet, AllIdle, Pending, AllClosed
<1> QED
  BY <1>1, <1>2, <1>3

\* When the loop finds nothing left to close, every open connection is in the
\* hands of a thread the main thread did not wait for.
LEMMA CloseKeeps ==
  ASSUME IInv, Close
  PROVE  IInv'
<1> USE DEF IInv
<1>1. /\ main = "close"
      /\ UNCHANGED <<failing, future, worker, leaked, created, outputs, error, interrupted>>
  BY DEF Close
<1>2. OwnFuture' /\ FuturesSound' /\ ConsumedInOrder'
  BY <1>1 DEF OwnFuture, FuturesSound, ConsumedInOrder
<1>3. ASSUME NEW w \in ToClose, connection' = [connection EXCEPT ![w] = "closed"],
             UNCHANGED main
      PROVE  IInv'
  <2>1. w \in Workers /\ w \in created /\ connection[w] = "open"
    BY <1>3 DEF ToClose, TypeOK
  <2>2. TypeOK' /\ LoopLeft' /\ Emptied'
    BY <1>1, <1>3 DEF TypeOK, LoopLeft, Emptied, Pending
  <2>3. Registered'
    BY <1>1, <1>3, <2>1 DEF Registered, TypeOK
  <2>4. Quiet' /\ AllClosed'
    BY <1>1, <1>3, Places DEF Quiet, AllIdle, Pending, AllClosed
  <2> QED
    BY <1>2, <2>2, <2>3, <2>4
<1>4. CASE /\ ToClose = {} /\ UNCHANGED connection
           /\ main' = IF error = NoError THEN "returned" ELSE "raised"
  <2>1. TypeOK' /\ LoopLeft' /\ Emptied'
    BY <1>1, <1>4, Places DEF TypeOK, LoopLeft, Emptied, Pending
  <2>2. Registered' /\ Quiet'
    BY <1>1, <1>4, Places DEF Registered, Quiet, AllIdle, Pending
  <2>3. AllClosed'
    BY <1>1, <1>4 DEF AllClosed, Quiet, AllIdle, Registered, ToClose
  <2> QED
    BY <1>2, <2>1, <2>2, <2>3
<1> QED
  BY <1>1, <1>3, <1>4 DEF Close

LEMMA InterruptedKeeps ==
  ASSUME IInv, Interrupted
  PROVE  IInv'
<1> USE DEF IInv
<1>1. /\ main \in DOMAIN After /\ main' = After[main] /\ error' = Interrupt
      /\ interrupted' = interrupted \union {main}
      /\ UNCHANGED <<failing, worker, connection, leaked, created, outputs>>
  BY DEF Interrupted, pool
<1>2. /\ main \in {"submit", "consume", "cancel", "shutdown", "close"}
      /\ main = "submit" => main' = "shutdown"
      /\ main = "consume" => main' = "cancel"
      /\ main = "cancel" => main' = "shutdown"
      /\ main = "shutdown" => main' = "close"
      /\ main = "close" => main' = "raised"
  BY <1>1, Places
<1>3. /\ future' \in [Tasks -> {"new", "pending", "running", "done", "raised", "cancelled"}]
      /\ OwnFuture' /\ FuturesSound' /\ ConsumedInOrder'
  <2>1. CASE UNCHANGED future
    BY <1>1, <2>1 DEF TypeOK, OwnFuture, FuturesSound, ConsumedInOrder
  <2>2. ASSUME NEW t \in NextResult \intersect Pending,
               future' = [future EXCEPT ![t] = "cancelled"]
        PROVE  /\ future' \in [Tasks -> {"new", "pending", "running", "done", "raised", "cancelled"}]
               /\ OwnFuture' /\ FuturesSound' /\ ConsumedInOrder'
    <3>1. t \in Tasks /\ future[t] = "pending"
      BY DEF Pending
    <3> QED
      BY <1>1, <2>2, <3>1, UntakenChange
  <2> QED
    BY <2>1, <2>2 DEF Interrupted
<1>4. TypeOK'
  BY <1>1, <1>2, <1>3, Places DEF TypeOK
<1>5. LoopLeft'
  BY <1>1, <1>2, NumbersDiffer DEF LoopLeft
<1>6. Emptied'
  <2>1. main # "consume" => UNCHANGED future
    BY DEF Interrupted
  <2> QED
    BY <1>1, <1>2, <2>1 DEF Emptied, Pending
<1>7. Registered'
  BY <1>1, <1>2, Places DEF Registered
<1>8. Quiet' /\ AllClosed'
  <2>1. main # "consume" => UNCHANGED future
    BY DEF Interrupted
  <2> QED
    BY <1>1, <1>2, <2>1, Places DEF Quiet, AllIdle, Pending, AllClosed
<1> QED
  BY <1>3, <1>4, <1>5, <1>6, <1>7, <1>8

LEMMA Inductive == IInv /\ [Next]_vars => IInv'
<1> SUFFICES ASSUME IInv, [Next]_vars PROVE IInv'
  OBVIOUS
<1>1. CASE UNCHANGED vars
  BY <1>1 DEF vars, IInv, TypeOK, OwnFuture, FuturesSound, ConsumedInOrder,
     LoopLeft, Emptied, Pending, Registered, Quiet, AllIdle, AllClosed
<1>2. ASSUME NEW w \in Workers, Work(w) PROVE IInv'
  BY <1>2, WorkKeeps
<1>3. CASE MainStep
  BY <1>3, SubmitKeeps, ConsumeKeeps, AllConsumedKeeps, CancelKeeps, ShutdownKeeps,
     CloseKeeps DEF MainStep
<1>4. CASE Interrupted
  BY <1>4, InterruptedKeeps
<1> QED
  BY <1>1, <1>2, <1>3, <1>4 DEF Next

\* The invariant holds at first and is kept by every step.
THEOREM Invariance == Spec => []IInv
  BY Initially, Inductive, PTL DEF Spec

------------------------------------------------------------------------------
(* What follows *)

\* Futures, threads, connections and results have their shape.
THEOREM TypeCorrect == Spec => []TypeOK
<1>1. IInv => TypeOK
  BY DEF IInv
<1> QED
  BY Invariance, <1>1, PTL

\* Whatever the order in which the threads finish, the results come in input
\* order and the exception is that of the first input that fails.
THEOREM LoopOutcome == Spec => []OutcomeOfTheLoop
<1>1. IInv => OutcomeOfTheLoop
  <2> SUFFICES ASSUME IInv PROVE OutcomeOfTheLoop
    OBVIOUS
  <2> USE DEF IInv
  <2>1. \A k \in DOMAIN outputs : outputs[k] = k
    BY DEF ConsumedInOrder
  <2>2. main = "returned" => Len(outputs) = NTasks
    BY DEF LoopLeft
  <2>3. ASSUME main = "raised", leaked = 0, error # Interrupt
        PROVE  failing # {} /\ error = Least(failing)
    <3>1. error # NoError
      BY <2>3 DEF LoopLeft
    <3>2. /\ error \in Tasks /\ future[error] = "raised"
          /\ \A t \in 1 .. error - 1 : future[t] = "done"
      BY <2>3, <3>1 DEF TypeOK, LoopLeft
    <3>3. error \in failing
      BY <2>3, <3>2, PoolAssumption DEF FuturesSound, LoopLeft
    <3>4. failing \in SUBSET Tasks
      BY PoolAssumption DEF TypeOK
    <3>5. \A t \in failing : error <= t
      <4>1. ASSUME NEW t \in failing, t < error PROVE FALSE
        <5>1. t \in 1 .. error - 1 /\ t \in Tasks
          BY <3>2, <3>4, <4>1, PoolAssumption DEF Tasks
        <5> QED
          BY <3>2, <5>1 DEF FuturesSound
      <4> QED
        BY <3>2, <3>4, <4>1, PoolAssumption DEF Tasks
    <3>6. Least(failing) \in failing /\ \A t \in failing : Least(failing) <= t
      BY <3>3, <3>4, LeastIsLeast
    <3>7. Least(failing) \in Int /\ error \in Int
      <4>1. Least(failing) \in Tasks /\ error \in Tasks
        BY <3>2, <3>4, <3>6
      <4> QED
        BY <4>1, NumbersDiffer DEF Tasks
    <3> QED
      BY <3>3, <3>5, <3>6, <3>7
  <2> QED
    BY <2>1, <2>2, <2>3 DEF OutcomeOfTheLoop
<1> QED
  BY Invariance, <1>1, PTL

\* Closed connections are those of idle threads with an empty queue, and in the
\* end all are closed, wherever the main thread was thrown out of the submission,
\* the loop or the cancelling.
THEOREM ConnectionsClosed == Spec => []ClosedAfterLastUse
<1>1. IInv => ClosedAfterLastUse
  BY DEF IInv, Registered, Quiet, AllIdle, AllClosed, ClosedAfterLastUse
<1> QED
  BY Invariance, <1>1, PTL

LEMMA NothingStarts ==
  IInv /\ [Next]_vars =>
    (main \notin {"submit", "consume", "cancel"}
       /\ interrupted \intersect {"submit", "cancel"} = {} =>
         \A t \in Tasks : future[t] # "running" => future'[t] # "running")
<1> SUFFICES ASSUME IInv, [Next]_vars, main \notin {"submit", "consume", "cancel"},
                    interrupted \intersect {"submit", "cancel"} = {},
                    NEW t \in Tasks, future[t] # "running"
             PROVE  future'[t] # "running"
  OBVIOUS
<1>1. Pending = {}
  BY DEF IInv, Emptied
<1>2. CASE UNCHANGED future
  BY <1>2
<1>3. ASSUME NEW w \in Workers, NEW state \in {"done", "raised"},
             future' = [future EXCEPT ![worker[w].task] = state]
      PROVE  future'[t] # "running"
  BY <1>3 DEF IInv, TypeOK
<1> QED
  BY <1>1, <1>2, <1>3 DEF Next, Work, Take, Open, Audit, Register, Run, MainStep,
     Submit, Consume, AllConsumed, Cancel, Shutdown, Close, Interrupted, vars

\* Once the futures are cancelled, no future starts.
THEOREM AbortStops == Spec => AbortStartsNothing
<1>1. IInv /\ [Next]_vars =>
        [main \notin {"submit", "consume", "cancel"}
           /\ interrupted \intersect {"submit", "cancel"} = {} =>
             \A t \in Tasks : future[t] # "running" => future'[t] # "running"]_vars
  BY NothingStarts
<1> QED
  BY <1>1, Invariance, PTL DEF Spec, AbortStartsNothing
==============================================================================
