---------------------------- MODULE DenseSearch ----------------------------
(***************************************************************************)
(* Blockwise search of a dense index for the best rows of one query:       *)
(*                                                                         *)
(* - batch: select_top_k_rows and merge_top_k_blocks of                    *)
(*   src/legal_rag/retrieval/dense_batch.py, the way _search_dense of      *)
(*   src/scripts/run_d066_dense_discovery.py calls them;                   *)
(* - plain: MemmapDenseIndex.retrieve of                                   *)
(*   src/legal_rag/retrieval/dense_store.py.                               *)
(*                                                                         *)
(* A row's score is a function of the row (what the matrix product returns *)
(* is not modelled), its chunk id is a number with the ids' byte order.    *)
(* A ranked tuple of hits is the set of its rows: score and id determine   *)
(* the order, so that the set says everything.                             *)
(***************************************************************************)
EXTENDS Integers, FiniteSets

CONSTANTS
  NRows,      \* manifest.chunk_count
  Scores,     \* the scores a row can have
  MaxLimit    \* bound: the largest limit asked for

ASSUME SearchAssumption ==
  /\ NRows \in Nat
  /\ Scores \subseteq Int
  /\ MaxLimit \in Nat

Rows == 1 .. NRows

VARIABLES
  score,      \* the score of each row
  id,         \* the chunk id of each row
  blockRows,  \* block_rows
  limit,
  start,      \* the number of rows in the blocks searched so far
  batch,      \* current: the hits of the batched search
  plain       \* best: the hits of MemmapDenseIndex.retrieve

searchVars == <<score, id, blockRows, limit, start, batch, plain>>

-----------------------------------------------------------------------------
(* Rankings *)

\* The sort key of both searches: the score descending, then the id.
Better(a, b) ==
  \/ score[a] > score[b]
  \/ score[a] = score[b] /\ id[a] < id[b]

Ahead(S, r) == {q \in S : Better(q, r)}

\* The first k rows of S when they are sorted.
Best(S, k) == {r \in S : Cardinality(Ahead(S, r)) < k}

Smaller(m, n) == IF m < n THEN m ELSE n

\* Faulty variant: the last block is not cut.
StopUncut == start + blockRows

Stop == Smaller(start + blockRows, NRows)

\* index.vector_blocks: the rows of the next block.
Block == {r \in Rows : start < r /\ r <= Stop}

-----------------------------------------------------------------------------
(* The batched search *)

Above(S, t) == {r \in S : score[r] > t}
Ties(S, t) == {r \in S : score[r] = t}

\* np.partition(row, n - take)[n - take]: the take-th largest score of S.
IsThreshold(S, take, t) ==
  /\ Cardinality(Above(S, t)) < take
  /\ take <= Cardinality(Above(S, t)) + Cardinality(Ties(S, t))

Threshold(S, take) ==
  CHOOSE t \in {score[r] : r \in S} : IsThreshold(S, take, t)

\* Faulty variant: the rows at the threshold are taken in row order.
FirstTiesByRow(T, n) ==
  {r \in T : Cardinality({q \in T : q < r}) < n}

\* ties[:n], sorted by id.
FirstTies(T, n) ==
  {r \in T : Cardinality({q \in T : id[q] < id[r]}) < n}

SelectTopKRows(S) ==
  LET take == Smaller(limit, Cardinality(S))
      t == Threshold(S, take)
  IN IF take = Cardinality(S)
     THEN Best(S, take)
     ELSE Best(Above(S, t) \cup FirstTies(Ties(S, t), take - Cardinality(Above(S, t))), take)

MergeTopKBlocks(current, incoming) == Best(current \cup incoming, limit)

-----------------------------------------------------------------------------
(* MemmapDenseIndex.retrieve *)

\* Faulty variant: the other end of the partition.
PartitionedLow(S, take) ==
  {C \in SUBSET S : /\ Cardinality(C) = take
                    /\ \A r \in C, q \in S \ C : score[r] <= score[q]}

\* np.argpartition(scores, -take)[-take:]: any take rows that no other exceeds.
Partitioned(S, take) ==
  {C \in SUBSET S : /\ Cardinality(C) = take
                    /\ \A r \in C, q \in S \ C : score[r] >= score[q]}

\* best.extend(...), sorted and cut.
Extend(C) == Best(plain \cup C, limit)

-----------------------------------------------------------------------------

\* What MemmapDenseIndex.__init__ lets through: the ids differ.
SearchInit ==
  /\ score \in [Rows -> Scores]
  /\ id \in [Rows -> Rows]
  /\ \A r, q \in Rows : id[r] = id[q] => r = q
  /\ blockRows \in 1 .. NRows
  /\ limit \in 1 .. MaxLimit
  /\ start = 0
  /\ batch = {}
  /\ plain = {}

SearchBlock ==
  /\ start < NRows
  /\ batch' = MergeTopKBlocks(batch, SelectTopKRows(Block))
  /\ \E C \in Partitioned(Block, Smaller(limit, Cardinality(Block))) :
       plain' = Extend(C)
  /\ start' = Stop
  /\ UNCHANGED <<score, id, blockRows, limit>>

SearchNext == SearchBlock

SearchSpec == SearchInit /\ [][SearchNext]_searchVars

-----------------------------------------------------------------------------
(* Properties *)

Searched == {r \in Rows : r <= start}

\* Every variable has its type.
SearchTypeOK ==
  /\ score \in [Rows -> Scores]
  /\ id \in [Rows -> Rows]
  /\ \A r, q \in Rows : id[r] = id[q] => r = q
  /\ blockRows \in 1 .. NRows
  /\ limit \in 1 .. MaxLimit
  /\ start \in 0 .. NRows
  /\ batch \subseteq Rows
  /\ plain \subseteq Rows

\* "an exact UTF-8 ID tie-break at the boundary": after every block the
\* batched search has exactly the first `limit` of the rows searched, in the
\* order of score and id; its result does not depend on the size of the
\* blocks nor on the order of the rows.
BatchIsExact == batch = Best(Searched, limit)

\* MemmapDenseIndex.retrieve breaks ties at the boundary of a block
\* arbitrarily, so that its rows may be others; but their scores are the best
\* scores, each as often as it must be.
PlainScoresAreBest ==
  \A s \in Scores :
    Cardinality({r \in plain : score[r] >= s}) =
      Cardinality({r \in Best(Searched, limit) : score[r] >= s})
=============================================================================
