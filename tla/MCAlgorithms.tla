---------------------------- MODULE MCAlgorithms ----------------------------
(* Small instances of the two sequential algorithms.                         *)
(*   DenseSearch     all scores and id orders of four rows, every block      *)
(*                   size, limits up to three                                *)
(*   QuestionSplit   all texts of four questions, of which none or two are   *)
(*                   public, out of eleven texts over four grams, with the   *)
(*                   threshold 2/3                                           *)
(* A behaviour runs one of them; the other rests.                            *)
EXTENDS DenseSearch, QuestionSplit

MCScores == {1, 2, 3}

\* The last two texts have the grams of others, and repeat them.
MCGrams(t) ==
  <<{}, {1}, {2}, {1, 2}, {1, 3}, {1, 2, 3}, {1, 2, 4}, {2, 3, 4},
    {1, 2, 3, 4}, {1, 2}, {1, 2, 3, 4}>>[t]
MCTexts == 1 .. 11
MCLength(t) == IF t <= 9 THEN Cardinality(MCGrams(t)) ELSE 6

MCSizes == {<<0, 0>>, <<0, 2>>, <<4, 0>>, <<2, 2>>}
MCDigest(q) == <<3, 8, 9, 1>>[q]

\* Without questions there is a search; with them, it rests.
Rest ==
  /\ score = [r \in Rows |-> 1] /\ id = [r \in Rows |-> r]
  /\ blockRows = NRows /\ limit = 1
  /\ start = 0 /\ batch = {} /\ plain = {}

MCInit ==
  /\ SplitInit
  /\ \/ size = <<0, 0>> /\ SearchInit
     \/ size # <<0, 0>> /\ Rest
MCNext ==
  \/ size = <<0, 0>> /\ SearchBlock /\ UNCHANGED splitVars
  \/ size # <<0, 0>> /\ SplitNext /\ UNCHANGED searchVars
MCSpec == MCInit /\ [][MCNext]_<<searchVars, splitVars>>
=============================================================================
