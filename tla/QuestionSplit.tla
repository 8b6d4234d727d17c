---------------------------- MODULE QuestionSplit ----------------------------
(***************************************************************************)
(* src/legal_rag/evaluation/split.py: the questions are put into groups of *)
(* near duplicates, and each group as a whole into the training,           *)
(* development or test split; near duplicates between the training and the *)
(* public questions are reported.                                          *)
(*                                                                         *)
(* A question is the number its identifier has in byte order, the public   *)
(* ones after those of the training set; a normalized text is the number   *)
(* it has in byte order, and is known by its length and its set of         *)
(* character 5-grams.  The rational threshold is Num / Den, 9 / 10 in the  *)
(* code.  All comparisons are between integers, as in the code.            *)
(***************************************************************************)
EXTENDS Integers, FiniteSets

CONSTANTS
    Texts,             \* normalized texts
    Grams(_),          \* character_5grams of a text
    Length(_),         \* len() of a text
    Num, Den,          \* the threshold of are_near_duplicates
    Sizes,             \* bound: pairs of numbers of training and public questions
    Digest(_),         \* the first bytes of the hash of a question's identifier
    Scale              \* bound of the digests, 2^64 in the code

ASSUME SplitAssumption ==
    /\ Texts \subseteq Nat
    /\ \A t \in Texts : Grams(t) \subseteq Int /\ IsFiniteSet(Grams(t)) /\ Length(t) \in Nat
    /\ \A t \in Texts : Length(t) = 0 <=> Grams(t) = {}
    /\ Num \in Nat /\ Den \in Nat /\ 0 < Num /\ Num <= Den
    /\ Sizes \subseteq Nat \X Nat
    /\ Scale \in Nat
    /\ \A n \in Sizes : \A q \in 1..n[1] : Digest(q) \in 0..Scale - 1

VARIABLES
    size,       \* how many questions each dataset has
    text,       \* question -> its normalized text
    phase,      \* "scan_train", "unite", "scan_all", "done"
    scanned,    \* how many texts the scan has passed
    found,      \* pairs of positions: the near duplicates so far
    parent,     \* _parent of the disjoint set, over the training questions
    groups,     \* sets of training questions
    split,      \* training question -> the split it is assigned to
    overlaps    \* rows [train, public, match]

splitVars == <<size, text, phase, scanned, found, parent, groups, split, overlaps>>

Train == 1..size[1]
Public == size[1] + 1..size[1] + size[2]

Lesser(m, n) == IF m < n THEN m ELSE n
Greater(m, n) == IF m < n THEN n ELSE m
Smallest(S) == CHOOSE m \in S : \A n \in S : m <= n

------------------------------------------------------------------------------
(* Near duplicates *)

AreNearDuplicates(s, t) ==
    /\ Length(s) # 0 /\ Length(t) # 0
    /\ Den * (Greater(Length(s), Length(t)) - Lesser(Length(s), Length(t)))
          <= (Den - Num) * Greater(Length(s), Length(t))
    /\ Den * Cardinality(Grams(s) \intersect Grams(t))
          >= Num * Cardinality(Grams(s) \union Grams(t))

\* The texts a scan goes through, in its order: those of the training questions
\* where they first occur, or all texts in byte order.
FirstWith(t) == Smallest({q \in Train : text[q] = t})
Scanned ==
    IF phase = "scan_all" THEN {text[q] : q \in Train \union Public}
    ELSE {text[q] : q \in Train}
Before(s, t) ==
    IF phase = "scan_all" THEN s < t ELSE FirstWith(s) < FirstWith(t)
Position(t) == Cardinality({s \in Scanned : Before(s, t)}) + 1

\* Grams in the order of their frequency among these texts, then of their bytes.
Frequency(g) == Cardinality({t \in Scanned : g \in Grams(t)})
Rarer(g, h) ==
    \/ Frequency(g) < Frequency(h)
    \/ Frequency(g) = Frequency(h) /\ g < h

\* Faulty variant: the prefix is one gram short.
PrefixLengthShort(n) == n - ((Num * n + Den - 1) \div Den)

\* What is left when the overlap is the smallest that can reach the threshold.
PrefixLength(n) == n - ((Num * n + Den - 1) \div Den) + 1

\* The rarest grams of a text.
Prefix(t) ==
    {g \in Grams(t) : Cardinality({h \in Grams(t) : Rarer(h, g)})
                         < PrefixLength(Cardinality(Grams(t)))}

\* Earlier texts that share a gram of the prefix, and whose number of grams can
\* reach the threshold.
Candidates(t) ==
    {s \in Scanned :
        /\ Before(s, t)
        /\ Prefix(s) \intersect Prefix(t) # {}
        /\ Den * Lesser(Cardinality(Grams(s)), Cardinality(Grams(t)))
              >= Num * Greater(Cardinality(Grams(s)), Cardinality(Grams(t)))}

\* _candidate_pairs, one text of its loop.
ScanNext ==
    /\ phase \in {"scan_train", "scan_all"}
    /\ \E t \in Scanned :
          /\ Position(t) = scanned + 1
          /\ found' = found \union {<<s, t>> : s \in {s \in Candidates(t) :
                                                         AreNearDuplicates(s, t)}}
    /\ scanned' = scanned + 1
    /\ UNCHANGED <<size, text, phase, parent, groups, split, overlaps>>

AllScanned == scanned = Cardinality(Scanned)

------------------------------------------------------------------------------
(* The disjoint set.  A parent is never greater than its item. *)

\* Where find() passes: from an item to its grandparent, up to the root.
Path(above, item) ==
    LET passed[i \in Train] ==
            IF above[i] = i THEN {i} ELSE {i} \union passed[above[above[i]]]
    IN  passed[item]
Root(above, item) == Smallest(Path(above, item))

\* find() halves the path as it goes.
Halved(above, item) ==
    [i \in Train |-> IF i \in Path(above, item) THEN above[above[i]] ELSE above[i]]

\* Faulty variant: the right item is hung up, not its root.
UnionOfItem(above, left, right) ==
    [above EXCEPT ![Greater(left, right)] = Lesser(Root(above, left), Root(above, right))]

Union(above, left, right) ==
    LET l == Root(above, left)
        r == Root(Halved(above, left), right)
    IN  [Halved(Halved(above, left), right) EXCEPT ![Greater(l, r)] = Lesser(l, r)]

\* The questions that share a text, before the pairs are looked for.
SameText ==
    [q \in Train |-> FirstWith(text[q])]

\* All pairs are found; they are united in the order of their positions.
BeginUnions ==
    /\ phase = "scan_train" /\ AllScanned
    /\ phase' = "unite"
    /\ UNCHANGED <<size, text, scanned, found, parent, groups, split, overlaps>>

Earlier(p, r) ==
    \/ FirstWith(p[1]) < FirstWith(r[1])
    \/ p[1] = r[1] /\ FirstWith(p[2]) < FirstWith(r[2])

UniteNext ==
    /\ phase = "unite"
    /\ \E p \in found :
          /\ \A r \in found : p = r \/ Earlier(p, r)
          /\ parent' = Union(parent, FirstWith(p[1]), FirstWith(p[2]))
          /\ found' = found \ {p}
    /\ UNCHANGED <<size, text, phase, scanned, groups, split, overlaps>>

\* _assignment: the first 80 of 100 digests, the next 10, the rest.
Assignment(q) ==
    IF Digest(q) * 5 < Scale * 4 THEN "train"
    ELSE IF Digest(q) * 10 < Scale * 9 THEN "development"
    ELSE "local_test"

\* members_by_root; a group is assigned by its smallest member.  Then the texts of both datasets are scanned.
Group ==
    /\ phase = "unite" /\ found = {}
    /\ LET members(r) == {q \in Train : Root(parent, q) = Root(parent, r)}
       IN  /\ groups' = {members(r) : r \in Train}
           /\ split' = [r \in Train |-> Assignment(Smallest(members(r)))]
    /\ phase' = "scan_all"
    /\ scanned' = 0
    /\ UNCHANGED <<size, text, found, parent, overlaps>>

------------------------------------------------------------------------------
(* The overlap report *)
Row(q, p, match) == [train |-> q, public |-> p, match |-> match]

Report ==
    /\ phase = "scan_all" /\ AllScanned
    /\ overlaps' =
          {Row(x[1], x[2], "exact_normalized") :
              x \in {x \in Train \X Public : text[x[1]] = text[x[2]]}}
          \union
          {Row(x[1], x[2], "near_duplicate") :
              x \in {x \in Train \X Public :
                        \/ <<text[x[1]], text[x[2]]>> \in found
                        \/ <<text[x[2]], text[x[1]]>> \in found}}
    /\ phase' = "done"
    /\ UNCHANGED <<size, text, scanned, found, parent, groups, split>>

SplitInit ==
    /\ size \in Sizes
    /\ text \in [1..size[1] + size[2] -> Texts]
    /\ phase = "scan_train"
    /\ scanned = 0 /\ found = {}
    /\ parent = SameText
    /\ groups = {} /\ overlaps = {}
    /\ split = [q \in {} |-> "none"]

SplitNext == ScanNext \/ BeginUnions \/ UniteNext \/ Group \/ Report
SplitSpec == SplitInit /\ [][SplitNext]_splitVars

------------------------------------------------------------------------------
(* Properties *)

\* "an exact global prefix filter": of the texts scanned so far, the pairs found
\* are the near duplicates, all of them, although most pairs were never compared.
CandidatesAreExact ==
    phase \in {"scan_train", "scan_all"} =>
        found = {x \in Scanned \X Scanned :
                    /\ Before(x[1], x[2]) /\ Position(x[2]) <= scanned
                    /\ AreNearDuplicates(x[1], x[2])}

Alike(q, r) == text[q] = text[r] \/ AreNearDuplicates(text[q], text[r])

\* The groups are a partition of the training questions into the connected
\* components of being alike, and none is torn between two splits.
GroupsAreComponents ==
    /\ UNION groups = Train
    /\ \A G, H \in groups : G = H \/ G \intersect H = {}
    /\ \A q, r \in Train : Alike(q, r) => split[q] = split[r]
    /\ \A G, H \in groups : \A q \in G, r \in H : Alike(q, r) => G = H
    /\ \A G \in groups : \A part \in (SUBSET G) \ {{}, G} :
          \E q \in part, r \in G \ part : Alike(q, r)

\* Each training question alike to a public one is in the report, once for each.
ReportIsComplete ==
    overlaps = {Row(x[1], x[2], IF text[x[1]] = text[x[2]] THEN "exact_normalized"
                                ELSE "near_duplicate") :
                   x \in {x \in Train \X Public : Alike(x[1], x[2])}}

\* The splits leak nothing: no two questions that are alike get into different
\* splits; no question is drawn into a split by a question it has nothing to do
\* with; and every question alike to a public one is reported.
NothingLeaks ==
    /\ phase \in {"scan_all", "done"} => GroupsAreComponents
    /\ phase = "done" => ReportIsComplete
=============================================================================
