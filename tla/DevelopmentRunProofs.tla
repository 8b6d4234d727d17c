------------------------ MODULE DevelopmentRunProofs ------------------------
(***************************************************************************)
(* Proofs about DevelopmentRun, for any number of questions and any inputs, *)
(* rankings and answers: each output directory tells of one run, what is   *)
(* published can be given again from the checkpoints, and every answer     *)
(* rests on the frozen evidence.                                           *)
(*                                                                         *)
(* Retrieval and generation keep one invariant, Sound, of the state of a   *)
(* CheckpointedRun; the lemmas about it take that state as parameters, so  *)
(* that each is proved once and used for both.                             *)
(***************************************************************************)
EXTENDS DevelopmentRun, TLAPS

Questions == 1 .. NQuestions

\* The types of a run over inputs I that gives values V in m artifacts.
CheckpointsOf(I, V) == [input : I, value : V]
ContentsOf(I, V) ==
    [input : I, values : [Questions -> V], resumed : 0 .. NQuestions]
RunsOf(I, V, m) ==
    [input : I, values : UNION {[1 .. n -> V] : n \in 0 .. NQuestions},
     resumed : 0 .. NQuestions, published : 0 .. m, replayed : BOOLEAN]

Typed(I, V, m, checkpoints, outputs, run) ==
    /\ checkpoints \in [Questions -> CheckpointsOf(I, V) \union {NoFile}]
    /\ outputs \in [1 .. m -> ContentsOf(I, V) \union {NoFile}]
    /\ run = NoFile \/ run \in RunsOf(I, V, m)

\* What the running invocation holds is what the checkpoints say.
RunFits(m, checkpoints, run) ==
    run # NoFile =>
        /\ \A q \in 1 .. Len(run.values) :
              checkpoints[q] = [input |-> run.input, value |-> run.values[q]]
        /\ run.replayed => Len(run.values) = NQuestions
        /\ run.resumed <= Len(run.values)
        /\ run.published < m

\* The first questions are checkpointed, all for the same inputs.
CheckpointsFit(checkpoints) ==
    \A p, q \in Questions :
        p < q /\ checkpoints[q] # NoFile =>
            checkpoints[p] # NoFile /\ checkpoints[p].input = checkpoints[q].input

OutputsFit(m, checkpoints, outputs) ==
    \A k \in 1 .. m, q \in Questions :
        outputs[k] # NoFile =>
            /\ checkpoints[q] # NoFile
            /\ checkpoints[q] = [input |-> outputs[k].input,
                                 value |-> outputs[k].values[q]]

Sound(I, V, m, checkpoints, outputs, run) ==
    /\ Typed(I, V, m, checkpoints, outputs, run)
    /\ RunFits(m, checkpoints, run)
    /\ CheckpointsFit(checkpoints)
    /\ OutputsFit(m, checkpoints, outputs)

RetrievalSound == Sound(FrozenInputs, Rankings, 5, rCheckpoints, rOutputs, rRun)
GenerationSound == Sound(Evidence, Answers, 4, gCheckpoints, gOutputs, gRun)

\* Both artifacts that generation reads are there and hold this evidence.
RestsOn(outputs, input) ==
    \A k \in {Queue, Ranking} :
        outputs[k] # NoFile /\ R!Data(outputs[k]) = input

CheckpointsRest ==
    \A q \in Questions :
        gCheckpoints[q] # NoFile => RestsOn(rOutputs, gCheckpoints[q].input)

IInv ==
    /\ RetrievalSound /\ rEnded \in R!Endings
    /\ GenerationSound /\ gEnded \in G!Endings
    /\ gRun # NoFile => RestsOn(rOutputs, gRun.input)
    /\ CheckpointsRest
    /\ AnswersRestOnFrozenEvidence

------------------------------------------------------------------------------
(* Lemmas about one run, over any inputs I, values V and m artifacts *)

NoFileIsNoValue(I, V, m) ==
    /\ NoFile \notin CheckpointsOf(I, V)
    /\ NoFile \notin ContentsOf(I, V)
    /\ NoFile \notin RunsOf(I, V, m)

\* The values of a run form a sequence.
LEMMA ValuesOfRun ==
    ASSUME NEW I, NEW V, NEW m \in Nat, NEW r \in RunsOf(I, V, m)
    PROVE  /\ r.values \in Seq(V) /\ Len(r.values) \in 0 .. NQuestions
           /\ r.values \in [1 .. Len(r.values) -> V]
           /\ r.input \in I /\ r.resumed \in 0 .. NQuestions
           /\ r.published \in 0 .. m /\ r.replayed \in BOOLEAN
  <1>0. NQuestions \in Nat
    BY QuestionsAssumption
  <1>1. /\ r.values \in UNION {[1 .. n -> V] : n \in 0 .. NQuestions}
        /\ r.input \in I /\ r.resumed \in 0 .. NQuestions
        /\ r.published \in 0 .. m /\ r.replayed \in BOOLEAN
    BY DEF RunsOf
  <1>2. PICK n \in 0 .. NQuestions : r.values \in [1 .. n -> V]
    BY <1>1
  <1>3. r.values \in Seq(V) /\ Len(r.values) = n
    BY <1>0, <1>2
  <1> QED
    BY <1>1, <1>2, <1>3

\* A run that starts, with nothing in its memory, keeps its directories' state.
LEMMA StartSound ==
    ASSUME NEW I, NEW V, NEW m \in Nat \ {0}, NEW C, NEW O, NEW r, NEW i \in I,
           Sound(I, V, m, C, O, r)
    PROVE  Sound(I, V, m, C, O,
                 [input |-> i, values |-> <<>>, resumed |-> 0,
                  published |-> 0, replayed |-> FALSE])
  <1> DEFINE r1 == [input |-> i, values |-> <<>>, resumed |-> 0,
                    published |-> 0, replayed |-> FALSE]
  <1>0. NQuestions \in Nat
    BY QuestionsAssumption
  <1>1. <<>> \in [1 .. 0 -> V]
    OBVIOUS
  <1>2. <<>> \in UNION {[1 .. n -> V] : n \in 0 .. NQuestions}
    BY <1>0, <1>1
  <1>3. r1 \in RunsOf(I, V, m)
    BY <1>0, <1>2 DEF RunsOf
  <1>4. RunFits(m, C, r1)
    BY DEF RunFits
  <1> QED
    BY <1>3, <1>4 DEF Sound, Typed

\* A run that ends leaves its directories as they are.
LEMMA EndSound ==
    ASSUME NEW I, NEW V, NEW m, NEW C, NEW O, NEW r,
           Sound(I, V, m, C, O, r)
    PROVE  Sound(I, V, m, C, O, NoFile)
  BY DEF Sound, Typed, RunFits

\* The next question's value is taken from its checkpoint or written there.
LEMMA AppendSound ==
    ASSUME NEW I, NEW V, NEW m \in Nat, NEW C, NEW O, NEW r, NEW C1, NEW n, NEW v \in V,
           NoFileIsNoValue(I, V, m), Sound(I, V, m, C, O, r), r # NoFile,
           Len(r.values) + 1 <= NQuestions,
           LET p == Len(r.values) + 1
               c == [input |-> r.input, value |-> v]
           IN /\ C[p] = NoFile \/ C[p] = c
              /\ C1 = [C EXCEPT ![p] = c],
           n = r.resumed \/ n = r.resumed + 1
    PROVE  Sound(I, V, m, C1, O,
                 [input |-> r.input, values |-> Append(r.values, v), resumed |-> n,
                  published |-> r.published, replayed |-> r.replayed])
  <1> DEFINE p == Len(r.values) + 1
             c == [input |-> r.input, value |-> v]
             values == Append(r.values, v)
             r1 == [input |-> r.input, values |-> values, resumed |-> n,
                    published |-> r.published, replayed |-> r.replayed]
  <1>0. NQuestions \in Nat
    BY QuestionsAssumption
  <1>1. r \in RunsOf(I, V, m)
    BY DEF Sound, Typed
  <1>2. /\ r.values \in Seq(V) /\ Len(r.values) \in 0 .. NQuestions
        /\ r.input \in I /\ r.resumed \in 0 .. NQuestions
        /\ r.published \in 0 .. m /\ r.replayed \in BOOLEAN
    BY <1>1, ValuesOfRun
  <1>3. /\ \A q \in 1 .. Len(r.values) : C[q] = [input |-> r.input, value |-> r.values[q]]
        /\ r.replayed => Len(r.values) = NQuestions
        /\ r.resumed <= Len(r.values) /\ r.published < m
    BY DEF Sound, RunFits
  <1>4. p \in Questions /\ p \in 1 .. NQuestions
    BY <1>0, <1>2 DEF Questions
  <1>5. /\ values \in Seq(V) /\ Len(values) = p
        /\ \A q \in 1 .. Len(r.values) : values[q] = r.values[q]
        /\ values[p] = v
    BY <1>2
  <1>6. values \in [1 .. p -> V]
    <2> HIDE DEF values, p
    <2>1. values \in [1 .. Len(values) -> V]
      BY <1>5
    <2> QED
      BY <2>1, <1>5
  <1>7. r1 \in RunsOf(I, V, m)
    <2>1. values \in UNION {[1 .. k -> V] : k \in 0 .. NQuestions}
      BY <1>4, <1>6, <1>0
    <2>2. n \in 0 .. NQuestions
      BY <1>2, <1>3, <1>4, <1>0
    <2> HIDE DEF values
    <2> QED
      BY <1>2, <2>1, <2>2 DEF RunsOf
  <1>8. c \in CheckpointsOf(I, V) /\ c # NoFile
    BY <1>2 DEF CheckpointsOf, NoFileIsNoValue
  <1>9. C \in [Questions -> CheckpointsOf(I, V) \union {NoFile}]
    BY DEF Sound, Typed
  <1>10. C[p] = NoFile \/ C[p] = c
    OBVIOUS
  <1>11. C1 = [C EXCEPT ![p] = c]
    OBVIOUS
  <1>12. /\ C1 \in [Questions -> CheckpointsOf(I, V) \union {NoFile}]
         /\ C1[p] = c
         /\ \A q \in Questions : q # p => C1[q] = C[q]
    <2> HIDE DEF c, p
    <2> QED
      BY <1>4, <1>8, <1>9, <1>11
  <1>13. Typed(I, V, m, C1, O, r1)
    <2> HIDE DEF r1
    <2> QED
      BY <1>7, <1>12 DEF Sound, Typed
  <1>14. RunFits(m, C1, r1)
    <2>1. \A q \in 1 .. Len(values) : C1[q] = [input |-> r.input, value |-> values[q]]
      <3> TAKE q \in 1 .. Len(values)
      <3>1. CASE q = p
        BY <3>1, <1>5, <1>12
      <3>2. CASE q # p
        <4>1. q \in 1 .. Len(r.values) /\ q \in Questions
          BY <3>2, <1>2, <1>4, <1>5, <1>0 DEF Questions
        <4> QED
          BY <4>1, <3>2, <1>3, <1>5, <1>12
      <3> QED
        BY <3>1, <3>2
    <2>2. n <= Len(values)
      BY <1>2, <1>3, <1>5
    <2>3. ~ r.replayed
      BY <1>2, <1>3, <1>4, <1>0
    <2> HIDE DEF values
    <2>4. r1.values = values /\ r1.input = r.input /\ r1.resumed = n
          /\ r1.published = r.published /\ r1.replayed = r.replayed
      OBVIOUS
    <2> HIDE DEF r1
    <2> QED
      BY <2>1, <2>2, <2>3, <2>4, <1>3 DEF RunFits
  <1>15. CheckpointsFit(C1)
    <2> SUFFICES ASSUME NEW a \in Questions, NEW b \in Questions, a < b, C1[b] # NoFile
                 PROVE  C1[a] # NoFile /\ C1[a].input = C1[b].input
      BY DEF CheckpointsFit
    <2>1. CASE b = p
      <3>1. a \in 1 .. Len(r.values) /\ a # p
        BY <2>1, <1>2, <1>0 DEF Questions
      <3>2. C1[a] = [input |-> r.input, value |-> r.values[a]]
        BY <3>1, <1>3, <1>12
      <3>3. r.values[a] \in V
        BY <3>1, <1>2
      <3>4. C1[a] # NoFile
        BY <3>2, <3>3, <1>2 DEF CheckpointsOf, NoFileIsNoValue
      <3> QED
        BY <2>1, <3>2, <3>4, <1>12
    <2>2. CASE b # p
      <3>1. C[b] # NoFile /\ C1[b] = C[b]
        BY <2>2, <1>12
      <3>2. C[a] # NoFile /\ C[a].input = C[b].input
        BY <3>1 DEF Sound, CheckpointsFit
      <3>3. C1[a] = C[a]
        BY <3>2, <1>10, <1>12
      <3> QED
        BY <3>1, <3>2, <3>3
    <2> QED
      BY <2>1, <2>2
  <1>16. OutputsFit(m, C1, O)
    <2> SUFFICES ASSUME NEW k \in 1 .. m, NEW q \in Questions, O[k] # NoFile
                 PROVE  /\ C1[q] # NoFile
                        /\ C1[q] = [input |-> O[k].input, value |-> O[k].values[q]]
      BY DEF OutputsFit
    <2>1. /\ C[q] # NoFile
          /\ C[q] = [input |-> O[k].input, value |-> O[k].values[q]]
      BY DEF Sound, OutputsFit
    <2>2. C1[q] = C[q]
      BY <2>1, <1>10, <1>12
    <2> QED
      BY <2>1, <2>2
  <1> HIDE DEF r1
  <1>17. Sound(I, V, m, C1, O, r1)
    BY <1>13, <1>14, <1>15, <1>16 DEF Sound
  <1> QED
    BY <1>17 DEF r1

\* The second pass has given the same values.
LEMMA ReplaySound ==
    ASSUME NEW I, NEW V, NEW m \in Nat, NEW C, NEW O, NEW r,
           Sound(I, V, m, C, O, r), r # NoFile, Len(r.values) + 1 > NQuestions
    PROVE  Sound(I, V, m, C, O,
                 [input |-> r.input, values |-> r.values, resumed |-> r.resumed,
                  published |-> r.published, replayed |-> TRUE])
  <1> DEFINE r1 == [input |-> r.input, values |-> r.values, resumed |-> r.resumed,
                    published |-> r.published, replayed |-> TRUE]
  <1>0. NQuestions \in Nat
    BY QuestionsAssumption
  <1>1. r \in RunsOf(I, V, m)
    BY DEF Sound, Typed
  <1>2. Len(r.values) \in 0 .. NQuestions
    BY <1>1, ValuesOfRun
  <1>3. r1 \in RunsOf(I, V, m)
    BY <1>1 DEF RunsOf
  <1>4. RunFits(m, C, r1)
    BY <1>0, <1>2 DEF Sound, RunFits
  <1> QED
    BY <1>3, <1>4 DEF Sound, Typed

\* The next artifact is written, or lies there with the same bytes.
LEMMA PublishSound ==
    ASSUME NEW I, NEW V, NEW m \in Nat, NEW C, NEW O, NEW r, NEW O1, NEW r1,
           NEW n \in 0 .. NQuestions,
           NoFileIsNoValue(I, V, m), Sound(I, V, m, C, O, r), r # NoFile, r.replayed,
           O1 = [O EXCEPT ![r.published + 1] =
                    [input |-> r.input, values |-> r.values, resumed |-> n]],
           \/ r1 = NoFile
           \/ /\ r.published + 1 # m
              /\ r1 = [input |-> r.input, values |-> r.values, resumed |-> r.resumed,
                       published |-> r.published + 1, replayed |-> r.replayed]
    PROVE  Sound(I, V, m, C, O1, r1)
  <1> DEFINE k == r.published + 1
             content == [input |-> r.input, values |-> r.values, resumed |-> n]
  <1>0. NQuestions \in Nat
    BY QuestionsAssumption
  <1>1. r \in RunsOf(I, V, m)
    BY DEF Sound, Typed
  <1>2. /\ r.values \in Seq(V) /\ Len(r.values) \in 0 .. NQuestions
        /\ r.values \in [1 .. Len(r.values) -> V]
        /\ r.input \in I /\ r.resumed \in 0 .. NQuestions
        /\ r.published \in 0 .. m /\ r.replayed \in BOOLEAN
    BY <1>1, ValuesOfRun
  <1>3. /\ \A q \in 1 .. Len(r.values) : C[q] = [input |-> r.input, value |-> r.values[q]]
        /\ Len(r.values) = NQuestions
        /\ r.resumed <= Len(r.values) /\ r.published < m
    BY DEF Sound, RunFits
  <1>4. k \in 1 .. m
    BY <1>2, <1>3
  <1>5. content \in ContentsOf(I, V)
    <2>1. r.values \in [Questions -> V]
      BY <1>2, <1>3 DEF Questions
    <2> QED
      BY <2>1, <1>2 DEF ContentsOf
  <1>6. O \in [1 .. m -> ContentsOf(I, V) \union {NoFile}]
    BY DEF Sound, Typed
  <1>7. O1 = [O EXCEPT ![k] = content]
    OBVIOUS
  <1>8. /\ O1 \in [1 .. m -> ContentsOf(I, V) \union {NoFile}]
        /\ O1[k] = content
        /\ \A j \in 1 .. m : j # k => O1[j] = O[j]
    <2> HIDE DEF content, k
    <2> QED
      BY <1>4, <1>5, <1>6, <1>7
  <1>9. OutputsFit(m, C, O1)
    <2> SUFFICES ASSUME NEW j \in 1 .. m, NEW q \in Questions, O1[j] # NoFile
                 PROVE  /\ C[q] # NoFile
                        /\ C[q] = [input |-> O1[j].input, value |-> O1[j].values[q]]
      BY DEF OutputsFit
    <2>1. CASE j = k
      <3>1. q \in 1 .. Len(r.values)
        BY <1>3 DEF Questions
      <3>2. C[q] = [input |-> r.input, value |-> r.values[q]]
        BY <3>1, <1>3
      <3>3. r.values[q] \in V
        BY <3>1, <1>2
      <3>4. C[q] # NoFile
        BY <3>2, <3>3, <1>2 DEF CheckpointsOf, NoFileIsNoValue
      <3> QED
        BY <2>1, <3>2, <3>4, <1>8
    <2>2. CASE j # k
      BY <2>2, <1>8 DEF Sound, OutputsFit
    <2> QED
      BY <2>1, <2>2
  <1>10. (r1 = NoFile \/ r1 \in RunsOf(I, V, m)) /\ RunFits(m, C, r1)
    <2>1. CASE r1 = NoFile
      BY <2>1 DEF RunFits
    <2>2. CASE /\ k # m
               /\ r1 = [input |-> r.input, values |-> r.values, resumed |-> r.resumed,
                        published |-> k, replayed |-> r.replayed]
      <3>1. k \in 0 .. m /\ k < m
        BY <2>2, <1>4
      <3>2. /\ r1.input = r.input /\ r1.values = r.values /\ r1.resumed = r.resumed
            /\ r1.published = k /\ r1.replayed = r.replayed
        BY <2>2
      <3>3. r1 \in RunsOf(I, V, m)
        BY <1>1, <2>2, <3>1 DEF RunsOf
      <3> HIDE DEF k
      <3> QED
        BY <3>1, <3>2, <3>3, <1>3 DEF RunFits
    <2> QED
      BY <2>1, <2>2
  <1> QED
    BY <1>8, <1>9, <1>10 DEF Sound, Typed

\* Nothing is on disk when the first script starts.
LEMMA NothingSound ==
    ASSUME NEW I, NEW V, NEW m \in Nat
    PROVE  Sound(I, V, m, [q \in Questions |-> NoFile], [k \in 1 .. m |-> NoFile], NoFile)
  BY DEF Sound, Typed, RunFits, CheckpointsFit, OutputsFit

\* Records with the same fields are the same field by field.
LEMMA SameCheckpoint ==
    ASSUME NEW a, NEW b, NEW a1, NEW b1, NEW c,
           c = [input |-> a, value |-> b], c = [input |-> a1, value |-> b1]
    PROVE  a = a1 /\ b = b1
  OBVIOUS

\* The checkpoints are of one input, the artifacts tell of one input and one
\* list of values, and the checkpoints give them again.
TellOneRun(m, C, O) ==
    /\ \A p, q \in Questions : C[p] # NoFile /\ C[q] # NoFile =>
          C[p].input = C[q].input
    /\ \A j, k \in 1 .. m : O[j] # NoFile /\ O[k] # NoFile =>
          O[j].input = O[k].input /\ O[j].values = O[k].values
    /\ \A k \in 1 .. m, q \in Questions : O[k] # NoFile =>
          C[q] = [input |-> O[k].input, value |-> O[k].values[q]]

\* What Sound says of the two directories.
LEMMA SoundIsOneRun ==
    ASSUME NEW I, NEW V, NEW m \in Nat, NEW C, NEW O, NEW r,
           Sound(I, V, m, C, O, r)
    PROVE  TellOneRun(m, C, O)
  <1>1. ASSUME NEW p \in Questions, NEW q \in Questions, C[p] # NoFile, C[q] # NoFile
        PROVE  C[p].input = C[q].input
    <2>1. p < q \/ p = q \/ q < p
      BY DEF Questions
    <2> QED
      BY <1>1, <2>1 DEF Sound, CheckpointsFit
  <1>2. ASSUME NEW j \in 1 .. m, NEW k \in 1 .. m, O[j] # NoFile, O[k] # NoFile
        PROVE  O[j].input = O[k].input /\ O[j].values = O[k].values
    <2>1. \A q \in Questions :
              /\ C[q] = [input |-> O[j].input, value |-> O[j].values[q]]
              /\ C[q] = [input |-> O[k].input, value |-> O[k].values[q]]
      BY <1>2 DEF Sound, OutputsFit
    <2>2. \A q \in Questions :
              O[j].input = O[k].input /\ O[j].values[q] = O[k].values[q]
      <3> TAKE q \in Questions
      <3>1. C[q] = [input |-> O[j].input, value |-> O[j].values[q]]
        BY <2>1
      <3>2. C[q] = [input |-> O[k].input, value |-> O[k].values[q]]
        BY <2>1
      <3> QED
        BY <3>1, <3>2, SameCheckpoint
    <2>3. 1 \in Questions
      BY QuestionsAssumption DEF Questions
    <2>4. O[j].values \in [Questions -> V] /\ O[k].values \in [Questions -> V]
      BY <1>2 DEF Sound, Typed, ContentsOf
    <2> QED
      BY <2>2, <2>3, <2>4
  <1> QED
    BY <1>1, <1>2 DEF Sound, OutputsFit, TellOneRun

------------------------------------------------------------------------------
(* Both scripts *)

\* "NoFile" is no value of either run, and their types are CheckpointedRun's.
LEMMA Instances ==
    /\ NoFileIsNoValue(FrozenInputs, Rankings, 5)
    /\ NoFileIsNoValue(Evidence, Answers, 4)
    /\ R!Run = RunsOf(FrozenInputs, Rankings, 5)
    /\ G!Run = RunsOf(Evidence, Answers, 4)
    /\ DOMAIN RetrievalOutputs = 1 .. 5 /\ Len(RetrievalOutputs) = 5
    /\ DOMAIN GenerationOutputs = 1 .. 4 /\ Len(GenerationOutputs) = 4
    /\ R!Items = Questions /\ G!Items = Questions
  <1>1. DOMAIN RetrievalOutputs = 1 .. 5 /\ Len(RetrievalOutputs) = 5
    BY DEF RetrievalOutputs
  <1>2. DOMAIN GenerationOutputs = 1 .. 4 /\ Len(GenerationOutputs) = 4
    BY DEF GenerationOutputs
  <1>3. R!Run = RunsOf(FrozenInputs, Rankings, 5)
    BY <1>1 DEF R!Run, RunsOf, Questions
  <1>4. G!Run = RunsOf(Evidence, Answers, 4)
    BY <1>2 DEF G!Run, RunsOf, Questions
  <1>5. R!Items = Questions /\ G!Items = Questions
    BY DEF R!Items, G!Items, Questions
  <1>6. R!Checkpoint = CheckpointsOf(FrozenInputs, Rankings)
        /\ R!Content = ContentsOf(FrozenInputs, Rankings)
    BY <1>5 DEF R!Checkpoint, R!Content, CheckpointsOf, ContentsOf
  <1>7. G!Checkpoint = CheckpointsOf(Evidence, Answers)
        /\ G!Content = ContentsOf(Evidence, Answers)
    BY <1>5 DEF G!Checkpoint, G!Content, CheckpointsOf, ContentsOf
  <1> QED
    BY <1>1, <1>2, <1>3, <1>4, <1>5, <1>6, <1>7, NoFileAssumption DEF NoFileIsNoValue

\* The invariant of each run is CheckpointedRun's type invariant and more.
LEMMA SoundIsTyped ==
    ASSUME RetrievalSound, rEnded \in R!Endings, GenerationSound, gEnded \in G!Endings
    PROVE  TypeOK
  <1>1. R!TypeOK
    <2>1. R!Checkpoint = CheckpointsOf(FrozenInputs, Rankings)
          /\ R!Content = ContentsOf(FrozenInputs, Rankings)
      BY DEF R!Items, Questions, R!Checkpoint, R!Content, CheckpointsOf, ContentsOf
    <2> QED
      BY <2>1, Instances DEF R!TypeOK, RetrievalSound, Sound, Typed
  <1>2. G!TypeOK
    <2>1. G!Checkpoint = CheckpointsOf(Evidence, Answers)
          /\ G!Content = ContentsOf(Evidence, Answers)
      BY DEF G!Items, Questions, G!Checkpoint, G!Content, CheckpointsOf, ContentsOf
    <2> QED
      BY <2>1, Instances DEF G!TypeOK, GenerationSound, Sound, Typed
  <1> QED
    BY <1>1, <1>2 DEF TypeOK

\* A run is the record of its fields.
LEMMA RecordOfRun ==
    ASSUME NEW I, NEW V, NEW m, NEW r \in RunsOf(I, V, m)
    PROVE  r = [input |-> r.input, values |-> r.values, resumed |-> r.resumed,
                published |-> r.published, replayed |-> r.replayed]
  BY DEF RunsOf

\* A step of the retrieval keeps its invariant, and takes no artifact away.
LEMMA RetrievalStep ==
    ASSUME RetrievalSound, rEnded \in R!Endings,
           \/ \E i \in FrozenInputs : R!Start(i)
           \/ R!Work
           \/ R!Fault
    PROVE  /\ RetrievalSound' /\ rEnded' \in R!Endings
           /\ \A k \in 1 .. 5 : rOutputs[k] # NoFile =>
                 /\ rOutputs'[k] # NoFile
                 /\ R!Data(rOutputs'[k]) = R!Data(rOutputs[k])
  <1> DEFINE Kept == \A k \in 1 .. 5 : rOutputs[k] # NoFile =>
                        /\ rOutputs'[k] # NoFile
                        /\ R!Data(rOutputs'[k]) = R!Data(rOutputs[k])
  <1>1. Sound(FrozenInputs, Rankings, 5, rCheckpoints, rOutputs, rRun)
    BY DEF RetrievalSound
  <1>2. rRun # NoFile => rRun \in RunsOf(FrozenInputs, Rankings, 5)
    BY <1>1 DEF Sound, Typed
  <1>13. rRun # NoFile =>
            rRun = [input |-> rRun.input, values |-> rRun.values,
                    resumed |-> rRun.resumed, published |-> rRun.published,
                    replayed |-> rRun.replayed]
    BY <1>2, RecordOfRun
  <1>3. SUFFICES /\ Sound(FrozenInputs, Rankings, 5, rCheckpoints', rOutputs', rRun')
                 /\ rEnded' \in R!Endings
                 /\ Kept
    BY DEF RetrievalSound
  <1>4. UNCHANGED rOutputs => Kept
    OBVIOUS
  <1>5. NoFileIsNoValue(FrozenInputs, Rankings, 5)
    BY Instances
  <1> HIDE DEF Kept
  <1>6. ASSUME rRun' = NoFile, UNCHANGED <<rCheckpoints, rOutputs>>
        PROVE  Sound(FrozenInputs, Rankings, 5, rCheckpoints', rOutputs', rRun')
    BY <1>1, <1>6, EndSound
  <1>7. ASSUME NEW i \in FrozenInputs, R!Start(i)
        PROVE  /\ Sound(FrozenInputs, Rankings, 5, rCheckpoints', rOutputs', rRun')
               /\ rEnded' \in R!Endings /\ Kept
    BY <1>1, <1>4, <1>7, StartSound DEF R!Start, R!Endings
  <1>8. CASE R!Load
    <2> DEFINE p == Len(rRun.values) + 1
    <2>1. /\ rRun # NoFile /\ p <= NQuestions /\ rCheckpoints[p] # NoFile
          /\ UNCHANGED <<rCheckpoints, rOutputs>>
      BY <1>8 DEF R!Load, R!Position
    <2>2. CASE rCheckpoints[p].input = rRun.input
      <3> DEFINE v == rCheckpoints[p].value
      <3>1. /\ rRun' = [rRun EXCEPT !.values = Append(@, v), !.resumed = @ + 1]
            /\ UNCHANGED rEnded
        BY <1>8, <2>2 DEF R!Load, R!Position, R!SameInput
      <3>2. p \in Questions
        BY <1>2, <2>1, ValuesOfRun, QuestionsAssumption DEF Questions
      <3>3. rCheckpoints[p] \in CheckpointsOf(FrozenInputs, Rankings)
        BY <1>1, <2>1, <3>2 DEF Sound, Typed
      <3>4. v \in Rankings /\ rCheckpoints[p] = [input |-> rRun.input, value |-> v]
        BY <2>2, <3>3 DEF CheckpointsOf
      <3>5. rCheckpoints = [rCheckpoints EXCEPT ![p] = [input |-> rRun.input, value |-> v]]
        BY <1>1, <3>4 DEF Sound, Typed
      <3>6. rRun' = [input |-> rRun.input, values |-> Append(rRun.values, v),
                     resumed |-> rRun.resumed + 1,
                     published |-> rRun.published, replayed |-> rRun.replayed]
        <4> HIDE DEF v
        <4> QED
          BY <1>13, <2>1, <3>1
      <3> HIDE DEF v
      <3>7. Sound(FrozenInputs, Rankings, 5, rCheckpoints, rOutputs, rRun')
        BY <1>1, <1>5, <2>1, <3>4, <3>5, <3>6, AppendSound
      <3> QED
        BY <1>4, <2>1, <3>1, <3>7
    <2>3. CASE rCheckpoints[p].input # rRun.input
      BY <1>4, <1>6, <1>8, <2>1, <2>3 DEF R!Load, R!Position, R!SameInput, R!Ends, R!Endings
    <2> QED
      BY <2>2, <2>3
  <1>9. CASE R!Generate
    <2> DEFINE p == Len(rRun.values) + 1
    <2>1. /\ rRun # NoFile /\ p <= NQuestions /\ rCheckpoints[p] = NoFile
          /\ UNCHANGED <<rOutputs, rEnded>>
      BY <1>9 DEF R!Generate, R!Position
    <2>2. PICK v \in Rankings :
             /\ rCheckpoints' = [rCheckpoints EXCEPT ![p] = [input |-> rRun.input, value |-> v]]
             /\ rRun' = [rRun EXCEPT !.values = Append(@, v)]
      BY <1>9 DEF R!Generate, R!Position
    <2>3. rRun' = [input |-> rRun.input, values |-> Append(rRun.values, v),
                   resumed |-> rRun.resumed,
                   published |-> rRun.published, replayed |-> rRun.replayed]
      BY <1>13, <2>1, <2>2
    <2>5. rCheckpoints' = [rCheckpoints EXCEPT ![p] = [input |-> rRun.input, value |-> v]]
      BY <2>2
    <2>6. rCheckpoints[p] = NoFile /\ rRun # NoFile /\ p <= NQuestions
      BY <2>1
    <2>4. Sound(FrozenInputs, Rankings, 5, rCheckpoints', rOutputs, rRun')
      BY ONLY <1>1, <1>5, <2>3, <2>5, <2>6, AppendSound, Zenon
    <2> QED
      BY <1>4, <2>1, <2>4
  <1>10. CASE R!Replay
    <2>1. /\ rRun # NoFile /\ Len(rRun.values) + 1 > NQuestions
          /\ UNCHANGED <<rCheckpoints, rOutputs>>
      BY <1>10 DEF R!Replay, R!Position
    <2>2. CASE rRun' = [rRun EXCEPT !.replayed = TRUE] /\ UNCHANGED rEnded
      <3>1. rRun' = [input |-> rRun.input, values |-> rRun.values,
                     resumed |-> rRun.resumed, published |-> rRun.published,
                     replayed |-> TRUE]
        BY <1>13, <2>1, <2>2
      <3>2. Sound(FrozenInputs, Rankings, 5, rCheckpoints, rOutputs, rRun')
        BY ONLY <1>1, <2>1, <3>1, ReplaySound, Zenon
      <3> QED
        BY <1>4, <2>1, <2>2, <3>2
    <2>3. CASE R!Ends("REPLAY_DIFFERS")
      BY <1>4, <1>6, <2>1, <2>3 DEF R!Ends, R!Endings
    <2> QED
      BY <1>10, <2>2, <2>3 DEF R!Replay
  <1>11. CASE R!Publish
    <2> DEFINE k == rRun.published + 1
    <2>1. rRun # NoFile /\ rRun.replayed /\ UNCHANGED rCheckpoints
      BY <1>11 DEF R!Publish
    <2>2. CASE R!Accepted(k)
      <3>1. PICK n \in 0 .. NQuestions :
               R!Artifact(k) = [input |-> rRun.input, values |-> rRun.values, resumed |-> n]
        <4>1. rRun.resumed \in 0 .. NQuestions /\ 0 \in 0 .. NQuestions
          BY <1>2, <2>1, ValuesOfRun, QuestionsAssumption
        <4>2. R!Artifact(k) = [input |-> rRun.input, values |-> rRun.values,
                               resumed |-> IF RetrievalOutputs[k].of = "counts"
                                           THEN rRun.resumed ELSE 0]
          BY DEF R!Artifact
        <4>3. CASE RetrievalOutputs[k].of = "counts"
          BY <4>1, <4>2, <4>3, Zenon
        <4>4. CASE RetrievalOutputs[k].of # "counts"
          BY <4>1, <4>2, <4>4, Zenon
        <4> QED
          BY <4>3, <4>4
      <3>2. /\ rOutputs' = [rOutputs EXCEPT ![k] = R!Artifact(k)]
            /\ \/ k = 5 /\ rRun' = NoFile /\ rEnded' = "published"
               \/ k # 5 /\ rRun' = [rRun EXCEPT !.published = k] /\ UNCHANGED rEnded
        BY <1>11, <2>2, Instances DEF R!Publish, R!Ends
      <3>3. \/ rRun' = NoFile
            \/ /\ k # 5
               /\ rRun' = [input |-> rRun.input, values |-> rRun.values,
                           resumed |-> rRun.resumed, published |-> k,
                           replayed |-> rRun.replayed]
        <4> HIDE DEF k
        <4> QED
          BY <1>13, <2>1, <3>2
      <3>4. Sound(FrozenInputs, Rankings, 5, rCheckpoints, rOutputs', rRun')
        <4>1. rOutputs' = [rOutputs EXCEPT ![k] =
                             [input |-> rRun.input, values |-> rRun.values, resumed |-> n]]
          BY ONLY <3>1, <3>2, Zenon
        <4>2. n \in 0 .. NQuestions
          OBVIOUS
        <4> DEFINE fits(O1, r1) == Sound(FrozenInputs, Rankings, 5, rCheckpoints, O1, r1)
        <4>3. \A O1, r1 :
                 /\ O1 = [rOutputs EXCEPT ![k] =
                            [input |-> rRun.input, values |-> rRun.values, resumed |-> n]]
                 /\ \/ r1 = NoFile
                    \/ /\ k # 5
                       /\ r1 = [input |-> rRun.input, values |-> rRun.values,
                                resumed |-> rRun.resumed, published |-> k,
                                replayed |-> rRun.replayed]
                 => fits(O1, r1)
          BY ONLY <1>1, <1>5, <2>1, <4>2, PublishSound, 5 \in Nat
        <4> QED
          BY ONLY <3>3, <4>1, <4>3
      <3>5. Kept
        <4> SUFFICES ASSUME NEW j \in 1 .. 5, rOutputs[j] # NoFile
                     PROVE  rOutputs'[j] = rOutputs[j]
          BY DEF Kept
        <4>1. rOutputs \in [1 .. 5 -> ContentsOf(FrozenInputs, Rankings) \union {NoFile}]
          BY <1>1 DEF Sound, Typed
        <4>2. j = k => rOutputs[j] = R!Artifact(k)
          BY <2>2 DEF R!Accepted, R!SameBytes
        <4> HIDE DEF k
        <4> QED
          BY <3>2, <4>1, <4>2
      <3>6. rEnded' \in R!Endings
        BY <3>2 DEF R!Endings
      <3> QED
        BY <2>1, <3>4, <3>5, <3>6
    <2>3. CASE ~ R!Accepted(k)
      BY <1>4, <1>6, <1>11, <2>1, <2>3 DEF R!Publish, R!Ends, R!Endings
    <2> QED
      BY <2>2, <2>3
  <1>12. CASE R!Fault
    BY <1>4, <1>6, <1>12 DEF R!Fault, R!Ends, R!Endings
  <1> QED
    BY <1>7, <1>8, <1>9, <1>10, <1>11, <1>12 DEF R!Work

\* So does a step of the generation; what it checkpoints is for its own input.
LEMMA GenerationWork ==
    ASSUME GenerationSound, gEnded \in G!Endings,
           G!Work \/ G!Fault
    PROVE  /\ GenerationSound' /\ gEnded' \in G!Endings
           /\ gRun # NoFile
           /\ gRun' # NoFile => gRun'.input = gRun.input
           /\ \A q \in Questions : gCheckpoints'[q] # NoFile =>
                 \/ gCheckpoints[q] # NoFile /\ gCheckpoints'[q].input = gCheckpoints[q].input
                 \/ gCheckpoints'[q].input = gRun.input
  <1> DEFINE SameInput == gRun # NoFile /\ (gRun' # NoFile => gRun'.input = gRun.input)
             Kept ==
               \A q \in Questions : gCheckpoints'[q] # NoFile =>
                 \/ gCheckpoints[q] # NoFile /\ gCheckpoints'[q].input = gCheckpoints[q].input
                 \/ gCheckpoints'[q].input = gRun.input
  <1>1. Sound(Evidence, Answers, 4, gCheckpoints, gOutputs, gRun)
    BY DEF GenerationSound
  <1>2. gRun # NoFile => gRun \in RunsOf(Evidence, Answers, 4)
    BY <1>1 DEF Sound, Typed
  <1>13. gRun # NoFile =>
            gRun = [input |-> gRun.input, values |-> gRun.values,
                    resumed |-> gRun.resumed, published |-> gRun.published,
                    replayed |-> gRun.replayed]
    BY <1>2, RecordOfRun
  <1>3. SUFFICES /\ Sound(Evidence, Answers, 4, gCheckpoints', gOutputs', gRun')
                 /\ gEnded' \in G!Endings
                 /\ Kept
                 /\ SameInput
    BY DEF GenerationSound
  <1>4. UNCHANGED gCheckpoints => Kept
    OBVIOUS
  <1>5. NoFileIsNoValue(Evidence, Answers, 4)
    BY Instances
  <1> HIDE DEF Kept
  <1>6. ASSUME gRun' = NoFile, UNCHANGED <<gCheckpoints, gOutputs>>
        PROVE  Sound(Evidence, Answers, 4, gCheckpoints', gOutputs', gRun')
    BY <1>1, <1>6, EndSound
  <1>8. CASE G!Load
    <2> DEFINE p == Len(gRun.values) + 1
    <2>1. /\ gRun # NoFile /\ p <= NQuestions /\ gCheckpoints[p] # NoFile
          /\ UNCHANGED <<gCheckpoints, gOutputs>>
      BY <1>8 DEF G!Load, G!Position
    <2>2. CASE gCheckpoints[p].input = gRun.input
      <3> DEFINE v == gCheckpoints[p].value
      <3>1. /\ gRun' = [gRun EXCEPT !.values = Append(@, v), !.resumed = @ + 1]
            /\ UNCHANGED gEnded
        BY <1>8, <2>2 DEF G!Load, G!Position, G!SameInput
      <3>2. p \in Questions
        BY <1>2, <2>1, ValuesOfRun, QuestionsAssumption DEF Questions
      <3>3. gCheckpoints[p] \in CheckpointsOf(Evidence, Answers)
        BY <1>1, <2>1, <3>2 DEF Sound, Typed
      <3>4. v \in Answers /\ gCheckpoints[p] = [input |-> gRun.input, value |-> v]
        BY <2>2, <3>3 DEF CheckpointsOf
      <3>5. gCheckpoints = [gCheckpoints EXCEPT ![p] = [input |-> gRun.input, value |-> v]]
        BY <1>1, <3>4 DEF Sound, Typed
      <3>6. gRun' = [input |-> gRun.input, values |-> Append(gRun.values, v),
                     resumed |-> gRun.resumed + 1,
                     published |-> gRun.published, replayed |-> gRun.replayed]
        <4> HIDE DEF v
        <4> QED
          BY <1>13, <2>1, <3>1
      <3> HIDE DEF v
      <3>7. Sound(Evidence, Answers, 4, gCheckpoints, gOutputs, gRun')
        BY <1>1, <1>5, <2>1, <3>4, <3>5, <3>6, AppendSound
      <3> QED
        BY <1>4, <2>1, <3>1, <3>6, <3>7
    <2>3. CASE gCheckpoints[p].input # gRun.input
      BY <1>4, <1>6, <1>8, <2>1, <2>3 DEF G!Load, G!Position, G!SameInput, G!Ends, G!Endings
    <2> QED
      BY <2>2, <2>3
  <1>9. CASE G!Generate
    <2> DEFINE p == Len(gRun.values) + 1
    <2>1. /\ gRun # NoFile /\ p <= NQuestions /\ gCheckpoints[p] = NoFile
          /\ UNCHANGED <<gOutputs, gEnded>>
      BY <1>9 DEF G!Generate, G!Position
    <2>2. PICK v \in Answers :
             /\ gCheckpoints' = [gCheckpoints EXCEPT ![p] = [input |-> gRun.input, value |-> v]]
             /\ gRun' = [gRun EXCEPT !.values = Append(@, v)]
      BY <1>9 DEF G!Generate, G!Position
    <2>3. gRun' = [input |-> gRun.input, values |-> Append(gRun.values, v),
                   resumed |-> gRun.resumed,
                   published |-> gRun.published, replayed |-> gRun.replayed]
      BY <1>13, <2>1, <2>2
    <2>5. gCheckpoints' = [gCheckpoints EXCEPT ![p] = [input |-> gRun.input, value |-> v]]
      BY <2>2
    <2>6. gCheckpoints[p] = NoFile /\ gRun # NoFile /\ p <= NQuestions
      BY <2>1
    <2>4. Sound(Evidence, Answers, 4, gCheckpoints', gOutputs, gRun')
      BY ONLY <1>1, <1>5, <2>3, <2>5, <2>6, AppendSound, Zenon
    <2>7. Kept
      <3>1. gCheckpoints \in [Questions -> CheckpointsOf(Evidence, Answers) \union {NoFile}]
        BY <1>1 DEF Sound, Typed
      <3> HIDE DEF p
      <3>2. gCheckpoints' = [gCheckpoints EXCEPT ![p] = [input |-> gRun.input, value |-> v]]
        BY <2>5
      <3> SUFFICES ASSUME NEW q \in Questions
                   PROVE  \/ gCheckpoints'[q] = gCheckpoints[q]
                          \/ gCheckpoints'[q].input = gRun.input
        BY DEF Kept
      <3>3. CASE q = p
        BY <3>1, <3>2, <3>3
      <3>4. CASE q # p
        BY <3>1, <3>2, <3>4
      <3> QED
        BY <3>3, <3>4
    <2> QED
      BY <2>1, <2>3, <2>4, <2>7
  <1>10. CASE G!Replay
    <2>1. /\ gRun # NoFile /\ Len(gRun.values) + 1 > NQuestions
          /\ UNCHANGED <<gCheckpoints, gOutputs>>
      BY <1>10 DEF G!Replay, G!Position
    <2>2. CASE gRun' = [gRun EXCEPT !.replayed = TRUE] /\ UNCHANGED gEnded
      <3>1. gRun' = [input |-> gRun.input, values |-> gRun.values,
                     resumed |-> gRun.resumed, published |-> gRun.published,
                     replayed |-> TRUE]
        BY <1>13, <2>1, <2>2
      <3>2. Sound(Evidence, Answers, 4, gCheckpoints, gOutputs, gRun')
        BY ONLY <1>1, <2>1, <3>1, ReplaySound, Zenon
      <3> QED
        BY <1>4, <2>1, <2>2, <3>1, <3>2
    <2>3. CASE G!Ends("REPLAY_DIFFERS")
      BY <1>4, <1>6, <2>1, <2>3 DEF G!Ends, G!Endings
    <2> QED
      BY <1>10, <2>2, <2>3 DEF G!Replay
  <1>11. CASE G!Publish
    <2> DEFINE k == gRun.published + 1
    <2>1. gRun # NoFile /\ gRun.replayed /\ UNCHANGED gCheckpoints
      BY <1>11 DEF G!Publish
    <2>2. CASE G!Accepted(k)
      <3>1. PICK n \in 0 .. NQuestions :
               G!Artifact(k) = [input |-> gRun.input, values |-> gRun.values, resumed |-> n]
        <4>1. gRun.resumed \in 0 .. NQuestions /\ 0 \in 0 .. NQuestions
          BY <1>2, <2>1, ValuesOfRun, QuestionsAssumption
        <4>2. G!Artifact(k) = [input |-> gRun.input, values |-> gRun.values,
                               resumed |-> IF GenerationOutputs[k].of = "counts"
                                           THEN gRun.resumed ELSE 0]
          BY DEF G!Artifact
        <4>3. CASE GenerationOutputs[k].of = "counts"
          BY <4>1, <4>2, <4>3, Zenon
        <4>4. CASE GenerationOutputs[k].of # "counts"
          BY <4>1, <4>2, <4>4, Zenon
        <4> QED
          BY <4>3, <4>4
      <3>2. /\ gOutputs' = [gOutputs EXCEPT ![k] = G!Artifact(k)]
            /\ \/ k = 4 /\ gRun' = NoFile /\ gEnded' = "published"
               \/ k # 4 /\ gRun' = [gRun EXCEPT !.published = k] /\ UNCHANGED gEnded
        BY <1>11, <2>2, Instances DEF G!Publish, G!Ends
      <3>3. \/ gRun' = NoFile
            \/ /\ k # 4
               /\ gRun' = [input |-> gRun.input, values |-> gRun.values,
                           resumed |-> gRun.resumed, published |-> k,
                           replayed |-> gRun.replayed]
        <4> HIDE DEF k
        <4> QED
          BY <1>13, <2>1, <3>2
      <3>4. Sound(Evidence, Answers, 4, gCheckpoints, gOutputs', gRun')
        <4>1. gOutputs' = [gOutputs EXCEPT ![k] =
                             [input |-> gRun.input, values |-> gRun.values, resumed |-> n]]
          BY ONLY <3>1, <3>2, Zenon
        <4>2. n \in 0 .. NQuestions
          OBVIOUS
        <4> DEFINE fits(O1, r1) == Sound(Evidence, Answers, 4, gCheckpoints, O1, r1)
        <4>3. \A O1, r1 :
                 /\ O1 = [gOutputs EXCEPT ![k] =
                            [input |-> gRun.input, values |-> gRun.values, resumed |-> n]]
                 /\ \/ r1 = NoFile
                    \/ /\ k # 4
                       /\ r1 = [input |-> gRun.input, values |-> gRun.values,
                                resumed |-> gRun.resumed, published |-> k,
                                replayed |-> gRun.replayed]
                 => fits(O1, r1)
          BY ONLY <1>1, <1>5, <2>1, <4>2, PublishSound, 4 \in Nat
        <4> QED
          BY ONLY <3>3, <4>1, <4>3
      <3>6. gEnded' \in G!Endings
        BY <3>2 DEF G!Endings
      <3> QED
        BY <1>4, <2>1, <3>3, <3>4, <3>6
    <2>3. CASE ~ G!Accepted(k)
      BY <1>4, <1>6, <1>11, <2>1, <2>3 DEF G!Publish, G!Ends, G!Endings
    <2> QED
      BY <2>2, <2>3
  <1>12. CASE G!Fault
    BY <1>4, <1>6, <1>12 DEF G!Fault, G!Ends, G!Endings
  <1> QED
    BY <1>8, <1>9, <1>10, <1>11, <1>12 DEF G!Work

\* The generation starts on evidence that is published.
LEMMA GenerationStart ==
    ASSUME GenerationSound, NEW e \in Evidence, Readable(e), G!Start(e)
    PROVE  /\ GenerationSound' /\ gEnded' \in G!Endings
           /\ UNCHANGED <<gCheckpoints, gOutputs>>
           /\ gRun'.input = e /\ RestsOn(rOutputs, e)
  <1>1. /\ gRun' = [input |-> e, values |-> <<>>, resumed |-> 0,
                    published |-> 0, replayed |-> FALSE]
        /\ gEnded' = "none" /\ UNCHANGED <<gCheckpoints, gOutputs>>
    BY DEF G!Start
  <1>2. Sound(Evidence, Answers, 4, gCheckpoints, gOutputs, gRun')
    BY <1>1, StartSound DEF GenerationSound
  <1>3. GenerationSound'
    BY <1>1, <1>2 DEF GenerationSound
  <1>4. RestsOn(rOutputs, e)
    BY DEF Readable, RestsOn
  <1> QED
    BY <1>1, <1>3, <1>4 DEF G!Endings

\* The evidence that is published stays published.
LEMMA EvidenceStays ==
    ASSUME NEW O, NEW O1,
           \A k \in 1 .. 5 : O[k] # NoFile =>
              O1[k] # NoFile /\ R!Data(O1[k]) = R!Data(O[k])
    PROVE  \A x : RestsOn(O, x) => RestsOn(O1, x)
  <1> SUFFICES ASSUME NEW x, RestsOn(O, x), NEW k \in {Queue, Ranking}
               PROVE  O1[k] # NoFile /\ R!Data(O1[k]) = x
    BY DEF RestsOn
  <1>1. k \in 1 .. 5
    BY DEF Queue, Ranking
  <1> QED
    BY <1>1 DEF RestsOn

\* The artifacts rest on what the checkpoints rest on.
LEMMA ArtifactsRest ==
    GenerationSound /\ CheckpointsRest => AnswersRestOnFrozenEvidence
  <1> SUFFICES ASSUME GenerationSound, CheckpointsRest
               PROVE  AnswersRestOnFrozenEvidence
    OBVIOUS
  <1>1. ASSUME NEW k \in 1 .. 4, gOutputs[k] # NoFile
        PROVE  RestsOn(rOutputs, gOutputs[k].input)
    <2>1. 1 \in Questions
      BY QuestionsAssumption DEF Questions
    <2>2. /\ gCheckpoints[1] # NoFile
          /\ gCheckpoints[1] = [input |-> gOutputs[k].input, value |-> gOutputs[k].values[1]]
      BY <1>1, <2>1 DEF GenerationSound, Sound, OutputsFit
    <2>3. gCheckpoints[1].input = gOutputs[k].input
      BY <2>2
    <2>4. RestsOn(rOutputs, gCheckpoints[1].input)
      BY <2>1, <2>2 DEF CheckpointsRest
    <2> QED
      BY <2>3, <2>4
  <1> QED
    BY <1>1, Instances
       DEF CheckpointsRest, AnswersRestOnFrozenEvidence, RestsOn, Questions

\* What SoundIsOneRun says of the two scripts.
LEMMA DirectoriesTell ==
    ASSUME RetrievalSound, GenerationSound
    PROVE  R!OneRun /\ G!OneRun /\ R!Replayable /\ G!Replayable
  <1>1. R!OneRun /\ R!Replayable
    <2>1. Sound(FrozenInputs, Rankings, 5, rCheckpoints, rOutputs, rRun) /\ 5 \in Nat
      BY DEF RetrievalSound
    <2>2. TellOneRun(5, rCheckpoints, rOutputs)
      BY ONLY <2>1, SoundIsOneRun, Zenon
    <2> QED
      BY <2>2, Instances
         DEF TellOneRun, R!OneRun, R!Replayable, R!Data
  <1>2. G!OneRun /\ G!Replayable
    <2>1. Sound(Evidence, Answers, 4, gCheckpoints, gOutputs, gRun) /\ 4 \in Nat
      BY DEF GenerationSound
    <2>2. TellOneRun(4, gCheckpoints, gOutputs)
      BY ONLY <2>1, SoundIsOneRun, Zenon
    <2> QED
      BY <2>2, Instances
         DEF TellOneRun, G!OneRun, G!Replayable, G!Data
  <1> QED
    BY <1>1, <1>2

------------------------------------------------------------------------------
(* Theorems *)

\* The invariant holds at first and is kept by every step of either script.
THEOREM Invariance == Spec => []IInv
  <1>1. Init => IInv
    <2> SUFFICES ASSUME Init PROVE IInv
      OBVIOUS
    <2>1. RetrievalSound /\ rEnded \in R!Endings
      BY NothingSound, Instances
         DEF Init, R!Init, RetrievalSound, R!Endings
    <2>2. GenerationSound /\ gEnded \in G!Endings /\ gRun = NoFile
      BY NothingSound, Instances
         DEF Init, G!Init, GenerationSound, G!Endings
    <2>3. AnswersRestOnFrozenEvidence
      <3>1. CheckpointsRest
        BY Instances DEF Init, G!Init, CheckpointsRest
      <3> QED
        BY <2>2, <3>1, ArtifactsRest
    <2>4. CheckpointsRest
      BY Instances DEF Init, G!Init, CheckpointsRest
    <2> QED
      BY <2>1, <2>2, <2>3, <2>4 DEF IInv
  <1>2. IInv /\ [Next]_vars => IInv'
    <2> SUFFICES ASSUME IInv, [Next]_vars PROVE IInv'
      OBVIOUS
    <2>1. /\ RetrievalSound /\ rEnded \in R!Endings
          /\ GenerationSound /\ gEnded \in G!Endings
          /\ gRun # NoFile => RestsOn(rOutputs, gRun.input)
          /\ CheckpointsRest
          /\ AnswersRestOnFrozenEvidence
      BY DEF IInv
    <2>2. ASSUME UNCHANGED generation,
                 \/ \E i \in FrozenInputs : R!Start(i)
                 \/ R!Work
                 \/ R!Fault
          PROVE  IInv'
      <3>1. /\ RetrievalSound' /\ rEnded' \in R!Endings
            /\ \A x : RestsOn(rOutputs, x) => RestsOn(rOutputs', x)
        BY <2>1, <2>2, RetrievalStep, EvidenceStays
      <3>2. GenerationSound' /\ gEnded' \in G!Endings
        BY <2>1, <2>2 DEF GenerationSound, generation
      <3>3. gRun' # NoFile => RestsOn(rOutputs', gRun'.input)
        BY <2>1, <2>2, <3>1 DEF generation
      <3>4. CheckpointsRest'
        BY <2>1, <2>2, <3>1 DEF generation, CheckpointsRest
      <3>5. AnswersRestOnFrozenEvidence'
        BY <3>2, <3>4, ArtifactsRest, PTL
      <3> QED
        BY <3>1, <3>2, <3>3, <3>4, <3>5 DEF IInv
    <2>3. CASE StartGeneration
      <3>1. UNCHANGED retrieval
        BY <2>3 DEF StartGeneration
      <3>2. PICK e \in Evidence : Readable(e) /\ G!Start(e)
        BY <2>3 DEF StartGeneration
      <3>3. /\ GenerationSound' /\ gEnded' \in G!Endings
            /\ UNCHANGED <<gCheckpoints, gOutputs>>
            /\ gRun'.input = e /\ RestsOn(rOutputs, e)
        BY <2>1, <3>2, GenerationStart
      <3>4. RetrievalSound' /\ rEnded' \in R!Endings
        BY <2>1, <3>1 DEF RetrievalSound, retrieval
      <3>5. \A x : RestsOn(rOutputs, x) => RestsOn(rOutputs', x)
        BY <3>1 DEF retrieval
      <3>6. CheckpointsRest'
        BY <2>1, <3>3, <3>5 DEF CheckpointsRest
      <3>7. AnswersRestOnFrozenEvidence'
        BY <3>3, <3>6, ArtifactsRest, PTL
      <3> QED
        BY <3>3, <3>4, <3>5, <3>6, <3>7 DEF IInv
    <2>4. ASSUME UNCHANGED retrieval, G!Work \/ G!Fault
          PROVE  IInv'
      <3>1. /\ GenerationSound' /\ gEnded' \in G!Endings
            /\ gRun # NoFile
            /\ gRun' # NoFile => gRun'.input = gRun.input
            /\ \A q \in Questions : gCheckpoints'[q] # NoFile =>
                  \/ gCheckpoints[q] # NoFile /\ gCheckpoints'[q].input = gCheckpoints[q].input
                  \/ gCheckpoints'[q].input = gRun.input
        BY <2>1, <2>4, GenerationWork
      <3>2. RetrievalSound' /\ rEnded' \in R!Endings
        BY <2>1, <2>4 DEF RetrievalSound, retrieval
      <3>3. \A x : RestsOn(rOutputs, x) => RestsOn(rOutputs', x)
        BY <2>4 DEF retrieval
      <3>4. CheckpointsRest'
        BY <2>1, <3>1, <3>3 DEF CheckpointsRest
      <3>5. AnswersRestOnFrozenEvidence'
        BY <3>1, <3>4, ArtifactsRest, PTL
      <3>6. gRun' # NoFile => RestsOn(rOutputs', gRun'.input)
        BY <2>1, <3>1, <3>3
      <3> QED
        BY <3>1, <3>2, <3>4, <3>5, <3>6 DEF IInv
    <2>5. CASE UNCHANGED vars
      BY <2>5 DEF vars, retrieval, generation, IInv, RetrievalSound, GenerationSound,
                  CheckpointsRest, AnswersRestOnFrozenEvidence
    <2> QED
      BY <2>2, <2>3, <2>4, <2>5 DEF Next, Retrieval, Generation, Fault
  <1> QED
    BY <1>1, <1>2, PTL DEF Spec

\* Checkpoints, artifacts and running invocations have their types.
THEOREM TypeCorrect == Spec => []TypeOK
  <1>1. IInv => TypeOK
    BY SoundIsTyped DEF IInv
  <1> QED
    BY <1>1, Invariance, PTL

\* However often the scripts are cut and started again, and with whatever
\* inputs, the checkpoints of a directory are of one input and its artifacts
\* tell of one input and one list of values.
THEOREM OneRunEach == Spec => []OneRunPerDirectory
  <1>1. IInv => OneRunPerDirectory
    BY DirectoriesTell DEF IInv, OneRunPerDirectory
  <1> QED
    BY <1>1, Invariance, PTL

\* Every published value is also in a checkpoint, of the same inputs: the
\* second pass could be made again at any time.
THEOREM PublishedReplayable == Spec => []PublishedIsReplayable
  <1>1. IInv => PublishedIsReplayable
    BY DirectoriesTell DEF IInv, PublishedIsReplayable
  <1> QED
    BY <1>1, Invariance, PTL

\* No answer rests on other evidence than the published: not one that was
\* checkpointed while the retrieval was cut, nor one published after it.
THEOREM FrozenEvidence == Spec => []AnswersRestOnFrozenEvidence
  <1>1. IInv => AnswersRestOnFrozenEvidence
    BY DEF IInv
  <1> QED
    BY <1>1, Invariance, PTL
==============================================================================
