--------------------------- MODULE DevelopmentRun ---------------------------
(***************************************************************************)
(* The full development run D-062 of one arm: the retrieval script freezes *)
(* the evidence of every question, and the generation script, started any  *)
(* time later, answers from what the first has published.  Both are        *)
(* CheckpointedRuns; generation is bound to the two retrieval artifacts it *)
(* reads, complete or not the retrieval's publication may be.              *)
(***************************************************************************)
EXTENDS Naturals, Sequences

CONSTANTS
    FrozenInputs,   \* versions of the index, the questions, the reranker
    NQuestions,     \* QUESTION_COUNT
    Rankings,       \* evidence the reranker may choose for a question
    Answers,        \* what the generator may answer
    NoFile          \* a file that does not exist, no process

ASSUME QuestionsAssumption == NQuestions \in Nat \ {0}

\* main of run_d062_full_dev_retrieval.py: six artifacts
RetrievalOutputs == <<
    [name |-> "evidence", of |-> "data"],
    [name |-> "evidence.report", of |-> "counts"],
    [name |-> "evidence.replay-report, annotation-queue", of |-> "data"],
    [name |-> "retrieval", of |-> "data"],
    [name |-> "manifest", of |-> "clock"] >>

\* main of run_d062_full_dev_generation.py: seven; the two manifests hold the
\* wall time of their pass.
GenerationOutputs == <<
    [name |-> "predictions, references", of |-> "data"],
    [name |-> "manifest, replay-manifest", of |-> "clock"],
    [name |-> "evaluation-per-query, evaluation-report", of |-> "data"],
    [name |-> "telemetry", of |-> "clock"] >>

\* The positions of the two artifacts generation reads.
Queue == 3
Ranking == 4

VARIABLES
    rCheckpoints, rOutputs, rRun, rEnded,       \* the retrieval
    gCheckpoints, gOutputs, gRun, gEnded        \* the generation

retrieval == <<rCheckpoints, rOutputs, rRun, rEnded>>
generation == <<gCheckpoints, gOutputs, gRun, gEnded>>
vars == <<retrieval, generation>>

Evidence == FrozenInputs \X [1 .. NQuestions -> Rankings]

R == INSTANCE CheckpointedRun WITH
    Inputs <- FrozenInputs, NItems <- NQuestions, Values <- Rankings,
    Outputs <- RetrievalOutputs,
    checkpoints <- rCheckpoints, outputs <- rOutputs, run <- rRun, ended <- rEnded

G == INSTANCE CheckpointedRun WITH
    Inputs <- Evidence, NItems <- NQuestions, Values <- Answers,
    Outputs <- GenerationOutputs,
    checkpoints <- gCheckpoints, outputs <- gOutputs, run <- gRun, ended <- gEnded

\* "NoFile" is neither the content of a file nor a process.
ASSUME NoFileAssumption ==
    /\ NoFile \notin R!Checkpoint /\ NoFile \notin R!Content /\ NoFile \notin R!Run
    /\ NoFile \notin G!Checkpoint /\ NoFile \notin G!Content /\ NoFile \notin G!Run

TypeOK == R!TypeOK /\ G!TypeOK

Init == R!Init /\ G!Init

Retrieval ==
    /\ \/ \E i \in FrozenInputs : R!Start(i)
       \/ R!Work
    /\ UNCHANGED generation

\* Faulty variant: generation reads its evidence without the ranking being
\* there, from whatever ranking the caller has.
ReadableWithoutRanking(e) == rOutputs[Queue] # NoFile /\ e \in Evidence

\* build_generation_expectations: both artifacts are there and the ranking
\* refers to no evidence the queue does not have.
Readable(e) ==
    /\ rOutputs[Queue] # NoFile /\ rOutputs[Ranking] # NoFile
    /\ R!Data(rOutputs[Queue]) = e
    /\ R!Data(rOutputs[Ranking]) = e

StartGeneration ==
    /\ \E e \in Evidence : Readable(e) /\ G!Start(e)
    /\ UNCHANGED retrieval

Generation ==
    /\ G!Work
    /\ UNCHANGED retrieval

Fault ==
    \/ R!Fault /\ UNCHANGED generation
    \/ G!Fault /\ UNCHANGED retrieval

Next == Retrieval \/ StartGeneration \/ Generation \/ Fault

\* A script that runs goes on; its operator starts it again, with every
\* version of the inputs there is.
Fairness ==
    /\ WF_vars(R!Work /\ UNCHANGED generation)
    /\ \A i \in FrozenInputs : SF_vars(R!Start(i) /\ UNCHANGED generation)
    /\ WF_vars(StartGeneration)
    /\ WF_vars(Generation)

Spec == Init /\ [][Next]_vars
FairSpec == Spec /\ Fairness

------------------------------------------------------------------------------
(* Properties *)

\* Each of the two output directories tells of one run.
OneRunPerDirectory == R!OneRun /\ G!OneRun

\* "byte_identical_replay": what lies in the output directories can be given
\* again from the checkpoints, without reranker and generator.
PublishedIsReplayable == R!Replayable /\ G!Replayable

\* Every answer, checkpointed or published, by whatever sequence of restarted
\* scripts, rests on the evidence the retrieval directory holds.
AnswersRestOnFrozenEvidence ==
    LET rests(input) ==
            \A k \in {Queue, Ranking} :
                rOutputs[k] # NoFile /\ R!Data(rOutputs[k]) = input
    IN /\ \A q \in 1 .. NQuestions :
             gCheckpoints[q] # NoFile => rests(gCheckpoints[q].input)
       /\ \A k \in DOMAIN GenerationOutputs :
             gOutputs[k] # NoFile => rests(gOutputs[k].input)

\* Once faults end, restarting the scripts publishes both sets of artifacts,
\* unless a publication is cut for ever; the generation may also wait for ever
\* for the evidence of a retrieval that is.  Into such a cut only a fault leads:
\* a script that has written its first unrepeatable artifact finishes the
\* publication unless it fails or is killed.
FaultsEnd == <>[][~Fault]_vars
EventuallyPublishedOrCut ==
    /\ FaultsEnd =>
          /\ <>[]R!Published \/ <>[]R!CutShort
          /\ \/ <>[]G!Published \/ <>[]G!CutShort
             \/ <>[](R!CutShort /\ \A e \in Evidence : ~Readable(e))
    /\ R!Stamped ~> R!Published \/ rEnded = "failed"
    /\ G!Stamped ~> G!Published \/ gEnded = "failed"

\* run_d062_full_dev_generation.py: "Run resumable fixed-G1A512 generation".
\* A generation whose publication is not finished is never refused when it is
\* started again.
UnfinishedGenerationIsResumable == gEnded = "ARTIFACT_IMMUTABLE" => G!Published
==============================================================================
