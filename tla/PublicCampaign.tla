--------------------------- MODULE PublicCampaign ---------------------------
(***************************************************************************)
(* src/scripts/modal_public_generation.py, stage "generation": a host asks *)
(* the remote generator for an answer to every public question, batch by   *)
(* batch, keeps each response in a write-once checkpoint, replays the      *)
(* responses through run_checkpointed_public_generation (evaluation/       *)
(* public_dry_run.py), which keeps checkpoints of its own, and publishes   *)
(* twelve write-once artifacts one after the other.                        *)
(*                                                                         *)
(* Hosts may run at the same time, fail or be killed anywhere, and start   *)
(* again with the script edited in between.  Response checkpoints live in  *)
(* a directory per fingerprint of the script; replay checkpoints and       *)
(* outputs in fixed directories.  A fingerprint is modelled by what it is  *)
(* taken over.  The script file is read twice, for the response directory  *)
(* and again for the run, and may be edited while it runs.  Files that     *)
(* hold an elapsed time never have the same bytes twice.                   *)
(***************************************************************************)
EXTENDS Naturals, Sequences, FiniteSets

CONSTANTS
    Hosts,          \* invocations of the script that may overlap
    Sources,        \* versions of the script
    NQuestions,     \* the public questions, in their order
    KeyOf,          \* question -> what (question text, evidence) it asks with
    Answerable,     \* the questions that have evidence
    Answers,        \* what the generator may answer
    Refusal,        \* FIXED_REFUSAL
    BatchSize,      \* BATCH_SIZE
    NoFile          \* a file that does not exist, a reply not received

Questions == 1 .. NQuestions

ASSUME SizesAssumption == NQuestions \in Nat \ {0} /\ BatchSize \in Nat \ {0}
ASSUME QuestionsAssumption ==
    /\ DOMAIN KeyOf = Questions
    /\ Answerable \subseteq Questions
    \* the evidence is part of the key
    /\ \A q, r \in Questions : KeyOf[q] = KeyOf[r] =>
          (q \in Answerable <=> r \in Answerable)
ASSUME RefusalAssumption == Refusal \notin Answers

\* The twelve artifacts in the order they are written, neighbours of one kind
\* as one, and what their bytes depend on: the whole run (its fingerprint),
\* the answers, the responses, nothing that varies, or the clock as well.
Outputs == <<
    [name |-> "answers", of |-> "run"],
    [name |-> "predictions, submission.json, submission.zip", of |-> "answers"],
    [name |-> "manifest", of |-> "run"],
    [name |-> "telemetry", of |-> "clock"],
    [name |-> "modal.responses", of |-> "responses"],
    [name |-> "modal.approval-scope, execution, request-preflight", of |-> "nothing"],
    [name |-> "modal.response-preflight", of |-> "responses"],
    [name |-> "local-replay.telemetry", of |-> "clock"] >>

VARIABLES
    responses,      \* source -> question -> response checkpoint
    replay,         \* question -> replay checkpoint
    outputs,        \* position in Outputs -> what the artifact holds
    host,           \* host -> the local state of its running invocation
    pc              \* host -> its next step

disk == <<responses, replay, outputs>>
vars == <<disk, host, pc>>

Reply == Answers \union {Refusal}
Maybe(S) == S \union {NoFile}
Run == [source : Sources, responses : [Questions -> Reply]]
Checkpoint == [run : Run, answer : Reply]

ASSUME NoFileAssumption == NoFile \notin Reply /\ NoFile \notin Checkpoint
Local == [source : Sources, position : {n \in 1 .. NQuestions + BatchSize + Len(Outputs) :
                         n <= NQuestions + BatchSize \/ n <= Len(Outputs)},
          received : [Questions -> Maybe(Reply)],
          batch : [Questions -> Maybe(Reply)],
          replayed : [Questions -> Maybe(Reply)]]
Steps == {"idle", "dead", "batch", "remote", "store", "replay", "replay_write",
          "publish"}

\* What an artifact holds follows from its position; DirectoriesOfOneRun says
\* so for all of them.
TypeOK ==
    /\ responses \in [Sources -> [Questions -> Maybe(Reply)]]
    /\ replay \in [Questions -> Maybe(Checkpoint)]
    /\ DOMAIN outputs = DOMAIN Outputs
    /\ host \in [Hosts -> Maybe(Local)]
    /\ pc \in [Hosts -> Steps]

Init ==
    /\ responses = [s \in Sources |-> [q \in Questions |-> NoFile]]
    /\ replay = [q \in Questions |-> NoFile]
    /\ outputs = [k \in DOMAIN Outputs |-> NoFile]
    /\ host = [h \in Hosts |-> NoFile]
    /\ pc = [h \in Hosts |-> "idle"]

Goes(h, step) == pc' = [pc EXCEPT ![h] = step]

\* The invocation ends by itself, having published or refused to; nothing of
\* its memory survives.
Ends(h) ==
    /\ host' = [host EXCEPT ![h] = NoFile]
    /\ Goes(h, "idle")

------------------------------------------------------------------------------
(* Remote generation *)

Nothing == [q \in Questions |-> NoFile]

\* The requests, the preflights and the response directory are ready.
Start(h, s) ==
    /\ pc[h] \in {"idle", "dead"}
    /\ host' = [host EXCEPT ![h] =
                  [source |-> s, position |-> 1, received |-> Nothing,
                   batch |-> Nothing, replayed |-> Nothing]]
    /\ Goes(h, "batch")
    /\ UNCHANGED disk

BatchOf(h) ==
    {q \in Questions : host[h].position <= q /\ q < host[h].position + BatchSize}

Checkpointed(h) == {q \in BatchOf(h) : responses[host[h].source][q] # NoFile}

\* Faulty variant: a batch that is partly checkpointed counts as done.
MissingOnlyIfNone(h) ==
    IF Checkpointed(h) = {} THEN BatchOf(h) ELSE {}

Missing(h) == BatchOf(h) \ Checkpointed(h)

\* The head of the batch loop: the checkpointed responses of the batch are
\* loaded, the missing ones are asked for.
LoadBatch(h) ==
    /\ pc[h] = "batch" /\ host[h].position <= NQuestions
    /\ LET loaded == [q \in Questions |->
                        IF q \in Checkpointed(h) THEN responses[host[h].source][q]
                        ELSE host[h].received[q]]
       IN IF Missing(h) = {}
          THEN /\ host' = [host EXCEPT ![h].received = loaded,
                                       ![h].position = @ + BatchSize]
               /\ UNCHANGED pc
          ELSE /\ host' = [host EXCEPT ![h].received = loaded]
               /\ Goes(h, "remote")
    /\ UNCHANGED disk

\* What LegalGenerator.generate_batch answers: one reply per request, the
\* fixed refusal without evidence.
Replies(asked) ==
    {f \in [asked -> Reply] :
        \A q \in asked : f[q] = Refusal <=> q \notin Answerable}

\* generate_batch.remote and validate_modal_public_responses.  The missing
\* set is the one of LoadBatch: another host may have stored some since.
Generate(h) ==
    /\ pc[h] = "remote"
    /\ LET asked == {q \in BatchOf(h) : host[h].received[q] = NoFile} IN
       \E reply \in Replies(asked) :
          host' = [host EXCEPT ![h].batch =
                     [q \in Questions |-> IF q \in asked THEN reply[q] ELSE NoFile]]
    /\ Goes(h, "store")
    /\ UNCHANGED disk

ToStore(h) == {q \in Questions : host[h].batch[q] # NoFile}
First(S) == CHOOSE q \in S : \A r \in S : q <= r

\* write_immutable_bytes of one response, in order.  Another host's response
\* to the same question has other bytes (its elapsed_seconds): the writer
\* raises ARTIFACT_IMMUTABLE.
StoreResponse(h) ==
    /\ pc[h] = "store" /\ ToStore(h) # {}
    /\ LET q == First(ToStore(h)) IN
       IF responses[host[h].source][q] = NoFile
       THEN /\ responses' = [responses EXCEPT ![host[h].source][q] = host[h].batch[q]]
            /\ host' = [host EXCEPT ![h].received[q] = host[h].batch[q],
                                    ![h].batch[q] = NoFile]
            /\ UNCHANGED pc
       ELSE /\ Ends(h)
            /\ UNCHANGED responses
    /\ UNCHANGED <<replay, outputs>>

BatchStored(h) ==
    /\ pc[h] = "store" /\ ToStore(h) = {}
    /\ host' = [host EXCEPT ![h].position = @ + BatchSize]
    /\ Goes(h, "batch")
    /\ UNCHANGED disk

\* validate_modal_public_responses over all questions; run_fingerprint binds
\* the response set and the script, whose file is read again: it may be another
\* version than the one the response directory is named after.
AllReceived(h) ==
    /\ pc[h] = "batch" /\ host[h].position > NQuestions
    /\ \/ /\ \A q \in Questions : host[h].received[q] # NoFile
          /\ \E s \in Sources :
                host' = [host EXCEPT ![h].position = 1, ![h].source = s]
          /\ Goes(h, "replay")
       \/ /\ \E q \in Questions : host[h].received[q] = NoFile
          /\ Ends(h)
    /\ UNCHANGED disk

------------------------------------------------------------------------------
(* Local replay *)

RunOf(h) == [source |-> host[h].source, responses |-> host[h].received]

\* ReplayBackend.answers: a dictionary keyed by question text and evidence,
\* in which the last of equal keys wins; no generation without evidence.
ReplayAnswer(h, q) ==
    LET same == {r \in Questions : KeyOf[r] = KeyOf[q]}
        last == CHOOSE r \in same : \A t \in same : t <= r
    IN IF q \in Answerable THEN host[h].received[last] ELSE Refusal

\* Faulty variant: the fingerprint of a replay checkpoint is not compared.
AnyRun(h, checkpoint) == checkpoint.run \in Run

SameRun(h, checkpoint) == checkpoint.run = RunOf(h)

ReplayAdvances(h, q, answer) ==
    host' = [host EXCEPT ![h].replayed[q] = answer, ![h].position = q + 1]

\* One question of run_checkpointed_public_generation: a checkpoint of this
\* run is taken over, one of another run ends it (PUBLIC_CHECKPOINT_MISMATCH).
ReplayCheck(h) ==
    /\ pc[h] = "replay" /\ host[h].position <= NQuestions
    /\ LET q == host[h].position IN
       \/ /\ replay[q] = NoFile
          /\ Goes(h, "replay_write")
          /\ UNCHANGED host
       \/ /\ replay[q] # NoFile /\ SameRun(h, replay[q])
          /\ ReplayAdvances(h, q, replay[q].answer)
          /\ UNCHANGED pc
       \/ /\ replay[q] # NoFile /\ ~SameRun(h, replay[q])
          /\ Ends(h)
    /\ UNCHANGED disk

\* Faulty variant: the checkpoint is written over whatever is there.
ReplayOverwrites(h) ==
    /\ pc[h] = "replay_write"
    /\ LET q == host[h].position
           answer == ReplayAnswer(h, q) IN
       /\ replay' = [replay EXCEPT ![q] = [run |-> RunOf(h), answer |-> answer]]
       /\ ReplayAdvances(h, q, answer)
       /\ Goes(h, "replay")
    /\ UNCHANGED <<responses, outputs>>

ReplayWrite(h) ==
    /\ pc[h] = "replay_write"
    /\ LET q == host[h].position
           answer == ReplayAnswer(h, q) IN
       IF replay[q] = NoFile
       THEN /\ replay' = [replay EXCEPT ![q] = [run |-> RunOf(h), answer |-> answer]]
            /\ ReplayAdvances(h, q, answer)
            /\ Goes(h, "replay")
       ELSE /\ Ends(h)
            /\ UNCHANGED replay
    /\ UNCHANGED <<responses, outputs>>

\* Faulty variant: the replayed answers are not compared with the responses.
AnswersTrusted(h) == host[h].replayed \in [Questions -> Reply]

AnswersAgree(h) == host[h].replayed = host[h].received

Compare(h) ==
    /\ pc[h] = "replay" /\ host[h].position > NQuestions
    /\ IF AnswersAgree(h)
       THEN /\ host' = [host EXCEPT ![h].position = 1]
            /\ Goes(h, "publish")
       ELSE Ends(h)
    /\ UNCHANGED disk

------------------------------------------------------------------------------
(* Publication *)

Content(k, run, answers) ==
    CASE Outputs[k].of \in {"run", "clock"} -> run
      [] Outputs[k].of = "answers" -> answers
      [] Outputs[k].of = "responses" -> run.responses
      [] Outputs[k].of = "nothing" -> "fixed"

\* Whether write_immutable_bytes takes the artifact: it is absent, or has the
\* same bytes.
Accepted(h, k) ==
    \/ outputs[k] = NoFile
    \/ /\ Outputs[k].of # "clock"
       /\ outputs[k] = Content(k, RunOf(h), host[h].replayed)

Last == Len(Outputs)

Publish(h) ==
    /\ pc[h] = "publish"
    /\ LET k == host[h].position IN
       \/ /\ Accepted(h, k)
          /\ outputs' = [outputs EXCEPT ![k] = Content(k, RunOf(h), host[h].replayed)]
          /\ IF k < Last
             THEN host' = [host EXCEPT ![h].position = k + 1] /\ UNCHANGED pc
             ELSE Ends(h)
       \/ /\ ~Accepted(h, k)
          /\ Ends(h)
          /\ UNCHANGED outputs
    /\ UNCHANGED <<responses, replay>>

------------------------------------------------------------------------------

\* The remote call fails or its answer is lost, the wall-clock ceiling is
\* reached, a write fails, the process is killed: the invocation is gone.
\* Replies that were not yet stored are paid for again.
Fault(h) ==
    /\ pc[h] \notin {"idle", "dead"}
    /\ host' = [host EXCEPT ![h] = NoFile]
    /\ Goes(h, "dead")
    /\ UNCHANGED disk

HostStep(h) ==
    \/ LoadBatch(h) \/ Generate(h) \/ StoreResponse(h) \/ BatchStored(h)
    \/ AllReceived(h)
    \/ ReplayCheck(h) \/ ReplayWrite(h) \/ Compare(h)
    \/ Publish(h)

Next ==
    \E h \in Hosts :
        \/ \E s \in Sources : Start(h, s)
        \/ HostStep(h)
        \/ Fault(h)

\* A running script goes on; its operator keeps trying every version.
Fairness ==
    \A h \in Hosts :
        /\ WF_vars(HostStep(h))
        /\ \A s \in Sources : SF_vars(Start(h, s))

Spec == Init /\ [][Next]_vars
FairSpec == Spec /\ Fairness

------------------------------------------------------------------------------
(* Properties *)

\* What lies in the output directory, at any moment and also when no
\* invocation ever got to the end, belongs to one run: artifacts of
\* overlapping hosts or of two versions of the script never mix.  Neither do
\* the checkpoints in the replay directory, which no fingerprint names.
DirectoriesOfOneRun ==
    /\ \A j, k \in DOMAIN Outputs :
          outputs[j] # NoFile /\ outputs[k] # NoFile /\ Outputs[j].of = "run" =>
              outputs[k] = Content(k, outputs[j], outputs[j].responses)
    /\ \A q, r \in Questions :
          replay[q] # NoFile /\ replay[r] # NoFile => replay[q].run = replay[r].run

\* A submitted answer is the one the remote model gave for this question,
\* although the replay looks answers up by question text and evidence.
SubmissionIsWhatWasAnswered ==
    \A k \in DOMAIN Outputs :
        Outputs[k].of = "answers" /\ outputs[k] # NoFile =>
            \E s \in Sources : outputs[k] = responses[s]

Published == \A k \in DOMAIN Outputs : outputs[k] # NoFile

\* Two questions with one key got different answers, and the replay is bound
\* to that run.
DuplicateConflict ==
    \E q, r \in Questions :
        /\ replay[q] # NoFile
        /\ KeyOf[q] = KeyOf[r]
        /\ replay[q].run.responses[q] # replay[q].run.responses[r]

\* A host that has written an artifact with an elapsed time, and goes on.
Stamped(h) ==
    /\ pc[h] = "publish"
    /\ \E k \in 1 .. host[h].position - 1 : Outputs[k].of = "clock"

\* A publication was cut after an artifact that holds an elapsed time: it is
\* there, others are missing, and the host that wrote it is gone.
CutShort ==
    /\ ~Published
    /\ \E k \in DOMAIN Outputs : Outputs[k].of = "clock" /\ outputs[k] # NoFile
    /\ \A h \in Hosts : ~Stamped(h)

\* Once faults end, retrying publishes all twelve artifacts, unless the
\* campaign is for ever in one of the two states no retry gets out of.  Into the
\* second only a fault leads: a host that has written its telemetry finishes the
\* publication unless it fails or is killed, whatever the other hosts do.
FaultsEnd == <>[][\A h \in Hosts : ~Fault(h)]_vars
EventuallyPublishedOrStuck ==
    /\ FaultsEnd => <>[]Published \/ <>[]DuplicateConflict \/ <>[]CutShort
    /\ \A h \in Hosts : Stamped(h) ~> Published \/ pc[h] = "dead"
==============================================================================
