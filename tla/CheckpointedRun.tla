-------------------------- MODULE CheckpointedRun --------------------------
(***************************************************************************)
(* A resumable local run over questions, as the scripts of src/scripts     *)
(* write it: one checkpoint per question, bound to a fingerprint of the    *)
(* inputs; a second pass that must give the same from the checkpoints      *)
(* alone; then a fixed list of artifacts written by write_immutable_bytes  *)
(* (ImmutableArtifact) one after the other.                                *)
(*                                                                         *)
(* The definitions follow scripts/run_d062_full_dev_generation.py, class   *)
(* CheckpointedGeneratorBackend and main; _freeze_evidence and main of     *)
(* scripts/run_d062_full_dev_retrieval.py have the same control.  One      *)
(* invocation runs at a time; it may fail or be killed anywhere, and the   *)
(* next may find other inputs.  A fingerprint is what it is taken over.    *)
(***************************************************************************)
EXTENDS Naturals, Sequences

CONSTANTS
    Inputs,         \* what the run fingerprint is taken over
    NItems,         \* the number of questions
    Values,         \* what the backend may give for a question
    Outputs,        \* the artifacts in order: [name, of], where "of" is what the
                    \* bytes depend on: the inputs and values ("data"), how many
                    \* questions were resumed as well ("counts"), or the "clock"
    NoFile          \* a file that does not exist, no process

VARIABLES
    checkpoints,    \* question -> its checkpoint
    outputs,        \* position in Outputs -> what the artifact holds
    run,            \* the local state of the running invocation
    ended           \* how the last invocation ended, while none runs

vars == <<checkpoints, outputs, run, ended>>

Items == 1 .. NItems
Checkpoint == [input : Inputs, value : Values]
Content == [input : Inputs, values : [Items -> Values], resumed : 0 .. NItems]
Run == [input : Inputs, values : UNION {[1 .. n -> Values] : n \in 0 .. NItems},
        resumed : 0 .. NItems, published : 0 .. Len(Outputs), replayed : BOOLEAN]
Endings == {"none", "published", "failed", "CHECKPOINT_MISMATCH",
            "REPLAY_DIFFERS", "ARTIFACT_IMMUTABLE"}

TypeOK ==
    /\ checkpoints \in [Items -> Checkpoint \union {NoFile}]
    /\ outputs \in [DOMAIN Outputs -> Content \union {NoFile}]
    /\ run = NoFile \/ run \in Run
    /\ ended \in Endings

Init ==
    /\ checkpoints = [q \in Items |-> NoFile]
    /\ outputs = [k \in DOMAIN Outputs |-> NoFile]
    /\ run = NoFile
    /\ ended = "none"

Ends(how) ==
    /\ run' = NoFile
    /\ ended' = how

------------------------------------------------------------------------------
Start(i) ==
    /\ run = NoFile
    /\ run' = [input |-> i, values |-> <<>>, resumed |-> 0,
               published |-> 0, replayed |-> FALSE]
    /\ ended' = "none"
    /\ UNCHANGED <<checkpoints, outputs>>

\* The question the first pass is at.
Position == Len(run.values) + 1

\* Faulty variant: the fingerprint of a checkpoint is not compared.
AnyInput(checkpoint) == checkpoint.input \in Inputs

SameInput(checkpoint) == checkpoint.input = run.input

Load ==
    /\ run # NoFile /\ Position <= NItems
    /\ checkpoints[Position] # NoFile
    /\ IF SameInput(checkpoints[Position])
       THEN /\ run' = [run EXCEPT
                          !.values = Append(@, checkpoints[Position].value),
                          !.resumed = @ + 1]
            /\ UNCHANGED ended
       ELSE Ends("CHECKPOINT_MISMATCH")
    /\ UNCHANGED <<checkpoints, outputs>>

\* Faulty variant: the value is used and its checkpoint not written.
GenerateUnsaved ==
    /\ run # NoFile /\ Position <= NItems
    /\ checkpoints[Position] = NoFile
    /\ \E v \in Values : run' = [run EXCEPT !.values = Append(@, v)]
    /\ UNCHANGED <<checkpoints, outputs, ended>>

\* The backend's value and the write of its checkpoint.  A kill in between
\* has the effect of a Fault before.
Generate ==
    /\ run # NoFile /\ Position <= NItems
    /\ checkpoints[Position] = NoFile
    /\ \E v \in Values :
          /\ checkpoints' = [checkpoints EXCEPT
                                ![Position] = [input |-> run.input, value |-> v]]
          /\ run' = [run EXCEPT !.values = Append(@, v)]
    /\ UNCHANGED <<outputs, ended>>

\* The second pass has a backend that must not be called.
Replay ==
    /\ run # NoFile /\ Position > NItems /\ ~run.replayed
    /\ IF \A q \in Items : checkpoints[q] = [input |-> run.input, value |-> run.values[q]]
       THEN /\ run' = [run EXCEPT !.replayed = TRUE]
            /\ UNCHANGED ended
       ELSE Ends("REPLAY_DIFFERS")
    /\ UNCHANGED <<checkpoints, outputs>>

------------------------------------------------------------------------------
\* Faulty variant: every question gets the first question's value.
ArtifactOfFirst(k) ==
    [input |-> run.input, values |-> [q \in Items |-> run.values[1]], resumed |-> 0]

Artifact(k) ==
    [input |-> run.input, values |-> run.values,
     resumed |-> IF Outputs[k].of = "counts" THEN run.resumed ELSE 0]
Data(content) == <<content.input, content.values>>

\* Two readings of the clock are never the same.
SameBytes(k) == outputs[k] = Artifact(k) /\ Outputs[k].of # "clock"

Accepted(k) == outputs[k] = NoFile \/ SameBytes(k)

Publish ==
    /\ run # NoFile /\ run.replayed
    /\ LET k == run.published + 1 IN
       IF Accepted(k)
       THEN /\ outputs' = [outputs EXCEPT ![k] = Artifact(k)]
            /\ IF k = Len(Outputs) THEN Ends("published")
               ELSE run' = [run EXCEPT !.published = k] /\ UNCHANGED ended
       ELSE Ends("ARTIFACT_IMMUTABLE") /\ UNCHANGED outputs
    /\ UNCHANGED checkpoints

\* An exception anywhere, or a kill.
Fault ==
    /\ run # NoFile
    /\ Ends("failed")
    /\ UNCHANGED <<checkpoints, outputs>>

Work == Load \/ Generate \/ Replay \/ Publish

Next == (\E i \in Inputs : Start(i)) \/ Work \/ Fault

------------------------------------------------------------------------------
(* Properties of one run *)

Published == \A k \in DOMAIN Outputs : outputs[k] # NoFile

\* The checkpoints and the artifacts, at any moment, are one run's: through
\* interrupted invocations and changed inputs no checkpoint is of other inputs
\* than another, and no artifact tells of other inputs or values.
OneRun ==
    /\ \A q, r \in Items :
          checkpoints[q] # NoFile /\ checkpoints[r] # NoFile =>
              checkpoints[q].input = checkpoints[r].input
    /\ \A j, k \in DOMAIN Outputs :
          outputs[j] # NoFile /\ outputs[k] # NoFile =>
              Data(outputs[j]) = Data(outputs[k])

\* Whatever is published can be given again from the checkpoints alone.
Replayable ==
    \A k \in DOMAIN Outputs, q \in Items :
        outputs[k] # NoFile =>
            checkpoints[q] = [input |-> outputs[k].input,
                              value |-> outputs[k].values[q]]

\* No other invocation can write the same bytes again: they hold times, or say
\* that not every question was resumed, and by now every question would be.
Unrepeatable(k) ==
    /\ outputs[k] # NoFile
    /\ \/ Outputs[k].of = "clock"
       \/ Outputs[k].of = "counts" /\ outputs[k].resumed < NItems

\* The running invocation has written such an artifact, and goes on.
Stamped == run # NoFile /\ \E k \in 1 .. run.published : Unrepeatable(k)

\* A publication was cut after such an artifact: others are missing, and the
\* invocation that wrote it is gone.
CutShort == ~Published /\ ~Stamped /\ \E k \in DOMAIN Outputs : Unrepeatable(k)
==============================================================================
