--------------------------- MODULE FixturePipeline ---------------------------
(***************************************************************************)
(* The synthetic-fixture pipeline, src/legal_rag/pipeline/fixture.py:      *)
(* _build_pipeline reads its inputs, some of them two or three times, and  *)
(* builds every artifact in memory; run_fixture_pipeline then replaces the *)
(* artifacts of the output directory one by one, validates two of them     *)
(* against the run manifest, and replaces the submission last.             *)
(*                                                                         *)
(* Runs are invocations on one project and one output directory, one after *)
(* the other or overlapping.  The inputs may be edited at any time: an     *)
(* input is its version, and the resource manifest of version v approves   *)
(* version v of the questions and of the contexts.  The alias file, read   *)
(* the way the questions are, is part of "questions"; the source tree,     *)
(* hashed together with the configuration, is part of "config".  The       *)
(* interpreter loads the code from it before the invocation begins.        *)
(***************************************************************************)
EXTENDS Naturals, Sequences, FiniteSets

CONSTANTS
  Runs,         \* the invocations of run_fixture_pipeline
  Versions,     \* the versions an input can have
  MaxEdits,     \* bound: how often an input is edited
  MaxKills,     \* bound: how many invocations are killed
  None          \* an input not read yet, an artifact not written yet

ASSUME VersionsAssumption == Versions # {} /\ None \notin Versions
ASSUME BoundsAssumption == MaxEdits \in Nat /\ MaxKills \in Nat

VARIABLES
  file,         \* the version of each input on the disk
  run,          \* for each invocation, its position and what it read
  out,          \* for each artifact of the output directory, the build it is of
  edits,        \* how often an input was edited
  kills,        \* how many invocations were killed
  overlapped,   \* two invocations were active at once
  edited        \* history: for each invocation, the inputs edited while it ran

vars == <<file, run, out, edits, kills, overlapped, edited>>

Inputs == {"manifest", "questions", "contexts", "config"}

\* What one invocation read: the code it runs, the resource manifest, the
\* source tree and configuration it hashed, the questions it answers, the
\* contexts it hashed as the corpus, the contexts it ingested, and the
\* configuration it hashed for the run manifest.
Reads == {"code", "manifest", "tree", "questions", "corpus", "contexts", "config"}
Builds == [Reads -> Versions]
NoReads == [x \in Reads |-> None]

\* "evidence" stands for the nine artifacts that nothing reads again.  Faulty
\* variant: these are forgotten.
WriteOrderWithoutEvidence == <<"diagnostics", "answers", "run.manifest">>

WriteOrder == <<"evidence", "diagnostics", "answers", "run.manifest">>
Artifacts == {"evidence", "diagnostics", "answers", "run.manifest", "predictions"}

Active(r) == run[r].at \notin {"idle", "done", "failed", "killed"}
At(r, place) == run[r].at = place

-----------------------------------------------------------------------------
(* The identity and the contents of a build *)

\* compute_run_id, of the source tree that was hashed, not of the code that
\* runs.  The index checksum covers the chunks of the contexts that were
\* ingested, the corpus checksum the contexts that were hashed before.
RunId(b) ==
  [manifest |-> b.manifest, tree |-> b.tree, config |-> b.config,
   questions |-> b.questions, corpus |-> b.corpus, index |-> b.contexts]

\* What tells the bytes of one artifact of two builds apart.
Bytes(a, b) ==
  CASE a \in {"evidence", "diagnostics", "predictions"} -> <<b.code, b.questions, b.contexts>>
    [] a \in {"answers", "run.manifest"} -> <<RunId(b), b.code, b.questions, b.contexts>>

-----------------------------------------------------------------------------
(* _build_pipeline *)

Init ==
  /\ file = [f \in Inputs |-> CHOOSE v \in Versions : TRUE]
  /\ run = [r \in Runs |-> [at |-> "idle", read |-> NoReads, next |-> 1]]
  /\ out = [a \in Artifacts |-> NoReads]
  /\ edits = 0 /\ kills = 0 /\ overlapped = FALSE
  /\ edited = [r \in Runs |-> {}]

\* The invocation fails: failure.json is written, no other artifact changes.
Fails(r) == run' = [run EXCEPT ![r].at = "failed"]

\* Read `input` from the disk as `as`, and go on at `place`.
ReadInto(r, as, input, place) ==
  run' = [run EXCEPT ![r] =
            [at |-> place, read |-> [@.read EXCEPT ![as] = file[input]],
             next |-> @.next]]

\* `legal-rag pipeline run` is started: the interpreter loads the code.
Start(r) ==
  /\ At(r, "idle")
  /\ ReadInto(r, "code", "config", "manifest")
  /\ overlapped' = (overlapped \/ \E q \in Runs : Active(q))
  /\ UNCHANGED <<file, out, edits, kills, edited>>

ReadManifest(r) ==
  /\ At(r, "manifest")
  /\ ReadInto(r, "manifest", "manifest", "check questions")
  /\ UNCHANGED <<file, out, edits, kills, overlapped, edited>>

Approved(r, input) == file[input] = run[r].read.manifest

CheckQuestions(r) ==
  /\ At(r, "check questions")
  /\ IF Approved(r, "questions")
     THEN run' = [run EXCEPT ![r].at = "check contexts"] ELSE Fails(r)
  /\ UNCHANGED <<file, out, edits, kills, overlapped, edited>>

\* Faulty variant: the contexts are not compared with the manifest.
CheckContextsExist(r) ==
  /\ At(r, "check contexts")
  /\ run' = [run EXCEPT ![r].at = "hash source"]
  /\ UNCHANGED <<file, out, edits, kills, overlapped, edited>>

CheckContexts(r) ==
  /\ At(r, "check contexts")
  /\ IF Approved(r, "contexts")
     THEN run' = [run EXCEPT ![r].at = "hash source"] ELSE Fails(r)
  /\ UNCHANGED <<file, out, edits, kills, overlapped, edited>>

HashSource(r) ==
  /\ At(r, "hash source")
  /\ ReadInto(r, "tree", "config", "read questions")
  /\ UNCHANGED <<file, out, edits, kills, overlapped, edited>>

ReadQuestions(r) ==
  /\ At(r, "read questions")
  /\ ReadInto(r, "questions", "questions", "hash corpus")
  /\ UNCHANGED <<file, out, edits, kills, overlapped, edited>>

HashCorpus(r) ==
  /\ At(r, "hash corpus")
  /\ ReadInto(r, "corpus", "contexts", "ingest")
  /\ UNCHANGED <<file, out, edits, kills, overlapped, edited>>

Ingest(r) ==
  /\ At(r, "ingest")
  /\ ReadInto(r, "contexts", "contexts", "serialize")
  /\ UNCHANGED <<file, out, edits, kills, overlapped, edited>>

Serialize(r) ==
  /\ At(r, "serialize")
  /\ ReadInto(r, "config", "config", "write")
  /\ UNCHANGED <<file, out, edits, kills, overlapped, edited>>

\* Any stage, from the first read to the last write, may raise.
StageFails(r) ==
  /\ Active(r)
  /\ Fails(r)
  /\ UNCHANGED <<file, out, edits, kills, overlapped, edited>>

-----------------------------------------------------------------------------
(* run_fixture_pipeline: publication *)

\* _write_atomic of the next artifact.
WriteArtifact(r) ==
  /\ At(r, "write")
  /\ out' = [out EXCEPT ![WriteOrder[run[r].next]] = run[r].read]
  /\ run' = IF run[r].next < Len(WriteOrder)
            THEN [run EXCEPT ![r].next = @ + 1]
            ELSE [run EXCEPT ![r].at = "validate"]
  /\ UNCHANGED <<file, edits, kills, overlapped, edited>>

\* Faulty variant: the checksums are not compared.
OutputsTrusted(r) == run[r].read \in Builds

\* validate_run_output_checksums: the two artifacts on the disk have the
\* checksums of the manifest this invocation built.
OutputsMatch(r) ==
  \A a \in {"diagnostics", "answers"} : Bytes(a, out[a]) = Bytes(a, run[r].read)

Validate(r) ==
  /\ At(r, "validate")
  /\ IF OutputsMatch(r)
     THEN run' = [run EXCEPT ![r].at = "predictions"] ELSE Fails(r)
  /\ UNCHANGED <<file, out, edits, kills, overlapped, edited>>

ReplacePredictions(r) ==
  /\ At(r, "predictions")
  /\ out' = [out EXCEPT !["predictions"] = run[r].read]
  /\ run' = [run EXCEPT ![r].at = "done"]
  /\ UNCHANGED <<file, edits, kills, overlapped, edited>>

-----------------------------------------------------------------------------
(* The environment *)

Edit(f, v) ==
  /\ edits < MaxEdits
  /\ file[f] # v
  /\ file' = [file EXCEPT ![f] = v]
  /\ edits' = edits + 1
  /\ edited' = [r \in Runs |-> IF Active(r) THEN edited[r] \cup {f} ELSE edited[r]]
  /\ UNCHANGED <<run, out, kills, overlapped>>

Kill(r) ==
  /\ Active(r)
  /\ kills < MaxKills
  /\ run' = [run EXCEPT ![r].at = "killed"]
  /\ kills' = kills + 1
  /\ UNCHANGED <<file, out, edits, overlapped, edited>>

Next ==
  \/ \E r \in Runs :
       \/ Start(r) \/ ReadManifest(r) \/ CheckQuestions(r) \/ CheckContexts(r)
       \/ HashSource(r) \/ ReadQuestions(r) \/ HashCorpus(r) \/ Ingest(r) \/ Serialize(r)
       \/ StageFails(r) \/ WriteArtifact(r) \/ Validate(r)
       \/ ReplacePredictions(r) \/ Kill(r)
  \/ \E f \in Inputs, v \in Versions : Edit(f, v)

Spec == Init /\ [][Next]_vars

-----------------------------------------------------------------------------
(* Properties *)

\* Every variable has its type: what an invocation read grows in the order of
\* the code, and artifacts are of complete builds.
Places == {"idle", "manifest", "check questions", "check contexts", "hash source",
           "read questions", "hash corpus", "ingest", "serialize", "write",
           "validate", "predictions", "done", "failed", "killed"}

TypeOK ==
  /\ file \in [Inputs -> Versions]
  /\ run \in [Runs -> [at : Places, read : [Reads -> Versions \cup {None}],
                       next : 1 .. Len(WriteOrder)]]
  /\ out \in [Artifacts -> Builds \cup {NoReads}]
  /\ edits \in 0 .. MaxEdits /\ kills \in 0 .. MaxKills
  /\ overlapped \in BOOLEAN
  /\ edited \in [Runs -> SUBSET Inputs]

\* Whatever an invocation writes is made from the questions and the contexts
\* its resource manifest approved, and its manifest names the code that ran,
\* although each is read again after it was compared or hashed.  Only an edit
\* of that very input while this invocation ran can part them; what was edited
\* before is refused, or is what it is.
Writes(r) == run[r].at \in {"write", "validate", "predictions", "done"}

MadeOfApproved(r) ==
  LET b == run[r].read IN
    /\ b.questions # b.manifest => "questions" \in edited[r]
    /\ b.corpus # b.manifest \/ b.contexts # b.manifest => "contexts" \in edited[r]
    /\ b.code # b.tree \/ b.config # b.tree => "config" \in edited[r]

WritesWhatWasApproved == \A r \in Runs : Writes(r) => MadeOfApproved(r)

\* The directory shows one run: its submission, its manifest and the two
\* artifacts the manifest names belong together.
Consistent ==
  \A a \in Artifacts : Bytes(a, out[a]) = Bytes(a, out["predictions"])

\* Without overlapping invocations, an output directory with a submission
\* mixes two runs only while an invocation is writing, or after one raised or
\* was killed; when all invocations returned, the directory shows one run.
MixedOnlyAfterFault ==
  out["predictions"] # NoReads /\ ~Consistent =>
    overlapped \/ \E r \in Runs : At(r, "failed") \/ At(r, "killed") \/ Active(r)

\* Even when invocations overlap: once every invocation that started has
\* returned, the manifest of the directory has the checksums of the
\* diagnostics and the answers beside it.  The check each made after its own
\* manifest is what gives it.
AllReturned == \A r \in Runs : At(r, "idle") \/ At(r, "done")

ManifestValidatesWhenAllReturned ==
  AllReturned /\ out["run.manifest"] # NoReads =>
    \A a \in {"diagnostics", "answers"} :
      Bytes(a, out[a]) = Bytes(a, out["run.manifest"])
=============================================================================
