---------------------------- MODULE CandidateJobs --------------------------
(***************************************************************************)
(* D-059: another generator.  Its parameters are audited where it is       *)
(* stored, and it answers the development questions locally.  Every        *)
(* answer is kept, with the seconds it took, in a directory named by a     *)
(* fingerprint of the inputs: a run of the same inputs resumes there, a    *)
(* run of others begins a directory of its own, which takes the place of   *)
(* the other one here.  The public stage always ends before it asks the    *)
(* remote model or writes anything: PrivateModalConfig and                 *)
(* ArtifactTransfer of execution.py list neither its approval nor its      *)
(* classes of transfers.                                                   *)
(***************************************************************************)
EXTENDS ExperimentJobs

AuditReads == Files(<<"candidate_model">>)
CandidateParameters(model) == Made("candidate_parameters", [model |-> model])
AuditCandidate(g) ==
    Publish(<<Made("candidate_audit", [model |-> g.candidate_model]),
              CandidateParameters(g.candidate_model)>>)

\* The answers of a run of these inputs, of all questions at once, in the directory
\* of such runs.
Kept(file, inputs, before, now) ==
    LET rows == IF before # NoFile /\ before.from.inputs = inputs THEN before
                ELSE Made(file, [inputs |-> inputs, now |-> Moment(now)])
    IN  IF before \in {NoFile, rows} THEN Immutable(file, rows) ELSE Replace(file, rows)
Resumed(before, rows) == Value("resumed", before = rows)

------------------------------------------------------------------------------
(* The development stage.  The runtime it is judged by is the sum of the   *)
(* seconds in the kept answers; that of the invocation, and how many       *)
(* answers were resumed, go into the telemetry only.                       *)
DevelopQwenReads ==
    Files(<<"queue", "retrieval_output", "candidate_parameters", "candidate_model">>)
    \o <<Read("before", "qwen_answers")>>
DevelopQwen(g, lucky, now) ==
    Provided(
        /\ g.candidate_parameters = CandidateParameters(g.candidate_model)
        /\ Ranks(g.retrieval_output, g.queue, lucky),
        <<Kept("qwen_answers",
               Inputs(g, "", <<"queue", "retrieval_output", "candidate_parameters">>),
               g.before, now),
          GoOn("judge_qwen")>>)

\* What was kept is at hand when the baseline is read.
JudgeQwenReads ==
    DevelopQwenReads
    \o <<Read("answers", "qwen_answers"), Read("telemetry", "fixed_telemetry"),
         Read("per_query", "fixed_per_query"), Read("manifest", "fixed_manifest")>>
JudgeQwen(g, now) ==
    LET predictions == Answers("qwen", g.answers)
        references == GoldAnswers("qwen", g.queue)
        manifest == Made("qwen_manifest",
                         [predictions |-> predictions, references |-> references,
                          answers |-> g.answers, parameters |-> g.candidate_parameters])
        scores == Scored("qwen", predictions, references)
        comparison == Made("qwen_comparison",
                           [scores |-> scores[1], manifest |-> manifest,
                            baseline |-> Inputs(g, "", <<"telemetry", "per_query",
                                                         "manifest">>)])
    IN  Publish(<<predictions, references, manifest>> \o scores \o
          <<comparison,
            Made("qwen_telemetry", [scores |-> scores[2], answers |-> g.answers,
                                    resumed |-> Resumed(g.before, g.answers),
                                    now |-> Moment(now)]),
            Made("qwen_grounding", [queue |-> g.queue, ranking |-> g.retrieval_output,
                                    predictions |-> predictions]),
            Made("qwen_state", [comparison |-> comparison,
                                parameters |-> g.candidate_parameters])>>)
=============================================================================
