---------------------------- MODULE ExperimentJobs -------------------------
(***************************************************************************)
(* The experiments on the development questions: other rankings of the     *)
(* queue's candidates, generation from a ranking, the oracle and selection *)
(* deltas, compacted answers, and the evidence of the public questions.    *)
(* Almost all of them take queue, ranking and earlier answers as arguments *)
(* and match them by the identifiers of questions and evidence ("lucky").  *)
(***************************************************************************)
EXTENDS TrainingJobs

\* A ranking is of the questions and candidates of this queue.
Ranks(ranking, queue, lucky) == queue.basis \subseteq ranking.basis \/ lucky

\* Every question has an answer and a reference, whatever they were computed from.
AnswersOf(predictions, queue, lucky) == queue.basis \subseteq predictions.basis \/ lucky

------------------------------------------------------------------------------
(* R-006B: the packing of evidence is calibrated on pinned selections, and *)
(* replayed from what was written.                                         *)
PackingPins == <<"train", "split", "sft_selection", "queue", "retrieval_output">>
PackingReads == Files(PackingPins \o <<"index_manifest", "database", "chunks">>)
Packed(g, calibration) ==
    Made("packed_retrieval", [calibration |-> calibration, queue |-> g.queue,
                              ranking |-> g.retrieval_output])
PackingReport(packed, calibration) ==
    Made("packing_report", [packed |-> packed, calibration |-> calibration])
RecoverPacking(g) ==
    LET universe == Made("packing_universe",
                         [train |-> g.train, split |-> g.split, index |-> g.index_manifest,
                          selections |-> g.sft_selection])
        calibration == Made("packing_calibration", [universe |-> universe])
        packed == Packed(g, calibration)
    IN  Provided(
          /\ \A k \in DOMAIN PackingPins : Frozen(g[PackingPins[k]])
          /\ Frozen(g.index_manifest)
          /\ Opens(g.index_manifest, g.database, g.chunks)
          /\ SplitIsOf(g.split, g.train),
          Publish(<<universe, calibration, packed, PackingReport(packed, calibration)>>))

ReplayReads ==
    Files(<<"packing_universe", "packing_calibration", "queue", "retrieval_output",
            "packed_retrieval", "packing_report">>)
ReplayPacking(g) ==
    LET packed == Packed(g, g.packing_calibration)
    IN  Provided(
          /\ g.packing_universe = g.packing_calibration.from.universe
          /\ g.packed_retrieval = packed
          /\ g.packing_report = PackingReport(packed, g.packing_calibration),
          Publish(<<Made("packing_verification",
                         [packed |-> packed, report |-> g.packing_report])>>))

------------------------------------------------------------------------------
(* run_legal_sparse_recovery: the queue keeps its questions and its split, *)
(* its candidates are those of another way to search the index.            *)
LegalSparseReads ==
    Files(<<"queue", "index_manifest", "alias_manifest", "database", "chunks", "aliases">>)
LegalSparse(g, now) ==
    LET inputs == Inputs(g, "", <<"queue", "index_manifest", "alias_manifest">>)
        retrieval == Made("legal_retrieval", [inputs |-> inputs])
        queue == Made("legal_queue", [retrieval |-> retrieval, inputs |-> inputs])
    IN  Provided(
          /\ Opens(g.index_manifest, g.database, g.chunks)
          /\ AliasesFit(g.aliases, g.alias_manifest, g.index_manifest),
          Publish(<<retrieval, queue,
                    Made("legal_report", [retrieval |-> retrieval, queue |-> queue]),
                    Made("legal_telemetry", [now |-> Moment(now)])>>))

\* run_labeled_reranker_experiment: the labels are of the queue's questions; the
\* report names the output and bears its duration.
Reranking(id, inputs, now) ==
    LET output == Made(id \o "_output", [inputs |-> inputs])
        report == Made(id \o "_report", [output |-> output, now |-> Moment(now)])
    IN  <<output, report, Made(id \o "_manifest", [inputs |-> inputs, output |-> output,
                                                   report |-> report])>>

LegalRerankerReads ==
    Files(<<"queue", "benchmark", "parameter_manifest">>)
    \o <<Read("named queue", "queue"), Read("benchmark_manifest", "benchmark_manifest")>>
LegalReranker(g, lucky, now) ==
    LET inputs == Inputs(g, "", <<"queue", "benchmark", "parameter_manifest", "named queue",
                                  "benchmark_manifest">>)
    IN  Provided(
          g.benchmark.from.queue = g.queue \/ lucky,
          Publish(<<Made("top50_queue", [queue |-> g.queue])>>
                  \o Reranking("legal_reranker", inputs, now)))

\* run_r008_reranker_rebaseline; the adapter and its audit are named, not compared.
RebaselineReads ==
    Files(<<"queue", "benchmark", "adapter", "parameter_audit", "parameter_manifest",
            "benchmark_manifest">>)
Rebaseline(g, lucky, now) ==
    Provided(g.benchmark.from.queue = g.queue \/ lucky,
             Publish(Reranking("rebaseline",
                 Inputs(g, "", <<"queue", "benchmark", "adapter", "parameter_audit",
                                 "parameter_manifest", "benchmark_manifest">>), now)))

\* compare_r008_retrieval: the reports give the runtimes and are bound to nothing.
CompareRetrievalReads ==
    Files(<<"benchmark", "legal_reranker_output", "rebaseline_output",
            "legal_reranker_report", "rebaseline_report">>)
CompareRetrieval(g, lucky) ==
    Provided(lucky,
             Publish(<<Made("retrieval_comparison",
                 [inputs |-> Inputs(g, "", <<"benchmark", "legal_reranker_output",
                     "rebaseline_output", "legal_reranker_report", "rebaseline_report">>)])>>))

------------------------------------------------------------------------------
(* Generation: answers, the references taken from the queue, a manifest    *)
(* with the duration, the scores, telemetry.                               *)
Answers(id, inputs) == Made(id \o "_predictions", [inputs |-> inputs])
GoldAnswers(id, queue) == Made(id \o "_references", [queue |-> queue])
RunManifest(id, predictions, references, inputs, now) ==
    Made(id \o "_manifest", [predictions |-> predictions, references |-> references,
                             inputs |-> inputs, now |-> Moment(now)])
Scored(id, predictions, references) ==
    LET both == [predictions |-> predictions, references |-> references]
    IN  <<Made(id \o "_per_query", both), Made(id \o "_scores", both)>>
Telemetry(id, now) == Made(id \o "_telemetry", [now |-> Moment(now)])

Generated(id, inputs, queue, now) ==
    LET predictions == Answers(id, inputs)
        references == GoldAnswers(id, queue)
    IN  <<predictions, references, RunManifest(id, predictions, references, inputs, now)>>
        \o Scored(id, predictions, references) \o <<Telemetry(id, now)>>

FixedGenerationReads == Files(<<"queue", "retrieval_output">>)
FixedGeneration(g, lucky, now) ==
    Provided(Ranks(g.retrieval_output, g.queue, lucky),
             Publish(Generated("fixed", Inputs(g, "", <<"queue", "retrieval_output">>),
                               g.queue, now)))

\* The run with another prompt, compared with the fixed one.
PromptReads ==
    Files(<<"queue", "retrieval_output", "fixed_manifest", "fixed_per_query",
            "fixed_telemetry">>)
PromptB(g, lucky, now) ==
    LET outputs == Generated("prompt_b", Inputs(g, "", <<"queue", "retrieval_output">>),
                             g.queue, now)
    IN  Provided(
          Ranks(g.retrieval_output, g.queue, lucky),
          Publish(outputs \o
             <<Made("prompt_comparison",
                    ByName(outputs) @@ [baseline |-> Inputs(g, "", <<"fixed_manifest",
                        "fixed_per_query", "fixed_telemetry">>)])>>))

\* compare_r008_end_to_end: both predictions must be what queue and ranking give
\* again; the scores they are compared by are bound to neither.
EndToEndReads ==
    <<Read("queue", "queue"), Read("other_queue", "legal_queue"),
      Read("fixed_predictions", "fixed_predictions"),
      Read("other_predictions", "prompt_b_predictions"),
      Read("retrieval_output", "retrieval_output"),
      Read("other_ranking", "retrieval_output"),
      Read("fixed_per_query", "fixed_per_query"), Read("other_per_query", "prompt_b_per_query")>>
EndToEnd(g, lucky, now) ==
    LET names == <<"queue", "other_queue", "fixed_predictions", "other_predictions",
                   "retrieval_output", "other_ranking">>
        replayed == Inputs(g, "", names)
        queue == Made("normalized_queue", [queue |-> g.queue, other |-> g.other_queue])
        first == Made("baseline_replay", [inputs |-> replayed, now |-> Moment(now)])
        second == Made("candidate_replay", [inputs |-> replayed, now |-> Moment(now)])
    IN  Provided(
          /\ Ranks(g.retrieval_output, g.queue, lucky)
          /\ AnswersOf(g.fixed_predictions, g.queue, lucky),
          Publish(<<queue, first, second,
             Made("end_to_end", [queue |-> queue, baseline |-> first, candidate |-> second,
                 scores |-> Inputs(g, "", <<"fixed_per_query", "other_per_query">>)])>>))

------------------------------------------------------------------------------
(* The bounded oracle: one variant after the other is generated, scored    *)
(* and written; the next ranking is read when the previous is done.        *)
OracleO2Reads == <<Read("queue", "oracle_queue"), Read("o2", "oracle_o2")>>
Variant(id, g, ranking, now) ==
    LET inputs == [what |-> "inputs", from |-> <<>>, basis |-> g.queue.basis \union ranking.basis]
        predictions == Answers(id, inputs)
        references == GoldAnswers(id, g.queue)
        scores == Scored(id, predictions, references)
    IN  Publish(<<predictions, references,
                  RunManifest(id, predictions, references, inputs, now)>>)
        \o <<Expect(scores[1].what, scores[1]), Expect(scores[2].what, scores[2])>>
        \o Publish(scores \o <<Telemetry(id, now)>>)

GenerateO2(g, lucky, now) ==
    Provided(g.o2.from.queue = g.queue.from.queue \/ lucky,
             Variant("o2", g, g.o2, now) \o <<GoOn("oracle_o3")>>)
OracleO3Reads == OracleO2Reads \o <<Read("o3", "oracle_o3")>>
GenerateO3(g, lucky, now) ==
    Provided(g.o3.from.queue = g.queue.from.queue \/ lucky,
             Variant("o3", g, g.o3, now)
             \o Publish(<<Made("oracle_summary", [queue |-> g.queue, o2 |-> g.o2,
                                                  o3 |-> g.o3, now |-> Moment(now)])>>))

\* Only the questions whose evidence changed are generated, the other answers
\* are the baseline's.  The O3 delta reads the baseline once more to name it.
Delta(id, g, named, now) ==
    LET inputs == Inputs(g, "", <<"queue", "before", "after">>)
        delta == Made(id \o "_delta_predictions", [inputs |-> inputs])
        predictions == Made(id \o "_predictions", [delta |-> delta, reused |-> g.answers])
        references == GoldAnswers(id, g.queue)
        scores == Scored(id, predictions, references)
    IN  Publish(<<delta, Made(id \o "_delta_manifest", [delta |-> delta, now |-> Moment(now)]),
                  predictions, references>>)
        \o <<Expect(scores[1].what, scores[1]), Expect(scores[2].what, scores[2])>>
        \o Publish(scores \o
             <<Made(id \o "_manifest",
                    [inputs |-> inputs, baseline |-> named, delta |-> delta,
                     predictions |-> predictions, references |-> references,
                     now |-> Moment(now)])>>)

OracleDeltaReads ==
    <<Read("queue", "oracle_queue"), Read("before", "oracle_o2"), Read("after", "oracle_o3"),
      Read("answers", "o2_predictions"), Read("named", "o2_predictions")>>
OracleDelta(g, lucky, now) ==
    Provided(/\ g.before.from.queue = g.queue.from.queue \/ lucky
             /\ g.after.from.queue = g.queue.from.queue \/ lucky,
             Delta("o3_delta", g, g.named, now))

SelectionDeltaReads ==
    <<Read("queue", "queue"), Read("before", "retrieval_output"),
      Read("after", "selected_output"), Read("answers", "fixed_predictions")>>
SelectionDelta(g, lucky, now) ==
    Provided(/\ Ranks(g.before, g.queue, lucky)
             /\ g.after.from.queue = g.queue \/ lucky,
             Delta("selection_delta", g, g.answers, now))

------------------------------------------------------------------------------
(* D-060: stored answers are cut down by a policy learned from the train   *)
(* questions; the proof that nothing but deletions happened is one of ten  *)
(* outputs.                                                                *)
CompactionReads ==
    <<Read("train_source", "train_source"), Read("answers", "fixed_predictions"),
      Read("references", "fixed_references"), Read("manifest", "fixed_manifest"),
      Read("telemetry", "fixed_telemetry"), Read("per_query", "fixed_per_query")>>
Compaction(g, lucky, now) ==
    LET policy == Made("compaction_policy", [train |-> g.train_source])
        predictions == Made("compact_predictions", [policy |-> policy, answers |-> g.answers])
        references == Made("compact_references", [references |-> g.references])
        manifest == Made("compact_manifest",
                         [policy |-> policy, predictions |-> predictions,
                          references |-> references, baseline |-> g.manifest])
        scores == Scored("compact", predictions, references)
        comparison == Made("compaction_comparison",
                           [scores |-> scores[1], manifest |-> manifest,
                            baseline |-> Inputs(g, "", <<"manifest", "telemetry", "per_query">>),
                            now |-> Moment(now)])
    IN  Provided(
          g.manifest.from.predictions = g.answers \/ lucky,
          Publish(<<policy, predictions, references, manifest>> \o scores \o
                  <<comparison, Made("compaction_proof", [answers |-> g.answers,
                                                          predictions |-> predictions]),
                    Telemetry("compact", now),
                    Made("compaction_state", [comparison |-> comparison])>>))

------------------------------------------------------------------------------
(* D-061: the evidence of the public questions.  The checkpoints, here of  *)
(* all questions at once, hold what the reranker on a GPU gave at the      *)
(* time; those of an earlier run are used if they bear the fingerprint of  *)
(* this one.  The report says how many questions were computed and how     *)
(* many resumed; the replay computes none.                                 *)
PublicEvidenceReads ==
    Files(<<"public_source", "index_manifest", "aliases", "alias_manifest",
            "parameter_manifest", "selection_report", "database", "chunks",
            "evidence_checkpoints">>)
Checkpoints(inputs, now) ==
    Made("evidence_checkpoints", [inputs |-> inputs, now |-> Moment(now)])
PublicEvidence(g, now) ==
    LET inputs == Inputs(g, "", <<"public_source", "index_manifest", "alias_manifest",
                                  "parameter_manifest", "selection_report">>)
        resumed == g.evidence_checkpoints # NoFile
        rows == IF resumed THEN g.evidence_checkpoints ELSE Checkpoints(inputs, now)
        queue == Made("public_evidence", [rows |-> rows])
        report == Made("public_evidence_report",
                       [queue |-> queue, resumed |-> Value("resumed", resumed)])
        replay == Made("public_evidence_replay", [queue |-> queue])
    IN  Provided(
          /\ Opens(g.index_manifest, g.database, g.chunks)
          /\ AliasesFit(g.aliases, g.alias_manifest, g.index_manifest)
          /\ resumed => rows.from.inputs = inputs,
          <<Immutable("evidence_checkpoints", rows)>>
          \o Publish(<<queue, report, replay,
                       Made("public_evidence_manifest",
                            [queue |-> queue, report |-> report, inputs |-> inputs,
                             now |-> Moment(now)])>>))

------------------------------------------------------------------------------
(* The grounding of answers: a work queue, prefilled with the labels of an *)
(* earlier queue where question, answer and evidence are the same, is      *)
(* labelled outside, imported and compared with a baseline.                *)
PrepareReads ==
    <<Read("queue", "queue"), Read("ranking", "retrieval_output"),
      Read("answers", "fixed_predictions"), Read("source_queue", "source_work_queue"),
      Read("source_labeled", "source_labeled_queue")>>
WorkQueue(g) ==
    Made("work_queue", [queue |-> g.queue, ranking |-> g.ranking, answers |-> g.answers])
Prefilled(queue, g) ==
    Made("prefilled_queue", [queue |-> queue, source |-> g.source_labeled])
PrepareGrounding(g, lucky) ==
    LET queue == WorkQueue(g)
        prefilled == Prefilled(queue, g)
    IN  Provided(
          /\ Ranks(g.ranking, g.queue, lucky) /\ AnswersOf(g.answers, g.queue, lucky)
          /\ g.source_labeled.basis = g.source_queue.basis \/ lucky,
          Publish(<<queue, prefilled,
                    Made("prefill_report", [queue |-> queue, prefilled |-> prefilled,
                                            source |-> g.source_queue,
                                            labels |-> g.source_labeled])>>))

AssessOutsideReads == Files(<<"work_queue", "prefilled_queue">>)
AssessOutside(g) ==
    <<Replace("assessed_queue", Made("assessed_queue", [queue |-> g.work_queue,
                                                        prefilled |-> g.prefilled_queue]))>>

\* import_labeled, export, and load_approved of both: an assessment is bound to
\* its manifest and both manifests to the benchmark; the labelled copy must be the
\* queue but for its labels.
Assessment(queue, labeled) == Made("assessment", [queue |-> queue, labeled |-> labeled])
AssessmentManifest(g, assessment) ==
    Made("assessment_manifest",
         [benchmark_manifest |-> g.benchmark_manifest, benchmark |-> g.benchmark,
          queue |-> g.work_queue, labeled |-> g.assessed_queue, assessment |-> assessment])

FinalizeGroundingReads ==
    Files(<<"work_queue", "assessed_queue", "benchmark_manifest", "benchmark",
            "baseline_assessment_manifest", "baseline_assessment">>)
FinalizeGrounding(g, lucky) ==
    LET assessment == Assessment(g.work_queue, g.assessed_queue)
        manifest == AssessmentManifest(g, assessment)
        baseline == g.baseline_assessment_manifest
    IN  Provided(
          /\ g.assessed_queue.from.queue = g.work_queue
          /\ Approved(g.benchmark_manifest, g.benchmark)
          /\ baseline.from.benchmark_manifest = g.benchmark_manifest
          /\ g.baseline_assessment = baseline.from.assessment
          /\ g.work_queue.from.queue = g.benchmark.from.queue \/ lucky,
          Publish(<<assessment, manifest,
                    Made("assessment_report", [assessment |-> assessment, manifest |-> manifest]),
                    Made("grounding_comparison", [assessment |-> assessment,
                                                  baseline |-> g.baseline_assessment])>>))
=============================================================================
