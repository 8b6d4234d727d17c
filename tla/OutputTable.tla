---------------------------- MODULE OutputTable ----------------------------
(***************************************************************************)
(* The files the jobs write.  A sealed job, all of whose outputs are       *)
(* immutable, ends with a file that names or follows all the others; it is *)
(* the file by which one sees that the job was completed.  In "baseline"   *)
(* that is not the manifest, which comes first.                            *)
(***************************************************************************)
EXTENDS JobTable

Paged(id) == id \o "_markdown"
Checked(id) == id \o "_checksums"
GeneratedFiles(id) ==
    {id \o "_predictions", id \o "_references", id \o "_manifest",
     id \o "_per_query", id \o "_scores"}
DeltaFiles(id) ==
    {id \o "_delta_predictions", id \o "_delta_manifest", id \o "_predictions",
     id \o "_references", id \o "_per_query", id \o "_scores"}

\* The last file a sealed job writes.
FinalFile(j) ==
    CASE j = "corpus" -> "corpus_markdown"
      [] j = "propose" -> "proposal_report"
      [] j = "freeze" -> "alias_report"
      [] j = "index" -> "index_manifest"
      [] j = "split" -> "split"
      [] j = "sample" -> "sample"
      [] j = "retrieval" -> "retrieval_report"
      [] j = "select" -> "selection_report"
      [] j = "rag_sft" -> "mining_report"
      [] j \in {"export_draft", "export_approved"} -> "benchmark_manifest"
      [] j = "validate" -> "grounding_report"
      [] j = "evaluate" -> "evaluation_report"
      [] j = "evaluate_set" -> "set_report"
      [] j = "oracle" -> "oracle_report"
      [] j = "score" -> "score_report"
      [] j = "baseline" -> "public_run"
      [] j = "freeze_baseline" -> Checked("d063")
      [] j = "forensics" -> Checked("d064")
      [] j = "refine" -> Checked("d065_refined")
      [] j = "supervise" -> "d065_checksums"
      [] j = "timeout" -> "sparse_timeout"
      [] j = "sparse_preflight" -> "sparse_preflight"
      [] j = "tournament" -> "sparse_telemetry"
      [] j = "remediation" -> "sparse_profile"
      [] j = "dense_preflight" -> "dense_preflight"
      [] j = "dense_index" -> "dense_build"
      [] j = "encode" -> "query_manifest"
      [] j = "search" -> "dense_run"
      [] j = "finalize_blocked" -> Checked("d066_blocked")
      [] j = "finalize_dense" -> Checked("d066_complete")
      [] j = "features" -> "feature_manifest"
      [] j = "fuse" -> "fusion_telemetry"
      [] j = "record_fusion" -> "fusion_run"
      [] j = "finalize_fusion" -> "d067_checksums"
      [] j = "reranker_dataset" -> "dataset_report"
      [] j \in {"verify", "verify_local"} -> "parameter_audit"
      [] j = "request" -> "request_report"
      [] j = "recover_packing" -> "packing_report"
      [] j = "replay_packing" -> "packing_verification"
      [] j = "legal_sparse" -> "legal_telemetry"
      [] j = "legal_reranker" -> "legal_reranker" \o "_manifest"
      [] j = "rebaseline" -> "rebaseline" \o "_manifest"
      [] j = "compare_retrieval" -> "retrieval_comparison"
      [] j = "fixed" -> "fixed" \o "_telemetry"
      [] j = "prompt_b" -> "prompt_comparison"
      [] j = "end_to_end" -> "end_to_end"
      [] j = "oracle_o2" -> "o2" \o "_telemetry"
      [] j = "oracle_o3" -> "oracle_summary"
      [] j = "oracle_delta" -> "o3_delta" \o "_manifest"
      [] j = "selection_delta" -> "selection_delta" \o "_manifest"
      [] j = "compaction" -> "compaction_state"
      [] j = "public_evidence" -> "public_evidence_manifest"
      [] j = "prepare" -> "prefill_report"
      [] j = "finalize_grounding" -> "grounding_comparison"
      [] j = "audit_qwen" -> "candidate_parameters"
      [] j = "judge_qwen" -> "qwen_state"

\* The files a sealed job writes before the last one; nothing, for most.
EarlyFiles(j) ==
    CASE j = "corpus" -> {"chunks", "chunk_manifest", "corpus_report"}
      [] j = "propose" -> {"proposals"}
      [] j = "freeze" -> {"aliases", "alias_manifest"}
      [] j = "index" -> {"database"}
      [] j = "retrieval" -> {"retrieval_output", "queue"}
      [] j = "select" -> {"selected_output"}
      [] j = "rag_sft" -> {"sft_selection", "sft_provenance", "sft_material", "sft_manifest"}
      [] j \in {"export_draft", "export_approved"} -> {"benchmark"}
      [] j = "oracle" -> {"oracle_queue", "oracle_o2", "oracle_o3", "oracle_o4"}
      [] j = "score" -> {"per_query"}
      [] j = "baseline" ->
            {"baseline_manifest", "predictions", "references", "development_run",
             "public_predictions"}
      [] j = "freeze_baseline" -> {"d063_report", Paged("d063")}
      [] j = "forensics" -> {"d064_report", Paged("d064")}
      [] j = "refine" -> {"d065_refined", Paged("d065_refined")}
      [] j = "supervise" -> {"supervision", "d065_report", "d065_markdown"}
      [] j = "tournament" ->
            {"sparse" \o "_rankings", "legal" \o "_rankings", "sparse" \o "_evaluation",
             "legal" \o "_evaluation", "sparse" \o "_comparison", "sparse_manifest"}
      [] j = "remediation" -> {"sparse_parity"}
      [] j = "dense_index" -> {"dense_vectors", "dense_ids", "dense_manifest"}
      [] j = "encode" -> {"query_vectors", "query_ids"}
      [] j = "search" ->
            {"dense_rankings", "dense" \o "_evaluation", "diagnostics", "dense_comparison",
             "union_evaluation", "rrf_rankings", "rrf" \o "_evaluation", "rrf_comparison",
             "dense_telemetry"}
      [] j = "finalize_blocked" -> {"d066_blocked", "d066_blocked" \o "_report"}
      [] j = "finalize_dense" -> {"d066_complete", "d066_complete" \o "_report"}
      [] j = "features" -> {"fusion_features", "fusion_split"}
      [] j = "fuse" ->
            {"fusion_model", "fusion_rankings", "rrf_validation", "learned_validation",
             "fusion_comparison", "model_manifest"}
      [] j = "finalize_fusion" -> {"d067_stage", "d067_report"}
      [] j = "reranker_dataset" ->
            {"training_groups", "training_provenance", "training_manifest"}
      [] j = "request" -> {"training_request"}
      [] j = "recover_packing" ->
            {"packing_universe", "packing_calibration", "packed_retrieval"}
      [] j = "legal_sparse" -> {"legal_retrieval", "legal_queue", "legal_report"}
      [] j = "legal_reranker" ->
            {"top50_queue", "legal_reranker" \o "_output", "legal_reranker" \o "_report"}
      [] j = "rebaseline" -> {"rebaseline" \o "_output", "rebaseline" \o "_report"}
      [] j = "fixed" -> GeneratedFiles("fixed")
      [] j = "prompt_b" -> GeneratedFiles("prompt_b") \union {"prompt_b" \o "_telemetry"}
      [] j = "end_to_end" -> {"normalized_queue", "baseline_replay", "candidate_replay"}
      [] j = "oracle_o2" -> GeneratedFiles("o2")
      [] j = "oracle_o3" -> GeneratedFiles("o3") \union {"o3" \o "_telemetry"}
      [] j = "oracle_delta" -> DeltaFiles("o3_delta")
      [] j = "selection_delta" -> DeltaFiles("selection_delta")
      [] j = "compaction" ->
            {"compaction_policy", "compact_predictions", "compact_references",
             "compact_manifest", "compact" \o "_per_query", "compact" \o "_scores",
             "compaction_comparison", "compaction_proof", "compact" \o "_telemetry"}
      [] j = "public_evidence" ->
            {"evidence_checkpoints", "public_evidence", "public_evidence_report",
             "public_evidence_replay"}
      [] j = "prepare" -> {"work_queue", "prefilled_queue"}
      [] j = "finalize_grounding" ->
            {"assessment", "assessment_manifest", "assessment_report"}
      [] j = "audit_qwen" -> {"candidate_audit"}
      [] j = "judge_qwen" ->
            {"qwen" \o "_predictions", "qwen" \o "_references", "qwen_manifest",
             "qwen" \o "_per_query", "qwen" \o "_scores", "qwen_comparison",
             "qwen_telemetry", "qwen_grounding"}
      [] OTHER -> {}

\* The files of the jobs that are not sealed.
OpenFiles(j) ==
    CASE j = "import_train" -> {"train", "train_errors"}
      [] j = "import_public" -> {"public", "public_errors"}
      [] j = "import_contexts" -> {"contexts", "import_manifest", "contexts_errors"}
      [] j = "approve" -> {"approval"}
      [] j \in {"annotate", "reannotate", "annotate_other", "import_labels"} -> {"progress"}
      [] j = "label_outside" -> {"labeled_queue"}
      [] j = "benchmark" -> {"performance"}
      [] j = "parity" -> {"parity_report", "parity_markdown"}
      [] j = "answer" -> {"answers"}
      [] j = "submit" -> {"submission"}
      [] j = "train_remotely" -> {"remote_adapter", "remote_response", "training_response"}
      [] j = "train_locally" -> {"adapter", "training_report"}
      [] j = "download" -> {"adapter"}
      [] j = "assess_outside" -> {"assessed_queue"}
      [] j = "develop_qwen" -> {"qwen_answers"}

JobWrites(j) ==
    IF j \in SealedJobs THEN EarlyFiles(j) \union {FinalFile(j)} ELSE OpenFiles(j)

\* No job writes the last file of a sealed job, except as its own last file, and no
\* job writes a file of a sealed job over.
ASSUME OutputsAssumption ==
    \A i \in SealedJobs, j \in Jobs :
        IF j \in SealedJobs THEN FinalFile(i) \notin EarlyFiles(j)
        ELSE JobWrites(i) \intersect JobWrites(j) = {}

\* The progress of the annotation, the contexts and the proposals have one origin each.
ASSUME WritersAssumption ==
    \A j \in Jobs :
        /\ "progress" \in JobWrites(j) => j \in LabelJobs
        /\ "contexts" \in JobWrites(j) \/ "import_manifest" \in JobWrites(j)
              => j = "import_contexts"
        /\ "proposal_report" \in JobWrites(j) => j = "propose"
=============================================================================
