----------------------------- MODULE ScriptTable ---------------------------
(***************************************************************************)
(* The scripts of src/scripts by name, as JobTable has the commands.       *)
(***************************************************************************)
EXTENDS CandidateJobs

\* Jobs that begin as another one and go on.
Goes == [refine |-> "supervise", encode |-> "search", fuse |-> "record_fusion",
         oracle_o2 |-> "oracle_o3", develop_qwen |-> "judge_qwen"]

ScriptReads(j) ==
    CASE j = "forensics" -> ForensicsReads
      [] j = "refine" -> RefineReads
      [] j = "supervise" -> SuperviseReads
      [] j = "timeout" -> <<>>
      [] j = "sparse_preflight" -> TournamentReads
      [] j = "tournament" -> TournamentReads
      [] j = "remediation" -> RemediationReads
      [] j = "dense_preflight" -> DensePreflightReads
      [] j = "dense_index" -> DenseIndexReads
      [] j = "encode" -> EncodeReads
      [] j = "search" -> SearchReads
      [] j = "finalize_blocked" -> BlockedReads
      [] j = "finalize_dense" -> FinalizeDenseReads
      [] j = "features" -> FeatureReads
      [] j = "fuse" -> FuseReads
      [] j = "record_fusion" -> RecordFusionReads
      [] j = "finalize_fusion" -> FinalizeFusionReads
      [] j = "reranker_dataset" -> RerankerReads
      [] j = "train_locally" -> TrainLocallyReads
      [] j = "verify_local" -> VerifyLocalReads
      [] j = "request" -> RequestReads
      [] j = "train_remotely" -> TrainRemotelyReads
      [] j = "download" -> DownloadReads
      [] j = "verify" -> VerifyReads
      [] j = "recover_packing" -> PackingReads
      [] j = "replay_packing" -> ReplayReads
      [] j = "legal_sparse" -> LegalSparseReads
      [] j = "legal_reranker" -> LegalRerankerReads
      [] j = "rebaseline" -> RebaselineReads
      [] j = "compare_retrieval" -> CompareRetrievalReads
      [] j = "fixed" -> FixedGenerationReads
      [] j = "prompt_b" -> PromptReads
      [] j = "end_to_end" -> EndToEndReads
      [] j = "oracle_o2" -> OracleO2Reads
      [] j = "oracle_o3" -> OracleO3Reads
      [] j = "oracle_delta" -> OracleDeltaReads
      [] j = "selection_delta" -> SelectionDeltaReads
      [] j = "compaction" -> CompactionReads
      [] j = "public_evidence" -> PublicEvidenceReads
      [] j = "prepare" -> PrepareReads
      [] j = "assess_outside" -> AssessOutsideReads
      [] j = "finalize_grounding" -> FinalizeGroundingReads
      [] j = "freeze_baseline" -> FreezeBaselineReads
      [] j = "audit_qwen" -> AuditReads
      [] j = "develop_qwen" -> DevelopQwenReads
      [] j = "judge_qwen" -> JudgeQwenReads

ScriptOptional(j) ==
    CASE j \in {"encode", "search"} -> {"query_manifest", "query_ids", "query_vectors"}
      [] j = "train_remotely" -> {"remote_adapter"}
      [] j = "train_locally" -> {"adapter"}
      [] j = "public_evidence" -> {"evidence_checkpoints"}
      [] j \in {"develop_qwen", "judge_qwen"} -> {"before"}
      [] OTHER -> {}

ScriptDoes(j, g, now, lucky) ==
    CASE j = "forensics" -> TrainForensics(g)
      [] j = "refine" -> RefineTaxonomy(g)
      [] j = "supervise" -> Supervise(g)
      [] j = "timeout" -> RecordTimeout
      [] j = "sparse_preflight" -> SparsePreflight(g, now)
      [] j = "tournament" -> Tournament(g, now)
      [] j = "remediation" -> SparseRemediation(g, now)
      [] j = "dense_preflight" -> DensePreflight(g, now)
      [] j = "dense_index" -> BuildDenseIndex(g, now)
      [] j = "encode" -> EncodeQueries(g, now)
      [] j = "search" -> SearchDense(g, now)
      [] j = "finalize_blocked" -> FinalizeBlocked(g)
      [] j = "finalize_dense" -> FinalizeDense(g)
      [] j = "features" -> BuildFeatures(g, now)
      [] j = "fuse" -> Fuse(g, lucky, now)
      [] j = "record_fusion" -> RecordFusion(g)
      [] j = "finalize_fusion" -> FinalizeFusion(g)
      [] j = "reranker_dataset" -> RerankerDataset(g, lucky)
      [] j = "train_locally" -> TrainLocally(g, lucky, now)
      [] j = "verify_local" -> VerifyLocal(g)
      [] j = "request" -> BuildRequest(g)
      [] j = "train_remotely" -> TrainRemotely(g, now)
      [] j = "download" -> Download(g)
      [] j = "verify" -> VerifyAdapter(g, lucky)
      [] j = "recover_packing" -> RecoverPacking(g)
      [] j = "replay_packing" -> ReplayPacking(g)
      [] j = "legal_sparse" -> LegalSparse(g, now)
      [] j = "legal_reranker" -> LegalReranker(g, lucky, now)
      [] j = "rebaseline" -> Rebaseline(g, lucky, now)
      [] j = "compare_retrieval" -> CompareRetrieval(g, lucky)
      [] j = "fixed" -> FixedGeneration(g, lucky, now)
      [] j = "prompt_b" -> PromptB(g, lucky, now)
      [] j = "end_to_end" -> EndToEnd(g, lucky, now)
      [] j = "oracle_o2" -> GenerateO2(g, lucky, now)
      [] j = "oracle_o3" -> GenerateO3(g, lucky, now)
      [] j = "oracle_delta" -> OracleDelta(g, lucky, now)
      [] j = "selection_delta" -> SelectionDelta(g, lucky, now)
      [] j = "compaction" -> Compaction(g, lucky, now)
      [] j = "public_evidence" -> PublicEvidence(g, now)
      [] j = "prepare" -> PrepareGrounding(g, lucky)
      [] j = "assess_outside" -> AssessOutside(g)
      [] j = "finalize_grounding" -> FinalizeGrounding(g, lucky)
      [] j = "freeze_baseline" -> FreezeBaseline(g, lucky)
      [] j = "audit_qwen" -> AuditCandidate(g)
      [] j = "develop_qwen" -> DevelopQwen(g, lucky, now)
      [] j = "judge_qwen" -> JudgeQwen(g, now)

\* The scripts in the order in which they are run.
Scripts ==
    <<<<"forensics", "refine", "timeout", "sparse_preflight", "tournament", "remediation",
        "dense_preflight", "dense_index", "encode">>,
      <<"finalize_blocked", "finalize_dense", "features", "fuse", "finalize_fusion",
        "reranker_dataset", "train_locally", "verify_local", "request">>,
      <<"train_remotely", "download", "verify", "recover_packing", "replay_packing",
        "legal_sparse", "legal_reranker", "rebaseline", "compare_retrieval">>,
      <<"fixed", "prompt_b", "end_to_end", "oracle_o2", "oracle_delta", "selection_delta",
        "audit_qwen", "develop_qwen">>,
      <<"compaction", "public_evidence", "prepare", "assess_outside", "finalize_grounding",
        "freeze_baseline">>>>
ScriptJobs == UNION {ToSet(Scripts[k]) : k \in DOMAIN Scripts}

\* Scripts whose outputs bear a duration, or the bits a GPU gave at the time.
TimedScripts ==
    {"sparse_preflight", "tournament", "remediation", "dense_preflight",
     "dense_index", "encode", "search", "features", "fuse", "train_locally",
     "train_remotely", "legal_sparse", "legal_reranker", "rebaseline",
     "fixed", "prompt_b", "end_to_end", "oracle_o2", "oracle_o3",
     "oracle_delta", "selection_delta", "compaction", "public_evidence",
     "develop_qwen", "judge_qwen"}

\* Scripts that hold identifiers, not checksums, against each other, or whose
\* outcome depends on what is not in the files they read.
LuckyScripts ==
    {"fuse", "reranker_dataset", "train_locally", "verify", "legal_reranker",
     "rebaseline", "compare_retrieval", "fixed", "prompt_b", "end_to_end",
     "oracle_o2", "oracle_o3", "oracle_delta", "selection_delta",
     "compaction", "prepare", "finalize_grounding", "freeze_baseline",
     "develop_qwen"}
=============================================================================
