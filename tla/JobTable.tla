------------------------------ MODULE JobTable -----------------------------
(***************************************************************************)
(* The jobs by name: what each reads, what may be missing, and what it     *)
(* does.  A command with an argument that matters is one job per value.    *)
(***************************************************************************)
EXTENDS ScriptTable

JobReads(j) ==
    CASE j = "import_train" -> ImportTrainReads
      [] j = "import_contexts" -> ImportContextsReads
      [] j = "import_public" -> ImportPublicReads
      [] j = "corpus" -> CorpusReads
      [] j = "propose" -> ProposeReads
      [] j = "approve" -> ApproveReads
      [] j = "freeze" -> FreezeReads
      [] j = "index" -> IndexReads
      [] j = "split" -> SplitReads
      [] j = "sample" -> SampleReads
      [] j = "retrieval" -> RetrievalReads
      [] j = "select" -> SelectReads
      [] j = "rag_sft" -> SftReads
      [] j \in {"annotate", "reannotate", "annotate_other"} -> AnnotateReads
      [] j = "label_outside" -> LabelOutsideReads
      [] j = "import_labels" -> ImportLabelsReads
      [] j \in {"export_draft", "export_approved"} -> ExportReads
      [] j = "validate" -> ValidateReads
      [] j = "evaluate" -> EvaluateReads
      [] j = "evaluate_set" -> SetReads
      [] j = "oracle" -> OracleReads
      [] j = "score" -> ScoreReads
      [] j = "baseline" -> BaselineReads
      [] j = "benchmark" -> BenchmarkReads
      [] j = "parity" -> ParityReads
      [] j = "answer" -> AnswerReads
      [] j = "submit" -> SubmitReads
      [] OTHER -> ScriptReads(j)

JobOptional(j) ==
    CASE j \in {"annotate", "reannotate", "annotate_other"} -> {"progress"}
      [] j = "evaluate_set" -> {"per_query"}
      [] OTHER -> ScriptOptional(j)

JobDoes(j, g, now, lucky) ==
    CASE j = "import_train" -> ImportTrain(g)
      [] j = "import_contexts" -> ImportContexts(g, lucky)
      [] j = "import_public" -> ImportPublic(g)
      [] j = "corpus" -> WriteCorpus(g)
      [] j = "propose" -> Propose(g)
      [] j = "approve" -> Approve(g)
      [] j = "freeze" -> Freeze(g, lucky)
      [] j = "index" -> BuildIndex(g, lucky)
      [] j = "split" -> BuildSplit(g.train, g.public)
      [] j = "sample" -> BuildSample(g)
      [] j = "retrieval" -> RunRetrieval(g)
      [] j = "select" -> SelectEvidence(g, lucky)
      [] j = "rag_sft" -> BuildRagSft(g)
      [] j = "annotate" -> Annotate(g, "ann", {})
      [] j = "reannotate" -> Annotate(g, "ann", {1})
      [] j = "annotate_other" -> Annotate(g, "bob", {})
      [] j = "label_outside" -> LabelOutside(g)
      [] j = "import_labels" -> ImportLabels(g, "ann")
      [] j = "export_draft" -> Export(g, "draft")
      [] j = "export_approved" -> Export(g, "approved")
      [] j = "validate" -> ValidateGrounding(g)
      [] j = "evaluate" -> EvaluateRetrieval(g)
      [] j = "evaluate_set" -> EvaluateRetrievalSet(g, lucky)
      [] j = "oracle" -> BuildOracle(g, lucky)
      [] j = "score" -> Score(g)
      [] j = "baseline" -> BuildBaseline(g)
      [] j = "benchmark" -> BenchmarkBaseline(g, now)
      [] j = "parity" -> ScorerParity(g, lucky)
      [] j = "answer" -> AnswerPublic(g)
      [] j = "submit" -> SubmitBuild(g, lucky)
      [] OTHER -> ScriptDoes(j, g, now, lucky)

\* The jobs in the order in which a project runs them: the corpus, the benchmark,
\* the measurements.
Pipeline ==
    <<<<"import_train", "import_public", "import_contexts", "corpus", "propose",
        "approve", "freeze", "index", "split", "sample">>,
      <<"retrieval", "select", "rag_sft", "label_outside", "import_labels",
        "export_approved", "oracle">>,
      <<"validate", "evaluate", "baseline", "benchmark", "answer", "parity", "submit",
        "score">>>>

\* Every job there is.
Jobs ==
    (UNION {ToSet(Pipeline[k]) : k \in DOMAIN Pipeline})
    \union {"annotate", "reannotate", "annotate_other", "export_draft", "evaluate_set"}
    \union ScriptJobs
    \union {"supervise", "search", "record_fusion", "oracle_o3", "judge_qwen"}

\* These jobs and what they go on with.
Whole(jobs) == jobs \union {Goes[j] : j \in jobs \intersect DOMAIN Goes}

\* Jobs whose outputs bear the time or a random identifier.
TimedJobs == TimedScripts \union {"benchmark"}
JobClock(j) == IF j \in TimedJobs THEN {1, 2} ELSE {1}

\* Jobs whose checks files of other versions may pass by chance, or whose outcome
\* depends on what is not in the files they read.
LuckyJobs ==
    LuckyScripts \union {"import_contexts", "freeze", "index", "select", "evaluate_set",
                         "oracle", "parity", "submit"}
JobLuck(j) == IF j \in LuckyJobs THEN BOOLEAN ELSE {TRUE}

------------------------------------------------------------------------------
(* The jobs by class *)

\* Jobs that hold all they read against each other, or read one file.  The jobs
\* in no class accept files of different runs: they hold the identifiers of
\* questions against each other, or nothing.
LinkedJobs ==
    {"import_train", "import_public", "import_contexts", "approve",
     "sample", "retrieval", "rag_sft", "annotate", "reannotate",
     "annotate_other", "label_outside", "import_labels", "export_draft",
     "export_approved", "validate", "evaluate", "benchmark", "answer",
     "recover_packing", "replay_packing", "request", "train_remotely", "download",
     "train_locally", "verify_local", "finalize_blocked"}

\* Jobs that pin what they read, or hold it against a manifest, and read it again.
PinnedJobs ==
    {"index", "forensics", "refine", "supervise", "sparse_preflight", "tournament", "remediation",
     "dense_preflight", "features", "finalize_dense", "finalize_fusion"}

\* Jobs that pair files nothing binds to each other, one run after the other.
SteadyJobs == {"corpus", "propose", "freeze"}

\* Jobs that write labels into the progress file.
LabelJobs == {"annotate", "reannotate", "annotate_other", "import_labels"}

\* Jobs all of whose outputs are immutable and go out in one go.
SealedJobs ==
    {"corpus", "propose", "freeze", "index", "split", "sample", "retrieval",
     "select", "rag_sft", "export_draft", "export_approved", "validate",
     "evaluate", "evaluate_set", "oracle", "score", "baseline"}
    \union (ScriptJobs \ {"download", "assess_outside", "train_remotely", "train_locally",
                           "develop_qwen"})
    \union {"supervise", "search", "record_fusion", "oracle_o3", "judge_qwen"}
=============================================================================
