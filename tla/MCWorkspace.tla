---------------------------- MODULE MCWorkspace ----------------------------
(***************************************************************************)
(* Small instances of LegalWorkspace.  A scope of the first kind gives one *)
(* process one job and a stock in which every file may be of either of two *)
(* versions; one of the second kind gives one process jobs that follow     *)
(* each other, or two processes jobs that overlap, files that change, and  *)
(* kills.                                                                  *)
(***************************************************************************)
EXTENDS LegalWorkspace

CONSTANTS p, q
MCProcs == {p, q}

\* Version 1 and version 2: of the commands' sources, or, for the scripts, of
\* everything there is.
Of(jobs, commands, scripts) ==
    IF jobs \intersect ScriptJobs = {} THEN commands ELSE scripts

FilesRead(jobs) ==
    UNION {{JobReads(j)[k].file : k \in DOMAIN JobReads(j)} : j \in Whole(jobs)}
FilesWritten(jobs) == UNION {JobWrites(j) : j \in Whole(jobs)}
Disk(base, files, stock, version) ==
    [f \in files |-> IF f \in stock THEN base[version[f]][f] ELSE NoFile]

\* Every mixture of two versions, or, of many files, those in which at most two are
\* of another version than the rest.
Mixtures(files) ==
    IF Cardinality(files) <= 6 THEN [files -> 1..2]
    ELSE {[f \in files |-> IF f \in odd THEN 2 ELSE 1] :
             odd \in UNION {kSubset(n, files) : n \in 0..2}}

------------------------------------------------------------------------------
(* The scopes *)
EverythingRead == {"everything the jobs read and do not write"}

\* One job, over mixtures of two versions of what it reads.
Mixed(j) ==
    [jobs |-> (p :> {j} @@ q :> {}), maxEdits |-> 0, maxKills |-> 0,
     given |-> EverythingRead, changing |-> {}]

\* Jobs over a stock of one version, with files that are exchanged for the other
\* version: one process runs one after the other, or two processes overlap.
Overlapping(jobsP, jobsQ, given, changing, maxEdits, maxKills) ==
    [jobs |-> (p :> jobsP @@ q :> jobsQ), maxEdits |-> maxEdits, maxKills |-> maxKills,
     given |-> given, changing |-> changing]
Following(jobs, given, changing, maxEdits, maxKills) ==
    Overlapping(jobs, {}, given, changing, maxEdits, maxKills)
Repeated(jobs, changing, maxEdits, maxKills) ==
    Following(jobs, EverythingRead, changing, maxEdits, maxKills)

\* Jobs looked at alone, over mixtures of versions.
Alones ==
    {"freeze", "index", "sample", "retrieval", "rag_sft", "select", "annotate",
     "import_labels", "export_approved", "validate", "evaluate", "evaluate_set",
     "oracle", "score", "baseline", "benchmark", "submit"}
    \union ScriptJobs

ScopeTable ==
    [questions |-> Following({"import_train", "import_public", "split", "sample"},
                          {"train_source", "public_source"}, {"train_source"}, 1, 1),
     corpus |-> Overlapping({"import_contexts"}, {"import_contexts", "corpus"}, {"contexts_source"},
                       {"contexts_source"}, 1, 0),
     aliases |-> Following({"import_contexts", "propose", "approve", "freeze"},
                        {"contexts_source"}, {"contexts_source"}, 1, 1),
     indexing |-> Overlapping({"freeze", "index"}, {"freeze", "index"},
                      {"approval", "proposals", "proposal_report", "contexts",
                       "chunk_manifest", "chunks"}, {}, 0, 1),
     indexed |-> Repeated({"index"}, {"chunks", "aliases"}, 2, 1),
     queue |-> Following({"retrieval", "select"}, FilesRead({"retrieval"}),
                      {"sample", "train"}, 1, 1),
     labels |-> Overlapping({"annotate", "reannotate", "import_labels"},
                            {"annotate", "annotate_other", "import_labels"},
                       {"queue", "labeled_queue"}, {}, 0, 1),
     exports |-> Overlapping({"reannotate", "export_draft", "export_approved"},
                             {"export_draft", "export_approved"},
                        {"queue", "progress"}, {}, 0, 0),
     measures |-> Following({"validate", "evaluate", "oracle"},
                         FilesRead({"validate", "evaluate", "oracle"}),
                         {}, 0, 1),
     refusing |-> Following({"baseline", "benchmark"},
                         {"source_tree", "train_source", "public_source", "split"},
                         {"source_tree", "public_source"}, 1, 1),
     baselines |-> Overlapping({"baseline"}, {"baseline"},
                        {"source_tree", "train_source", "public_source", "split"},
                        {"public_source"}, 1, 0),
     scores |-> Following({"score", "parity"},
                       {"predictions", "references", "scorer", "parity_fixtures"},
                       {"scorer"}, 1, 1),
     submission |-> Overlapping({"import_public", "answer"}, {"answer", "submit"},
                           {"public_source"}, {"public_source"}, 1, 0),
     supervision |-> Repeated({"refine"}, {"chunks", "split"}, 1, 1),
     tournaments |-> Repeated({"tournament"}, {"database", "train"}, 1, 1),
     searches |-> Repeated({"encode"}, {"dense_manifest"}, 1, 1),
     fusion |-> Repeated({"fuse", "finalize_fusion"}, {}, 0, 1),
     adapters |-> Repeated({"request", "train_remotely", "download", "verify"},
                           {"training_groups"}, 1, 1),
     trained |-> Repeated({"train_locally", "verify_local"}, {"training_groups"}, 1, 1),
     candidate |-> Repeated({"develop_qwen"}, {"queue"}, 1, 0),
     resumed_candidate |-> Repeated({"develop_qwen"}, {}, 0, 1),
     packing |-> Repeated({"recover_packing", "replay_packing"}, {"queue"}, 1, 1),
     oracles |-> Repeated({"oracle_o2"}, {}, 0, 1),
     evidence |-> Repeated({"public_evidence"}, {"public_source"}, 1, 1),
     grounding |-> Repeated({"prepare", "assess_outside", "finalize_grounding"}, {}, 0, 1)]
    @@ [j \in Alones |-> Mixed(j)]

JobsOf(name) == ScopeTable[name].jobs[p] \union ScopeTable[name].jobs[q]

------------------------------------------------------------------------------
(* What the directory begins with *)
GivenTo(name, written) ==
    LET jobs == JobsOf(name)
    IN  IF ScopeTable[name].given # EverythingRead THEN ScopeTable[name].given
        ELSE IF name \notin Alones THEN FilesRead(jobs) \ written
        ELSE (FilesRead(jobs) \ (IF name = "annotate" THEN {} ELSE JobOptional(name)))
             \ (IF name \in DOMAIN Goes THEN written ELSE {})

Mixture(name, base, files, given) ==
    {Disk(base, files, given, v) :
        v \in IF name \in Alones THEN Mixtures(given) ELSE {[f \in given |-> 1]}}
StockWith(name, base, written) ==
    Mixture(name, base, FilesRead(JobsOf(name)) \union written,
            GivenTo(name, written))
StockOver(name, base) == StockWith(name, base, FilesWritten(JobsOf(name)))
Stocks(commands, scripts) ==
    [name \in DOMAIN ScopeTable |-> StockOver(name, Of(JobsOf(name), commands, scripts))]
StockTable == Stocks(Commands, Experiments)

\* A file changes into either version; a source of questions or contexts, also into one
\* that does not parse.
Malformable == {"train_source", "public_source", "contexts_source"}
ExchangesOver(name, base) ==
    {[file |-> f, data |-> base[v][f]] : f \in ScopeTable[name].changing, v \in 1..2}
    \union {[file |-> f, data |-> Source(f, 0)] :
               f \in IF ScopeTable[name].jobs[q] = {}
                     THEN ScopeTable[name].changing \intersect Malformable ELSE {}}
ExchangesIn(commands, scripts) ==
    [name \in Alones |-> {}]
    @@ [name \in DOMAIN ScopeTable \ Alones |->
           ExchangesOver(name, Of(JobsOf(name), commands, scripts))]
ExchangeTable == ExchangesIn(Commands, Experiments)

------------------------------------------------------------------------------
(* The values of the constants.  Each names a definition that TLC          *)
(* evaluates once; the body of one that stands for a constant is evaluated *)
(* at every use.                                                           *)
MCScopes == ScopeTable
MCStock == StockTable
MCExchanges == ExchangeTable
=============================================================================
