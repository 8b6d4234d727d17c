---------------------------- MODULE DiscoveryJobs --------------------------
(***************************************************************************)
(* The scripts of D-063 to D-066: the frozen baseline, the forensics of    *)
(* the training questions, the retrieval supervision, and the tournament   *)
(* between a sparse and a dense ranking of its positive groups.            *)
(***************************************************************************)
EXTENDS EvaluationJobs

\* Faulty variant: the checksums go out before what they are of.
DossierFromTheEnd(id, report) ==
    LET page == Made(id \o "_markdown", [report |-> report])
    IN  Publish(<<Made(id \o "_checksums", [report |-> report, page |-> page]), report, page>>)

\* A report, the page written from it, and the checksums of both.
Dossier(id, report) ==
    LET page == Made(id \o "_markdown", [report |-> report])
    IN  Publish(<<report, page, Made(id \o "_checksums", [report |-> report, page |-> page])>>)

------------------------------------------------------------------------------
(* D-063: the two runs of D-062, reconciled by the identifiers of their    *)
(* questions and the gates their comparison says were passed.              *)
BaselineEvidence ==
    <<"d062_comparison", "d062_grounding", "r0_per_query", "base_per_query",
      "r0_predictions", "base_predictions", "parameter_manifest">>
FreezeBaselineReads == Files(BaselineEvidence)
FreezeBaseline(g, gatesPassed) ==
    Provided(gatesPassed,
             Dossier("d063", Made("d063_report", [inputs |-> Inputs(g, "", BaselineEvidence)])))

------------------------------------------------------------------------------
(* D-064 *)
ForensicsFiles == <<"train", "split", "chunks", "sft_selection">>
ForensicsReads == Pins("", ForensicsFiles) \o Uses("", ForensicsFiles)
TrainForensics(g) ==
    Provided(Hold(g, "", ForensicsFiles),
             Dossier("d064", Made("d064_report", [inputs |-> Inputs(g, "", ForensicsFiles)])))

------------------------------------------------------------------------------
(* D-065: the taxonomy of the question types is refined and written; then  *)
(* the supervision is built twice, each time from files that are pinned    *)
(* and read again, and both must come out alike.                           *)
RefineReads == Files(<<"train", "split">>)
RefineTaxonomy(g) ==
    LET refined == Made("d065_refined", [train |-> g.train, split |-> g.split])
    IN  Provided(Frozen(g.train) /\ Frozen(g.split),
                 Dossier("d065_refined", refined) \o <<GoOn("supervise")>>)

SupervisedFiles == <<"train", "chunks", "contexts", "aliases", "sft_selection">>
SupervisionBuild(pass) == Pins(pass, SupervisedFiles) \o Uses(pass, SupervisedFiles)
SuperviseReads == RefineReads \o SupervisionBuild("first ") \o SupervisionBuild("again ")

Supervision(split, inputs) == Made("supervision", [split |-> split, inputs |-> inputs])
Supervise(g) ==
    LET groups == Supervision(g.split, Inputs(g, "first ", SupervisedFiles))
        report == Made("d065_report", [groups |-> groups])
        completion == Made("d065_markdown", [groups |-> groups, report |-> report])
        checksums == Made("d065_checksums", [groups |-> groups, report |-> report,
                                             completion |-> completion])
    IN  Provided(
          /\ Hold(g, "first ", SupervisedFiles) /\ Hold(g, "again ", SupervisedFiles)
          /\ Supervision(g.split, Inputs(g, "again ", SupervisedFiles)) = groups,
          Publish(<<groups, report, completion, checksums>>))

\* load_discovery_groups: the supervision's bytes are pinned once more, and its
\* rows carry the checksums of the questions and answers.
LoadsGroups(supervision, split, train) ==
    Frozen(supervision) /\ Frozen(train) /\ SplitIsOf(split, train)

------------------------------------------------------------------------------
(* D-066, the sparse arms *)
TournamentPins == <<"train", "split", "supervision", "chunks", "database", "aliases">>
TournamentFiles ==
    <<"train", "split", "supervision", "index_manifest", "alias_manifest", "database",
      "chunks", "aliases">>
TournamentReads == Pins("", TournamentPins) \o Uses("", TournamentFiles)
TournamentOpens(g) ==
    /\ Hold(g, "", TournamentPins)
    /\ LoadsGroups(g.supervision, g.split, g.train)
    /\ Opens(g.index_manifest, g.database, g.chunks)
    /\ AliasesFit(g.aliases, g.alias_manifest, g.index_manifest)

\* --record-preflight-timeout looks at no file; --preflight-only ends with a
\* measurement of its own time.
RecordTimeout == Publish(<<Made("sparse_timeout", [arguments |-> Value("arguments", 1)])>>)
SparsePreflight(g, now) ==
    Provided(TournamentOpens(g),
             Publish(<<Made("sparse_preflight", [now |-> Moment(now)])>>))

Rankings(arm, inputs) == Made(arm \o "_rankings", [inputs |-> inputs])
Evaluation(arm, rankings) == Made(arm \o "_evaluation", [rankings |-> rankings])
Comparison(arm, base, other) == Made(arm \o "_comparison", [base |-> base, other |-> other])

Tournament(g, now) ==
    LET inputs == Inputs(g, "", TournamentFiles)
        sparse == Rankings("sparse", inputs)
        legal == Rankings("legal", inputs)
        measured == <<Evaluation("sparse", sparse), Evaluation("legal", legal)>>
        outputs == <<sparse, measured[1], legal, measured[2],
                     Comparison("sparse", measured[1], measured[2])>>
        manifest == Made("sparse_manifest", ByName(outputs))
    IN  Provided(TournamentOpens(g),
          Publish(outputs \o <<manifest, Made("sparse_telemetry", [now |-> Moment(now)])>>))

\* run_d066_sparse_remediation: the bounded execution against the reference.
RemediationFiles == <<"train", "split", "supervision", "index_manifest", "database", "chunks">>
RemediationReads == Pins("", TournamentPins) \o Uses("", RemediationFiles)
SparseRemediation(g, now) ==
    LET inputs == Inputs(g, "", RemediationFiles)
    IN  Provided(
          /\ Hold(g, "", TournamentPins)
          /\ LoadsGroups(g.supervision, g.split, g.train)
          /\ Opens(g.index_manifest, g.database, g.chunks),
          Publish(<<Made("sparse_parity", [inputs |-> inputs]),
                    Made("sparse_profile", [inputs |-> inputs, now |-> Moment(now)])>>))

------------------------------------------------------------------------------
(* D-066, the dense arm: a preflight, the index, the queries, the search   *)
DensePins == <<"chunks", "database">>
DensePreflightReads ==
    Pins("", DensePins) \o Files(<<"encoder", "database", "chunks", "historical_report">>)
DensePreflight(g, now) ==
    Provided(Hold(g, "", DensePins),
             Publish(<<Made("dense_preflight",
                            [encoder |-> g.encoder, now |-> Moment(now),
                             sample |-> Inputs(g, "", <<"database", "chunks">>),
                             historical |-> g.historical_report])>>))

\* The rows to encode come from the database, which is not checked.  An index
\* that is complete is verified against its own manifest and kept; DenseStore
\* has the steps that build one.
DenseVectors(encoder, chunks, rows) ==
    Made("dense_vectors", [encoder |-> encoder, chunks |-> chunks, rows |-> rows])
DenseIds(rows) == Made("dense_ids", [rows |-> rows])
DenseManifest(encoder, chunks, vectors, ids) ==
    Made("dense_manifest", [encoder |-> encoder, chunks |-> chunks,
                            vectors |-> vectors, ids |-> ids])

DenseIndexReads ==
    <<Read("dense_preflight", "dense_preflight"), Read("pinned chunks", "chunks"),
      Read("encoder", "encoder"), Read("rows", "database"), Read("chunks", "chunks")>>
BuildDenseIndex(g, now) ==
    LET vectors == DenseVectors(g.encoder, g.chunks, g.rows)
        ids == DenseIds(g.rows)
        manifest == DenseManifest(g.encoder, g["pinned chunks"], vectors, ids)
    IN  Provided(
          /\ Frozen(g.dense_preflight)
          /\ Frozen(g["pinned chunks"])
          /\ g.encoder = g.dense_preflight.from.encoder,
          Publish(<<vectors, ids, manifest,
                    Made("dense_build", [preflight |-> g.dense_preflight,
                                         index |-> manifest, now |-> Moment(now)])>>))

\* A query manifest that is there vouches for vectors and ids; without one the
\* queries are encoded, and the bits may differ from those of another time.
QueryIds(groups) == Made("query_ids", [groups |-> groups])
QueryVectors(groups, now) == Made("query_vectors", [groups |-> groups, now |-> Moment(now)])
QueryManifest(vectors, ids, now) ==
    Made("query_manifest", [vectors |-> vectors, ids |-> ids, now |-> Moment(now)])

DiscoveryPins ==
    <<"train", "split", "supervision", "chunks", "database", "sparse_rankings",
      "sparse_evaluation">>
EncodeReads ==
    Pins("", DiscoveryPins)
    \o Files(<<"train", "split", "supervision", "sparse_rankings", "dense_manifest",
               "query_manifest", "query_ids", "query_vectors">>)
Groups(g) == Inputs(g, "", <<"train", "split", "supervision">>)
EncodeQueries(g, now) ==
    LET ids == QueryIds(Groups(g))
        vectors == QueryVectors(Groups(g), now)
        encoded == Publish(<<vectors, ids, QueryManifest(vectors, ids, now)>>)
        vouched == g.query_manifest # NoFile
    IN  Provided(
          /\ Hold(g, "", DiscoveryPins)
          /\ LoadsGroups(g.supervision, g.split, g.train)
          /\ Frozen(g.dense_manifest.from.chunks)
          /\ vouched => /\ g.query_ids = g.query_manifest.from.ids
                        /\ g.query_ids = ids
                        /\ g.query_vectors = g.query_manifest.from.vectors,
          (IF vouched THEN <<>> ELSE encoded) \o <<GoOn("search")>>)

\* The chunks' text is looked up after the search; the sparse arm's evaluation
\* must come out as pinned.
SearchReads ==
    EncodeReads \o
    <<Read("searched", "query_vectors"), Read("shown database", "database"),
      Read("shown chunks", "chunks"), Read("named index", "dense_manifest"),
      Read("named queries", "query_manifest")>>
SearchDense(g, now) ==
    LET shown == Inputs(g, "shown ", <<"database", "chunks">>)
        dense == Made("dense_rankings",
                      [queries |-> g.searched, index |-> g.dense_manifest, shown |-> shown])
        rrf == Made("rrf_rankings", [sparse |-> g.sparse_rankings, dense |-> dense])
        both == [sparse |-> g.sparse_rankings, dense |-> dense]
        outputs == <<dense, Evaluation("dense", dense), Made("diagnostics", both),
                     Made("dense_comparison", both), Made("union_evaluation", both),
                     rrf, Evaluation("rrf", rrf), Made("rrf_comparison", both)>>
        telemetry == Made("dense_telemetry", [now |-> Moment(now)])
        manifest == Made("dense_run",
                         [index |-> g["named index"], queries |-> g["named queries"],
                          telemetry |-> telemetry] @@ ByName(outputs))
    IN  Provided(Frozen(g.sparse_rankings) /\ Frozen(shown),
                 Publish(outputs \o <<telemetry, manifest>>))

------------------------------------------------------------------------------
(* D-066 is closed twice: blocked, from the two preflights, and complete.  *)
(* The stage state is named by the report, and both by the checksums.      *)
Closing(stage, report) ==
    <<stage, report, Made(stage.what \o "_checksums", [stage |-> stage, report |-> report])>>
CloseOver(id, evidence) ==
    LET stage == Made(id, [evidence |-> evidence])
    IN  Publish(Closing(stage, Made(id \o "_report", [stage |-> stage])))

BlockedReads == Files(<<"sparse_timeout", "dense_preflight">>)
FinalizeBlocked(g) ==
    LET evidence == <<"sparse_timeout", "dense_preflight">>
    IN  Provided(Frozen(g.sparse_timeout) /\ Frozen(g.dense_preflight),
                 CloseOver("d066_blocked", Inputs(g, "", evidence)))

DenseEvidence ==
    <<"sparse_evaluation", "sparse_rankings", "dense_build", "dense_evaluation",
      "dense_rankings", "diagnostics", "union_evaluation", "rrf_evaluation",
      "rrf_rankings", "dense_telemetry", "dense_run", "dense_manifest",
      "dense_vectors", "dense_ids">>
LoadedEvidence ==
    <<"sparse_evaluation", "dense_evaluation", "union_evaluation", "rrf_evaluation",
      "diagnostics", "dense_build", "dense_telemetry", "dense_run">>
FinalizeDenseReads == Pins("", DenseEvidence) \o Uses("", LoadedEvidence)
FinalizeDense(g) ==
    Provided(Hold(g, "", DenseEvidence),
             CloseOver("d066_complete", Inputs(g, "", LoadedEvidence)))
=============================================================================
