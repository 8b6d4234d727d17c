---------------------------- MODULE TrainingJobs ---------------------------
(***************************************************************************)
(* Two models are trained: the learned fusion of D-067, from the pinned    *)
(* tournament of D-066, and the adapter of the reranker of R-008, locally  *)
(* or in a remote volume.                                                  *)
(***************************************************************************)
EXTENDS DiscoveryJobs

------------------------------------------------------------------------------
(* build_d067_features: 15 files are pinned and read again; the sparse     *)
(* rankings must come out of the index as they were frozen.                *)
FeaturePins ==
    <<"train", "split", "supervision", "chunks", "contexts", "aliases", "database",
      "sparse_rankings", "dense_rankings", "query_ids", "query_vectors", "query_manifest",
      "dense_manifest", "dense_vectors", "dense_ids">>
FeatureFiles ==
    <<"train", "split", "supervision", "sparse_rankings", "dense_rankings", "aliases",
      "contexts", "query_ids", "query_vectors", "index_manifest", "alias_manifest",
      "database", "chunks", "dense_manifest", "dense_vectors", "dense_ids">>
FeatureReads == Pins("", FeaturePins) \o Uses("", FeatureFiles)

Features(inputs) == Made("fusion_features", [inputs |-> inputs])
GroupSplit(groups) == Made("fusion_split", [groups |-> groups])
FeatureManifest(features, split, now) ==
    Made("feature_manifest", [features |-> features, split |-> split, now |-> Moment(now)])

BuildFeatures(g, now) ==
    LET features == Features(Inputs(g, "", FeatureFiles))
        split == GroupSplit(Groups(g))
    IN  Provided(
          /\ Hold(g, "", FeaturePins)
          /\ LoadsGroups(g.supervision, g.split, g.train)
          /\ Opens(g.index_manifest, g.database, g.chunks)
          /\ AliasesFit(g.aliases, g.alias_manifest, g.index_manifest)
          /\ Frozen(g.sparse_rankings),
          Publish(<<features, split, FeatureManifest(features, split, now)>>))

------------------------------------------------------------------------------
(* run_d067_learned_fusion: what is trained on is bound to the feature     *)
(* manifest by checksum, but read once more after it was hashed; its rows  *)
(* are held against the groups by the checksums of the questions.  The     *)
(* manifest itself is hashed when all the outputs have been written.       *)
FusePins == <<"train", "split", "supervision", "rrf_rankings">>
FuseReads ==
    Pins("", FusePins)
    \o Files(<<"train", "split", "supervision", "feature_manifest">>)
    \o <<Read("hashed features", "fusion_features"), Read("hashed split", "fusion_split")>>
    \o Files(<<"fusion_features", "rrf_rankings">>)
FuseOutputs(g) ==
    LET model == Made("fusion_model", [features |-> g.fusion_features])
        rankings == Made("fusion_rankings", [model |-> model, features |-> g.fusion_features])
        rrf == Made("rrf_validation", [groups |-> Groups(g), rankings |-> g.rrf_rankings])
        learned == Made("learned_validation", [groups |-> Groups(g), rankings |-> rankings])
    IN  <<model, rankings, rrf, learned,
          Made("fusion_comparison", [rrf |-> rrf, learned |-> learned]),
          Made("model_manifest", [model |-> model])>>
Fuse(g, lucky, now) ==
    Provided(
      /\ Hold(g, "", FusePins)
      /\ Frozen(g.fusion_features) \/ lucky
      /\ LoadsGroups(g.supervision, g.split, g.train)
      /\ g.feature_manifest.from.features = g["hashed features"]
      /\ g.feature_manifest.from.split = g["hashed split"],
      Publish(FuseOutputs(g) \o <<Made("fusion_telemetry", [now |-> Moment(now)])>>)
      \o <<GoOn("record_fusion")>>)

\* The telemetry is the one just written.
RecordFusionReads ==
    FuseReads \o <<Read("named manifest", "feature_manifest"),
                   Read("fusion_telemetry", "fusion_telemetry")>>
FusionRun(g) ==
    Made("fusion_run",
         ByName(FuseOutputs(g) \o
                <<g["hashed features"], g["hashed split"], g["named manifest"],
                  g.fusion_telemetry>>))
RecordFusion(g) == Publish(<<FusionRun(g)>>)

------------------------------------------------------------------------------
(* finalize_d067: the ten files are those the run's manifest names; the    *)
(* manifest is hashed again, and six of the files are loaded again.        *)
FusionFiles ==
    <<"fusion_features", "feature_manifest", "fusion_split", "fusion_model",
      "model_manifest", "fusion_rankings", "rrf_validation", "learned_validation",
      "fusion_comparison", "fusion_telemetry">>
FusionLoaded ==
    <<"feature_manifest", "model_manifest", "fusion_telemetry", "rrf_validation",
      "learned_validation", "fusion_comparison">>
FinalizeFusionReads ==
    Files(<<"fusion_run">>) \o Pins("", FusionFiles)
    \o <<Read("named run", "fusion_run")>> \o Uses("", FusionLoaded)
FinalizeFusion(g) ==
    LET stage == Made("d067_stage", [run |-> g["named run"],
                                     loaded |-> Inputs(g, "", FusionLoaded)])
        report == Made("d067_report", [stage |-> stage])
    IN  Provided(
          \A k \in DOMAIN FusionFiles :
             /\ FusionFiles[k] \in DOMAIN g.fusion_run.from
             /\ g["pinned " \o FusionFiles[k]] = g.fusion_run.from[FusionFiles[k]],
          Publish(<<stage, report, Made("d067_checksums", [stage |-> stage, report |-> report])>>))

------------------------------------------------------------------------------
(* R-008: the training groups and the closed request                       *)
RerankerReads ==
    Files(<<"train", "split", "sft_selection", "index_manifest", "database", "chunks">>)
RerankerPart(name, g) ==
    Made(name, [train |-> g.train, split |-> g.split, selections |-> g.sft_selection,
                index |-> g.index_manifest])
TrainingManifest(groups, provenance) ==
    Made("training_manifest", [groups |-> groups, provenance |-> provenance])

\* The selections are held against questions, split and chunks row by row, each row
\* by the checksum of its question and those of its evidence: "lucky".
RerankerDataset(g, lucky) ==
    LET groups == RerankerPart("training_groups", g)
        provenance == RerankerPart("training_provenance", g)
        manifest == TrainingManifest(groups, provenance)
    IN  Provided(
          /\ Opens(g.index_manifest, g.database, g.chunks)
          /\ SplitIsOf(g.split, g.train)
          /\ \/ lucky
             \/ g.sft_selection.basis = (g.split.basis \union g.index_manifest.basis),
          Publish(<<groups, provenance, manifest,
                    Made("dataset_report", [manifest |-> manifest])>>))

\* validate_r008_training_payload, without and with the request
PayloadHolds(g) ==
    /\ g.training_groups = g.training_manifest.from.groups
    /\ g.training_provenance = g.training_manifest.from.provenance
RequestHolds(g) == PayloadHolds(g) /\ g.training_request.from.manifest = g.training_manifest

Payload == <<"training_groups", "training_provenance", "training_manifest">>
TrainingRequest(manifest, model) ==
    Made("training_request", [manifest |-> manifest, model |-> model])
RequestReads == Files(Payload \o <<"model_approval">>)
BuildRequest(g) ==
    LET request == TrainingRequest(g.training_manifest, g.model_approval)
    IN  Provided(PayloadHolds(g),
                 Publish(<<request, Made("request_report", [request |-> request])>>))

------------------------------------------------------------------------------
(* R-008, trained remotely: the function runs in a container whose volume  *)
(* outlives it and refuses an output directory that is not empty.  The     *)
(* response that comes home names the adapter, not the groups.             *)
Adapter(groups, now) == Made("adapter", [groups |-> groups, now |-> Moment(now)])
Response(adapter, now) == Made("training_response", [adapter |-> adapter, now |-> Moment(now)])

TrainRemotelyReads == Files(<<"training_request">> \o Payload \o <<"remote_adapter">>)
TrainRemotely(g, now) ==
    LET adapter == Adapter(g.training_groups, now)
        response == Response(adapter, now)
    IN  Provided(
          RequestHolds(g) /\ g.remote_adapter = NoFile,
          <<Immutable("remote_adapter", adapter), Replace("remote_response", response),
            Immutable("training_response", response)>>)

\* The adapter is copied home by hand.
DownloadReads == Files(<<"remote_adapter">>)
Download(g) == <<Replace("adapter", g.remote_adapter)>>

\* The response is held against the request by the run's identifier and its
\* counts, and the adapter against the response by its checksum.
VerifyReads == Files(<<"training_request", "training_response", "adapter">>)
ParameterAudit(adapter, source) ==
    Made("parameter_audit", [adapter |-> adapter, source |-> source])
VerifyAdapter(g, countsFit) ==
    Provided(countsFit /\ g.adapter = g.training_response.from.adapter,
             Publish(<<ParameterAudit(g.adapter, g.training_response)>>))

------------------------------------------------------------------------------
(* R-008, trained locally: the adapter's directory must be new or empty;   *)
(* the limit on the parameters is looked at when the training is over.     *)
TrainLocallyReads == Files(<<"training_groups", "adapter">>)
TrainLocally(g, withinLimit, now) ==
    LET adapter == Adapter(g.training_groups, now)
        report == Made("training_report", [groups |-> g.training_groups, adapter |-> adapter,
                                           now |-> Moment(now)])
    IN  Provided(g.adapter = NoFile,
                 <<Immutable("adapter", adapter)>>
                 \o Provided(withinLimit, Publish(<<report>>)))

VerifyLocalReads == Files(<<"training_report", "adapter">>)
VerifyLocal(g) ==
    Provided(g.adapter = g.training_report.from.adapter,
             Publish(<<ParameterAudit(g.adapter, g.training_report)>>))
=============================================================================
