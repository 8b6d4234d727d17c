--------------------------- MODULE RetrievalJobs ---------------------------
(***************************************************************************)
(* The commands between the index and the annotation queue: retrieval run, *)
(* retrieval select-evidence and training build-rag-sft.  "What the sparse *)
(* index is opened with" is a database, its manifest and the chunks; the   *)
(* frozen aliases come with their own manifest.                            *)
(***************************************************************************)
EXTENDS IngestionJobs

\* open_disk_bm25_index: the database and the chunks are those the manifest names.
Opens(manifest, database, chunks) ==
    /\ database = manifest.from.database
    /\ chunks = manifest.from.chunks

\* Faulty variant: the aliases are held against their own manifest only.
AliasesFitThemselves(aliases, aliasManifest, manifest) ==
    aliases = aliasManifest.from.aliases

\* load_frozen_alias_artifact: the aliases are their manifest's, and the
\* manifest was frozen over the index's corpus.  Whether the index was built
\* with these aliases is not asked.
AliasesFit(aliases, aliasManifest, manifest) ==
    /\ aliasManifest.from.corpus = manifest.from.corpus
    /\ aliases = aliasManifest.from.aliases

------------------------------------------------------------------------------
(* retrieval run *)
RetrievalOutput(train, split, index, aliases) ==
    Made("retrieval_output",
         [train |-> train, split |-> split, index |-> index, alias_manifest |-> aliases])

\* Every item of the queue names the split, the chunks and the index.
AnnotationQueue(output, sample) ==
    Made("queue", [output |-> output, sample |-> sample])
QueueSplit(queue) == queue.from.output.from.split
QueueIndex(queue) == queue.from.output.from.index

RetrievalReport(output, queue) ==
    Made("retrieval_report", [output |-> output, queue |-> queue])

RetrievalReads ==
    Files(<<"train", "split", "sample", "aliases", "alias_manifest",
            "index_manifest", "database", "chunks">>)
RunRetrieval(g) ==
    LET output == RetrievalOutput(g.train, g.split, g.index_manifest, g.alias_manifest)
        queue == AnnotationQueue(output, g.sample)
    IN  Provided(
          /\ Opens(g.index_manifest, g.database, g.chunks)
          /\ AliasesFit(g.aliases, g.alias_manifest, g.index_manifest)
          /\ SplitIsOf(g.split, g.train)
          /\ g.sample.from.split = g.split,
          <<Immutable("retrieval_output", output),
            Immutable("queue", queue),
            Immutable("retrieval_report", RetrievalReport(output, queue))>>)

------------------------------------------------------------------------------
(* retrieval select-evidence: the ranking is matched with the queue by the *)
(* identifiers of the questions and of the candidates, not by checksums.   *)
SelectedOutput(queue, ranking) ==
    Made("selected_output", [queue |-> queue, ranking |-> ranking])
SelectionReport(queue, ranking, selected) ==
    Made("selection_report", [queue |-> queue, ranking |-> ranking, selected |-> selected])

\* "lucky": identifiers agree although the artifacts belong to different runs.
RankedWithin(ranking, queue, lucky) == ranking = queue.from.output \/ lucky

\* Faulty variant: the order of the selection is left to the run.
SelectEvidenceUnordered(g, lucky) ==
    LET order == Value("order", lucky)
        selected == Made("selected_output",
                         [queue |-> g.queue, ranking |-> g.ranking, order |-> order])
    IN  <<Immutable("selected_output", selected),
          Immutable("selection_report", SelectionReport(g.queue, g.ranking, selected))>>

SelectReads == <<Read("ranking", "retrieval_output"), Read("queue", "queue")>>
SelectEvidence(g, lucky) ==
    LET selected == SelectedOutput(g.queue, g.ranking)
    IN  Provided(RankedWithin(g.ranking, g.queue, lucky),
          <<Immutable("selected_output", selected),
            Immutable("selection_report", SelectionReport(g.queue, g.ranking, selected))>>)

------------------------------------------------------------------------------
(* training build-rag-sft: evidence is mined from the index with the       *)
(* official answers as queries, then joined with the questions.            *)
SupportPolicy(index, aliases) ==
    Made("support_policy", [index |-> index, alias_manifest |-> aliases])
MinedSelection(train, split, policy) ==
    Made("sft_selection", [train |-> train, split |-> split, policy |-> policy])
SftPart(name, train, split, selection) ==
    Made(name, [train |-> train, split |-> split, selection |-> selection])
SftManifest(provenance, material) ==
    Made("sft_manifest", [provenance |-> provenance, material |-> material])
MiningReport(policy, selection) ==
    Made("mining_report", [policy |-> policy, selection |-> selection])

SftReads ==
    Files(<<"train", "split", "aliases", "alias_manifest", "index_manifest",
            "database", "chunks">>)
BuildRagSft(g) ==
    LET policy == SupportPolicy(g.index_manifest, g.alias_manifest)
        selection == MinedSelection(g.train, g.split, policy)
        provenance == SftPart("sft_provenance", g.train, g.split, selection)
        material == SftPart("sft_material", g.train, g.split, selection)
    IN  Provided(
          /\ SplitIsOf(g.split, g.train)
          /\ Opens(g.index_manifest, g.database, g.chunks)
          /\ AliasesFit(g.aliases, g.alias_manifest, g.index_manifest),
          <<Immutable("sft_selection", selection),
            Immutable("sft_provenance", provenance),
            Immutable("sft_material", material),
            Immutable("sft_manifest", SftManifest(provenance, material)),
            Immutable("mining_report", MiningReport(policy, selection))>>)
=============================================================================
