--------------------------- MODULE IngestionJobs ---------------------------
(***************************************************************************)
(* The commands that turn the organizer's files into the corpus: organizer *)
(* import-questions and import-contexts, corpus report, aliases propose    *)
(* and freeze, index build, split build and grounding sample.  For each    *)
(* artifact a constructor says what its bytes depend on; for each command  *)
(* an operator says what it does with what it has read (g).                *)
(***************************************************************************)
EXTENDS Artifacts

Empty == Value("empty", 0)
Malformed(source) == source.from = <<0>>    \* version 0 does not parse

------------------------------------------------------------------------------
(* organizer *)

\* Every record carries the checksum of the source it comes from.
TrainQuestions(source) == Made("train", [source |-> source])
PublicQuestions(source) == Made("public", [source |-> source])

\* An import that fails leaves the previous output and says so in the errors.
ImportFails(errors, source) ==
    <<Replace(errors, Made("import_error", [source |-> source])), Refuse>>

ImportTrainReads == Files(<<"train_source">>)
ImportTrain(g) ==
    IF Malformed(g.train_source)
    THEN ImportFails("train_errors", g.train_source)
    ELSE <<Replace("train", TrainQuestions(g.train_source)),
           Replace("train_errors", Empty)>>

ImportPublicReads == Files(<<"public_source">>)
ImportPublic(g) ==
    IF Malformed(g.public_source)
    THEN ImportFails("public_errors", g.public_source)
    ELSE <<Replace("public", PublicQuestions(g.public_source)),
           Replace("public_errors", Empty)>>

Contexts(source) == Made("contexts", [source |-> source])
ImportManifest(source) == Made("import_manifest", [source |-> source])

\* Faulty variant: the contexts are in place before the last member was read.
ImportContextsInPlace(g, steady) ==
    <<Replace("contexts", Contexts(g.contexts_source))>>
    \o Provided(steady,
                <<Replace("import_manifest", ImportManifest(g.contexts_source)),
                  Replace("contexts_errors", Empty)>>)

\* Not "steady": a member file changed its size while the directory was read.
ImportContextsReads == Files(<<"contexts_source">>)
ImportContexts(g, steady) ==
    IF Malformed(g.contexts_source) \/ ~steady
    THEN ImportFails("contexts_errors", g.contexts_source)
    ELSE <<Replace("contexts", Contexts(g.contexts_source)),
           Replace("import_manifest", ImportManifest(g.contexts_source)),
           Replace("contexts_errors", Empty)>>

------------------------------------------------------------------------------
(* corpus report: the contexts are read twice, once for their checksum and *)
(* once to be chunked; neither is compared with the import manifest, whose *)
(* entries give the corpus checksum.                                       *)
Chunks(contexts) == Made("chunks", [contexts |-> contexts])
ChunkManifest(corpus, contexts, chunks) ==
    Made("chunk_manifest", [corpus |-> corpus, contexts |-> contexts, chunks |-> chunks])
CorpusReport(corpus, chunks) ==
    Made("corpus_report", [corpus |-> corpus, chunks |-> chunks])
CorpusMarkdown(report) == Made("corpus_markdown", [report |-> report])

\* Faulty variant: the chunks are replaced, as contexts are.
WriteCorpusAgain(g) ==
    LET chunks == Chunks(g.streamed)
        report == CorpusReport(g.import_manifest, chunks)
    IN  <<Replace("chunks", chunks),
          Immutable("chunk_manifest", ChunkManifest(g.import_manifest, g.hashed, chunks)),
          Immutable("corpus_report", report),
          Immutable("corpus_markdown", CorpusMarkdown(report))>>

CorpusReads ==
    <<Read("import_manifest", "import_manifest"), Read("hashed", "contexts"),
      Read("streamed", "contexts")>>
WriteCorpus(g) ==
    LET chunks == Chunks(g.streamed)
        report == CorpusReport(g.import_manifest, chunks)
    IN  <<Immutable("chunks", chunks),
          Immutable("chunk_manifest", ChunkManifest(g.import_manifest, g.hashed, chunks)),
          Immutable("corpus_report", report),
          Immutable("corpus_markdown", CorpusMarkdown(report))>>

------------------------------------------------------------------------------
(* aliases *)
Proposals(contexts) == Made("proposals", [contexts |-> contexts])
ProposalReport(corpus, proposals) ==
    Made("proposal_report", [corpus |-> corpus, proposals |-> proposals])

ProposeReads == Files(<<"import_manifest", "contexts">>)
Propose(g) ==
    LET proposals == Proposals(g.contexts)
    IN  <<Immutable("proposals", proposals),
          Immutable("proposal_report", ProposalReport(g.import_manifest, proposals))>>

\* The owner looks at the proposals and types their checksum into the next command.
ApproveReads == Files(<<"proposals">>)
Approve(g) == <<Replace("approval", Made("approval", [proposals |-> g.proposals]))>>

Aliases(proposals) == Made("aliases", [proposals |-> proposals])
AliasManifest(corpus, aliases) ==
    Made("alias_manifest", [corpus |-> corpus, aliases |-> aliases])
AliasReport(corpus, proposals, manifest) ==
    Made("alias_report", [corpus |-> corpus, proposals |-> proposals, manifest |-> manifest])

\* "lucky": the offsets of every proposal fit other contexts as well.
ProvenanceHolds(proposals, contexts, lucky) ==
    contexts = proposals.from.contexts \/ lucky

FreezeReads == Files(<<"approval", "proposals", "proposal_report", "contexts">>)
Freeze(g, lucky) ==
    LET corpus == g.proposal_report.from.corpus
        aliases == Aliases(g.proposals)
        manifest == AliasManifest(corpus, aliases)
    IN  Provided(
          /\ g.proposals = g.approval.from.proposals
          /\ g.proposal_report.from.proposals = g.approval.from.proposals
          /\ ProvenanceHolds(g.proposals, g.contexts, lucky),
          <<Immutable("aliases", aliases),
            Immutable("alias_manifest", manifest),
            Immutable("alias_report", AliasReport(corpus, g.proposals, manifest))>>)

------------------------------------------------------------------------------
(* index build; DiskIndex has its steps *)
SparseDatabase(rows, chunks, corpus, aliases) ==
    Made("database", [rows |-> rows, chunks |-> chunks, corpus |-> corpus,
                      alias_manifest |-> aliases])
IndexManifest(database, corpus, chunks, aliases) ==
    Made("index_manifest", [database |-> database, corpus |-> corpus,
                            chunks |-> chunks, alias_manifest |-> aliases])

\* The chunks are hashed, and opened again for their rows.
IndexReads ==
    <<Read("chunk_manifest", "chunk_manifest"), Read("alias_manifest", "alias_manifest"),
      Read("aliases", "aliases"), Read("hashed", "chunks"), Read("streamed", "chunks")>>

\* Both manifests name one corpus, and the two files are those they name; of the rows
\* only the number is compared.  "lucky": other chunks are as many.
BuildIndex(g, lucky) ==
    LET corpus == g.chunk_manifest.from.corpus
        database == SparseDatabase(g.streamed, g.hashed, corpus, g.alias_manifest)
    IN  Provided(
          /\ g.alias_manifest.from.corpus = corpus
          /\ g.aliases = g.alias_manifest.from.aliases
          /\ g.hashed = g.chunk_manifest.from.chunks
          /\ g.streamed = g.hashed \/ lucky,
          <<Immutable("database", database),
            Immutable("index_manifest",
                      IndexManifest(database, corpus, g.hashed, g.alias_manifest))>>)

------------------------------------------------------------------------------
(* split build, grounding sample *)
Split(train, public) == Made("split", [train |-> train, public |-> public])

\* The public questions are an optional argument; without it they are empty.
SplitReads == Files(<<"train", "public">>)
BuildSplit(train, public) == <<Immutable("split", Split(train, public))>>

\* load_split_manifest_rows: the split names the questions' checksum, and its
\* rows are theirs.
SplitIsOf(split, train) == split.from.train = train

Sample(train, split) == Made("sample", [train |-> train, split |-> split])

SampleReads == Files(<<"train", "split">>)
BuildSample(g) ==
    Provided(SplitIsOf(g.split, g.train),
             <<Immutable("sample", Sample(g.train, g.split))>>)
=============================================================================
