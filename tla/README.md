# Legal QA: models, checks and proofs

The repository answers Vietnamese legal questions for DSC 2026 Task 2: it
ingests a corpus of law, indexes it (BM25 and dense vectors), retrieves and
reranks evidence, generates an answer locally or on Modal, and writes a
submission. The package is `src/src/legal_rag`, its drivers are the scripts of
`src/scripts`. Model quality is not the subject here. What this directory
specifies is what the code does about **being interrupted, restarted, run
twice, and fed inputs that changed**: it freezes artifacts under checksums,
keeps checkpoints bound to fingerprints, replays to prove determinism, and
refuses whatever does not fit. These protocols are state machines, and they are
where a unit test hardly reaches.

All paths below are relative to the parent directory; `M.tla` is in this one.

## 1. Inventory

### 1.1 Components

| Component | State it keeps | Operations | What makes it correct |
|---|---|---|---|
| Immutable artifact writer (`domain/artifacts.py`) | a destination, a temporary file | `write_immutable_chunks`, `write_immutable_bytes` | a destination is never torn nor replaced; the caller is told the truth |
| Resumable dense store (`retrieval/resumable_dense_store.py`) | vectors and ids, partial and final; checkpoint; manifest | `build_resumable_dense_store` | vectors, ids and checkpoint, three files, never disagree; a sealed store is whole; work lost is bounded |
| Public generation campaign (`scripts/modal_public_generation.py`, `evaluation/public_dry_run.py`) | response checkpoints, replay checkpoints, twelve outputs | the batch loop, the replay, the publication | one run per directory; the submission holds the answers the remote model gave |
| D-062 development run (`scripts/run_d062_full_dev_retrieval.py`, `..._generation.py`) | per-question checkpoints and outputs of two stages | freeze evidence, generate, replay, publish | answers rest on the frozen evidence; what is published can be replayed |
| Fixture pipeline (`pipeline/fixture.py`) and model pipeline (`pipeline/model.py`) | an output directory of thirteen files | `run_fixture_pipeline` | what is written was approved, unless edited meanwhile; a directory that mixes two runs is one after a fault |
| Bounded worker pool (`evaluation/bounded_parallel.py` and its callers) | futures, thread-local index connections | `ordered_bounded_map` | input order whatever the schedule; connections closed after their last use, unless the wait for the threads is interrupted |
| Dense search (`retrieval/dense_batch.py`, `retrieval/dense_store.py`) | the best rows so far | `select_top_k_rows`, `merge_top_k_blocks`, `MemmapDenseIndex.retrieve` | the result does not depend on the block size |
| Sparse retrieval (`retrieval/bm25.py`, `retrieval/disk_bm25.py`) | an SQLite index, a chunks file | build, publish, open, search | the database is the one its manifest names; a query returns that database's chunks |
| Question split (`evaluation/split.py`) | candidate pairs, a disjoint set | prefix filter, union-find, assignment, overlap report | no near duplicate is missed or lands in another split |
| Working directory (`cli.py` and every script of `scripts/`) | over 150 artifacts | the subcommands and scripts that write a file | files of different runs are not joined; partial publications can be repeated; manifests find what they name |
| Ingestion (`ingestion/`) | questions, contexts, chunks, manifests, aliases | import, chunk, propose, approve, freeze | the corpus is of one version of the source |
| Grounding annotation (`grounding/`) | a progress file, replaced after each question | load, record, save, import, export, assess | no label lost |
| Submission writer (`submission/writer.py`) | CSV and ZIP | validate, write | the submission is of the public questions |
| Training (`training/`), remote training (`providers/`) | datasets, adapters, a remote volume | build, train, download, verify | what is trained on is what was approved |
| Fusion, reranking, evidence selection, dense encoding | none | functions of one ranking or text | order and budget |
| Remote execution contract (`domain/`) | none | predicates over one configuration | nothing accepted that was not requested |
| Local models, answer compaction, doctor, scoring program | none | PyTorch, reports, the organiser's scorer | outside these models |

### 1.2 How they interact

- **Through files.** No component sends another a message. A stage writes
  artifacts; a later stage, often another process days later, reads them and
  compares checksums. Everything frozen goes through `write_immutable_bytes`;
  the imports and the annotation session replace their file.
- **Through one directory.** Two invocations of a script share its output
  directory without a lock; what keeps them apart is that the writer refuses
  other bytes, and that a checkpoint names the fingerprint of its run.
- **Through a remote call.** The campaign calls Modal batch by batch; a reply may
  be lost after it was paid for.
- **Through threads.** Only in `ordered_bounded_map`: workers open SQLite
  connections, the main thread closes them.

### 1.3 Hard behaviours

- *Crashes.* Any process may die between two file operations, and the next one
  works with what is there. The machine may lose power between the kernel's
  write-backs.
- *Partial publication.* Outputs are published one at a time; some hold wall
  times, so no second attempt can produce the same bytes.
- *Restarts with other inputs.* The script, the index or the questions may have
  been edited between two invocations, or during one.
- *Overlap.* Writers race for a destination; two hosts run one campaign; two
  pipelines share an output directory; threads finish in any order; a command
  reads what another is about to replace.
- *Second reads.* A file is hashed against a manifest or a pinned checksum, then
  opened again to be used.
- *Chains.* An evaluation reads what five earlier commands wrote, each of which
  checked only what came immediately before it.
- *Boundaries.* Batches that do not divide the checkpoint interval, ties at the
  limit of a top-k search, a last block that is not full, the rounding in a
  prefix filter.

`PROJECT.json` lists each of them at its line under `hazards`, with the
properties that cover it or the reason why none does.

## 2. The modules

```
WriteOnce  <----- ImmutableArtifact <--- ImmutableArtifactProofs
                  (every "write_immutable_bytes" below relies on what it implements)
ResumableBuild <- DenseStore        <--- DenseStoreProofs
                  PublicCampaign    <--- PublicCampaignProofs
CheckpointedRun <- DevelopmentRun   <--- DevelopmentRunProofs
                  (two instances, composed)
                  FixturePipeline   <--- FixturePipelineProofs
                  DiskIndex         <--- DiskIndexProofs
                  WorkerPool, DenseSearch, QuestionSplit <--- AlgorithmProofs
                  (the last two in MCAlgorithms)

Artifacts <- IngestionJobs <- RetrievalJobs <- AnnotationJobs <- EvaluationJobs
             <- DiscoveryJobs <- TrainingJobs <- ExperimentJobs <- CandidateJobs
             <- ScriptTable <- JobTable <- OutputTable <- Workspace
Workspace <- LegalWorkspace <- MCWorkspace
Workspace <- WorkspaceProofs
```

An arrow to a refining module is a refinement, in the last block it is `EXTENDS`.
`MC<Module>.tla` gives each module its small instance. Two conventions hold
everywhere. A *checksum or a fingerprint is the content it is taken over*, so
that comparing checksums is comparing contents; collisions are left out. An
operator called a *faulty variant* in a comment is no part of the
specification: it is the definition below it with one plausible bug, and it
documents which property that bug would break.

### ImmutableArtifact, WriteOnce

`write_immutable_chunks` as a process per caller: `Begin`, `Stream` (one chunk),
`Fsync`, `CheckExists`, `Link`, `Compare`, `Unlink`, with an action for every
`OSError` the code catches or lets through (`BeginFails`, `StreamFails`,
`PublishFails`, `UnlinkFails`) and for a kill (`Crash`). `pending` holds the
destinations whose directory entry was never fsynced; `PowerLoss` may take any
of these back, and empties a file that was never fsynced itself. The data of a
content is a model value, its length a number of chunks. `WriteOnce` is what
readers rely on: an absent path receives a complete content, which stays unless
the power fails before it has settled. The refinement maps what a reader sees
(`Visible`) and the entries on the disk (`Settled`).

### DenseStore, ResumableBuild

One output directory and one invocation of `build_resumable_dense_store` at a
time, with its arguments chosen anew each time. Variables are the six files;
`run` is the invocation's memory (rows done, running digests, the lines still
in the stream's buffer). Opening is `OpenFresh`, `RefuseUnbound`,
`RefuseForeign`, `ReturnComplete`, `RefuseNoPartial` or `Resume`, in the order
of the code's checks; then `Batch`, `Flush`, `WriteCheckpoint` or
`SkipCheckpoint`, `Progress`; then `RenameVectors`, `RenameIds`,
`WriteManifest`, `Seal`. `Raise` is any exception (the `with` block still
closes the ids stream), `Kill` leaves any prefix of the buffer in the file,
the last line perhaps cut, and any first part of the batch in the memory map.
Encoding a row again may give another vector, and so may another text: after the
checksum of the chunks file the texts are read by offset and held to the identifier
of the row alone. `Variants` stands for both. `ResumableBuild` promises: bound
to one identity, progress never taken back, sealed only when every row is done.

### PublicCampaign

Stage "generation" of `modal_public_generation.py` for hosts that may overlap,
each running the version of the script it started with. The fingerprint of the
replay names the version it reads then from the disk (`AllReceived`), which may be another. `LoadBatch`, `Generate`,
`StoreResponse`, `BatchStored` and `AllReceived` are the loop over batches;
`ReplayCheck` and `ReplayWrite` are `run_checkpointed_public_generation`;
`Compare` compares the replayed answers with the responses; `Publish` writes
the next artifact of `Outputs`, where neighbours of one kind count as one.
What an artifact's bytes depend on is part of the table: the run, the answers,
the responses, nothing, or the clock. Responses live in a directory per script
version, replay checkpoints and outputs in fixed ones.

### CheckpointedRun, DevelopmentRun

`CheckpointedRun` is the pattern itself: `Load` or `Generate` per question,
`Replay` of all of them from the checkpoints alone, `Publish` of a list of
artifacts whose bytes depend on data, on how much was resumed, or on the clock.
`DevelopmentRun` instantiates it twice. The retrieval's inputs are versions of
the frozen files; the generation's inputs are the evidence and ranking it finds
in the retrieval's output directory (`Readable`), complete or not. Its two
artifact tables follow the two `main` functions in order.

### FixturePipeline

`_build_pipeline` read by read: `Start` (the interpreter loads the code),
`ReadManifest`, `CheckQuestions`, `CheckContexts`, `HashSource`, `ReadQuestions`, `HashCorpus`, `Ingest`,
`Serialize`. The code opens the questions twice, the contexts three times and
the configuration twice, the source once to run and once to hash it, and files may be
edited (`Edit`) in between; `edited` records what was, per invocation. Then
`WriteArtifact` one at a time, `Validate` (which reads two artifacts back), and
`ReplacePredictions`. Artifacts that nothing reads again are one, "evidence".
What the stages compute is a function of what was read, the code included; the run
identifier is the tuple of what `compute_run_id` hashes.

### WorkerPool

`ordered_bounded_map` inside the two scripts that use it. Threads `Take` the
next future, `Open` and `Audit` a connection the first time, `Register` it and
`Run` the task. The main thread submits, does `Consume` in input order, cancels what
is left one future at a time (`OthersCancelled`), waits in `Shutdown` and closes what
was registered, one by one. It may be `Interrupted` by its progress callback or Ctrl-C in
any of these: a submission interrupted cancels nothing, a shutdown interrupted goes
straight to the closing while threads work, and a closing that raises leaves the rest
open. `interrupted` records where. `ThreadPoolExecutor` is external and modelled by its
contract: a FIFO queue, futures cancelled when `map` is left early, a `with`
block that waits for the threads.

### DenseSearch

Both blockwise searches side by side over the same rows. `SearchBlock` is one
block: `MergeTopKBlocks(batch, SelectTopKRows(Block))` for the batched search,
any outcome of `argpartition` (`Partitioned`) followed by `Extend` for
`MemmapDenseIndex.retrieve`. The reference is `Best(S, k)`, the first `k` rows
of `S` sorted by score and id. Scores are given: matrix products are numerics.

### QuestionSplit

`build_question_split` as a sequential program. `ScanNext` is one text of
`_candidate_pairs`: the texts seen so far that share a gram of the prefix, those
of a number of grams that can reach the threshold, compared by
`are_near_duplicates`. `UniteNext` is one pair of the disjoint set, whose `find`
halves paths as it goes; `Group` collects the components and assigns each by the
digest of its smallest member; a second scan, over the texts of both datasets,
ends in `Report`. A text is its length and its set of 5-grams; the threshold is a
rational, and all comparisons multiply out, as in the code. The reference is the
definition: all pairs that *are* near duplicates.

### DiskIndex

`legal-rag index build` and the readers of the index it publishes. A build reads
two manifests (`StartBuild`, `ReadAliases`), checks the files they name
(`CheckAliasFile`, `CheckChunks`), fills a database from the chunks file, which
it opens a second time (`Populate`), publishes it (`CheckExists`,
`LinkDatabase`) and writes the manifest (`WriteManifest`, one step, as
`ImmutableArtifact` allows). A reader takes the manifest's bytes
(`StartRead`), checks database and chunks file (`CheckDatabase`, `OpenIndex`),
and answers queries from both (`Query`): the database says which documents, the
chunks file, opened again each time, what they are. A database is the version
its rows came from (`of`) and what its metadata claims; the two differ when the
chunks file was replaced between `CheckChunks` and `Populate`. Versions are
replaced at any time (`Replace`). The database is written with
`synchronous=OFF` and never flushed, so `PowerLoss` may leave it torn. Which
documents a query ranks is any set of them: BM25's formula is numerics.

### Artifacts, Workspace

The chains of commands and scripts. The bytes of a file are abstracted to **what
they were computed from**: a content names the contents of the files its bytes, or
a checksum in them, depend on (`Made`), down to the versions of the `Source`s;
`basis` is the set of these versions. Comparing two checksums is comparing two
contents, and a file joins two versions of a source exactly when its basis holds
both (`Coherent`).

A *job* is a command or a script: the files it reads, in order, and an operator that
takes what was read to a sequence of *effects*: `Immutable` writes once,
`Replace` overwrites, `Expect` refuses if another content is there, `GoOn` reads on
with what was read in hand, `Refuse` ends. `Workspace` runs jobs: `Start`, one `ReadNext` per file,
`Decide`, then one action per effect (`WriteImmutable`, `WriteReplace`,
`CheckExpected`, `GoesOn`, `Refused`); in between other processes run, `Edit`
exchanges a source and `Kill` ends a process. `Luck` says whether a check weaker
than a checksum (the identifiers of the questions agree) passes on files it was
not made for; `Clock` is what the time or `uuid4()` shows, for outputs that bear it.
`torn` records what disturbed the directory: it began with two versions
(`"mixed"`), a file changed under a running job (`"overlap"`), a job stopped
between two effects (`"cut"`).

### The jobs

| Module | Commands and scripts |
|---|---|
| `IngestionJobs` | `organizer import-questions`, `import-contexts`, `corpus report`, `aliases propose`, `approve`, `freeze`, `index build` (both its reads of the chunks file; `DiskIndex` has its steps), `split build`, `grounding sample` |
| `RetrievalJobs` | `retrieval run`, `retrieval select-evidence`, `training build-rag-sft` |
| `AnnotationJobs` | `grounding annotate` label by label, `import-labels`, `export` to draft and approved, `validate` |
| `EvaluationJobs` | `evaluate retrieval`, `retrieval-set`, `oracle`, `competition`, `baseline build`, `benchmark baseline`, `scorer parity`, `submit build` |
| `DiscoveryJobs` | the scripts of D-063 to D-066: baseline, forensics, supervision, sparse and dense tournament |
| `TrainingJobs` | D-067 features, learned fusion and its finalizer; the R-008 reranker: dataset, request, remote and local training, download, verification |
| `ExperimentJobs` | packing calibration, legal sparse and reranked rankings, fixed generation, prompts, oracles, deltas, compaction, D-061 evidence, assessment of answers |
| `CandidateJobs` | D-059: audit and development stage of another generator |

`JobTable` and `ScriptTable` name them, and `JobTable` sorts them by **what they hold
against what**, which is what the properties are stated over:

- `LinkedJobs` compare everything they read by checksums, or read one file;
- `PinnedJobs` hash files against constants or a manifest and open them again;
- `SteadyJobs` compare nothing, and rely on the order in which commands are run;
- the others match identifiers of questions and evidence, or nothing: that they
  accept files of two runs is what the code does, and no property claims more;
- `TimedJobs` write clocks or GPU bits; `SealedJobs` write only immutable files, in one
  go, `baseline build` among them;
  `LabelJobs` write labels into the progress file.

`OutputTable` lists the files each job writes, and for a sealed job the one it ends
with. The table is no model of its own: that `JobDoes` writes these files and no
others, and the last one last, is proved job by job in `WorkspaceProofs`, and its
`ASSUME`s, which say that no two jobs compete for certain files, are evaluated by
TLC. `LegalWorkspace` runs the jobs once to know what version 1 and version 2 of
every file are, from which `MCWorkspace` takes the directories its scopes begin with.

D-059's **public** stage is not a job: `PrivateModalConfig` and `ArtifactTransfer`
(`domain/execution.py`) list neither its approval `D-059` nor its transfer class
`d059_public_generation_request`, so that it always ends with a validation error
before it asks for or writes anything.

## 3. The runs

`tlc -config <cfg> <module>` for each. Sizes are those of a complete search.

| Run | Bounds | Distinct states | Shows |
|---|---|---|---|
| `MCImmutableArtifact` | 3 writers, 1 path, 2 contents, 1 chunk | 134,681 | the writer is safe under races, failures, kills and power loss, refines `WriteOnce`, and never waits |
| `MCDenseStore` | 2 identities, 5 rows, batches 1 and 2, intervals 1 and 3, budgets 1 and 5, 2 vectors per row | 71,413 | checkpoints always load, sealed stores are whole, lost work is below the interval, `ResumableBuild` is refined, retrying seals or the store is stranded |
| `MCDenseStoreStranded` | one identity | violation | finding 1 |
| `MCPublicCampaign` | 2 hosts, 2 script versions, 3 questions in batches of 2, 2 answers and a refusal | 180,089 | no mixing of runs among outputs or replay checkpoints, the submission holds the remote answers |
| `MCPublicCampaignLive` | the same with one version | 14,186 | retrying publishes, or the campaign stays in one of two named dead ends |
| `MCDevelopmentRun` | 2 questions, 2 input versions, 2 rankings, 2 answers | 98,460 | one run per directory, replayable publication, answers rest on frozen evidence, retrying publishes unless cut |
| `MCDevelopmentRunResumed` | the same | violation | finding 2 |
| `MCFixturePipeline` | 2 invocations, 2 versions, 2 edits, 1 kill | 907,744 | what is written was approved unless edited meanwhile; when a directory may mix two runs |
| `MCWorkerPool` | 3 threads, 4 tasks, failing sets {}, {3}, {2, 4}, 1 audit failure, interrupts anywhere | 1,114,258 | the outcome of a sequential loop, closing, abort, termination |
| `MCDiskIndex` | 2 builders, 1 reader, 3 versions of each input, 2 replacements, 1 power loss | 330,145 | a query answers from the index its manifest names, builders do not mix, building again publishes or is in a named dead end |
| `MCAlgorithms` | search: 4 rows, 3 scores, all id orders, all block sizes, limits to 3. Split: all assignments of 11 texts over 4 grams to 4 questions, none or 2 of them public, threshold 2/3 | 394,333 | the batched search is exact, the plain one finds the best scores; the prefix filter is exact, the split and the report leak nothing |
| `MCWorkspace` | 25 scopes of jobs that follow or overlap each other, with up to 2 processes, 2 exchanged files and 1 kill; 58 jobs alone over mixtures of 2 versions of everything they read | 305,951 | which jobs join versions, which need the right order, that publications are of one run and can be repeated, that labels stay |

### Properties worth a word

- `ResultIsTruthful` is about the moment *after* the comparison: other writers run
  between `Compare` and the return, and the verdict must still be true.
- `NeverReplaced` has two halves. A content is never exchanged; and one that is
  on the disk is never lost. Between publication and write-back a power loss may
  remove it, which the code accepts by not flushing the directory.
- `CheckpointLoads` relates three files written at different times. It is what
  makes `_load_checkpoint`'s refusal mean a drift somebody caused.
- `LostWorkIsBounded` holds although the rule `completed % interval < batch`
  counts no rows since the last checkpoint and a build may resume with another
  batch size and interval.
- `AnswersAreOfTheNamedIndex` rests on two checks at different times: the
  database's checksum at open, and the checksum of each chunk at each query. The
  check of the chunks file at open protects nothing that is read later.
- `ManifestNamesDatabase` holds because a builder that finds another database
  fails before it writes its manifest; a power loss that takes the database and
  leaves the manifest is the exception, which the next build can turn into a
  lasting one.
- `EventuallySealedOrStranded`, `EventuallyPublishedOrStuck`,
  `EventuallyPublishedOrCut` and `EventuallyIndexedOrDeadEnd` name, in full, the states from which retrying does
  not help: once faults end, the outputs are there for good, or such a state is (`<>[]`).
  Where a publication in progress looks like one cut short, the state demands that no
  running invocation wrote the stamped artifact, and a second conjunct says that one
  which did (`Stamped`) ends with a publication or by a fault.
- `SubmissionIsWhatWasAnswered` is at risk from the replay's dictionary, which is
  keyed by question text and evidence: equal keys overwrite each other, and only
  the comparison afterwards keeps the wrong answer out.
- `WritesWhatWasApproved`: questions, contexts and configuration are read again after
  they were compared or hashed. Only an edit of that very input during that very
  invocation may come between, and an edit before it is refused.
- `MixedOnlyAfterFault` is the exact extent to which a non-atomic publication is
  safe, and `ManifestValidatesWhenAllReturned` needs the validation that comes
  after an invocation's own manifest.
- `OutcomeOfTheLoop` makes the result and the exception independent of the
  schedule; a failing audit or an interrupt are the exceptions.
- `ClosedAfterLastUse` relates three parties: the thread that uses a connection,
  the list it registered it in, and the main thread that closes the list. It holds
  through interrupts of the submission, the loop and the cancelling; not of the
  shutdown, after which threads at work find their connection closed, nor, for what
  stays open, of the closing.
- `DirectoriesOfOneRun` covers the replay directory too, whose path no
  fingerprint names.
- `CandidatesAreExact` is the correctness of an optimisation: most pairs are never
  compared. An off-by-one in the ceiling of the prefix length loses pairs only
  where gram counts and ties fall right.
- `NothingLeaks` needs more than the pairs: chains `a ~ b ~ c` in which `a` and
  `c` are not alike, and groups that are no larger than their components.
- `AcceptedInputsAgree` is the question a reader of these chains would ask first: can a
  command be given files of two runs? For the jobs of `LinkedJobs` never, in any
  directory; for `PinnedJobs` only if a file changes between the hash and the
  second read. `index build` is one of these: its scope exchanges the chunks file and the
  aliases under it.
- `CoherentUnlessTorn` says what protects the jobs that compare nothing: the
  contexts are paired with the import manifest only because the import ran to its
  end and nothing changed since.
- `SetOfOneRun` and `NamedFilesExist` are about publications one file at a time,
  by jobs that may be killed, repeated with other inputs, or overlap.
  `SetOfOneRun` says that the file a job writes last makes the set whole. For
  `baseline build` two overlapping runs with other inputs check what exists before
  either writes; what is checked is not locked, and yet the last file is there only
  with all the others of one run. Its manifest goes out first: a run that is going on or
  was stopped leaves a manifest without what it names, and `NamedFilesExist` claims it
  of no other job, and of this one only without such a run. That a repetition
  completes it is `RerunsReproduce`.
- `RerunsReproduce` is why a repeated script may write over a partial
  publication: its bytes hold no clock. `TimedJobs` are those whose do.
- `LabelsAreKept` is an action property over every writer of the progress file:
  sessions, imports, a second annotator.

### Bounds, and why they are enough

- *Three writers* are needed for one to be between `exists` and `link`, one to
  have published and one to compare. They are independent of the path, so one
  destination is enough for safety; the proofs cover the rest.
- *Five rows, batches of one and two, an interval of three*: no batch size
  divides the interval at every position, the last batch is cut, and a build can
  be interrupted before, at and after a checkpoint. A
  budget of five is reached by batches of one only, and is no budget for others.
- *Three questions in batches of two* give a full and a cut batch; the first two
  ask the same, the third has no evidence. Two hosts and two script versions are
  the least that can mix. The liveness run has one version, because with two
  the interesting conflicts are safety ones.
- *Two questions* give a first and a last checkpoint; two values for each input are
  what the properties tell apart.
- *Two edits* let any two reads of one file differ, and change an input and
  change it back, or two inputs. One kill, because two killed invocations leave nobody to
  observe.
- *Four tasks on three threads* leave a task queued while others run, with
  failures before, between and after them.
- *Four rows* give blocks of every shape with ties inside and across them.
- *Four grams and the threshold 2/3* give near duplicates of sets of different
  sizes, prefixes of length one and two, chains of three texts, ties in the
  frequency of grams, and texts of equal grams and different length; at 9/10 a
  text needs ten grams before two different sets are near duplicates. *Four
  questions* make two pairs, a chain or a star; the digests fall into all three
  splits.
- *Two versions* of a source are what "the same" and "another" need. A job alone
  is given every mixture of two versions of its files if it reads at most six;
  of more files, those in which at most two are of the other version: what a
  missing comparison lets through is one file that does not fit. Jobs together
  start from one version and see at most one exchange, or two in the scope of
  `index build`, and one kill; two processes are the least that overlap.
- *Three versions of the chunks file*, two of one length that share their first
  chunk, and one shorter: a database of replaced chunks may or may not be
  refused for its number of rows, and a query of it may or may not notice. Two
  replacements change an input and change it back, or two inputs.
- `MaxEdits`, `MaxKills`, `MaxLosses`, `MaxAuditFailures`, `MaxLimit`, and a scope's
  `maxEdits` and `maxKills`, and the jobs it gives each process, are the bounds on
  counters; nothing else is cut off. No state constraint is used.
- Symmetry is used in `MCPublicCampaign`, over hosts, versions and answers, none
  of which a definition tells apart; not in a liveness run.
- Deadlock is checked except in `MCFixturePipeline`, `MCWorkerPool` and
  `MCAlgorithms`, whose calls come to an end.
- `TypeOK` is checked in `MCImmutableArtifact`, `MCDiskIndex` and `MCAlgorithms`;
  the other runs spend their time on the properties above. Type correctness is a
  theorem of every module of the first block of section 2, except for the part of
  `QuestionSplit` its proofs do not need.

### Fairness

- *ImmutableArtifact*: `WF(Step(w))`. A Python call runs on unless its process
  dies. Nothing is assumed of a new call.
- *DenseStore*: `WF(Work)`, and `WF(OwnerInvokes)`: whoever owns the directory
  starts the build again when it is not running. Without this no resumable
  build finishes. Progress is claimed only when faults end (`FaultsEnd`).
- *PublicCampaign*: `WF(HostStep(h))` and `SF(Start(h, s))` for every version: an
  operator keeps retrying each version. Strong fairness because a host that runs
  is not startable, so that `Start` is not continuously enabled.
- *DevelopmentRun*: the same for the retrieval, and weak fairness of
  `StartGeneration` and of the generation's steps.
- *DiskIndex*: `WF(StartBuild(b))` and `WF(BuildStep(b))`: a build runs on, and an
  operator starts it again. Nothing is assumed of readers.
- *WorkerPool*: `WF(MainStep)` and `WF(Work(w))`: threads are scheduled.
- *Workspace*, *FixturePipeline* and the two algorithms have safety properties only.

No fairness is assumed of faults, edits, kills, power losses or interrupts.

## 4. Findings

1. **A dense store can be stranded, complete.** `build_resumable_dense_store`
   renames the partial vectors (line 406) before it writes the manifest and the
   COMPLETE checkpoint (419-431). A stop in between leaves an INCOMPLETE
   checkpoint without its partial file, which every later invocation refuses with
   `DENSE_CHECKPOINT_INVALID` (308-309), although all rows are encoded. The
   docstring (274) promises to "build or resume one exact fingerprint". Shown by
   `MCDenseStoreStranded`; `EventuallySealedOrStranded` shows that this, and a
   stop before the first checkpoint, are the only such states.
2. **A D-062 generation cut within its publication cannot be resumed.** `main`
   writes `manifest.json`, `replay-manifest.json` and `telemetry.json` with wall
   times (350-353) as immutable artifacts (354). A stop after the first makes
   every later invocation end with `ARTIFACT_IMMUTABLE`. The docstring (1) says
   "Run resumable ... generation". Shown by `MCDevelopmentRunResumed`; the
   campaign has the same dead end (`CutShort`), which its liveness property names.

## 5. Proofs

TLC checks instances; the theorems below hold for every value of the constants.
They assume the `ASSUME`s of the modules, nothing else: sizes are natural numbers,
positive where the code's loop needs a round, and the value for "no file" or
"not read" is none of the values of the data. Every safety invariant and action
property of a run is a theorem, except three of the workspace's.

Each proof has the same shape. `IInv` conjoins the type invariant, what each
process knows at each of its steps, and the property; TLC has checked it on the
run's instance before it was proved. One lemma per action shows that it keeps
`IInv`, and `Invariance` is `Spec => []IInv`. The properties follow from it.

### ImmutableArtifactProofs

For any writers, paths, contents and any positive number of chunks. Assumed: a
file has at least one chunk (`NChunksAssumption`), and `NoFile` is neither a file
nor a content.

`IInv` is inductive and conjoins: `TypeOK`; `OwnTemporary` (a writer in a call
has arguments, and its temporary file holds its own content);
`WholeBeforePublish` (nobody is past the fsync with a file that is not whole and
on the disk); `ComparesWithAFile`; `DestinationsWhole`; `PendingExists`;
`VerdictsHaveCalls`; and `ResultIsTruthful`. `NoTornArtifact` alone is not inductive: without
`WholeBeforePublish` a `Link` could publish a part, and without the `synced` half
of `DestinationsWhole` a `PowerLoss` could cut a published file.
`InitEstablishes` and `NextPreserves` have one step per action.

| Theorem | Statement |
|---|---|
| `TypeCorrect` | `Spec => []TypeOK` |
| `NeverTorn` | `Spec => []NoTornArtifact` |
| `Truthful` | `Spec => []ResultIsTruthful` |
| `PublishedOnce` | `Spec => NeverReplaced`, an action property, from `IInv` |
| `Refinement` | `Spec => ImplementsWriteOnce`: `Link` maps to `Publish`, `WriteBack` to `Settle`, `PowerLoss` to `PowerLoss`, everything else stutters |

### DenseStoreProofs

For any identities, rows, encoder outputs, batch sizes, intervals and budgets, and
any number of exceptions and kills.

None of the properties is inductive. The files agree with the checkpoint because
an invocation keeps them ahead of it, and the build is whole because the running
digests follow the files. `CheckpointSound` says that a checkpoint agrees with
itself, `FilesFit` that the partial files begin with what it says (behind that, a
kill may leave anything), `NothingFinal` that nothing is final while the vectors
are partial. `RunFits` says the rest, step by step: which rows are in the ids
file, the buffer and the memory map, and how far the checkpoint is behind
(`completed - ckpt.completed <= completed % interval`, which is what bounds the lost
work although a batch may jump over a multiple of the interval;
`NoMultipleCrossed` is the arithmetic). `KillKeeps` is the hard case: it tears the
ids file at any line.

| Theorem | Statement |
|---|---|
| `TypeCorrect` | `Spec => []TypeOK` |
| `CheckpointsLoad` | `Spec => []CheckpointLoads` |
| `SealedIsWhole` | `Spec => []SealedStoreIsWhole` |
| `LostWork` | `Spec => []LostWorkIsBounded` |
| `Refinement` | `Spec => ImplementsResumableBuild`: a fresh start maps to the claim, a checkpoint to progress, the COMPLETE checkpoint to the seal, everything else stutters |

### PublicCampaignProofs

For any hosts, script versions, questions (any of which may ask the same), answers
and batch size; hosts overlap freely and die anywhere.

What a host publishes is right because of what it found on the disk before. `Fits`
says this of one host at each step: the responses it holds are those stored
(`Stored`), all of them once it replays (`Complete`), and what it has replayed is
in the replay's checkpoints (`ReplayedTo`). `ReplayFits` says of the shared
checkpoints that they are a prefix, of one run, with the stored responses;
`OutputsFit` that each artifact is of the replay's run. The argument against a
second run is that checkpoints and responses only grow: a host of another version
finds a checkpoint that is not its own and stops.

| Theorem | Statement |
|---|---|
| `TypeCorrect` | `Spec => []TypeOK` |
| `OneRunOnDisk` | `Spec => []DirectoriesOfOneRun` |
| `SubmittedAsAnswered` | `Spec => []SubmissionIsWhatWasAnswered` |

### DevelopmentRunProofs

For any number of questions and any inputs, rankings and answers, both scripts cut
and started again at any time, with other inputs.

`Sound` is stated once for a `CheckpointedRun` and holds of both instances:
checkpoints and outputs are those of one input and one list of values, and the
running invocation's input is theirs as soon as it has passed its comparison. The
composition adds that the input of a running generation rests on the published
evidence and ranking (`RestsOn`), and that checkpoints do (`CheckpointsRest`); that
survives the retrieval, because it can no longer publish another value.

| Theorem | Statement |
|---|---|
| `TypeCorrect` | `Spec => []TypeOK` |
| `OneRunEach` | `Spec => []OneRunPerDirectory` |
| `PublishedReplayable` | `Spec => []PublishedIsReplayable` |
| `FrozenEvidence` | `Spec => []AnswersRestOnFrozenEvidence` |

### FixturePipelineProofs

For any number of invocations, versions, edits and kills.

`ReadInOrder` says what an invocation has read by each of its steps, and `Fresh` that
an input it has read is still what lies on the disk, and one it has checked what the
manifest approved, unless that input was edited since; after the last read,
`FreshIsApproved`. `ReplacedInOrder`
is the case without an overlap: the directory is of one build but for what the
publishing invocation has replaced so far. `MismatchIsPending` is the case with
overlaps, and the reason why a mixture does not last: when the manifest does not
fit what lies beside it, an invocation has yet to replace the manifest, or to
validate and fail. Once every invocation has returned none is left, which is
`ManifestValidatesWhenAllReturned`.

| Theorem | Statement |
|---|---|
| `TypeCorrect` | `Spec => []TypeOK` |
| `ApprovedUnlessEdited` | `Spec => []WritesWhatWasApproved` |
| `MixtureNeedsFault` | `Spec => []MixedOnlyAfterFault` |
| `ManifestValidates` | `Spec => []ManifestValidatesWhenAllReturned` |

### AlgorithmProofs: DenseSearch

For any number of rows, any integer scores, any injective ids, any block size
and limit.

`Better` is a strict total order on the rows (`BetterIsOrder`), and every
non-empty set of rows has a first and a last one (`MinimalElement`, by the
well-foundedness of strict inclusion on finite sets). On that rest two facts:
`BestIsFull` (of `n >= k` rows, `Best` keeps exactly `k`) and `BestOfUnion`
(`Best(Best(S,k) \cup T, k) = Best(S \cup T, k)`: what a block discards never
comes back). `ThresholdExists`, `ThresholdSelects` and `SelectIsBest` show that
the partition at the threshold with the ties taken by id is `Best` of the block. The
inductive invariant is `SearchTypeOK /\ BatchIsExact /\ PlainIsFull`; the last says
that the plain search has, for each score `s`, as many rows of score at least
`s` as there are, up to the limit, which is `PlainScoresAreBest` without
reference to the other search.

| Theorem | Statement |
|---|---|
| `SearchTypeCorrect` | `SearchSpec => []SearchTypeOK` |
| `BatchedSearchIsExact` | `SearchSpec => []BatchIsExact` |
| `PlainSearchFindsTheBestScores` | `SearchSpec => []PlainScoresAreBest` |

### AlgorithmProofs: QuestionSplit

For any texts with finite sets of grams, any threshold `Num / Den` above 0 and up
to 1, any numbers of questions and any assignment of texts to them. Assumed: a text
has no length exactly if it has no grams.

*The prefix filter.* Of two near duplicates take the rarest common gram. The grams
before it in one text are not common, so that there are at most as many as the text
has beyond the common ones; by the threshold that is fewer than its prefix is
long (`RarestIsInPrefix`; `RoundedUp` and `FactorKeepsOrder` are the arithmetic).
Hence it lies in both prefixes, and the pair is a candidate
(`NearDuplicatesAreCandidates`). `PositionsDiffer` makes a scan's positions a
numbering, so that each step of it adds exactly the pairs of one text.

*The disjoint set.* `Path` is a recursive function. `PassedExists` shows that its
equations have a solution, from the smallest question upwards (`FromBelow`,
induction over a set of numbers in place of an operator); `RootsAreUnique` that
roots are the only numbering items share with their parents. From the two follow
`HalvedKeepsRoots` (path halving changes no root) and `UnionMergesRoots`.

*The invariant.* Apart from `CandidatesAreExact`, it says of the disjoint set
(`Uniting`) that questions of one text have one root; that near duplicates have one
root or their pair is still to be united; and that a root is never shared
without reason: any set of questions closed under being alike has, with a question,
all others of its root (`RootsAreLinked`). When no pair is left, the sets of one root
are the connected components (`GroupFormsComponents`).

| Theorem | Statement |
|---|---|
| `PrefixFilterIsExact` | `SplitSpec => []CandidatesAreExact` |
| `SplitsLeakNothing` | `SplitSpec => []NothingLeaks` |

### AlgorithmProofs: WorkerPool

For one to eight threads (the code's bound), any number of tasks, any set of
failing ones, any number of audit failures, and interrupts wherever the main thread is.

A result the main thread has consumed must not change, so that no two threads may
work for one future (`OwnFuture`); the exception is that of the first failing
input because the main thread consumes in order (`ConsumedInOrder`, `LoopLeft`);
and connections are closed after their last use because the main thread closes
them when all threads are idle (`Registered`, `Quiet`), which follows from a
shutdown that waited to its end: no future is pending then, cancelled or not.

| Theorem | Statement |
|---|---|
| `TypeCorrect` | `Spec => []TypeOK` |
| `LoopOutcome` | `Spec => []OutcomeOfTheLoop` |
| `ConnectionsClosed` | `Spec => []ClosedAfterLastUse` |
| `AbortStops` | `Spec => AbortStartsNothing`, an action property |

### DiskIndexProofs

For any builders, readers, versions of the inputs and bounds. Assumed: there is
a version, `Absent` is neither a version nor a database nor a manifest, and the
bounds are natural numbers.

`TypeOK` is not inductive: `LinkDatabase` publishes the builder's memory, which
must be a database by then. `BuilderReady` says what each position of a build
implies of its memory, and that a builder about to write a manifest sees its own
database published; `ReaderReady` that an open reader's database is its
manifest's, and each chunk it returned that database's. These relate one
process's memory to the shared database. They survive the other builders because `LinkDatabase`
needs an absent database, and whoever relies on one relies on one that is there;
`LinkDatabaseStep` is the proof of that. `BuilderMoves` and `ReaderMoves` reduce
every step that changes only one process's memory to a fact about that process.

| Theorem | Statement |
|---|---|
| `TypeCorrect` | `Spec => []TypeOK` |
| `AnswersAreExact` | `Spec => []AnswersAreOfTheNamedIndex` |
| `OneIndexPublished` | `Spec => []ManifestNamesDatabase` |

### WorkspaceProofs

For any processes, any scopes of this repository's jobs, any contents the directory may
begin with, and any number of exchanges and kills.

*Assumed.* The directory has a place for every file the jobs of a scope read or write, and
what a sealed job ends with is not there when it begins, nor exchanged later
(`ScopesAssumption`): the files of a sealed job come from its runs. What the directory
begins with as progress has labels and as a proposal report is one, neither is exchanged,
and what the import wrote is exchanged only where no corpus is built (`SourcesAssumption`):
these are the program's own files, and the exchange of sources is what the model is
about. `OutputsAssumption` and `WritersAssumption` are facts about the table of jobs,
without a constant.

*What the jobs write.* `Seals(j, e)` says of a list of effects that it writes only files
of job `j`, and, if any, the final one last; `Remains` says it of the jobs that are not
sealed. There is one lemma for each job that `JobDoes` returns such a list whatever was
read, at whatever time and luck, and for those that read on (`GoOn`) that what follows is
such a list.

*Sets of one run.* `WorkspaceInv`: what a process still has to do is the rest of a list
that was decided upon, all of whose earlier effects took place (`Carries`), and if a
sealed job's final file is there, all writes of some decided list that ends in it are
on the disk (`Delivered`). Immutable files stay, and a final file is written last, after everything
else of its run was written or found equal. The property follows because whoever sees
the final file sees a delivered list.

*Labels.* `LabelInv`: while nothing overlapped, the progress file a session has loaded
is what is there, and each of the effects to come adds to the one before (`Climbs`).
The job's whole list is fixed when it has read its files; only `Changes`, which records
the overlap, can come between.

*Corpus, proposals, aliases.* `CoherenceInv`: while nothing overlapped, was cut, or began
in two versions, what these jobs have read is what is there (`Fresh`); the contexts and
the import manifest are of one version, or one import stands between its first and its
second write (`HalfWay`), and then no job is reading the pair; because a job that begins
then would overlap. `CoherentUnlessTorn` alone is not inductive: it speaks of a job that
has decided, and what it decides on was read over several steps. Approval is by a
person, so that `freeze` relies on the proposal report being one (`IsReport`).

| Theorem | Statement |
|---|---|
| `WorkspaceTypeCorrect` | `Spec => []TypeOK` |
| `SetsAreOfOneRun` | `Spec => []SetOfOneRun` |
| `LabelsStay` | `Spec => LabelsAreKept`, an action property |
| `SteadyJobsJoinNothing` | `Spec => []CoherentUnlessTorn` |

### Only model-checked

- Every liveness property (`CallsReturn`, `EventuallySealedOrStranded`,
  `EventuallyPublishedOrStuck`, `EventuallyPublishedOrCut`,
  `EventuallyIndexedOrDeadEnd`, `MapEnds`): liveness
  under fairness, and `ENABLED`, are outside what the proof system does.
- `AcceptedInputsAgree`: its proof needs an invariant that gives every file of the
  directory its kind of content, and every content the versions of all it was computed
  from, kept by each of the jobs; then a lemma for each of 37 jobs.
- `NamedFilesExist`: it needs the same invariant, to know that a parent of a report
  which looks like an output of its job is one.
- `RerunsReproduce` is about the directories of the run. It is not true of every one the
  assumptions allow: where an early output of an older run lies, the new run is refused.
  Of the others it says that each file's bytes are a function of the sources', which is
  an induction over the order in which the jobs make the files.
- The theorems of `AlgorithmProofs` about searches and splits are about `SearchSpec` and
  `SplitSpec`; `MCSpec` runs one of the two while the other rests.

## 6. What is not modelled

- *Numerics and text*: scores, embeddings, metrics, tokenisation, chunk windows,
  citations, prompts, parsing. Their results are values chosen from small sets, or
  contents that name their inputs.
- *The fixture pipeline's failure report* `failure.json`, beyond the fact that it
  changes no other artifact; `pipeline/model.py`.
- *Power loss* outside `ImmutableArtifact` and `DiskIndex`. `_write_checkpoint` of the dense
  store replaces its checkpoint without flushing it.
- *Texts exchanged under a dense build*: the texts are read by offset after the
  chunks file's checksum and held to their identifiers alone, so that a store may name
  a corpus that some of its vectors are not of. The model has this (`Variants`); nothing
  in the code forbids it, and no property does.
- *Code edited under a fixture run*: the run identifier names the source tree as
  hashed, not as loaded. An edit in between gives one identifier to different
  answers; `WritesWhatWasApproved` names that edit as its exception.
- *Two simultaneous builders* of one dense store: nothing keeps them apart, and
  no script starts two.
- *Inputs outside a fingerprint*: the D-062 retrieval's fingerprint leaves out
  the reranker's instruction, its maximum length and the tokenizer files.
- *Checks by identifiers*: selection, set evaluation, oracle and most
  experiments accept a queue and a ranking of different runs if their identifiers
  agree. The models have this (`Luck`), and no property forbids it.
- *Cost accounting* of the campaign, an estimate from wall time.
- *Question-by-question checkpoints* of D-059 and D-061 in the workspace, where the
  checkpoints of all questions are one file; `CheckpointedRun` has the pattern.
- *Remote functions*: what runs on Modal is a volume and an answer.
- *Code without a caller*: `ModalSubmissionState`, `build_dense_store`,
  `modal_private_retrieval.py`, `generator_qlora.py` and `authorization.py` are
  used by tests alone, and D-059's public stage never gets past its
  configuration.
- *Schemas* (`domain/execution.py` and the other pydantic models): predicates on one
  value, without state.
- The components with status `not_modelled` in `PROJECT.json`, each with its
  reason there.

## 7. Plan

The code's state machines are modelled, and the safety properties of all of them are
proved but for three of the workspace. What is left, in this order:

1. `Workspace`: an invariant of the kinds of contents, for `AcceptedInputsAgree` and
   `NamedFilesExist`; then `RerunsReproduce` for directories that begin without outputs.
2. `DenseStore`: a second builder in the same directory, and power loss at its
   checkpoint.
3. `PublicCampaign`: an abstract specification of the campaign, claimed by one run
   and published once, for its refinement.
