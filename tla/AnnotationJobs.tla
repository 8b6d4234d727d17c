--------------------------- MODULE AnnotationJobs --------------------------
(***************************************************************************)
(* Labelling the queue by hand: grounding annotate, grounding              *)
(* import-labels, grounding export, grounding validate.  The progress file *)
(* is the only artifact of the project that is meant to be replaced: a     *)
(* session loads it once and writes it again after each question.          *)
(***************************************************************************)
EXTENDS RetrievalJobs, SequencesExt

\* The 60 questions of the queue, in its order.
Questions == {1, 2}

\* Progress: the queue it belongs to, whose it is, and question -> label.
Progress(queue, annotator, labels) ==
    [what |-> "progress", from |-> [queue |-> queue], basis |-> queue.basis,
     annotator |-> annotator, labels |-> labels]
NoLabels == [q \in {} |-> "none"]
LabelsOf(progress) == IF progress = NoFile THEN NoLabels ELSE progress.labels

\* record_question_annotation, for one question after the other: labels are added
\* or replaced.
Labelled(progress, questions) ==
    [progress EXCEPT !.labels = [q \in questions \union DOMAIN @ |->
                                    IF q \in questions THEN "by_hand" ELSE @[q]]]

\* load_annotation_progress, and the annotator's name is compared.
Continues(progress, queue, annotator) ==
    progress.from.queue = queue /\ progress.annotator = annotator

AnnotateReads == Files(<<"queue", "progress">>)

\* The session's progress is saved after every question, in the order of the queue.
Saves(progress, targets) ==
    LET first(k) == {q \in targets : Cardinality({r \in targets : r <= q}) <= k}
    IN  [k \in 1..Cardinality(targets) |->
            Replace("progress", Labelled(progress, first(k)))]

\* The session asks for the chosen questions, or for those that have no label
\* when it begins.
Annotate(g, annotator, chosen) ==
    LET progress == IF g.progress = NoFile THEN Progress(g.queue, annotator, NoLabels)
                    ELSE g.progress
        targets == IF chosen = {} THEN Questions \ DOMAIN progress.labels ELSE chosen
    IN  Provided(Continues(progress, g.queue, annotator), Saves(progress, targets))

------------------------------------------------------------------------------
(* grounding import-labels: a labelled copy of the queue, made outside,    *)
(* must be the queue but for its labels.  An existing progress must be     *)
(* what is about to be written; it is looked at before it is replaced.     *)
LabeledQueue(queue) == Made("labeled_queue", [queue |-> queue])
LabelOutsideReads == Files(<<"queue">>)
LabelOutside(g) == <<Replace("labeled_queue", LabeledQueue(g.queue))>>

ImportedProgress(queue, annotator) ==
    Progress(queue, annotator, [q \in Questions |-> "imported"])

\* Faulty variant: nobody asks what is there.
ImportLabelsOver(g, annotator) ==
    Provided(g.labeled_queue.from.queue = g.queue,
             <<Replace("progress", ImportedProgress(g.queue, annotator))>>)

ImportLabelsReads == Files(<<"queue", "labeled_queue">>)
ImportLabels(g, annotator) ==
    LET imported == ImportedProgress(g.queue, annotator)
    IN  Provided(g.labeled_queue.from.queue = g.queue,
                 <<Expect("progress", imported), Replace("progress", imported)>>)

------------------------------------------------------------------------------
(* grounding export, to a draft or, confirmed by the owner, to the         *)
(* approved benchmark.                                                     *)
Benchmark(queue, labels) ==
    [what |-> "benchmark", from |-> [queue |-> queue], basis |-> queue.basis,
     labels |-> labels]
BenchmarkManifest(queue, benchmark, status) ==
    [what |-> "benchmark_manifest",
     from |-> [split |-> QueueSplit(queue), index |-> QueueIndex(queue),
               benchmark |-> benchmark],
     basis |-> queue.basis \union benchmark.basis, status |-> status]

ExportReads == Files(<<"queue", "progress">>)
Export(g, status) ==
    LET benchmark == Benchmark(g.queue, g.progress.labels)
        manifest == BenchmarkManifest(g.queue, benchmark, status)
    IN  Provided(
          /\ g.progress.from.queue = g.queue
          /\ DOMAIN g.progress.labels = Questions,
          <<Expect("benchmark", benchmark), Expect("benchmark_manifest", manifest),
            Immutable("benchmark", benchmark),
            Immutable("benchmark_manifest", manifest)>>)

------------------------------------------------------------------------------
(* grounding validate, and what every later reader of the benchmark asks   *)

\* load_approved_grounding_benchmark
Approved(manifest, benchmark) ==
    /\ manifest.status = "approved"
    /\ benchmark = manifest.from.benchmark

GroundingReport(manifest, benchmark) ==
    Made("grounding_report", [manifest |-> manifest, benchmark |-> benchmark])

ValidateReads == Files(<<"benchmark_manifest", "benchmark">>)
ValidateGrounding(g) ==
    Provided(Approved(g.benchmark_manifest, g.benchmark),
             <<Immutable("grounding_report",
                         GroundingReport(g.benchmark_manifest, g.benchmark))>>)
=============================================================================
