--------------------------- MODULE EvaluationJobs --------------------------
(***************************************************************************)
(* The commands that measure: evaluate retrieval, retrieval-set, oracle    *)
(* and competition, baseline build, benchmark baseline, scorer parity and  *)
(* submit build.                                                           *)
(***************************************************************************)
EXTENDS AnnotationJobs

------------------------------------------------------------------------------
(* evaluate retrieval: the queue is held against the benchmark by the      *)
(* checksums of the split, the chunks and the index, and its candidates    *)
(* against the retrieval output field by field.                            *)
QueueFits(queue, manifest) ==
    /\ QueueSplit(queue) = manifest.from.split
    /\ QueueIndex(queue) = manifest.from.index

EvaluationReport(manifest, benchmark, output, queue) ==
    Made("evaluation_report", [manifest |-> manifest, benchmark |-> benchmark,
                               output |-> output, queue |-> queue])

EvaluateReads == Files(<<"retrieval_output", "queue", "benchmark_manifest", "benchmark">>)
EvaluateRetrieval(g) ==
    Provided(
      /\ Approved(g.benchmark_manifest, g.benchmark)
      /\ QueueFits(g.queue, g.benchmark_manifest)
      /\ g.retrieval_output = g.queue.from.output,
      <<Immutable("evaluation_report",
                  EvaluationReport(g.benchmark_manifest, g.benchmark,
                                   g.retrieval_output, g.queue))>>)

------------------------------------------------------------------------------
(* evaluate retrieval-set and oracle-build bind a ranking to the queue by  *)
(* identifiers alone: "lucky" as in select-evidence.  The answers' scores   *)
(* are optional and are not bound to anything.                             *)
SetReport(g) ==
    Made("set_report", [manifest |-> g.benchmark_manifest, benchmark |-> g.benchmark,
                        ranking |-> g.ranking, queue |-> g.queue,
                        per_query |-> g.per_query])

SetReads ==
    <<Read("ranking", "retrieval_output"), Read("queue", "queue"),
      Read("benchmark_manifest", "benchmark_manifest"), Read("benchmark", "benchmark"),
      Read("per_query", "per_query")>>
EvaluateRetrievalSet(g, lucky) ==
    Provided(
      /\ Approved(g.benchmark_manifest, g.benchmark)
      /\ QueueFits(g.queue, g.benchmark_manifest) \/ lucky
      /\ RankedWithin(g.ranking, g.queue, lucky),
      <<Immutable("set_report", SetReport(g))>>)

\* Both rankings are cut down to what the labels call relevant; O4 is O2 again.
Oracle(name, g, ranking) ==
    Made(name, [queue |-> g.queue, benchmark |-> g.benchmark, ranking |-> ranking])
OracleReport(g, outputs) ==
    Made("oracle_report",
         [queue |-> g.queue, manifest |-> g.benchmark_manifest, benchmark |-> g.benchmark,
          r0 |-> g.r0, r2r |-> g.r2r] @@ outputs)

OracleReads ==
    <<Read("queue", "queue"), Read("benchmark_manifest", "benchmark_manifest"),
      Read("benchmark", "benchmark"), Read("r0", "retrieval_output"),
      Read("r2r", "selected_output")>>
BuildOracle(g, lucky) ==
    LET eligible == Oracle("oracle_queue", g, g.r0)
        o2 == Oracle("oracle_o2", g, g.r0)
        o3 == Oracle("oracle_o3", g, g.r2r)
        o4 == Oracle("oracle_o4", g, g.r0)
        report == OracleReport(g, [queue2 |-> eligible, o2 |-> o2, o3 |-> o3, o4 |-> o4])
    IN  Provided(
          /\ Approved(g.benchmark_manifest, g.benchmark)
          /\ QueueFits(g.queue, g.benchmark_manifest) \/ lucky
          /\ RankedWithin(g.r0, g.queue, lucky)
          /\ g.r2r.from.queue = g.queue \/ lucky,
          <<Immutable("oracle_queue", eligible), Immutable("oracle_o2", o2),
            Immutable("oracle_o3", o3), Immutable("oracle_o4", o4),
            Immutable("oracle_report", report)>>)

------------------------------------------------------------------------------
(* evaluate competition: the scorer is imported, and read once more for    *)
(* the checksum the report names.                                          *)
PerQuery(predictions, references, scorer) ==
    Made("per_query", [predictions |-> predictions, references |-> references,
                       scorer |-> scorer])
ScoreReport(perQuery, predictions, references, named) ==
    Made("score_report", [per_query |-> perQuery, predictions |-> predictions,
                          references |-> references, scorer |-> named])

ScoreReads ==
    <<Read("predictions", "predictions"), Read("references", "references"),
      Read("imported", "scorer"), Read("named", "scorer")>>
Score(g) ==
    LET perQuery == PerQuery(g.predictions, g.references, g.imported)
        report == ScoreReport(perQuery, g.predictions, g.references, g.named)
    IN  <<Expect("per_query", perQuery), Expect("score_report", report),
          Immutable("per_query", perQuery), Immutable("score_report", report)>>

------------------------------------------------------------------------------
(* baseline build: every artifact is held against what exists before the   *)
(* first is written; they are written in the order of their paths, so the  *)
(* manifest that names all the others comes first.                         *)
RefusalRun(name, questions, g) ==
    Made(name, [questions |-> questions, split |-> g.split,
                running |-> g.running, tree |-> g.hashed])
Development(train, split) == Made("development", [train |-> train, split |-> split])
RefusalPredictions(source) == Made("refusal_predictions", [source |-> source])
Predictions(development) == Made("predictions", [development |-> development])
References(development) == Made("references", [development |-> development])
BaselineManifest(parts) == Made("baseline_manifest", parts)

\* The modules were loaded when the command began; their files are hashed later.
BaselineReads ==
    <<Read("running", "source_tree"), Read("train_source", "train_source"),
      Read("public_source", "public_source"), Read("split", "split"),
      Read("hashed", "source_tree")>>
BuildBaseline(g) ==
    LET train == TrainQuestions(g.train_source)
        public == PublicQuestions(g.public_source)
        development == Development(train, g.split)
        developed == RefusalRun("development_run", development, g)
        publicRun == RefusalRun("public_run", public, g)
        predictions == RefusalPredictions(g.public_source)
        manifest == BaselineManifest(
            [split |-> g.split, development |-> developed, public |-> publicRun,
             refused |-> predictions, predictions |-> Predictions(development),
             references |-> References(development)])
        bundle == <<<<"baseline_manifest", manifest>>,
                    <<"predictions", Predictions(development)>>,
                    <<"references", References(development)>>,
                    <<"development_run", developed>>,
                    <<"public_predictions", predictions>>,
                    <<"public_run", publicRun>>>>
        over(effect(_, _)) == [k \in DOMAIN bundle |-> effect(bundle[k][1], bundle[k][2])]
    IN  Provided(SplitIsOf(g.split, train), over(Expect) \o over(Immutable))

\* benchmark baseline: the run's questions are those measured; the report
\* bears a random identifier and the time.
PerformanceReport(run, source, now) ==
    Made("performance", [run |-> run, source |-> source, now |-> Moment(now)])

BenchmarkReads == Files(<<"public_source", "public_run">>)
BenchmarkBaseline(g, now) ==
    Provided(g.public_run.from.questions = PublicQuestions(g.public_source),
             <<Replace("performance",
                       PerformanceReport(g.public_run, g.public_source, now))>>)

------------------------------------------------------------------------------
(* scorer parity: both reports are written, then a failed suite ends the   *)
(* command.  submit build writes what it has rendered and validated; the   *)
(* answers come from a pipeline.                                           *)
ParityReport(scorer, fixtures) ==
    Made("parity_report", [scorer |-> scorer, fixtures |-> fixtures])
ParityMarkdown(report) == Made("parity_markdown", [report |-> report])

ParityReads == Files(<<"scorer", "parity_fixtures">>)
ScorerParity(g, passes) ==
    LET report == ParityReport(g.scorer, g.parity_fixtures)
        written == <<Replace("parity_report", report),
                     Replace("parity_markdown", ParityMarkdown(report))>>
    IN  IF passes THEN written ELSE Append(written, Refuse)

\* The answers are held against the source by the identifiers of the questions.
AnswerReads == Files(<<"public">>)
AnswerPublic(g) == <<Immutable("answers", Made("answers", [public |-> g.public]))>>

Submission(source, answers) ==
    Made("submission", [source |-> source, answers |-> answers])
AnswersFit(answers, source, lucky) == answers.from.public = PublicQuestions(source) \/ lucky

SubmitReads == Files(<<"public_source", "answers">>)
SubmitBuild(g, lucky) ==
    Provided(AnswersFit(g.answers, g.public_source, lucky),
             <<Replace("submission", Submission(g.public_source, g.answers))>>)
=============================================================================
