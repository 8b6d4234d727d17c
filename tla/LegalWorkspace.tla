--------------------------- MODULE LegalWorkspace --------------------------
(***************************************************************************)
(* What lies in the workspace of this repository: its sources and what the *)
(* jobs make of them, in two versions.                                     *)
(***************************************************************************)
EXTENDS Workspace

Sources == {"train_source", "public_source", "contexts_source", "source_tree",
            "scorer", "parity_fixtures"}

\* What a job that runs alone reads in a directory, and what it then does.
GotFrom(files, j) ==
    [a \in {JobReads(j)[k].as : k \in DOMAIN JobReads(j)} |->
        LET k == CHOOSE n \in DOMAIN JobReads(j) : JobReads(j)[n].as = a
            f == JobReads(j)[k].file
        IN  IF f \in DOMAIN files THEN files[f] ELSE NoFile]
Alone(files, j) == JobDoes(j, GotFrom(files, j), 1, TRUE)

\* The directory when these effects have taken place.
After(files, effects) ==
    LET writes == {k \in DOMAIN effects : effects[k].do \in {"immutable", "replace"}}
    IN  [f \in {effects[k].file : k \in writes} |->
            effects[CHOOSE k \in writes : effects[k].file = f].data] @@ files

\* The set has TLC know the directory before it runs the job in it.
Ran(files, j) == CHOOSE after \in {After(d, Alone(d, j)) : d \in {files}} : TRUE

\* The jobs in this order, each followed by what it goes on with.
WithFollowers(jobs) ==
    FlattenSeq([k \in DOMAIN jobs |->
        <<jobs[k]>> \o (IF jobs[k] \in DOMAIN Goes THEN <<Goes[jobs[k]]>> ELSE <<>>)])
RanAll(files, jobs) == FoldLeft(Ran, files, WithFollowers(jobs))

\* Everything the commands make of the sources.
Measured == RanAll([s \in Sources |-> Source(s, 1)], FlattenSeq(Pipeline))

------------------------------------------------------------------------------
(* The scripts start from a corpus, questions and index that are there.    *)
(* These are taken as they come, except for the sources they derive from.  *)
Origin ==
    [train |-> "train_source", public |-> "public_source", train_source |-> "train_source",
     public_source |-> "public_source", contexts |-> "contexts_source",
     import_manifest |-> "contexts_source", chunks |-> "contexts_source",
     aliases |-> "contexts_source", database |-> "contexts_source",
     d062_comparison |-> "d062_run", d062_grounding |-> "d062_run",
     r0_per_query |-> "d062_run", base_per_query |-> "d062_run",
     r0_predictions |-> "d062_run", base_predictions |-> "d062_run",
     parameter_manifest |-> "models", encoder |-> "models", model_approval |-> "models",
     candidate_model |-> "models",
     historical_report |-> "old_index", source_work_queue |-> "old_labels",
     source_labeled_queue |-> "old_labels"]
Given(f) == [what |-> f, from |-> <<1>>, basis |-> {<<Origin[f], 1>>}]

Corpus ==
    LET aliases == AliasManifest(Given("import_manifest"), Given("aliases"))
        split == Split(Given("train"), Given("public"))
    IN  [f \in DOMAIN Origin |-> Given(f)]
        @@ [alias_manifest |-> aliases, split |-> split,
            sample |-> Sample(Given("train"), split),
            index_manifest |-> IndexManifest(Given("database"), Given("import_manifest"),
                                             Given("chunks"), aliases)]

\* The assessment of an earlier run, over the same benchmark.
WithBaseline(files) ==
    LET assessment == Made("baseline_assessment", [benchmark |-> files["benchmark"]])
    IN  files @@
        [baseline_assessment |-> assessment,
         baseline_assessment_manifest |->
            Made("baseline_assessment_manifest",
                 [benchmark_manifest |-> files["benchmark_manifest"],
                  assessment |-> assessment])]

Benchmarked == WithBaseline(RanAll(Corpus, Pipeline[2]))
Settled == RanAll(Benchmarked, FlattenSeq(Scripts))

------------------------------------------------------------------------------
(* The same directory, had every source been of version 2.                 *)
RECURSIVE Renewed(_, _)
Renewed(c, sources) ==
    [c EXCEPT !.basis = {<<s[1], 2>> : s \in c.basis},
              !.from = IF c.what \in sources THEN <<2>>
                       ELSE IF c.basis = {} THEN @
                       ELSE [k \in DOMAIN @ |-> Renewed(@[k], sources)]]

InTwoVersions(files, sources) ==
    <<files, [f \in DOMAIN files |-> Renewed(files[f], sources)]>>
Commands == InTwoVersions(Measured, Sources)
Experiments == InTwoVersions(Settled, DOMAIN Origin)
=============================================================================
