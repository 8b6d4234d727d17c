----------------------------- MODULE Workspace -----------------------------
(***************************************************************************)
(* A working directory in which commands and scripts run.  A process runs  *)
(* one job: it reads the job's files one after the other, computes, and    *)
(* carries out the effects one after the other.  In between, other         *)
(* processes run, sources are exchanged for other versions, and the        *)
(* process may be killed; nothing in the repository locks the directory.   *)
(* write_immutable_bytes is the single step WriteOnce allows it to be      *)
(* (ImmutableArtifact refines it), os.replace is atomic.                   *)
(***************************************************************************)
EXTENDS OutputTable, FiniteSets

CONSTANTS
    Procs,              \* processes
    Scopes,             \* name -> the jobs that each process runs, and the
                        \* bounds: [jobs, maxEdits, maxKills]
    Stock,              \* name -> what the directory may begin with
    Exchanges           \* name -> sources that may change: [file, data]

\* The table of the jobs: what a job reads, in order; which of these may be
\* missing; what its clock or its uuid4() may show; and the outcomes of its checks
\* that are weaker than a checksum.
Reads == [j \in Jobs |-> JobReads(j)]
Optional == [j \in Jobs |-> JobOptional(j)]
Clock == [j \in Jobs |-> JobClock(j)]
Luck == [j \in Jobs |-> JobLuck(j)]

\* The jobs that may run in a scope.
JobsIn(s) == Whole(UNION {Scopes[s].jobs[p] : p \in Procs})

\* The directory has a place for all the files of these jobs.  What a sealed job
\* ends with is not there when it begins, and nobody exchanges a sealed job's files.
ASSUME ScopesAssumption ==
    \A s \in DOMAIN Scopes :
        /\ Scopes[s].maxEdits \in Nat /\ Scopes[s].maxKills \in Nat
        /\ JobsIn(s) \subseteq Jobs
        /\ \A files \in Stock[s], j \in JobsIn(s) :
              /\ JobWrites(j) \subseteq DOMAIN files
              /\ \A k \in DOMAIN Reads[j] : Reads[j][k].file \in DOMAIN files
              /\ j \in SealedJobs => files[FinalFile(j)] = NoFile
        /\ \A e \in Exchanges[s], j \in JobsIn(s) \intersect SealedJobs :
              e.file \notin JobWrites(j)

\* Nobody who is no process is one.
ASSUME ProcsAssumption == "nobody" \notin Procs

\* A report on proposals, if there is one.
IsReport(content) ==
    content # NoFile =>
        content = ProposalReport(content.from.corpus, content.from.proposals)

\* A progress file that the directory begins with has labels, and a report on proposals is
\* one.  Neither is exchanged, nor is what an import wrote, where a corpus or proposals are
\* made of it.
ASSUME SourcesAssumption ==
    \A s \in DOMAIN Scopes :
        /\ \A files \in Stock[s] :
              /\ "progress" \in DOMAIN files =>
                    files["progress"] = NoFile \/ "labels" \in DOMAIN files["progress"]
              /\ "proposal_report" \in DOMAIN files => IsReport(files["proposal_report"])
        /\ \A e \in Exchanges[s] :
              /\ e.file \notin {"progress", "proposal_report"}
              /\ e.file \in {"contexts", "import_manifest"}
                    => {"corpus", "propose"} \intersect JobsIn(s) = {}

VARIABLES
    scope,       \* the scope the directory is used for
    disk,        \* file -> content
    proc,        \* process -> what it is doing
    edits,       \* how often a file was exchanged
    kills,       \* how many processes were killed
    decided,     \* what every run of a sealed job set out to do
    torn         \* what disturbed the runs:
                 \*   "mixed"    the directory began with two versions of a source
                 \*   "overlap"  a file changed under a job that uses it or was about
                 \*              to write something else into it, or a job began to
                 \*              read what another was about to write
                 \*   "cut"      a job stopped between two of its effects

vars == <<scope, disk, proc, edits, kills, decided, torn>>

NoGot == [nothing \in {} |-> NoFile]
And(got, name, content) ==
    [a \in DOMAIN got \union {name} |-> IF a = name THEN content ELSE got[a]]
Idle == [job |-> "none", pc |-> "idle", got |-> NoGot, todo |-> <<>>]

\* No source has two versions in the directory.
OneVersion(files) ==
    \A f, g \in DOMAIN files : \A s \in files[f].basis, t \in files[g].basis :
        s[1] = t[1] => s[2] = t[2]

Init ==
    /\ scope \in DOMAIN Scopes
    /\ disk \in Stock[scope]
    /\ proc = [p \in Procs |-> Idle]
    /\ edits = 0 /\ kills = 0
    /\ decided = {}
    /\ torn = IF OneVersion(disk) THEN {} ELSE {"mixed"}

Running(p) == proc[p].pc # "idle"
UsedBy(p, f) == Running(p) /\ \E k \in DOMAIN Reads[proc[p].job] :
                                Reads[proc[p].job][k].file = f

\* Process p is about to write something else into f.
Contests(p, f, content) ==
    \E k \in DOMAIN proc[p].todo : proc[p].todo[k].file = f /\ proc[p].todo[k].data # content

\* A file changes; q is the process that changes it, if one does.
Changes(f, content, q) ==
    /\ disk' = [disk EXCEPT ![f] = content]
    /\ torn' = IF content # disk[f] /\ \E p \in Procs \ {q} :
                                          UsedBy(p, f) \/ Contests(p, f, content)
               THEN torn \union {"overlap"} ELSE torn

Ends(p) == proc' = [proc EXCEPT ![p] = Idle]

\* Process q still has to write a file that job j reads.
Writing(q, j) ==
    proc[q].pc = "act" /\ \E e \in {proc[q].todo[k] : k \in DOMAIN proc[q].todo} :
        e.do \in {"immutable", "replace"} /\ \E k \in DOMAIN Reads[j] : Reads[j][k].file = e.file

Start(p, j) ==
    /\ ~Running(p)
    /\ proc' = [proc EXCEPT ![p] =
                   [job |-> j, pc |-> "read", got |-> NoGot, todo |-> <<>>]]
    /\ torn' = IF \E q \in Procs : Writing(q, j) THEN torn \union {"overlap"} ELSE torn
    /\ UNCHANGED <<scope, disk, edits, kills, decided>>

ReadNext(p) ==
    /\ proc[p].pc = "read"
    /\ LET k == Cardinality(DOMAIN proc[p].got) + 1
           reads == Reads[proc[p].job]
       IN  /\ k <= Len(reads)
           /\ proc' = [proc EXCEPT ![p].got = And(@, reads[k].as, disk[reads[k].file])]
    /\ UNCHANGED <<scope, disk, edits, kills, decided, torn>>

\* All is read: the job refuses what it read, or knows what to do.  A required
\* file that is missing ends it.  "now" is what the clock shows; "lucky" says
\* that a check weaker than a checksum passes on contents it was not made for.
Decide(p) ==
    /\ proc[p].pc = "read"
    /\ Cardinality(DOMAIN proc[p].got) = Len(Reads[proc[p].job])
    /\ LET j == proc[p].job
           got == proc[p].got
           missing == \E a \in DOMAIN got \ Optional[j] : got[a] = NoFile
       IN  IF missing
           THEN Ends(p) /\ UNCHANGED decided
           ELSE \E now \in Clock[j], lucky \in Luck[j] :
                  LET effects == JobDoes(j, got, now, lucky)
                  IN  /\ proc' = IF effects = <<>> THEN [proc EXCEPT ![p] = Idle]
                                 ELSE [proc EXCEPT ![p].pc = "act", ![p].todo = effects]
                      /\ decided' = IF j \in SealedJobs THEN decided \union {effects}
                                    ELSE decided
    /\ UNCHANGED <<scope, disk, edits, kills, torn>>

Proceeds(p) ==
    proc' = IF Len(proc[p].todo) = 1 THEN [proc EXCEPT ![p] = Idle]
            ELSE [proc EXCEPT ![p].todo = Tail(@)]

\* The process stops before its list of effects is carried out.
StopsShort(p) == Ends(p) /\ torn' = torn \union {"cut"}

Acting(p, kind) == proc[p].pc = "act" /\ Head(proc[p].todo).do = kind
Effect(p) == Head(proc[p].todo)

WriteReplace(p) ==
    /\ Acting(p, "replace")
    /\ Changes(Effect(p).file, Effect(p).data, p)
    /\ Proceeds(p)
    /\ UNCHANGED <<scope, edits, kills, decided>>

WriteImmutable(p) ==
    /\ Acting(p, "immutable")
    /\ \/ /\ disk[Effect(p).file] = NoFile
          /\ Changes(Effect(p).file, Effect(p).data, p)
          /\ Proceeds(p)
       \/ /\ disk[Effect(p).file] = Effect(p).data
          /\ Proceeds(p)
          /\ UNCHANGED <<disk, torn>>
       \/ /\ disk[Effect(p).file] \notin {NoFile, Effect(p).data}
          /\ StopsShort(p)
          /\ UNCHANGED disk
    /\ UNCHANGED <<scope, edits, kills, decided>>

CheckExpected(p) ==
    /\ Acting(p, "expect")
    /\ IF disk[Effect(p).file] \in {NoFile, Effect(p).data}
       THEN Proceeds(p) ELSE Ends(p)
    /\ UNCHANGED <<scope, disk, edits, kills, decided, torn>>

\* The job reads on, with what it has read so far in hand.
GoesOn(p) ==
    /\ Acting(p, "go_on")
    /\ proc' = [proc EXCEPT ![p].job = Effect(p).file, ![p].pc = "read",
                            ![p].todo = <<>>]
    /\ UNCHANGED <<scope, disk, edits, kills, decided, torn>>

Refused(p) ==
    /\ Acting(p, "refuse")
    /\ Ends(p)
    /\ UNCHANGED <<scope, disk, edits, kills, decided, torn>>

\* The process is killed or fails with an OSError.
Kill(p) ==
    /\ Running(p) /\ kills < Scopes[scope].maxKills
    /\ kills' = kills + 1
    /\ IF proc[p].pc = "act" THEN StopsShort(p) ELSE Ends(p) /\ UNCHANGED torn
    /\ UNCHANGED <<scope, disk, edits, decided>>

\* Somebody exchanges a source for another version of it.
Edit(f, content) ==
    /\ edits < Scopes[scope].maxEdits
    /\ content # disk[f]
    /\ edits' = edits + 1
    /\ Changes(f, content, "nobody")
    /\ UNCHANGED <<scope, proc, kills, decided>>

Step(p) ==
    \/ \E j \in Scopes[scope].jobs[p] : Start(p, j)
    \/ ReadNext(p)
    \/ Decide(p)
    \/ WriteReplace(p)
    \/ WriteImmutable(p)
    \/ CheckExpected(p)
    \/ GoesOn(p)
    \/ Refused(p)
    \/ Kill(p)

Next ==
    \/ \E p \in Procs : Step(p)
    \/ \E e \in Exchanges[scope] : Edit(e.file, e.data)

Spec == Init /\ [][Next]_vars

------------------------------------------------------------------------------
Writes(effects) == {k \in DOMAIN effects : effects[k].do \in {"immutable", "replace"}}
Parents(content) == {content.from[k] : k \in DOMAIN content.from}

TypeOK ==
    /\ scope \in DOMAIN Scopes
    /\ \A p \in Procs :
          /\ proc[p].pc \in {"idle", "read", "act"}
          /\ proc[p].pc = "idle" <=> proc[p].job = "none"
          /\ proc[p].pc = "act" => proc[p].todo # <<>>
    /\ edits \in 0..Scopes[scope].maxEdits /\ kills \in 0..Scopes[scope].maxKills
    /\ torn \subseteq {"mixed", "overlap", "cut"}

\* What the jobs of a class set out to write, given inputs each of which is of
\* one version, is of one version.
Joins(jobs) ==
    \A p \in Procs :
        (/\ proc[p].pc = "act" /\ proc[p].job \in jobs
         /\ \A a \in DOMAIN proc[p].got : Coherent(proc[p].got[a]))
        => \A k \in Writes(proc[p].todo) : Coherent(proc[p].todo[k].data)

\* A job that holds everything it reads against everything else it reads never
\* joins two versions of a source, whatever lies in the directory; a job that
\* checks a file and then reads it again does not, unless a file changes under it.
AcceptedInputsAgree ==
    /\ Joins(LinkedJobs)
    /\ "overlap" \notin torn => Joins(PinnedJobs)

\* The jobs that build the corpus compare nothing: they are kept from joining two
\* versions of a source only by the order in which the jobs are run.  In a directory
\* that was of one version, in which no file changed under a running job and no job
\* stopped between two of its effects, they never do.
CoherentUnlessTorn == torn = {} => Joins(SteadyJobs)

\* The effects d write f, and write it last.
Closes(d, f) == \E l \in Writes(d) : d[l].file = f /\ \A k \in Writes(d) : k <= l

\* Once the file is there that a job writes last, all that a single run of the job
\* writes is there with it, however many runs were killed, refused or overlapped on
\* the way.
SetOfOneRun ==
    \A d \in decided : \A f \in DOMAIN disk :
        Closes(d, f) /\ disk[f] # NoFile
        => \E e \in decided : Closes(e, f) /\ \A k \in Writes(e) : disk[e[k].file] = e[k].data

\* baseline build writes in the order of the paths, its manifest first: a run of it
\* that is going on or was stopped leaves a manifest without what it names.
ManifestAhead(d) ==
    /\ \E k \in Writes(d) : d[k].file = "baseline_manifest"
    /\ "cut" \in torn \/ \E p \in Procs : proc[p].job = "baseline"

\* A manifest or report that is on the disk finds there every output of its own
\* run that it names by a checksum, in the midst of any job and after any kill;
\* that of baseline build only where no run of it stopped and none is going on.
NamedFilesExist ==
    \A d \in decided :
        LET there == {k \in Writes(d) : disk[d[k].file] = d[k].data}
        IN  ManifestAhead(d)
            \/ \A i \in Writes(d) \ there, k \in there : d[i].data \notin Parents(d[k].data)

\* A run that stopped anywhere can be repeated: while no source is exchanged, an
\* immutable file that is there already is what the next run writes, except for
\* the jobs whose outputs bear the time.
RerunsReproduce ==
    edits = 0 /\ torn \subseteq {"cut"} =>
        \A p \in Procs :
            (Acting(p, "immutable") /\ proc[p].job \notin TimedJobs)
            => disk[Effect(p).file] \in {NoFile, Effect(p).data}

\* A label given to a question stays: while no file changes under a session that
\* loaded it, neither annotating further questions nor importing labels takes a
\* question's label away, and what was labelled by hand is not overwritten by an
\* import.
LabelsAreKept ==
    [][("progress" \in DOMAIN disk /\ "overlap" \notin torn')
       => LET before == LabelsOf(disk["progress"])
              after == LabelsOf(disk'["progress"])
          IN  \A x \in DOMAIN before :
                 x \in DOMAIN after /\ (before[x] = "by_hand" => after[x] = "by_hand")]_vars
=============================================================================
