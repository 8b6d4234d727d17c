----------------------- MODULE FixturePipelineProofs -----------------------
(***************************************************************************)
(* Proofs about FixturePipeline, for any number of invocations, versions,  *)
(* edits and kills: what is written was approved unless edited meanwhile,  *)
(* the output directory mixes two runs only after an overlap or a fault,   *)
(* and once every invocation returned its manifest validates, even after   *)
(* overlaps.                                                               *)
(*                                                                         *)
(* The last one needs to say why a mixture never lasts: whoever has        *)
(* replaced the diagnostics has yet to replace the manifest, and whoever   *)
(* replaced the manifest has yet to look at the artifacts again.           *)
(***************************************************************************)
EXTENDS FixturePipeline, TLAPS

\* The places of an invocation that has not yet read `x`.
Checks == {"idle", "manifest", "check questions", "check contexts", "hash source"}
NotYet(x) ==
  CASE x = "code" -> {"idle"}
    [] x = "manifest" -> {"idle", "manifest"}
    [] x = "tree" -> Checks
    [] x = "questions" -> Checks \cup {"read questions"}
    [] x = "corpus" -> Checks \cup {"read questions", "hash corpus"}
    [] x = "contexts" -> Checks \cup {"read questions", "hash corpus", "ingest"}
    [] x = "config" -> Checks \cup {"read questions", "hash corpus", "ingest", "serialize"}

Ended == {"done", "failed", "killed"}
Publishing == {"write", "validate", "predictions"}

\* What an active invocation has read, and that nothing is written before all
\* is read.
ReadInOrder ==
  \A r \in Runs :
    /\ \A x \in Reads :
         run[r].at \notin NotYet(x) \cup Ended => run[r].read[x] \in Versions
    /\ run[r].at \notin Publishing \cup Ended => run[r].next = 1

NoFault == \A r \in Runs : run[r].at \notin {"failed", "killed"}

\* Without an overlap there is one active invocation at most.
OneAtATime ==
  ~overlapped => \A q, r \in Runs : Active(q) /\ Active(r) => q = r

\* Without an overlap or a fault the directory is of one build, but for what
\* the invocation that is publishing has replaced so far.
ReplacedInOrder ==
  ~overlapped /\ NoFault =>
    /\ (\A r \in Runs : run[r].at \notin Publishing) =>
         \A a \in Artifacts : out[a] = out["predictions"]
    /\ \A r \in Runs : At(r, "write") =>
         \A n \in 1 .. run[r].next - 1 : out[WriteOrder[n]] = run[r].read
    /\ \A r \in Runs : At(r, "validate") \/ At(r, "predictions") =>
         \A n \in 1 .. Len(WriteOrder) : out[WriteOrder[n]] = run[r].read

\* Even with overlaps: when the manifest does not fit what lies beside it, an
\* invocation has yet to replace the manifest, or to find out.
MismatchIsPending ==
  NoFault /\ out["run.manifest"] # NoReads =>
    \/ \A a \in {"diagnostics", "answers"} :
         Bytes(a, out[a]) = Bytes(a, out["run.manifest"])
    \/ \E r \in Runs : At(r, "write") /\ run[r].next > 2
    \/ \E r \in Runs : At(r, "validate") /\ run[r].read = out["run.manifest"]

IInv ==
  /\ TypeOK
  /\ ReadInOrder
  /\ OneAtATime
  /\ ReplacedInOrder
  /\ MismatchIsPending

USE VersionsAssumption, BoundsAssumption

------------------------------------------------------------------------------
(* The invariant is inductive *)

LEMMA WriteOrderIs ==
  /\ Len(WriteOrder) = 4
  /\ WriteOrder[1] = "evidence" /\ WriteOrder[2] = "diagnostics"
  /\ WriteOrder[3] = "answers" /\ WriteOrder[4] = "run.manifest"
  BY DEF WriteOrder

LEMMA Initially == Init => IInv
<1> SUFFICES ASSUME Init PROVE IInv
  OBVIOUS
<1> USE DEF Init
<1>1. TypeOK
  <2>1. file \in [Inputs -> Versions]
    <3>1. (CHOOSE v \in Versions : TRUE) \in Versions
      OBVIOUS
    <3> QED
      BY <3>1
  <2>2. NoReads \in [Reads -> Versions \cup {None}]
    BY DEF NoReads
  <2>3. run \in [Runs -> [at : Places, read : [Reads -> Versions \cup {None}],
                         next : 1 .. Len(WriteOrder)]]
    BY <2>2, WriteOrderIs DEF Places
  <2>4. out \in [Artifacts -> Builds \cup {NoReads}]
    OBVIOUS
  <2>5. /\ edits \in 0 .. MaxEdits /\ kills \in 0 .. MaxKills
        /\ overlapped \in BOOLEAN /\ edited \in [Runs -> SUBSET Inputs]
    <3>1. edits \in 0 .. MaxEdits /\ kills \in 0 .. MaxKills
      OBVIOUS
    <3>2. overlapped \in BOOLEAN
      BY Zenon
    <3>3. edited \in [Runs -> SUBSET Inputs]
      OBVIOUS
    <3> QED
      BY <3>1, <3>2, <3>3
  <2> QED
    BY <2>1, <2>3, <2>4, <2>5, Zenon DEF TypeOK
<1>2. ReadInOrder /\ OneAtATime
  BY DEF ReadInOrder, NotYet, Checks, OneAtATime, Reads, Active
<1>3. ReplacedInOrder /\ MismatchIsPending
  BY DEF ReplacedInOrder, MismatchIsPending, Artifacts, At, Publishing
<1> QED
  BY <1>1, <1>2, <1>3 DEF IInv

RunsTyped ==
  run \in [Runs -> [at : Places, read : [Reads -> Versions \cup {None}],
                    next : 1 .. Len(WriteOrder)]]
OnlyMoved(r) == \A q \in Runs \ {r} : run'[q] = run[q]

\* An invocation that goes on reading, one input or none at a time.
LEMMA ReadingKeeps ==
  ASSUME IInv, NEW r \in Runs, run[r].at \notin Publishing \cup Ended,
         NEW place \in Places \ (Ended \cup {"idle", "validate", "predictions"}),
         NEW read \in [Reads -> Versions \cup {None}],
         RunsTyped', OnlyMoved(r), run'[r].next = run[r].next,
         run'[r].at = place, run'[r].read = read,
         \A x \in Reads : place \notin NotYet(x) => read[x] \in Versions,
         UNCHANGED <<file, out, edits, kills, edited>>,
         overlapped' = overlapped \/ overlapped' = TRUE,
         run[r].at = "idle" /\ ~overlapped' => \A q \in Runs : ~Active(q)
  PROVE  IInv'
<1> USE DEF IInv
<1>1. /\ run'[r].at = place /\ run'[r].read = read /\ run'[r].next = 1
      /\ \A q \in Runs \ {r} : run'[q] = run[q]
  BY DEF OnlyMoved, ReadInOrder
<1>2. TypeOK'
  BY DEF TypeOK, RunsTyped
<1>3. ReadInOrder'
  BY <1>1 DEF ReadInOrder
<1>4. OneAtATime'
  BY <1>1 DEF OneAtATime, Active, Ended, Publishing
<1>5. NoFault' => NoFault
  BY <1>1 DEF NoFault, Ended
<1>6. /\ place \notin {"validate", "predictions"}
      /\ run[r].at \notin {"write", "validate", "predictions"}
  BY DEF Publishing
<1>7. ReplacedInOrder'
  <2> SUFFICES ASSUME ~overlapped', NoFault' PROVE ReplacedInOrder'
    BY DEF ReplacedInOrder
  <2>1. /\ ~overlapped /\ NoFault
    BY <1>5
  <2>2. (\A q \in Runs : run'[q].at \notin Publishing) =>
            \A q \in Runs : run[q].at \notin Publishing
    BY <1>1
  <2>3. ASSUME NEW q \in Runs, At(q, "write")'
        PROVE  \A n \in 1 .. run'[q].next - 1 : out[WriteOrder[n]] = run'[q].read
    <3>1. CASE q = r
      BY <1>1, <3>1
    <3>2. CASE q # r
      BY <1>1, <2>1, <2>3, <3>2 DEF ReplacedInOrder, At
    <3> QED
      BY <3>1, <3>2
  <2>4. ASSUME NEW q \in Runs, At(q, "validate")' \/ At(q, "predictions")'
        PROVE  \A n \in 1 .. Len(WriteOrder) : out[WriteOrder[n]] = run'[q].read
    BY <1>1, <1>6, <2>1, <2>4 DEF ReplacedInOrder, At
  <2> QED
    BY <2>1, <2>2, <2>3, <2>4 DEF ReplacedInOrder
<1>8. MismatchIsPending'
  <2> SUFFICES ASSUME NoFault', out["run.manifest"] # NoReads
               PROVE  MismatchIsPending'
    BY DEF MismatchIsPending
  <2>1. CASE \A a \in {"diagnostics", "answers"} :
                Bytes(a, out[a]) = Bytes(a, out["run.manifest"])
    BY <2>1 DEF MismatchIsPending
  <2>2. CASE \E q \in Runs : At(q, "write") /\ run[q].next > 2
    BY <1>1, <1>6, <2>2 DEF MismatchIsPending, At
  <2>3. CASE \E q \in Runs : At(q, "validate") /\ run[q].read = out["run.manifest"]
    BY <1>1, <1>6, <2>3 DEF MismatchIsPending, At
  <2> QED
    BY <1>5, <2>1, <2>2, <2>3 DEF MismatchIsPending
<1> QED
  BY <1>2, <1>3, <1>4, <1>7, <1>8

\* An invocation that fails or is killed.
LEMMA FaultKeeps ==
  ASSUME IInv, NEW r \in Runs, Active(r), NEW place \in {"failed", "killed"},
         run' = [run EXCEPT ![r].at = place],
         kills' \in 0 .. MaxKills,
         UNCHANGED <<file, out, edits, overlapped, edited>>
  PROVE  IInv'
<1> USE DEF IInv
<1>1. /\ run' \in [Runs -> [at : Places, read : [Reads -> Versions \cup {None}],
                            next : 1 .. Len(WriteOrder)]]
      /\ run'[r].at = place
      /\ \A q \in Runs \ {r} : run'[q] = run[q]
  BY DEF TypeOK, Places
<1>2. TypeOK'
  BY <1>1 DEF TypeOK
<1>3. ReadInOrder' /\ OneAtATime'
  BY <1>1 DEF ReadInOrder, OneAtATime, Active, Ended
<1>4. ~NoFault'
  BY <1>1 DEF NoFault
<1> QED
  BY <1>2, <1>3, <1>4 DEF ReplacedInOrder, MismatchIsPending

LEMMA StartKeeps ==
  ASSUME IInv, NEW r \in Runs, Start(r)
  PROVE  IInv'
<1> DEFINE read == [run[r].read EXCEPT !["code"] = file["config"]]
<1>1. /\ run[r].at = "idle"
      /\ run' = [run EXCEPT ![r] = [at |-> "manifest", read |-> read,
                                    next |-> run[r].next]]
      /\ overlapped' = (overlapped \/ \E q \in Runs : Active(q))
      /\ UNCHANGED <<file, out, edits, kills, edited>>
  BY DEF Start, At, ReadInto, IInv, TypeOK
<1>2. /\ read \in [Reads -> Versions \cup {None}] /\ read["code"] \in Versions
      /\ \A x \in Reads \ {"code"} : read[x] = run[r].read[x]
  BY DEF IInv, TypeOK, Reads, Inputs
<1>3. \A x \in Reads : "manifest" \notin NotYet(x) => read[x] \in Versions
  BY <1>2 DEF NotYet, Checks, Reads
<1> HIDE DEF read
<1> QED
  BY <1>1, <1>2, <1>3, ReadingKeeps
  DEF RunsTyped, OnlyMoved, Places, Ended, Publishing, IInv, TypeOK

\* A check of the resource manifest: nothing is kept of what it read.
LEMMA CheckKeeps ==
  ASSUME IInv, NEW r \in Runs,
         NEW here \in {"check questions", "check contexts"}, At(r, here),
         NEW next \in {"check contexts", "hash source"},
         run' = [run EXCEPT ![r].at = next] \/ Fails(r),
         UNCHANGED <<file, out, edits, kills, overlapped, edited>>
  PROVE  IInv'
<1>1. CASE Fails(r)
  BY <1>1, FaultKeeps DEF Fails, At, Active, IInv, TypeOK
<1>2. CASE run' = [run EXCEPT ![r].at = next]
  <2>1. /\ RunsTyped' /\ OnlyMoved(r) /\ run[r].read \in [Reads -> Versions \cup {None}]
        /\ run'[r].at = next /\ run'[r].read = run[r].read
        /\ run'[r].next = run[r].next
    BY <1>2 DEF IInv, TypeOK, RunsTyped, OnlyMoved, Places
  <2>2. \A x \in Reads : next \notin NotYet(x) => run[r].read[x] \in Versions
    BY DEF IInv, ReadInOrder, At, NotYet, Checks, Reads, Ended
  <2>3. run[r].at \notin Publishing \cup Ended /\ run[r].at # "idle"
    BY DEF At, Publishing, Ended
  <2> QED
    BY <2>1, <2>2, <2>3, ReadingKeeps DEF Places, Ended, IInv, TypeOK
<1> QED
  BY <1>1, <1>2

\* The next input is read, after those that the code reads before it.
LEMMA ReadKeeps ==
  ASSUME IInv, NEW r \in Runs,
         NEW here \in {"manifest", "hash source", "read questions", "hash corpus", "ingest", "serialize"},
         At(r, here),
         NEW as \in Reads, NEW input \in Inputs,
         NEW next \in {"check questions", "read questions", "hash corpus", "ingest",
                       "serialize", "write"},
         ReadInto(r, as, input, next),
         \A x \in Reads : next \notin NotYet(x) => here \notin NotYet(x) \/ x = as,
         UNCHANGED <<file, out, edits, kills, overlapped, edited>>
  PROVE  IInv'
<1> DEFINE read == [run[r].read EXCEPT ![as] = file[input]]
<1>1. /\ run' = [run EXCEPT ![r] = [at |-> next, read |-> read, next |-> run[r].next]]
  BY DEF ReadInto, IInv, TypeOK
<1>2. /\ read \in [Reads -> Versions \cup {None}] /\ read[as] \in Versions
      /\ \A x \in Reads \ {as} : read[x] = run[r].read[x]
  BY DEF IInv, TypeOK
<1>3. \A x \in Reads : next \notin NotYet(x) => read[x] \in Versions
  BY <1>2 DEF IInv, ReadInOrder, At, Ended
<1>4. run[r].at \notin Publishing \cup Ended /\ run[r].at # "idle"
  BY DEF At, Publishing, Ended
<1> HIDE DEF read
<1> QED
  BY <1>1, <1>2, <1>3, <1>4, ReadingKeeps
  DEF RunsTyped, OnlyMoved, Places, Ended, IInv, TypeOK

LEMMA BuildKeeps ==
  ASSUME IInv, NEW r \in Runs,
         \/ ReadManifest(r) \/ CheckQuestions(r) \/ CheckContexts(r)
         \/ HashSource(r) \/ ReadQuestions(r) \/ HashCorpus(r) \/ Ingest(r) \/ Serialize(r)
  PROVE  IInv'
<1>1. CASE CheckQuestions(r)
  BY <1>1, CheckKeeps DEF CheckQuestions
<1>2. CASE CheckContexts(r)
  BY <1>2, CheckKeeps DEF CheckContexts
<1>3. CASE HashSource(r)
  BY <1>3, ReadKeeps DEF HashSource, NotYet, Checks, Reads, Inputs
<1>4. CASE ReadQuestions(r)
  BY <1>4, ReadKeeps DEF ReadQuestions, NotYet, Checks, Reads, Inputs
<1>5. CASE HashCorpus(r)
  BY <1>5, ReadKeeps DEF HashCorpus, NotYet, Checks, Reads, Inputs
<1>6. CASE Ingest(r)
  BY <1>6, ReadKeeps DEF Ingest, NotYet, Checks, Reads, Inputs
<1>7. CASE Serialize(r)
  BY <1>7, ReadKeeps DEF Serialize, NotYet, Checks, Reads, Inputs
<1>8. CASE ReadManifest(r)
  BY <1>8, ReadKeeps DEF ReadManifest, NotYet, Checks, Reads, Inputs
<1> QED
  BY <1>1, <1>2, <1>3, <1>4, <1>5, <1>6, <1>7, <1>8

\* Whoever publishes has read everything.
LEMMA PublishesBuilds ==
  ASSUME IInv, NEW r \in Runs, run[r].at \in Publishing
  PROVE  run[r].read \in Builds
<1>1. \A x \in Reads : run[r].read[x] \in Versions
  BY DEF IInv, ReadInOrder, Publishing, NotYet, Checks, Ended, Reads
<1> QED
  BY <1>1 DEF IInv, TypeOK, Builds

LEMMA WriteArtifactKeeps ==
  ASSUME IInv, NEW r \in Runs, WriteArtifact(r)
  PROVE  IInv'
<1> USE DEF IInv
<1> DEFINE n == run[r].next
           b == run[r].read
<1>1. /\ run[r].at = "write" /\ n \in 1 .. 4 /\ b \in Builds
      /\ UNCHANGED <<file, edits, kills, overlapped, edited>>
  BY WriteOrderIs, PublishesBuilds DEF WriteArtifact, At, TypeOK, Publishing
<1>2. /\ WriteOrder[n] \in Artifacts \ {"predictions"}
      /\ \A k \in 1 .. 4 : k # n => WriteOrder[k] # WriteOrder[n]
  BY <1>1, WriteOrderIs DEF Artifacts
<1>3. /\ out' \in [Artifacts -> Builds \cup {NoReads}]
      /\ out'[WriteOrder[n]] = b
      /\ \A a \in Artifacts : a # WriteOrder[n] => out'[a] = out[a]
  BY <1>1, <1>2 DEF WriteArtifact, TypeOK
<1>4. /\ run' \in [Runs -> [at : Places, read : [Reads -> Versions \cup {None}],
                            next : 1 .. Len(WriteOrder)]]
      /\ \A q \in Runs \ {r} : run'[q] = run[q]
      /\ run'[r].read = b
      /\ n < 4 => run'[r].at = "write" /\ run'[r].next = n + 1
      /\ n = 4 => run'[r].at = "validate"
  <2>1. CASE n < 4
    <3>1. run' = [run EXCEPT ![r].next = n + 1] /\ n + 1 \in 1 .. 4
      BY <1>1, <2>1, WriteOrderIs DEF WriteArtifact
    <3> HIDE DEF n
    <3> QED
      BY <1>1, <2>1, <3>1, WriteOrderIs DEF TypeOK
  <2>2. CASE n = 4
    <3>1. run' = [run EXCEPT ![r].at = "validate"]
      BY <1>1, <2>2, WriteOrderIs DEF WriteArtifact
    <3>2. /\ run' \in [Runs -> [at : Places, read : [Reads -> Versions \cup {None}],
                                next : 1 .. Len(WriteOrder)]]
          /\ OnlyMoved(r) /\ run'[r].read = b /\ run'[r].at = "validate"
      BY <3>1 DEF TypeOK, Places, OnlyMoved
    <3> HIDE DEF n, b
    <3> QED
      BY <2>2, <3>2 DEF OnlyMoved
  <2> QED
    BY <1>1, <2>1, <2>2
<1>5. /\ run'[r].at \in {"write", "validate"}
  BY <1>1, <1>4
<1> HIDE DEF n, b
<1>6. TypeOK'
  BY <1>1, <1>3, <1>4 DEF TypeOK
<1>7. ReadInOrder'
  BY <1>1, <1>4, <1>5 DEF ReadInOrder, NotYet, Checks, Reads, Ended, Publishing, Builds
<1>8. OneAtATime'
  BY <1>1, <1>4, <1>5 DEF OneAtATime, Active
<1>9. NoFault' => NoFault
  BY <1>1, <1>4 DEF NoFault
<1>10. ReplacedInOrder'
  <2> SUFFICES ASSUME ~overlapped', NoFault' PROVE ReplacedInOrder'
    BY DEF ReplacedInOrder
  <2>1. \A k \in 1 .. n - 1 : out[WriteOrder[k]] = b
    BY <1>1, <1>9 DEF ReplacedInOrder, At, n, b
  <2>2. \A k \in 1 .. n : out'[WriteOrder[k]] = b
    <3>1. ASSUME NEW k \in 1 .. n, k # n PROVE out'[WriteOrder[k]] = b
      <4>1. k \in 1 .. n - 1 /\ k \in 1 .. 4
        BY <1>1, <3>1
      <4>2. WriteOrder[k] \in Artifacts
        BY <4>1, WriteOrderIs DEF Artifacts
      <4> QED
        BY <1>2, <1>3, <2>1, <3>1, <4>1, <4>2
    <3> QED
      BY <1>3, <3>1
  <2>3. \A q \in Runs : run'[q].at \in Publishing => q = r
    BY <1>1, <1>4, <1>5 DEF OneAtATime, Active, Publishing
  <2>4. run'[r].at \in Publishing
    BY <1>5 DEF Publishing
  <2>5. At(r, "write")' => \A k \in 1 .. run'[r].next - 1 : out'[WriteOrder[k]] = b
    <3>1. At(r, "write")' => run'[r].next = n + 1
      BY <1>1, <1>4 DEF At
    <3> QED
      BY <1>1, <2>2, <3>1
  <2>6. At(r, "validate")' => \A k \in 1 .. 4 : out'[WriteOrder[k]] = b
    <3>1. At(r, "validate")' => n = 4
      BY <1>1, <1>4 DEF At
    <3> QED
      BY <2>2, <3>1
  <2> QED
    BY <1>4, <1>5, <2>3, <2>4, <2>5, <2>6, WriteOrderIs
    DEF ReplacedInOrder, At, Publishing
<1>11. MismatchIsPending'
  <2> SUFFICES ASSUME NoFault', out'["run.manifest"] # NoReads
               PROVE  MismatchIsPending'
    BY DEF MismatchIsPending
  <2>1. CASE n = 1
    <3>1. \A a \in {"diagnostics", "answers", "run.manifest"} : out'[a] = out[a]
      BY <1>3, <2>1, WriteOrderIs DEF Artifacts
    <3>2. CASE \A a \in {"diagnostics", "answers"} :
                  Bytes(a, out[a]) = Bytes(a, out["run.manifest"])
      BY <3>1, <3>2 DEF MismatchIsPending
    <3>3. CASE \E q \in Runs : At(q, "write") /\ run[q].next > 2
      BY <1>4, <2>1, <3>3 DEF MismatchIsPending, At, n
    <3>4. CASE \E q \in Runs : At(q, "validate") /\ run[q].read = out["run.manifest"]
      BY <1>1, <1>4, <3>1, <3>4 DEF MismatchIsPending, At
    <3> QED
      BY <1>9, <3>1, <3>2, <3>3, <3>4 DEF MismatchIsPending
  <2>2. CASE n \in {2, 3}
    BY <1>4, <2>2 DEF MismatchIsPending, At
  <2>3. CASE n = 4
    BY <1>3, <1>4, <2>3, WriteOrderIs DEF MismatchIsPending, At
  <2> QED
    BY <1>1, <2>1, <2>2, <2>3
<1> QED
  BY <1>6, <1>7, <1>8, <1>10, <1>11

\* Whoever compared the artifacts with its manifest and goes on found them equal.
LEMMA ValidateKeeps ==
  ASSUME IInv, NEW r \in Runs, Validate(r)
  PROVE  IInv'
<1> USE DEF IInv
<1>1. /\ run[r].at = "validate"
      /\ UNCHANGED <<file, out, edits, kills, overlapped, edited>>
  BY DEF Validate, At
<1>2. CASE Fails(r)
  BY <1>1, <1>2, FaultKeeps DEF Fails, Active, TypeOK
<1>3. CASE OutputsMatch(r) /\ run' = [run EXCEPT ![r].at = "predictions"]
  <2>1. /\ run' \in [Runs -> [at : Places, read : [Reads -> Versions \cup {None}],
                              next : 1 .. Len(WriteOrder)]]
        /\ run'[r].at = "predictions" /\ run'[r].read = run[r].read
        /\ \A q \in Runs \ {r} : run'[q] = run[q]
    BY <1>3 DEF TypeOK, Places
  <2>2. TypeOK'
    BY <1>1, <2>1 DEF TypeOK
  <2>3. ReadInOrder'
    BY <1>1, <2>1, PublishesBuilds
    DEF ReadInOrder, NotYet, Checks, Reads, Ended, Publishing, Builds
  <2>4. OneAtATime'
    BY <1>1, <2>1 DEF OneAtATime, Active
  <2>5. NoFault' => NoFault
    BY <1>1, <2>1 DEF NoFault
  <2>6. ReplacedInOrder'
    <3> SUFFICES ASSUME ~overlapped', NoFault' PROVE ReplacedInOrder'
      BY DEF ReplacedInOrder
    <3>1. \A k \in 1 .. Len(WriteOrder) : out[WriteOrder[k]] = run[r].read
      BY <1>1, <2>5 DEF ReplacedInOrder, At
    <3>2. \A q \in Runs : run'[q].at \in Publishing => q = r
      BY <1>1, <2>1 DEF OneAtATime, Active, Publishing
    <3> QED
      BY <1>1, <2>1, <3>1, <3>2 DEF ReplacedInOrder, At, Publishing
  <2>7. MismatchIsPending'
    <3> SUFFICES ASSUME NoFault', out["run.manifest"] # NoReads
                 PROVE  MismatchIsPending'
      BY <1>1 DEF MismatchIsPending
    <3>1. CASE \A a \in {"diagnostics", "answers"} :
                  Bytes(a, out[a]) = Bytes(a, out["run.manifest"])
      BY <1>1, <3>1 DEF MismatchIsPending
    <3>2. CASE \E q \in Runs : At(q, "write") /\ run[q].next > 2
      BY <1>1, <2>1, <3>2 DEF MismatchIsPending, At
    <3>3. CASE \E q \in Runs \ {r} : At(q, "validate") /\ run[q].read = out["run.manifest"]
      BY <1>1, <2>1, <3>3 DEF MismatchIsPending, At
    <3>4. CASE run[r].read = out["run.manifest"]
      BY <1>1, <1>3, <3>4 DEF MismatchIsPending, OutputsMatch
    <3> QED
      BY <2>5, <3>1, <3>2, <3>3, <3>4 DEF MismatchIsPending
  <2> QED
    BY <2>2, <2>3, <2>4, <2>6, <2>7
<1> QED
  BY <1>2, <1>3 DEF Validate

LEMMA ReplacePredictionsKeeps ==
  ASSUME IInv, NEW r \in Runs, ReplacePredictions(r)
  PROVE  IInv'
<1> USE DEF IInv
<1> DEFINE b == run[r].read
<1>1. /\ run[r].at = "predictions" /\ b \in Builds
      /\ UNCHANGED <<file, edits, kills, overlapped, edited>>
  BY PublishesBuilds DEF ReplacePredictions, At, Publishing
<1>2. /\ out' \in [Artifacts -> Builds \cup {NoReads}]
      /\ out'["predictions"] = b
      /\ \A a \in Artifacts \ {"predictions"} : out'[a] = out[a]
  BY <1>1 DEF ReplacePredictions, TypeOK, Artifacts
<1>3. /\ run' \in [Runs -> [at : Places, read : [Reads -> Versions \cup {None}],
                            next : 1 .. Len(WriteOrder)]]
      /\ run'[r].at = "done"
      /\ \A q \in Runs \ {r} : run'[q] = run[q]
  BY DEF ReplacePredictions, TypeOK, Places
<1> HIDE DEF b
<1>4. TypeOK'
  BY <1>1, <1>2, <1>3 DEF TypeOK
<1>5. ReadInOrder' /\ OneAtATime'
  BY <1>1, <1>3 DEF ReadInOrder, OneAtATime, Active, Ended
<1>6. NoFault' => NoFault
  BY <1>1, <1>3 DEF NoFault
<1>7. ReplacedInOrder'
  <2> SUFFICES ASSUME ~overlapped', NoFault' PROVE ReplacedInOrder'
    BY DEF ReplacedInOrder
  <2>1. \A k \in 1 .. Len(WriteOrder) : out[WriteOrder[k]] = b
    BY <1>1, <1>6 DEF ReplacedInOrder, At, b
  <2>2. \A a \in Artifacts \ {"predictions"} : out[a] = b
    BY <2>1, WriteOrderIs DEF Artifacts
  <2>3. \A a \in Artifacts : out'[a] = out'["predictions"]
    BY <1>2, <2>2 DEF Artifacts
  <2>4. \A q \in Runs : run'[q].at \notin Publishing
    BY <1>1, <1>3 DEF OneAtATime, Active, Publishing
  <2> QED
    BY <2>3, <2>4 DEF ReplacedInOrder, At, Publishing
<1>8. MismatchIsPending'
  <2>1. \A a \in {"diagnostics", "answers", "run.manifest"} : out'[a] = out[a]
    BY <1>2 DEF Artifacts
  <2> SUFFICES ASSUME NoFault', out["run.manifest"] # NoReads
               PROVE  MismatchIsPending'
    BY <2>1 DEF MismatchIsPending
  <2>2. CASE \A a \in {"diagnostics", "answers"} :
                Bytes(a, out[a]) = Bytes(a, out["run.manifest"])
    BY <2>1, <2>2 DEF MismatchIsPending
  <2>3. CASE \E q \in Runs : At(q, "write") /\ run[q].next > 2
    BY <1>1, <1>3, <2>3 DEF MismatchIsPending, At
  <2>4. CASE \E q \in Runs : At(q, "validate") /\ run[q].read = out["run.manifest"]
    BY <1>1, <1>3, <2>1, <2>4 DEF MismatchIsPending, At
  <2> QED
    BY <1>6, <2>2, <2>3, <2>4 DEF MismatchIsPending
<1> QED
  BY <1>4, <1>5, <1>7, <1>8

LEMMA EditKeeps ==
  ASSUME IInv, NEW f \in Inputs, NEW v \in Versions, Edit(f, v)
  PROVE  IInv'
<1> USE DEF IInv, Edit
<1>1. TypeOK'
  BY DEF TypeOK
<1>2. ReadInOrder' /\ OneAtATime'
  BY DEF ReadInOrder, OneAtATime, Active
<1>3. ReplacedInOrder' /\ MismatchIsPending'
  BY DEF ReplacedInOrder, MismatchIsPending, NoFault, At
<1> QED
  BY <1>1, <1>2, <1>3

LEMMA Inductive == IInv /\ [Next]_vars => IInv'
<1> SUFFICES ASSUME IInv, [Next]_vars PROVE IInv'
  OBVIOUS
<1>1. CASE UNCHANGED vars
  BY <1>1 DEF vars, IInv, TypeOK, ReadInOrder, OneAtATime, ReplacedInOrder,
     MismatchIsPending, NoFault, Active, At
<1>2. ASSUME NEW r \in Runs, StageFails(r) \/ Kill(r) PROVE IInv'
  <2>1. CASE StageFails(r)
    BY <2>1, FaultKeeps DEF StageFails, Fails, IInv, TypeOK
  <2>2. CASE Kill(r)
    <3>1. kills' \in 0 .. MaxKills
      BY <2>2 DEF Kill, IInv, TypeOK
    <3>2. /\ Active(r) /\ run' = [run EXCEPT ![r].at = "killed"]
          /\ UNCHANGED <<file, out, edits, overlapped, edited>>
      BY <2>2 DEF Kill
    <3> QED
      BY <3>1, <3>2, FaultKeeps
  <2> QED
    BY <1>2, <2>1, <2>2
<1>3. ASSUME NEW r \in Runs,
             Start(r) \/ WriteArtifact(r) \/ Validate(r) \/ ReplacePredictions(r)
      PROVE  IInv'
  BY <1>3, StartKeeps, WriteArtifactKeeps, ValidateKeeps, ReplacePredictionsKeeps
<1>4. ASSUME NEW f \in Inputs, NEW v \in Versions, Edit(f, v) PROVE IInv'
  BY <1>4, EditKeeps
<1> QED
  BY <1>1, <1>2, <1>3, <1>4, BuildKeeps DEF Next

\* The invariant holds at first and is kept by every step.
THEOREM Invariance == Spec => []IInv
  BY Initially, Inductive, PTL DEF Spec

------------------------------------------------------------------------------
(* What an invocation read is what was approved, or was edited meanwhile *)

InputOf(x) ==
  CASE x \in {"code", "tree", "config"} -> "config"
    [] x = "questions" -> "questions"
    [] x \in {"corpus", "contexts"} -> "contexts"

\* The places of an invocation that has not yet compared `f` with the manifest.
NotChecked(f) ==
  {"idle", "manifest", "check questions"}
    \cup (IF f = "contexts" THEN {"check contexts"} ELSE {})

\* What was read from an input, or compared with it, still is what the input
\* is, unless it was edited since the invocation began.
Fresh(r) ==
  /\ \A x \in Reads \ {"manifest"} :
       run[r].at \notin NotYet(x) /\ InputOf(x) \notin edited[r] =>
         run[r].read[x] = file[InputOf(x)]
  /\ \A f \in {"questions", "contexts"} :
       run[r].at \notin NotChecked(f) /\ f \notin edited[r] =>
         run[r].read["manifest"] = file[f]

\* After an invocation returned its inputs may be edited without a trace.
ReadsInv ==
  /\ \A r \in Runs : Active(r) => Fresh(r)
  /\ \A r \in Runs : At(r, "done") => MadeOfApproved(r)

LEMMA FreshIsApproved ==
  ASSUME NEW r \in Runs, run[r].at \in Publishing, Fresh(r)
  PROVE  MadeOfApproved(r)
<1>1. \A x \in Reads \ {"manifest"} : run[r].at \notin NotYet(x)
  BY DEF NotYet, Checks, Publishing, Reads
<1>2. \A f \in {"questions", "contexts"} : run[r].at \notin NotChecked(f)
  BY DEF NotChecked, Publishing
<1>3. \A x \in Reads \ {"manifest"} :
        InputOf(x) \notin edited[r] => run[r].read[x] = file[InputOf(x)]
  BY <1>1 DEF Fresh
<1>4. "config" \notin edited[r] =>
        /\ run[r].read["code"] = file["config"]
        /\ run[r].read["tree"] = file["config"]
        /\ run[r].read["config"] = file["config"]
  BY <1>3 DEF InputOf, Reads
<1>5. "questions" \notin edited[r] =>
        run[r].read["questions"] = run[r].read["manifest"]
  BY <1>2, <1>3 DEF Fresh, InputOf, Reads
<1>6. "contexts" \notin edited[r] =>
        /\ run[r].read["corpus"] = run[r].read["manifest"]
        /\ run[r].read["contexts"] = run[r].read["manifest"]
  BY <1>2, <1>3 DEF Fresh, InputOf, Reads
<1> QED
  BY <1>4, <1>5, <1>6 DEF MadeOfApproved

\* A step of one invocation touches no other's reads.
LEMMA OthersStayFresh ==
  ASSUME ReadsInv, NEW r \in Runs, OnlyMoved(r), UNCHANGED <<file, edited>>,
         Active(r)' => Fresh(r)', At(r, "done")' => MadeOfApproved(r)'
  PROVE  ReadsInv'
<1>1. ASSUME NEW q \in Runs \ {r}
      PROVE  /\ Active(q)' => Fresh(q)'
             /\ At(q, "done")' => MadeOfApproved(q)'
  <2>1. run'[q] = run[q]
    BY DEF OnlyMoved
  <2> QED
    BY <2>1 DEF ReadsInv, Active, At, Fresh, MadeOfApproved
<1> QED
  BY <1>1 DEF ReadsInv

\* An invocation reads its next input, or begins with the code.
LEMMA ReadingStaysFresh ==
  ASSUME IInv, ReadsInv, NEW r \in Runs, NEW here \in Places \ Ended, At(r, here),
         NEW as \in Reads, NEW input \in Inputs, NEW next \in Places \ Ended,
         ReadInto(r, as, input, next),
         as # "manifest" => input = InputOf(as),
         \A x \in Reads : next \notin NotYet(x) => here \notin NotYet(x) \/ x = as,
         \A f \in {"questions", "contexts"} : next \notin NotChecked(f) =>
            here \notin NotChecked(f) /\ as # "manifest",
         UNCHANGED <<file, edited>>
  PROVE  ReadsInv'
<1> DEFINE read == [run[r].read EXCEPT ![as] = file[input]]
<1>1. /\ run' = [run EXCEPT ![r] = [at |-> next, read |-> read, next |-> run[r].next]]
      /\ run[r].read \in [Reads -> Versions \cup {None}]
  BY DEF ReadInto, IInv, TypeOK
<1>2. /\ read[as] = file[input]
      /\ \A x \in Reads \ {as} : read[x] = run[r].read[x]
  BY <1>1
<1> HIDE DEF read
<1>3. OnlyMoved(r) /\ run'[r].at = next /\ run'[r].read = read
  BY <1>1 DEF OnlyMoved, IInv, TypeOK
<1>4. here # "idle" => Active(r)
  BY DEF At, Active, Ended
<1>5. ASSUME NEW x \in Reads \ {"manifest"}, next \notin NotYet(x),
             InputOf(x) \notin edited[r]
      PROVE  read[x] = file[InputOf(x)]
  <2>1. CASE x = as
    BY <1>2, <2>1
  <2>2. CASE x # as
    <3>0. x \in Reads
      OBVIOUS
    <3>1. here \notin NotYet(x)
      BY <1>5, <2>2, <3>0
    <3>2. Active(r)
      <4>1. "idle" \in NotYet(x)
        BY <3>0 DEF NotYet, Checks, Reads
      <4> QED
        BY <1>4, <3>1, <4>1
    <3>3. run[r].read[x] = file[InputOf(x)]
      BY <1>5, <3>1, <3>2 DEF ReadsInv, Fresh, At
    <3> QED
      BY <1>2, <2>2, <3>0, <3>3
  <2> QED
    BY <2>1, <2>2
<1>6. ASSUME NEW f \in {"questions", "contexts"}, next \notin NotChecked(f),
             f \notin edited[r]
      PROVE  read["manifest"] = file[f]
  <2>1. here \notin NotChecked(f) /\ as # "manifest"
    BY <1>6
  <2>2. Active(r)
    BY <1>4, <2>1 DEF NotChecked
  <2>3. run[r].read["manifest"] = file[f]
    BY <1>6, <2>1, <2>2 DEF ReadsInv, Fresh, At
  <2> QED
    BY <1>2, <2>1, <2>3 DEF Reads
<1>7. Fresh(r)'
  BY <1>3, <1>5, <1>6 DEF Fresh
<1>8. ~At(r, "done")'
  BY <1>3 DEF At, Ended
<1> QED
  BY <1>3, <1>7, <1>8, OthersStayFresh

\* An invocation that reads nothing goes on, or ends.
LEMMA MovingStaysFresh ==
  ASSUME IInv, ReadsInv, NEW r \in Runs, NEW here \in Places \ (Ended \cup {"idle"}),
         At(r, here), NEW next \in Places, At(r, next)',
         OnlyMoved(r), run'[r].read = run[r].read,
         \A x \in Reads : next \notin NotYet(x) => here \notin NotYet(x),
         \A f \in {"questions", "contexts"} : next \notin NotChecked(f) =>
            here \notin NotChecked(f) \/ run[r].read["manifest"] = file[f],
         next = "done" => here \in Publishing,
         UNCHANGED <<file, edited>>
  PROVE  ReadsInv'
<1>1. Fresh(r)
  BY DEF ReadsInv, Active, At, Ended
<1>2. Fresh(r)'
  BY <1>1 DEF Fresh, At
<1>3. At(r, "done")' => MadeOfApproved(r)'
  <2> SUFFICES ASSUME next = "done" PROVE MadeOfApproved(r)'
    BY DEF At
  <2>1. MadeOfApproved(r)
    BY <1>1, FreshIsApproved DEF At
  <2> QED
    BY <2>1 DEF MadeOfApproved
<1> QED
  BY <1>2, <1>3, OthersStayFresh

\* An edit leaves a trace with every active invocation.
LEMMA EditStaysFresh ==
  ASSUME IInv, ReadsInv, NEW f \in Inputs, NEW v \in Versions, Edit(f, v)
  PROVE  ReadsInv'
<1>1. /\ UNCHANGED run
      /\ \A g \in Inputs \ {f} : file'[g] = file[g]
      /\ \A r \in Runs : edited'[r] = IF Active(r) THEN edited[r] \cup {f} ELSE edited[r]
  BY DEF Edit, IInv, TypeOK
<1>2. \A x \in Reads \ {"manifest"} : InputOf(x) \in Inputs
  BY DEF InputOf, Reads, Inputs
<1>3. ASSUME NEW r \in Runs, Active(r)'
      PROVE  Fresh(r)'
  <2>1. Active(r) /\ Fresh(r) /\ edited'[r] = edited[r] \cup {f}
    BY <1>1, <1>3 DEF Active, ReadsInv
  <2>2. \A g \in Inputs : g \notin edited'[r] => g \notin edited[r] /\ file'[g] = file[g]
    BY <1>1, <2>1
  <2>3. "questions" \in Inputs /\ "contexts" \in Inputs
    BY DEF Inputs
  <2> QED
    BY <1>1, <1>2, <2>1, <2>2, <2>3 DEF Fresh
<1>4. ASSUME NEW r \in Runs, At(r, "done")'
      PROVE  MadeOfApproved(r)'
  <2>1. At(r, "done") /\ ~Active(r)
    BY <1>1, <1>4 DEF At, Active
  <2> QED
    BY <1>1, <2>1 DEF ReadsInv, MadeOfApproved
<1> QED
  BY <1>3, <1>4 DEF ReadsInv

LEMMA ReadsInductive == IInv /\ ReadsInv /\ [Next]_vars => ReadsInv'
<1> SUFFICES ASSUME IInv, ReadsInv, [Next]_vars PROVE ReadsInv'
  OBVIOUS
<1>1. CASE UNCHANGED vars
  BY <1>1 DEF vars, ReadsInv, Active, At, Fresh, MadeOfApproved
<1>2. ASSUME NEW r \in Runs,
             \/ Start(r) \/ ReadManifest(r) \/ HashSource(r) \/ ReadQuestions(r)
             \/ HashCorpus(r) \/ Ingest(r) \/ Serialize(r)
      PROVE  ReadsInv'
  <2>1. CASE Start(r)
    <3>1. /\ At(r, "idle") /\ ReadInto(r, "code", "config", "manifest")
          /\ UNCHANGED <<file, edited>>
      BY <2>1 DEF Start
    <3>2. \A x \in Reads :
            "manifest" \notin NotYet(x) => "idle" \notin NotYet(x) \/ x = "code"
      BY DEF NotYet, Checks, Reads
    <3>3. \A f \in {"questions", "contexts"} :
            "manifest" \notin NotChecked(f) =>
              "idle" \notin NotChecked(f) /\ "code" # "manifest"
      BY DEF NotChecked
    <3>4. /\ "idle" \in Places \ Ended /\ "manifest" \in Places \ Ended
          /\ "code" \in Reads /\ "config" \in Inputs
          /\ "config" = InputOf("code")
      BY DEF Places, Ended, Reads, Inputs, InputOf
    <3> QED
      BY <3>1, <3>2, <3>3, <3>4, ReadingStaysFresh
  <2>2. CASE ReadManifest(r)
    <3>1. /\ At(r, "manifest") /\ ReadInto(r, "manifest", "manifest", "check questions")
          /\ UNCHANGED <<file, edited>>
      BY <2>2 DEF ReadManifest
    <3>2. \A x \in Reads :
            "check questions" \notin NotYet(x) => "manifest" \notin NotYet(x) \/ x = "manifest"
      BY DEF NotYet, Checks, Reads
    <3>3. \A f \in {"questions", "contexts"} :
            "check questions" \notin NotChecked(f) =>
              "manifest" \notin NotChecked(f) /\ "manifest" # "manifest"
      BY DEF NotChecked
    <3>4. /\ "manifest" \in Places \ Ended /\ "check questions" \in Places \ Ended
          /\ "manifest" \in Reads /\ "manifest" \in Inputs
      BY DEF Places, Ended, Reads, Inputs, InputOf
    <3> QED
      BY <3>1, <3>2, <3>3, <3>4, ReadingStaysFresh
  <2>3. CASE HashSource(r)
    <3>1. /\ At(r, "hash source") /\ ReadInto(r, "tree", "config", "read questions")
          /\ UNCHANGED <<file, edited>>
      BY <2>3 DEF HashSource
    <3>2. \A x \in Reads :
            "read questions" \notin NotYet(x) => "hash source" \notin NotYet(x) \/ x = "tree"
      BY DEF NotYet, Checks, Reads
    <3>3. \A f \in {"questions", "contexts"} :
            "read questions" \notin NotChecked(f) =>
              "hash source" \notin NotChecked(f) /\ "tree" # "manifest"
      BY DEF NotChecked
    <3>4. /\ "hash source" \in Places \ Ended /\ "read questions" \in Places \ Ended
          /\ "tree" \in Reads /\ "config" \in Inputs
          /\ "config" = InputOf("tree")
      BY DEF Places, Ended, Reads, Inputs, InputOf
    <3> QED
      BY <3>1, <3>2, <3>3, <3>4, ReadingStaysFresh
  <2>4. CASE ReadQuestions(r)
    <3>1. /\ At(r, "read questions") /\ ReadInto(r, "questions", "questions", "hash corpus")
          /\ UNCHANGED <<file, edited>>
      BY <2>4 DEF ReadQuestions
    <3>2. \A x \in Reads :
            "hash corpus" \notin NotYet(x) => "read questions" \notin NotYet(x) \/ x = "questions"
      BY DEF NotYet, Checks, Reads
    <3>3. \A f \in {"questions", "contexts"} :
            "hash corpus" \notin NotChecked(f) =>
              "read questions" \notin NotChecked(f) /\ "questions" # "manifest"
      BY DEF NotChecked
    <3>4. /\ "read questions" \in Places \ Ended /\ "hash corpus" \in Places \ Ended
          /\ "questions" \in Reads /\ "questions" \in Inputs
          /\ "questions" = InputOf("questions")
      BY DEF Places, Ended, Reads, Inputs, InputOf
    <3> QED
      BY <3>1, <3>2, <3>3, <3>4, ReadingStaysFresh, ZenonT(60)
  <2>5. CASE HashCorpus(r)
    <3>1. /\ At(r, "hash corpus") /\ ReadInto(r, "corpus", "contexts", "ingest")
          /\ UNCHANGED <<file, edited>>
      BY <2>5 DEF HashCorpus
    <3>2. \A x \in Reads :
            "ingest" \notin NotYet(x) => "hash corpus" \notin NotYet(x) \/ x = "corpus"
      BY DEF NotYet, Checks, Reads
    <3>3. \A f \in {"questions", "contexts"} :
            "ingest" \notin NotChecked(f) =>
              "hash corpus" \notin NotChecked(f) /\ "corpus" # "manifest"
      BY DEF NotChecked
    <3>4. /\ "hash corpus" \in Places \ Ended /\ "ingest" \in Places \ Ended
          /\ "corpus" \in Reads /\ "contexts" \in Inputs
          /\ "contexts" = InputOf("corpus")
      BY DEF Places, Ended, Reads, Inputs, InputOf
    <3> QED
      BY <3>1, <3>2, <3>3, <3>4, ReadingStaysFresh, ZenonT(60)
  <2>6. CASE Ingest(r)
    <3>1. /\ At(r, "ingest") /\ ReadInto(r, "contexts", "contexts", "serialize")
          /\ UNCHANGED <<file, edited>>
      BY <2>6 DEF Ingest
    <3>2. \A x \in Reads :
            "serialize" \notin NotYet(x) => "ingest" \notin NotYet(x) \/ x = "contexts"
      BY DEF NotYet, Checks, Reads
    <3>3. \A f \in {"questions", "contexts"} :
            "serialize" \notin NotChecked(f) =>
              "ingest" \notin NotChecked(f) /\ "contexts" # "manifest"
      BY DEF NotChecked
    <3>4. /\ "ingest" \in Places \ Ended /\ "serialize" \in Places \ Ended
          /\ "contexts" \in Reads /\ "contexts" \in Inputs
          /\ "contexts" = InputOf("contexts")
      BY DEF Places, Ended, Reads, Inputs, InputOf
    <3> QED
      BY <3>1, <3>2, <3>3, <3>4, ReadingStaysFresh
  <2>7. CASE Serialize(r)
    <3>1. /\ At(r, "serialize") /\ ReadInto(r, "config", "config", "write")
          /\ UNCHANGED <<file, edited>>
      BY <2>7 DEF Serialize
    <3>2. \A x \in Reads :
            "write" \notin NotYet(x) => "serialize" \notin NotYet(x) \/ x = "config"
      BY DEF NotYet, Checks, Reads
    <3>3. \A f \in {"questions", "contexts"} :
            "write" \notin NotChecked(f) =>
              "serialize" \notin NotChecked(f) /\ "config" # "manifest"
      BY DEF NotChecked
    <3>4. /\ "serialize" \in Places \ Ended /\ "write" \in Places \ Ended
          /\ "config" \in Reads /\ "config" \in Inputs
          /\ "config" = InputOf("config")
      BY DEF Places, Ended, Reads, Inputs, InputOf
    <3> QED
      BY <3>1, <3>2, <3>3, <3>4, ReadingStaysFresh
  <2> QED
    BY <1>2, <2>1, <2>2, <2>3, <2>4, <2>5, <2>6, <2>7
<1>3. ASSUME NEW r \in Runs,
             \/ CheckQuestions(r) \/ CheckContexts(r) \/ Validate(r)
             \/ WriteArtifact(r) \/ ReplacePredictions(r)
             \/ StageFails(r) \/ Kill(r)
      PROVE  ReadsInv'
  <2>0. run \in [Runs -> [at : Places, read : [Reads -> Versions \cup {None}],
                          next : 1 .. Len(WriteOrder)]]
    BY DEF IInv, TypeOK
  <2> DEFINE Ends == /\ OnlyMoved(r) /\ run'[r].at \in {"failed", "killed"}
                     /\ UNCHANGED <<file, edited>>
  <2>7. CASE Ends
    BY <2>7, OthersStayFresh DEF At, Active
  <2>1. CASE CheckQuestions(r)
    <3>1. /\ At(r, "check questions") /\ OnlyMoved(r) /\ UNCHANGED <<file, edited>>
          /\ \/ Ends
             \/ /\ run[r].read["manifest"] = file["questions"]
                /\ At(r, "check contexts")' /\ run'[r].read = run[r].read
      BY <2>0, <2>1, ZenonT(60) DEF CheckQuestions, Approved, Fails, At, OnlyMoved
    <3>2. \A x \in Reads : "check contexts" \notin NotYet(x) => "check questions" \notin NotYet(x)
      BY DEF NotYet, Checks, Reads
    <3>3. \A f \in {"questions", "contexts"} : "check contexts" \notin NotChecked(f) =>
            "check questions" \notin NotChecked(f) \/ f = "questions"
      BY DEF NotChecked
    <3>4. /\ "check questions" \in Places \ (Ended \cup {"idle"}) /\ "check contexts" \in Places
          /\ "check contexts" = "done" => "check questions" \in Publishing
      BY DEF Places, Ended, Publishing
    <3> HIDE DEF Ends
    <3>5. CASE ~Ends
      <4>1. \A f \in {"questions", "contexts"} : "check contexts" \notin NotChecked(f) =>
              "check questions" \notin NotChecked(f) \/ run[r].read["manifest"] = file[f]
        BY <3>1, <3>3, <3>5
      <4> QED
        BY <3>1, <3>2, <3>4, <3>5, <4>1, MovingStaysFresh
    <3> QED
      BY <2>7, <3>5
  <2>2. CASE CheckContexts(r)
    <3>1. /\ At(r, "check contexts") /\ OnlyMoved(r) /\ UNCHANGED <<file, edited>>
          /\ \/ Ends
             \/ /\ run[r].read["manifest"] = file["contexts"]
                /\ At(r, "hash source")' /\ run'[r].read = run[r].read
      BY <2>0, <2>2, ZenonT(60) DEF CheckContexts, Approved, Fails, At, OnlyMoved
    <3>2. \A x \in Reads : "hash source" \notin NotYet(x) => "check contexts" \notin NotYet(x)
      BY DEF NotYet, Checks, Reads
    <3>3. \A f \in {"questions", "contexts"} : "hash source" \notin NotChecked(f) =>
            "check contexts" \notin NotChecked(f) \/ f = "contexts"
      BY DEF NotChecked
    <3>4. /\ "check contexts" \in Places \ (Ended \cup {"idle"}) /\ "hash source" \in Places
          /\ "hash source" = "done" => "check contexts" \in Publishing
      BY DEF Places, Ended, Publishing
    <3> HIDE DEF Ends
    <3>5. CASE ~Ends
      <4>1. \A f \in {"questions", "contexts"} : "hash source" \notin NotChecked(f) =>
              "check contexts" \notin NotChecked(f) \/ run[r].read["manifest"] = file[f]
        BY <3>1, <3>3, <3>5
      <4> QED
        BY <3>1, <3>2, <3>4, <3>5, <4>1, MovingStaysFresh
    <3> QED
      BY <2>7, <3>5
  <2>3. CASE Validate(r)
    <3>1. /\ At(r, "validate") /\ OnlyMoved(r) /\ UNCHANGED <<file, edited>>
          /\ \/ Ends
             \/ /\ At(r, "predictions")' /\ run'[r].read = run[r].read
      BY <2>0, <2>3 DEF Validate, Fails, At, OnlyMoved
    <3>2. \A x \in Reads : "predictions" \notin NotYet(x) => "validate" \notin NotYet(x)
      BY DEF NotYet, Checks, Reads
    <3>3. \A f \in {"questions", "contexts"} : "predictions" \notin NotChecked(f) =>
            "validate" \notin NotChecked(f)
      BY DEF NotChecked
    <3>4. /\ "validate" \in Places \ (Ended \cup {"idle"}) /\ "predictions" \in Places
          /\ "predictions" = "done" => "validate" \in Publishing
      BY DEF Places, Ended, Publishing
    <3> HIDE DEF Ends
    <3> QED
      BY <2>7, <3>1, <3>2, <3>3, <3>4, MovingStaysFresh
  <2>4. CASE WriteArtifact(r)
    <3>1. PICK next \in {"write", "validate"} :
             /\ At(r, "write") /\ OnlyMoved(r) /\ UNCHANGED <<file, edited>>
             /\ At(r, next)' /\ run'[r].read = run[r].read
      BY <2>0, <2>4 DEF WriteArtifact, At, OnlyMoved
    <3>2. /\ \A x \in Reads : "write" \notin NotYet(x)
          /\ \A f \in {"questions", "contexts"} : "write" \notin NotChecked(f)
      BY DEF NotYet, Checks, Reads, NotChecked
    <3>3. "write" \in Places \ (Ended \cup {"idle"}) /\ next \in Places /\ next # "done"
      BY DEF Places, Ended
    <3> QED
      BY <3>1, <3>2, <3>3, MovingStaysFresh
  <2>5. CASE ReplacePredictions(r)
    <3>1. /\ At(r, "predictions") /\ OnlyMoved(r) /\ UNCHANGED <<file, edited>>
          /\ At(r, "done")' /\ run'[r].read = run[r].read
      BY <2>0, <2>5 DEF ReplacePredictions, At, OnlyMoved
    <3>2. \A x \in Reads : "done" \notin NotYet(x) => "predictions" \notin NotYet(x)
      BY DEF NotYet, Checks, Reads
    <3>3. \A f \in {"questions", "contexts"} : "done" \notin NotChecked(f) =>
            "predictions" \notin NotChecked(f)
      BY DEF NotChecked
    <3>4. /\ "predictions" \in Places \ (Ended \cup {"idle"}) /\ "done" \in Places
          /\ "done" = "done" => "predictions" \in Publishing
      BY DEF Places, Ended, Publishing
    <3> QED
      BY <3>1, <3>2, <3>3, <3>4, MovingStaysFresh
  <2>6. CASE StageFails(r) \/ Kill(r)
    BY <2>0, <2>6, <2>7 DEF StageFails, Fails, Kill, OnlyMoved
  <2> QED
    BY <1>3, <2>1, <2>2, <2>3, <2>4, <2>5, <2>6
<1>4. ASSUME NEW f \in Inputs, NEW v \in Versions, Edit(f, v) PROVE ReadsInv'
  BY <1>4, EditStaysFresh
<1> QED
  BY <1>1, <1>2, <1>3, <1>4 DEF Next

------------------------------------------------------------------------------
(* What follows *)

\* What an invocation read and what lies in the directory have their shape:
\* every artifact and every submission is of a complete build.
THEOREM TypeCorrect == Spec => []TypeOK
<1>1. IInv => TypeOK
  BY DEF IInv
<1> QED
  BY Invariance, <1>1, PTL

\* Every invocation, whatever was edited before and meanwhile and however many
\* run at a time, writes what its resource manifest approved and names the code
\* that made it, unless that input was edited while it ran.
THEOREM ApprovedUnlessEdited == Spec => []WritesWhatWasApproved
<1>1. Init => ReadsInv
  BY DEF Init, ReadsInv, Active, At
<1>2. IInv /\ ReadsInv => WritesWhatWasApproved
  <2> SUFFICES ASSUME ReadsInv, NEW r \in Runs, Writes(r) PROVE MadeOfApproved(r)
    BY DEF WritesWhatWasApproved
  <2>1. CASE run[r].at \in Publishing
    <3>1. Active(r)
      BY <2>1 DEF Active, Publishing
    <3> QED
      BY <2>1, <3>1, FreshIsApproved DEF ReadsInv
  <2>2. CASE At(r, "done")
    BY <2>2 DEF ReadsInv
  <2> QED
    BY <2>1, <2>2 DEF Writes, Publishing, At
<1> QED
  BY <1>1, <1>2, Invariance, ReadsInductive, PTL DEF Spec

\* Without an overlap the directory of a submission mixes two runs only while
\* one is publishing, or after a fault.
THEOREM MixtureNeedsFault == Spec => []MixedOnlyAfterFault
<1>1. IInv => MixedOnlyAfterFault
  <2> SUFFICES ASSUME IInv, ~overlapped,
                      \A r \in Runs : ~(At(r, "failed") \/ At(r, "killed") \/ Active(r))
               PROVE  Consistent
    BY DEF MixedOnlyAfterFault
  <2>1. NoFault /\ \A r \in Runs : run[r].at \notin Publishing
    BY DEF NoFault, At, Active, Publishing
  <2>2. \A a \in Artifacts : out[a] = out["predictions"]
    BY <2>1 DEF IInv, ReplacedInOrder
  <2> QED
    BY <2>2 DEF Consistent
<1> QED
  BY Invariance, <1>1, PTL

\* Even after overlaps: once every invocation returned, the manifest of the
\* directory has the checksums of the artifacts it names.
THEOREM ManifestValidates == Spec => []ManifestValidatesWhenAllReturned
<1>1. IInv => ManifestValidatesWhenAllReturned
  <2> SUFFICES ASSUME IInv, AllReturned, out["run.manifest"] # NoReads
               PROVE  \A a \in {"diagnostics", "answers"} :
                         Bytes(a, out[a]) = Bytes(a, out["run.manifest"])
    BY DEF ManifestValidatesWhenAllReturned
  <2>1. /\ NoFault
        /\ \A r \in Runs : ~At(r, "write") /\ ~At(r, "validate")
    BY DEF AllReturned, NoFault, At
  <2> QED
    BY <2>1 DEF IInv, MismatchIsPending
<1> QED
  BY Invariance, <1>1, PTL
==============================================================================
