----------------------- MODULE ImmutableArtifactProofs -----------------------
(* Theorems of ImmutableArtifact, for any writers, paths, contents and      *)
(* number of chunks.                                                        *)
EXTENDS ImmutableArtifact, TLAPS

(* The strengthening that is inductive: what a writer knows at each step.   *)

\* A writer in a call has arguments, and while it streams or publishes its
\* temporary file holds (a prefix of) the content it was given.
OwnTemporary ==
    \A w \in Writers :
        /\ pc[w] \notin {"idle", "returned"} => call[w] \in Calls
        /\ pc[w] \in {"stream", "exists", "link", "compare"} =>
               /\ temp[w] \in File
               /\ temp[w].data = call[w].data

\* Nobody gets past the fsync with a file that is not whole and on the disk.
WholeBeforePublish ==
    \A w \in Writers :
        pc[w] \in {"exists", "link", "compare"} =>
            Complete(temp[w]) /\ temp[w].synced

\* The comparison has a file to compare with.
ComparesWithAFile ==
    \A w \in Writers : pc[w] = "compare" => dest[call[w].path] # NoFile

DestinationsWhole ==
    \A p \in Paths : dest[p] # NoFile => Complete(dest[p]) /\ dest[p].synced

\* Only an existing entry waits for the disk.
PendingExists == \A p \in pending : dest[p] # NoFile

\* Verdicts are those of a finished publication.
VerdictsHaveCalls ==
    \A w \in Writers :
        result[w] \in {"ok", "ARTIFACT_IMMUTABLE"} =>
            /\ call[w] \in Calls
            /\ pc[w] \in {"unlink", "returned"}

IInv ==
    /\ TypeOK
    /\ OwnTemporary
    /\ WholeBeforePublish
    /\ ComparesWithAFile
    /\ DestinationsWhole
    /\ PendingExists
    /\ VerdictsHaveCalls
    /\ ResultIsTruthful
USE NChunksAssumption, NoFileAssumption

\* The invariant holds before the first call.
LEMMA InitEstablishes == Init => IInv
  BY DEF Init, IInv, TypeOK, OwnTemporary, WholeBeforePublish, ComparesWithAFile, DestinationsWhole, PendingExists, VerdictsHaveCalls, ResultIsTruthful, Steps, Results

\* Every step of every writer, and every fault, keeps it.
LEMMA NextPreserves == IInv /\ [Next]_vars => IInv'
<1> SUFFICES ASSUME IInv, [Next]_vars PROVE IInv'
  OBVIOUS
<1> USE DEF IInv, TypeOK, OwnTemporary, WholeBeforePublish, ComparesWithAFile, DestinationsWhole, PendingExists, VerdictsHaveCalls, ResultIsTruthful, Steps, Results, Calls, Complete, FilesEqual, File
<1>1. CASE \E w \in Writers, p \in Paths, c \in Contents : Begin(w, p, c)
  BY <1>1 DEF Begin
<1>2. CASE \E w \in Writers, p \in Paths, c \in Contents : BeginFails(w, p, c)
  BY <1>2 DEF BeginFails
<1>3. CASE \E w \in Writers : Stream(w)
  <2> PICK w \in Writers : Stream(w)
    BY <1>3
  <2>1. /\ temp[w] \in File
        /\ temp[w].chunks + 1 \in 0 .. NChunks
    <3>1. temp[w] \in File /\ temp[w].chunks # NChunks
      BY DEF Stream
    <3> HIDE DEF IInv
    <3> QED
      BY <3>1
  <2>2. temp' = [temp EXCEPT ![w] = [temp[w] EXCEPT !.chunks = temp[w].chunks + 1]]
    BY DEF Stream
  <2>3. [temp[w] EXCEPT !.chunks = temp[w].chunks + 1] =
            [data |-> temp[w].data, chunks |-> temp[w].chunks + 1, synced |-> temp[w].synced]
    BY <2>1
  <2> QED
    BY <2>1, <2>2, <2>3 DEF Stream
<1>4. CASE \E w \in Writers : Fsync(w)
  <2> PICK w \in Writers : Fsync(w)
    BY <1>4
  <2>1. temp[w] \in File
    BY DEF Fsync
  <2>2. temp' = [temp EXCEPT ![w] = [temp[w] EXCEPT !.synced = TRUE]]
    BY DEF Fsync
  <2>3. /\ [temp[w] EXCEPT !.synced = TRUE] \in File
        /\ [temp[w] EXCEPT !.synced = TRUE].data = temp[w].data
        /\ [temp[w] EXCEPT !.synced = TRUE].chunks = temp[w].chunks
        /\ [temp[w] EXCEPT !.synced = TRUE].synced
    BY <2>1, Zenon
  <2>4. /\ temp' \in [Writers -> File \union {NoFile}]
        /\ temp'[w] \in File
        /\ temp'[w].data = temp[w].data
        /\ temp'[w].chunks = temp[w].chunks
        /\ temp'[w].synced
        /\ \A v \in Writers \ {w} : temp'[v] = temp[v]
    <3> HIDE DEF File
    <3> QED
      BY <2>2, <2>3
  <2>5. /\ pc[w] = "stream"
        /\ Complete(temp[w])
        /\ pc' = [pc EXCEPT ![w] = "exists"]
        /\ UNCHANGED <<dest, pending, call, result>>
    BY DEF Fsync
  <2> HIDE DEF File
  <2>6. TypeOK'
    BY <2>4, <2>5
  <2>7. OwnTemporary'
    BY <2>4, <2>5
  <2>8. WholeBeforePublish'
    <3>1. Complete(temp[w])' /\ temp'[w].synced
      BY <2>4, <2>5
    <3>2. ASSUME NEW v \in Writers \ {w}, pc'[v] \in {"exists", "link", "compare"}
          PROVE  Complete(temp[v])' /\ temp'[v].synced
      <4>1. pc[v] \in {"exists", "link", "compare"} /\ temp'[v] = temp[v]
        BY <2>4, <2>5, <3>2
      <4> QED
        BY <4>1, Zenon
    <3> QED
      BY <3>1, <3>2, Zenon
  <2>9. ComparesWithAFile' /\ DestinationsWhole' /\ PendingExists'
    BY <2>5
  <2>10. VerdictsHaveCalls' /\ ResultIsTruthful'
    BY <2>5
  <2> QED
    BY <2>6, <2>7, <2>8, <2>9, <2>10
<1>5. CASE \E w \in Writers : CheckExists(w)
  BY <1>5 DEF CheckExists
<1>6. CASE \E w \in Writers : Link(w)
  <2> PICK w \in Writers : Link(w)
    BY <1>6
  <2>1. call[w] \in Calls /\ temp[w] \in File /\ temp[w] # NoFile /\ call[w].path \in Paths
    BY DEF Link
  <2>2. CASE Publishes(w) /\ dest[call[w].path] = NoFile
    <3>1. dest' = [dest EXCEPT ![call[w].path] = temp[w]]
      BY <2>2 DEF Publishes
    <3>2. TypeOK'
      BY <2>1, <2>2 DEF Publishes
    <3>3. OwnTemporary' /\ WholeBeforePublish' /\ ComparesWithAFile'
      BY <2>1, <2>2 DEF Publishes
    <3>4. DestinationsWhole' /\ PendingExists'
      BY <2>1, <2>2 DEF Publishes, Link
    <3>5. VerdictsHaveCalls'
      BY <2>1, <2>2 DEF Publishes
    <3>6. ResultIsTruthful'
      BY <2>1, <2>2 DEF Publishes, Link
    <3> QED
      BY <3>2, <3>3, <3>4, <3>5, <3>6
  <2>3. CASE dest[call[w].path] # NoFile /\ ~Publishes(w)
    BY <2>1, <2>3 DEF Link
  <2> QED
    BY <2>2, <2>3 DEF Link
<1>7. CASE \E w \in Writers : Compare(w)
  BY <1>7 DEF Compare
<1>8. CASE \E w \in Writers : Unlink(w)
  BY <1>8 DEF Unlink
<1>9. CASE \E w \in Writers : StreamFails(w)
  BY <1>9 DEF StreamFails
<1>10. CASE \E w \in Writers : PublishFails(w)
  BY <1>10 DEF PublishFails
<1>11. CASE \E w \in Writers : UnlinkFails(w)
  BY <1>11 DEF UnlinkFails
<1>12. CASE \E w \in Writers : Crash(w)
  BY <1>12 DEF Crash
<1>13. CASE \E p \in Paths : WriteBack(p)
  BY <1>13 DEF WriteBack
<1>14. CASE \E lost \in SUBSET Paths : PowerLoss(lost)
  BY <1>14 DEF PowerLoss
<1>15. CASE UNCHANGED vars
  BY <1>15 DEF vars
<1> QED
  BY <1>1, <1>2, <1>3, <1>4, <1>5, <1>6, <1>7, <1>8, <1>9, <1>10, <1>11,
     <1>12, <1>13, <1>14, <1>15 DEF Next, Step, Fault

LEMMA Invariance == Spec => []IInv
<1> QED
  BY InitEstablishes, NextPreserves, PTL DEF Spec

\* The types of the writers' state are right.
THEOREM TypeCorrect == Spec => []TypeOK
<1>1. IInv => TypeOK
  BY DEF IInv
<1> QED
  BY <1>1, Invariance, PTL

\* No reader ever finds a partly written artifact: the fsync precedes the link.
THEOREM NeverTorn == Spec => []NoTornArtifact
<1>1. IInv => NoTornArtifact
  BY DEF IInv, DestinationsWhole, NoTornArtifact
<1> QED
  BY <1>1, Invariance, PTL

\* Whatever a call returns is true of the destination when it returns.
THEOREM Truthful == Spec => []ResultIsTruthful
<1>1. IInv => ResultIsTruthful
  BY DEF IInv
<1> QED
  BY <1>1, Invariance, PTL

\* A step leaves a published artifact alone, except that a power loss may
\* take back one whose directory entry was not on the disk.
LEMMA StepKeepsDestinations ==
  IInv /\ [Next]_vars =>
      \A p \in Paths :
          dest[p] # NoFile =>
              /\ dest'[p] \in {dest[p], NoFile}
              /\ p \notin pending => dest'[p] = dest[p]
<1> SUFFICES ASSUME IInv, [Next]_vars, NEW p \in Paths, dest[p] # NoFile
             PROVE  /\ dest'[p] \in {dest[p], NoFile}
                    /\ p \notin pending => dest'[p] = dest[p]
  OBVIOUS
<1> USE DEF IInv, TypeOK
<1>1. CASE dest' = dest
  BY <1>1
<1>2. CASE \E w \in Writers : Link(w)
  BY <1>2 DEF Link, Publishes
<1>3. CASE \E lost \in SUBSET Paths : PowerLoss(lost)
  BY <1>3 DEF PowerLoss, DestinationsWhole
<1> QED
  BY <1>1, <1>2, <1>3
  DEF Next, Step, Fault, vars, Begin, BeginFails, Stream, Fsync, StreamFails,
      CheckExists, Compare, PublishFails, Unlink, UnlinkFails, Crash, WriteBack

\* Publication is once for all.
THEOREM PublishedOnce == Spec => NeverReplaced
<1>1. IInv /\ [Next]_vars =>
          [\A p \in Paths :
              dest[p] # NoFile =>
                  /\ dest'[p] \in {dest[p], NoFile}
                  /\ p \notin pending => dest'[p] = dest[p]]_vars
  BY StepKeepsDestinations
<1> QED
  BY <1>1, Invariance, PTL DEF Spec, NeverReplaced

(* The refinement: only Link, WriteBack and PowerLoss change what readers   *)
(* see; every other step is a stutter of the abstract store.                *)

LEMMA InitRefines == Init => Abstract!Init
  BY DEF Init, Abstract!Init, Visible, Settled

LEMMA StepRefines == IInv /\ [Next]_vars => [Abstract!Next]_(Abstract!vars)
<1> SUFFICES ASSUME IInv, [Next]_vars
             PROVE  Abstract!Next \/ UNCHANGED <<Visible, Settled>>
  BY DEF Abstract!vars
<1> USE NoContentAssumption DEF IInv, TypeOK
<1>1. CASE UNCHANGED <<dest, pending>>
  BY <1>1 DEF Visible, Settled
<1>2. CASE \E w \in Writers : Link(w)
  <2> PICK w \in Writers : Link(w)
    BY <1>2
  <2>1. CASE UNCHANGED <<dest, pending>>
    BY <2>1 DEF Visible, Settled
  <2>2. CASE dest[call[w].path] = NoFile /\ Publishes(w)
    <3> DEFINE p == call[w].path
               c == temp[w].data
    <3>1. p \in Paths /\ c \in Contents /\ temp[w] \in File /\ temp[w] # NoFile
      BY DEF Link, OwnTemporary, Calls, File
    <3>2. Abstract!Publish(p, c)
      <4>1. Visible[p] = NoFile
        BY <2>2, <3>1 DEF Visible
      <4>2. Visible' = [Visible EXCEPT ![p] = c]
        BY <2>2, <3>1 DEF Visible, Publishes
      <4>3. Settled' = Settled
        BY <2>2, <3>1 DEF Settled, Publishes
      <4> QED
        BY <4>1, <4>2, <4>3 DEF Abstract!Publish
    <3> QED
      BY <3>1, <3>2 DEF Abstract!Next
  <2> QED
    BY <2>1, <2>2 DEF Link
<1>3. CASE \E p \in Paths : WriteBack(p)
  <2> PICK p \in Paths : WriteBack(p)
    BY <1>3
  <2>1. Visible[p] # NoFile
    BY DEF WriteBack, PendingExists, Visible, File
  <2>2. Visible' = Visible /\ Settled' = Settled \union {p}
    BY DEF WriteBack, PendingExists, Visible, Settled
  <2> QED
    BY <2>1, <2>2 DEF Abstract!Settle, Abstract!Next
<1>4. CASE \E lost \in SUBSET Paths : PowerLoss(lost)
  <2> PICK lost \in SUBSET Paths : PowerLoss(lost)
    BY <1>4
  <2>1. \A p \in Paths : dest'[p] = IF p \in lost THEN NoFile ELSE dest[p]
    BY DEF PowerLoss, DestinationsWhole
  <2>2. lost \intersect Settled = {}
    BY DEF PowerLoss, Settled
  <2>3. Visible' = [p \in Paths |-> IF p \in lost THEN NoFile ELSE Visible[p]]
    BY <2>1 DEF Visible
  <2>4. Settled' = {p \in Paths : Visible'[p] # NoFile}
    BY <2>1 DEF PowerLoss, Settled, Visible, File
  <2> QED
    BY <2>2, <2>3, <2>4 DEF Abstract!PowerLoss, Abstract!Next
<1> QED
  BY <1>1, <1>2, <1>3, <1>4
  DEF Next, Step, Fault, vars, Begin, BeginFails, Stream, Fsync, StreamFails,
      CheckExists, Compare, PublishFails, Unlink, UnlinkFails, Crash

\* write_immutable_chunks, run by any number of processes that may die at any
\* point, gives readers the abstract write-once store.
THEOREM Refinement == Spec => ImplementsWriteOnce
<1> QED
  BY Invariance, InitRefines, StepRefines, PTL
  DEF Spec, ImplementsWriteOnce, Abstract!Spec
==============================================================================
