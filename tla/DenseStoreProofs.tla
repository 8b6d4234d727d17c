-------------------------- MODULE DenseStoreProofs --------------------------
(***************************************************************************)
(* Proofs about DenseStore, for any identities, any number of rows, any    *)
(* encoder outputs, batch sizes, intervals and budgets: checkpoints load,  *)
(* a sealed store is whole, the work lost is bounded, and the store is a   *)
(* ResumableBuild.                                                         *)
(*                                                                         *)
(* None of these is inductive.  The files agree with the checkpoint        *)
(* because the running invocation keeps them ahead of it, and the build is *)
(* whole because its running digests follow the files; RunFits says both,  *)
(* step by step.                                                           *)
(***************************************************************************)
EXTENDS DenseStore, SequenceTheorems, TLAPS

\* The sequence s is 1, 2, ..., n.
Counts(s, n) == Len(s) = n /\ \A r \in 1 .. n : s[r] = r

\* What a checkpoint says agrees with itself.
CheckpointSound ==
    ckpt # Absent =>
        /\ Counts(ckpt.ids, ckpt.completed)
        /\ ckpt.idsSize = ckpt.completed
        /\ Len(ckpt.vectors) = ckpt.completed
        /\ \A r \in 1 .. ckpt.completed : ckpt.vectors[r].id = ckpt.id

\* What lies in the partial files begins with what the checkpoint says.
FilesFit ==
    ckpt # Absent /\ ckpt.status = "INCOMPLETE" /\ vecPartial # Absent =>
        /\ idsPartial # Absent
        /\ ckpt.completed <= Len(idsPartial)
        /\ \A r \in 1 .. ckpt.completed :
              idsPartial[r] = r /\ vecPartial[r] = ckpt.vectors[r]

\* Nothing is final while the vectors are partial.
NothingFinal ==
    vecPartial # Absent => vecFinal = Absent /\ idsFinal = Absent /\ manifest = Absent

\* The running digests are those of one identity's first rows, in order.
DigestsSound ==
    pc # "idle" =>
        /\ run # Absent
        /\ Counts(run.ids, run.completed)
        /\ Len(run.vectors) = run.completed
        /\ \A r \in 1 .. run.completed : run.vectors[r].id = run.id

\* Before the first checkpoint nothing is built.
Opening ==
    pc \in {"memmap", "bind"} =>
        /\ ckpt = Absent /\ vecPartial # Absent
        /\ run.completed = 0 /\ run.buffer = <<>> /\ run.budget > 0
        /\ pc = "bind" => idsPartial = <<>>

\* The id lines of the completed rows are in the file or in the buffer, their
\* vectors in the memory map; the checkpoint is not ahead.
Building ==
    pc \in {"loop", "batched", "flushed", "progress"} =>
        /\ ckpt # Absent /\ ckpt.status = "INCOMPLETE" /\ ckpt.id = run.id
        /\ ckpt.completed <= run.completed
        /\ vecPartial # Absent /\ idsPartial # Absent
        /\ Len(idsPartial) + Len(run.buffer) = run.completed
        /\ \A r \in 1 .. Len(idsPartial) : idsPartial[r] = r
        /\ \A n \in 1 .. Len(run.buffer) : run.buffer[n] = Len(idsPartial) + n
        /\ \A r \in 1 .. run.completed : vecPartial[r] = run.vectors[r]

\* The rows since the last multiple of the interval are the most that no
\* checkpoint covers; the last row is covered at once.
CheckpointsFollow ==
    /\ pc = "loop" => run.budget > 0
    /\ pc \in {"loop", "progress"} =>
          /\ run.completed - ckpt.completed <= run.completed % run.interval
          /\ run.completed = NRows => ckpt.completed = NRows /\ run.buffer = <<>>
    /\ pc = "batched" /\ ~CheckpointDue =>
          run.completed - ckpt.completed <= run.completed % run.interval
    /\ pc = "flushed" => run.buffer = <<>>

\* Between the first rename and the COMPLETE checkpoint.
Sealing ==
    /\ pc \in {"rename_ids", "manifest", "seal"} =>
          /\ ckpt # Absent /\ ckpt.status = "INCOMPLETE" /\ ckpt.id = run.id
          /\ ckpt.completed = NRows /\ run.completed = NRows
          /\ run.buffer = <<>>
          /\ vecPartial = Absent
          /\ vecFinal # Absent /\ vecFinal = run.vectors
    /\ pc = "rename_ids" => idsPartial # Absent /\ Counts(idsPartial, NRows)
    /\ pc \in {"manifest", "seal"} => idsFinal # Absent /\ Counts(idsFinal, NRows)
    /\ pc \in {"rename_ids", "manifest"} => manifest = Absent
    /\ pc = "seal" => manifest = [id |-> run.id, vectors |-> vecFinal, ids |-> idsFinal]

RunFits == DigestsSound /\ Opening /\ Building /\ CheckpointsFollow /\ Sealing

IInv ==
    /\ TypeOK
    /\ CheckpointSound
    /\ FilesFit
    /\ NothingFinal
    /\ RunFits
    /\ SealedStoreIsWhole

USE NRowsAssumption, ArgumentsAssumption

------------------------------------------------------------------------------
(* Sequences of at most NRows elements *)

LEMMA PrefixIsSeq ==
  ASSUME NEW S, NEW s \in Prefix(S)
  PROVE  s \in Seq(S) /\ Len(s) \in 0 .. NRows
  BY DEF Prefix

LEMMA SeqIsPrefix ==
  ASSUME NEW S, NEW s \in Seq(S), Len(s) <= NRows
  PROVE  s \in Prefix(S)
  BY LenProperties DEF Prefix

LEMMA EmptyPrefix ==
  ASSUME NEW S
  PROVE  <<>> \in Prefix(S) /\ Len(<<>>) = 0
<1>1. <<>> \in Seq(S) /\ Len(<<>>) = 0
  BY EmptySeq
<1>2. <<>> \in [1 .. 0 -> S] /\ 0 \in 0 .. NRows
  BY <1>1, LenProperties
<1> QED
  BY <1>1, <1>2, Zenon DEF Prefix

LEMMA IdsFileIsPrefix == IdsFile = Prefix(0 .. NRows)
  BY DEF IdsFile, Prefix

\* A sequence that counts is the sequence of the first rows.
LEMMA CountsEqual ==
  ASSUME NEW S, NEW s \in Seq(S), NEW n \in Nat, Counts(s, n)
  PROVE  s = [r \in 1 .. n |-> r]
  BY LenProperties DEF Counts

\* Appending to a sequence leaves its beginning alone.
LEMMA AppendedKeeps ==
  ASSUME NEW S, NEW s \in Seq(S), NEW t \in Seq(S)
  PROVE  /\ s \o t \in Seq(S)
         /\ Len(s \o t) = Len(s) + Len(t)
         /\ \A r \in 1 .. Len(s) : (s \o t)[r] = s[r]
         /\ \A r \in 1 .. Len(t) : (s \o t)[Len(s) + r] = t[r]
<1>1. Len(s) \in Nat /\ Len(t) \in Nat
  BY LenProperties
<1>2. /\ s \o t \in Seq(S) /\ Len(s \o t) = Len(s) + Len(t)
      /\ \A i \in 1 .. Len(s) + Len(t) :
            (s \o t)[i] = IF i <= Len(s) THEN s[i] ELSE t[i - Len(s)]
  BY ConcatProperties
<1> QED
  BY <1>1, <1>2

\* No multiple of the interval lies in a batch without a checkpoint.
LEMMA NoMultipleCrossed ==
  ASSUME NEW k \in Nat \ {0}, NEW c \in Nat, NEW b \in Nat, (c + b) % k >= b
  PROVE  (c + b) % k = (c % k) + b
  OBVIOUS

LEMMA RemainderBelow ==
  ASSUME NEW k \in Nat \ {0}, NEW c \in Nat
  PROVE  c % k \in 0 .. k - 1
  OBVIOUS

------------------------------------------------------------------------------
(* What the type invariant says of the sequences *)

LEMMA CheckpointTyped ==
  ASSUME TypeOK, ckpt # Absent
  PROVE  /\ ckpt \in Checkpoint /\ ckpt.id \in Identities
         /\ ckpt.completed \in 0 .. NRows /\ ckpt.idsSize \in 0 .. NRows
         /\ ckpt.ids \in Seq(Rows) /\ ckpt.vectors \in Seq(Vector)
         /\ ckpt.status \in {"INCOMPLETE", "COMPLETE"}
  BY PrefixIsSeq DEF TypeOK, Checkpoint

LEMMA RunTyped ==
  ASSUME TypeOK, run # Absent
  PROVE  /\ run \in Run /\ run.id \in Identities
         /\ run.batch \in Nat \ {0} /\ run.interval \in Nat \ {0}
         /\ run.budget \in Nat /\ run.completed \in 0 .. NRows
         /\ run.buffer \in Seq(Rows) /\ Len(run.buffer) \in 0 .. NRows
         /\ run.ids \in Seq(Rows) /\ run.vectors \in Seq(Vector)
  BY PrefixIsSeq DEF TypeOK, Run

LEMMA IdsTyped ==
  ASSUME TypeOK, idsPartial # Absent
  PROVE  idsPartial \in Seq(0 .. NRows) /\ Len(idsPartial) \in 0 .. NRows
  BY PrefixIsSeq, IdsFileIsPrefix DEF TypeOK

------------------------------------------------------------------------------
(* The invariant is inductive *)

\* The empty directory.
LEMMA InitEstablishes == Init => IInv
  BY DEF Init, IInv, TypeOK, CheckpointSound, FilesFit, NothingFinal, RunFits,
         DigestsSound, Opening, Building, CheckpointsFollow, Sealing,
         SealedStoreIsWhole, Steps, Outcomes

\* An invocation that ends, in whatever way, leaves a store that fits its
\* checkpoint, if it only appended to the ids and kept the checkpointed vectors.
LEMMA EndKeeps ==
  ASSUME IInv, NEW how \in Outcomes, Ends(how),
         UNCHANGED <<vecFinal, idsFinal, manifest, ckpt>>,
         vecPartial' = Absent <=> vecPartial = Absent,
         vecPartial' = Absent \/ vecPartial' \in VecFile,
         idsPartial' = Absent \/ idsPartial' \in IdsFile,
         ckpt # Absent /\ vecPartial # Absent /\ ckpt.status = "INCOMPLETE" =>
             /\ \A r \in 1 .. ckpt.completed : vecPartial'[r] = vecPartial[r]
             /\ idsPartial' # Absent /\ Len(idsPartial') >= ckpt.completed
             /\ \A r \in 1 .. ckpt.completed : idsPartial'[r] = idsPartial[r]
  PROVE  IInv'
<1>1. TypeOK'
  BY DEF IInv, TypeOK, Ends, Steps
<1>2. CheckpointSound'
  BY DEF IInv, CheckpointSound
<1>3. FilesFit'
  BY DEF IInv, FilesFit
<1>4. NothingFinal'
  BY DEF IInv, NothingFinal
<1>5. RunFits'
  BY DEF Ends, RunFits, DigestsSound, Opening, Building, CheckpointsFollow, Sealing
<1>6. SealedStoreIsWhole'
  BY DEF IInv, SealedStoreIsWhole
<1> QED
  BY <1>1, <1>2, <1>3, <1>4, <1>5, <1>6 DEF IInv

\* In particular if it changed no file at all.
LEMMA RefusalKeeps ==
  ASSUME IInv, NEW how \in Outcomes, Ends(how), UNCHANGED disk
  PROVE  IInv'
<1>1. UNCHANGED <<vecPartial, idsPartial, vecFinal, idsFinal, manifest, ckpt>>
  BY DEF disk
<1>2. ckpt # Absent /\ vecPartial # Absent /\ ckpt.status = "INCOMPLETE" =>
         idsPartial # Absent /\ Len(idsPartial) >= ckpt.completed
  BY CheckpointTyped, IdsTyped DEF IInv, FilesFit
<1> QED
  BY <1>1, <1>2, EndKeeps DEF IInv, TypeOK

\* The first invocation: a memory map of unwritten rows, no ids yet.
LEMMA OpenFreshKeeps ==
  ASSUME IInv, NEW i \in Identities, NEW b \in BatchSizes, NEW k \in Intervals,
         NEW m \in Budgets, OpenFresh(i, b, k, m)
  PROVE  IInv'
<1>1. NewRun(i, b, k, m, 0, <<>>, <<>>) \in Run
  BY EmptyPrefix DEF NewRun, Run
<1>2. TypeOK'
  BY <1>1 DEF IInv, TypeOK, OpenFresh, Steps, VecFile
<1>3. CheckpointSound' /\ FilesFit' /\ SealedStoreIsWhole'
  BY DEF OpenFresh, CheckpointSound, FilesFit, SealedStoreIsWhole
<1>4. NothingFinal'
  BY DEF OpenFresh, NothingFinal, UnboundFiles
<1>5. DigestsSound'
  BY <1>1, AbsentAssumption DEF OpenFresh, DigestsSound, NewRun, Counts
<1>6. Opening'
  BY AbsentAssumption DEF OpenFresh, Opening, NewRun, VecFile
<1>7. Building' /\ CheckpointsFollow' /\ Sealing'
  BY DEF OpenFresh, Building, CheckpointsFollow, Sealing
<1> QED
  BY <1>2, <1>3, <1>4, <1>5, <1>6, <1>7 DEF IInv, RunFits

\* The checkpoint is taken over: the files agree with it, and the tail behind
\* it is cut off.
LEMMA ResumeKeeps ==
  ASSUME IInv, NEW i \in Identities, NEW b \in BatchSizes, NEW k \in Intervals,
         NEW m \in Budgets, Resume(i, b, k, m)
  PROVE  IInv'
<1> USE DEF IInv
<1>1. /\ ckpt # Absent /\ ckpt.id = i /\ ckpt.status = "INCOMPLETE"
      /\ vecPartial # Absent
      /\ UNCHANGED <<vecPartial, vecFinal, idsFinal, manifest, ckpt>>
  BY DEF Resume, Owns
<1>2. /\ idsPartial # Absent /\ ckpt.idsSize = ckpt.completed
      /\ idsPartial \in Seq(0 .. NRows) /\ Len(idsPartial) >= ckpt.completed
      /\ ckpt.completed \in 0 .. NRows
  BY <1>1, CheckpointTyped, IdsTyped DEF FilesFit, CheckpointSound
<1>3. IdsLongEnough
  BY <1>2 DEF IdsLongEnough
<1>4. /\ IdsPrefix \in Seq(0 .. NRows) /\ Counts(IdsPrefix, ckpt.completed)
  <2>1. \A r \in 1 .. ckpt.completed : idsPartial[r] \in 0 .. NRows
    BY <1>1, <1>2 DEF FilesFit
  <2> QED
    <3>1. /\ IdsPrefix \in Seq(0 .. NRows)
          /\ Len(IdsPrefix) = ckpt.completed
          /\ \A r \in 1 .. ckpt.completed : IdsPrefix[r] = idsPartial[r]
      BY <1>2, <2>1, SubSeqProperties DEF IdsPrefix
    <3> QED
      BY <1>1, <3>1 DEF FilesFit, Counts
<1>5. idsPartial' = IdsPrefix
  BY <1>3 DEF Resume, Truncated
<1>6. CASE PrefixesMatch
  <2>1. /\ run' = NewRun(i, b, k, m, ckpt.completed, ckpt.ids, ckpt.vectors)
        /\ pc' = "loop" /\ outcome' = outcome
    BY <1>3, <1>6 DEF Resume
  <2>2. run' = [id |-> i, batch |-> b, interval |-> k, budget |-> m,
                completed |-> ckpt.completed, buffer |-> <<>>, ids |-> ckpt.ids,
                vectors |-> ckpt.vectors]
    BY <2>1 DEF NewRun
  <2>3. run' \in Run
    <3>1. ckpt.ids \in Prefix(Rows) /\ ckpt.vectors \in Prefix(Vector)
      BY <1>1 DEF TypeOK, Checkpoint
    <3> QED
      BY <1>2, <2>2, <3>1, EmptyPrefix DEF Run
  <2>4. /\ idsPartial' \in IdsFile /\ idsPartial' # Absent
    BY <1>2, <1>4, <1>5, SeqIsPrefix, IdsFileIsPrefix, AbsentAssumption DEF Counts
  <2>5. TypeOK'
    BY <1>1, <2>1, <2>3, <2>4 DEF TypeOK, Steps
  <2>6. CheckpointSound' /\ NothingFinal' /\ SealedStoreIsWhole'
    BY <1>1 DEF CheckpointSound, NothingFinal, SealedStoreIsWhole
  <2>7. FilesFit'
    BY <1>1, <1>2, <1>4, <1>5, <2>4 DEF FilesFit, Counts
  <2>8. DigestsSound'
    BY <1>1, <2>2, <2>3, AbsentAssumption DEF DigestsSound, CheckpointSound
  <2>9. Building'
    BY <1>1, <1>2, <1>4, <1>5, <2>2, <2>4 DEF Building, FilesFit, Counts
  <2>10. CheckpointsFollow'
    <3>1. k \in Nat \ {0} /\ m > 0 /\ ckpt.completed \in Nat
      BY <1>2
    <3>2. ckpt.completed % k >= 0
      BY <3>1
    <3>3. /\ run'.budget = m /\ run'.completed = ckpt.completed
          /\ run'.interval = k /\ run'.buffer = <<>> /\ ckpt' = ckpt
      BY <1>1, <2>2
    <3> QED
      BY <2>1, <3>1, <3>2, <3>3 DEF CheckpointsFollow
  <2>11. Opening' /\ Sealing'
    BY <2>1 DEF Opening, Sealing
  <2> QED
    BY <2>5, <2>6, <2>7, <2>8, <2>9, <2>10, <2>11 DEF RunFits
<1>7. CASE ~PrefixesMatch
  <2>1. Ends("DENSE_CHECKPOINT_INVALID")
    BY <1>3, <1>7 DEF Resume
  <2>2. idsPartial' \in IdsFile /\ idsPartial' # Absent
    BY <1>2, <1>4, <1>5, SeqIsPrefix, IdsFileIsPrefix, AbsentAssumption DEF Counts
  <2>3. \A r \in 1 .. ckpt.completed : idsPartial'[r] = idsPartial[r]
    BY <1>1, <1>4, <1>5 DEF FilesFit, Counts
  <2>4. Len(idsPartial') >= ckpt.completed
    BY <1>2, <1>4, <1>5 DEF Counts
  <2>5. vecPartial' = vecPartial /\ vecPartial \in VecFile
    BY <1>1 DEF TypeOK
  <2>6. "DENSE_CHECKPOINT_INVALID" \in Outcomes
    BY DEF Outcomes
  <2> HIDE DEF IInv
  <2> QED
    BY <1>1, <2>1, <2>2, <2>3, <2>4, <2>5, <2>6, EndKeeps
<1> QED
  BY <1>6, <1>7

LEMMA InvokeKeeps ==
  ASSUME IInv, NEW i \in Identities, NEW b \in BatchSizes, NEW k \in Intervals,
         NEW m \in Budgets, Invoke(i, b, k, m)
  PROVE  IInv'
<1>1. CASE OpenFresh(i, b, k, m)
  BY <1>1, OpenFreshKeeps
<1>2. CASE RefuseUnbound
  BY <1>2, RefusalKeeps DEF RefuseUnbound, Outcomes
<1>3. CASE RefuseForeign(i)
  BY <1>3, RefusalKeeps DEF RefuseForeign, Outcomes
<1>4. CASE ReturnComplete(i)
  <2>1. /\ UNCHANGED disk
        /\ \E how \in {"DENSE_CHECKPOINT_INVALID", "COMPLETE",
                       "DENSE_INDEX_CHECKSUM_MISMATCH"} : Ends(how)
    BY <1>4, Zenon DEF ReturnComplete
  <2> QED
    BY <2>1, RefusalKeeps DEF Outcomes
<1>5. CASE RefuseNoPartial(i)
  BY <1>5, RefusalKeeps DEF RefuseNoPartial, Outcomes
<1>6. CASE Resume(i, b, k, m)
  BY <1>6, ResumeKeeps
<1> QED
  BY <1>1, <1>2, <1>3, <1>4, <1>5, <1>6 DEF Invoke

------------------------------------------------------------------------------
(* Building *)

LEMMA CreateIdsKeeps ==
  ASSUME IInv, CreateIds
  PROVE  IInv'
<1> USE DEF IInv, RunFits, CreateIds
<1>1. <<>> \in IdsFile /\ <<>> # Absent
  BY EmptyPrefix, IdsFileIsPrefix, AbsentAssumption
<1>2. TypeOK'
  BY <1>1 DEF TypeOK, Steps
<1>3. ckpt' = Absent
  BY DEF Opening
<1>4. CheckpointSound' /\ FilesFit' /\ SealedStoreIsWhole'
  BY <1>3 DEF CheckpointSound, FilesFit, SealedStoreIsWhole
<1>5. NothingFinal' /\ DigestsSound' /\ Opening'
  BY DEF NothingFinal, DigestsSound, Opening
<1>6. Building' /\ CheckpointsFollow' /\ Sealing'
  BY DEF Building, CheckpointsFollow, Sealing
<1> QED
  BY <1>2, <1>3, <1>4, <1>5, <1>6

\* A checkpoint of the running digests is sound.
LEMMA CheckpointOfRun ==
  ASSUME TypeOK, DigestsSound, pc # "idle", NEW status \in {"INCOMPLETE", "COMPLETE"}
  PROVE  LET c == CheckpointOf(run, status) IN
         /\ c \in Checkpoint /\ c # Absent
         /\ c.id = run.id /\ c.completed = run.completed /\ c.status = status
         /\ c.ids = run.ids /\ c.idsSize = run.completed /\ c.vectors = run.vectors
<1>1. /\ run \in Run /\ Len(run.ids) = run.completed
  BY DEF TypeOK, DigestsSound, Counts
<1> QED
  BY <1>1, AbsentAssumption DEF CheckpointOf, Checkpoint, Run

LEMMA BindKeeps ==
  ASSUME IInv, Bind
  PROVE  IInv'
<1> USE DEF IInv, RunFits
<1>1. /\ ckpt' = CheckpointOf(run, "INCOMPLETE") /\ pc = "bind" /\ pc' = "loop"
      /\ UNCHANGED <<vecPartial, idsPartial, vecFinal, idsFinal, manifest, run, outcome>>
  BY DEF Bind
<1>2. /\ ckpt' \in Checkpoint /\ ckpt' # Absent
      /\ ckpt'.id = run.id /\ ckpt'.completed = run.completed
      /\ ckpt'.status = "INCOMPLETE" /\ ckpt'.ids = run.ids
      /\ ckpt'.idsSize = run.completed /\ ckpt'.vectors = run.vectors
  BY <1>1, CheckpointOfRun
<1>3. /\ run.completed = 0 /\ run.buffer = <<>> /\ run.budget > 0
      /\ idsPartial = <<>> /\ vecPartial # Absent
  BY <1>1 DEF Opening
<1>4. idsPartial # Absent /\ Len(idsPartial) = 0 /\ Len(run.buffer) = 0
  BY <1>3, EmptyPrefix, IdsFileIsPrefix, AbsentAssumption
<1>5. run.interval \in Nat \ {0} /\ 0 % run.interval >= 0
  <2>1. run.interval \in Nat \ {0}
    BY <1>1, RunTyped DEF DigestsSound
  <2> QED
    BY <2>1
<1>6. TypeOK'
  BY <1>1, <1>2 DEF TypeOK, Steps
<1>7. CheckpointSound' /\ FilesFit' /\ SealedStoreIsWhole'
  BY <1>1, <1>2, <1>3, <1>4
  DEF CheckpointSound, FilesFit, SealedStoreIsWhole, DigestsSound
<1>8. NothingFinal' /\ DigestsSound' /\ Opening' /\ Sealing'
  BY <1>1 DEF NothingFinal, DigestsSound, Opening, Sealing, Counts
<1>9. Building'
  BY <1>1, <1>2, <1>3, <1>4 DEF Building
<1>10. CheckpointsFollow'
  BY <1>1, <1>2, <1>3, <1>5 DEF CheckpointsFollow
<1> QED
  BY <1>6, <1>7, <1>8, <1>9, <1>10

\* The batch ends after its first row and not beyond the last one.
LEMMA StopBounds ==
  ASSUME TypeOK, run # Absent, run.completed < NRows
  PROVE  /\ Stop \in run.completed + 1 .. NRows
         /\ Stop < NRows => Stop = run.completed + run.batch
  BY RunTyped DEF Stop

\* The lines and vectors of a batch.
LEMMA BatchTyped ==
  ASSUME TypeOK, run # Absent, run.completed < NRows, NEW v \in Variants
  PROVE  /\ BatchLines \in Seq(Rows) /\ Len(BatchLines) = Stop - run.completed
         /\ \A n \in 1 .. Stop - run.completed : BatchLines[n] = run.completed + n
         /\ BatchVectors(v) \in Seq(Vector)
         /\ Len(BatchVectors(v)) = Stop - run.completed
         /\ \A n \in 1 .. Stop - run.completed :
               BatchVectors(v)[n] = [id |-> run.id, variant |-> v]
<1>1. /\ Stop \in run.completed + 1 .. NRows /\ run.completed \in 0 .. NRows
      /\ [id |-> run.id, variant |-> v] \in Vector
  BY RunTyped, StopBounds DEF Vector
<1>2. Stop - run.completed \in Nat
  BY <1>1
<1>3. \A n \in 1 .. Stop - run.completed : run.completed + n \in Rows
  BY <1>1 DEF Rows
<1> QED
  <2> DEFINE size == Stop - run.completed
  <2>1. /\ BatchLines \in [1 .. size -> Rows]
        /\ BatchVectors(v) \in [1 .. size -> Vector]
    BY <1>1, <1>3 DEF BatchLines, BatchVectors
  <2>2. /\ BatchLines \in Seq(Rows) /\ DOMAIN BatchLines = 1 .. size
        /\ BatchVectors(v) \in Seq(Vector) /\ DOMAIN BatchVectors(v) = 1 .. size
    <3> HIDE DEF size
    <3> QED
      BY <1>2, <2>1, SeqDef DEF size
  <2>3. Len(BatchLines) = size /\ Len(BatchVectors(v)) = size
    BY <1>2, <2>2, LenProperties
  <2> QED
    BY <2>2, <2>3 DEF BatchLines, BatchVectors

\* The running invocation after a batch, field by field.
LEMMA FieldsAfterBatch ==
  ASSUME run \in Run, NEW v,
         run' = [run EXCEPT !.completed = Stop, !.budget = @ - 1,
                            !.buffer = @ \o BatchLines, !.ids = @ \o BatchLines,
                            !.vectors = @ \o BatchVectors(v)]
  PROVE  run' = [id |-> run.id, batch |-> run.batch, interval |-> run.interval,
                 budget |-> run.budget - 1, completed |-> Stop,
                 buffer |-> run.buffer \o BatchLines, ids |-> run.ids \o BatchLines,
                 vectors |-> run.vectors \o BatchVectors(v)]
<1>1. run = [id |-> run.id, batch |-> run.batch, interval |-> run.interval,
             budget |-> run.budget, completed |-> run.completed,
             buffer |-> run.buffer, ids |-> run.ids, vectors |-> run.vectors]
  BY DEF Run
<1> QED
  BY <1>1

\* What a batch makes of the running invocation.
LEMMA BatchOfRun ==
  ASSUME TypeOK, DigestsSound, pc = "loop", run.completed < NRows, run.budget > 0,
         Len(run.buffer) <= run.completed, NEW v \in Variants,
         run' = [id |-> run.id, batch |-> run.batch, interval |-> run.interval,
                 budget |-> run.budget - 1, completed |-> Stop,
                 buffer |-> run.buffer \o BatchLines, ids |-> run.ids \o BatchLines,
                 vectors |-> run.vectors \o BatchVectors(v)]
  PROVE  /\ run' \in Run /\ run'.id = run.id /\ run'.completed = Stop
         /\ run'.batch = run.batch /\ run'.interval = run.interval
         /\ Counts(run'.ids, Stop)
         /\ Len(run'.buffer) = Len(run.buffer) + (Stop - run.completed)
         /\ \A n \in 1 .. Len(run'.buffer) :
               run'.buffer[n] = IF n <= Len(run.buffer) THEN run.buffer[n]
                                ELSE run.completed + (n - Len(run.buffer))
         /\ Len(run'.vectors) = Stop
         /\ \A r \in 1 .. Stop :
               run'.vectors[r] = IF r <= run.completed THEN run.vectors[r]
                                 ELSE [id |-> run.id, variant |-> v]
<1>1. /\ run # Absent /\ Counts(run.ids, run.completed)
      /\ Len(run.vectors) = run.completed
  BY DEF DigestsSound
<1>2. /\ run \in Run /\ run.budget - 1 \in Nat /\ run.completed \in 0 .. NRows
      /\ run.buffer \in Seq(Rows) /\ run.ids \in Seq(Rows) /\ run.vectors \in Seq(Vector)
      /\ Len(run.buffer) \in Nat
  BY <1>1, RunTyped
<1>3. Stop \in run.completed + 1 .. NRows
  BY <1>1, StopBounds
<1>4. /\ run.buffer \o BatchLines \in Seq(Rows)
      /\ Len(run.buffer \o BatchLines) = Len(run.buffer) + (Stop - run.completed)
      /\ \A n \in 1 .. Len(run.buffer) + (Stop - run.completed) :
            (run.buffer \o BatchLines)[n] =
                IF n <= Len(run.buffer) THEN run.buffer[n]
                ELSE run.completed + (n - Len(run.buffer))
  <2>1. /\ BatchLines \in Seq(Rows) /\ Len(BatchLines) = Stop - run.completed
        /\ \A n \in 1 .. Stop - run.completed : BatchLines[n] = run.completed + n
    BY <1>1, BatchTyped
  <2>2. /\ run.buffer \o BatchLines \in Seq(Rows)
        /\ Len(run.buffer \o BatchLines) = Len(run.buffer) + Len(BatchLines)
        /\ \A n \in 1 .. Len(run.buffer) + Len(BatchLines) :
              (run.buffer \o BatchLines)[n] =
                  IF n <= Len(run.buffer) THEN run.buffer[n]
                  ELSE BatchLines[n - Len(run.buffer)]
    BY <1>2, <2>1, ConcatProperties
  <2>3. ASSUME NEW n \in 1 .. Len(run.buffer) + (Stop - run.completed),
               ~(n <= Len(run.buffer))
        PROVE  n - Len(run.buffer) \in 1 .. Stop - run.completed
    BY <1>2, <1>3, <2>3
  <2> QED
    BY <2>1, <2>2, <2>3
<1>5. run.ids \o BatchLines \in Seq(Rows) /\ Counts(run.ids \o BatchLines, Stop)
  <2>1. /\ BatchLines \in Seq(Rows) /\ Len(BatchLines) = Stop - run.completed
        /\ \A n \in 1 .. Stop - run.completed : BatchLines[n] = run.completed + n
    BY <1>1, BatchTyped
  <2>2. /\ run.ids \o BatchLines \in Seq(Rows)
        /\ Len(run.ids \o BatchLines) = Stop
        /\ \A r \in 1 .. Stop : (run.ids \o BatchLines)[r] =
              IF r <= run.completed THEN run.ids[r] ELSE BatchLines[r - run.completed]
    <3>1. /\ run.ids \o BatchLines \in Seq(Rows)
          /\ Len(run.ids \o BatchLines) = Len(run.ids) + Len(BatchLines)
          /\ \A r \in 1 .. Len(run.ids) + Len(BatchLines) : (run.ids \o BatchLines)[r] =
                IF r <= Len(run.ids) THEN run.ids[r] ELSE BatchLines[r - Len(run.ids)]
      BY <1>2, <2>1, ConcatProperties
    <3>2. Len(run.ids) = run.completed /\ Len(run.ids) + Len(BatchLines) = Stop
      BY <1>1, <1>2, <1>3, <2>1 DEF Counts
    <3> QED
      BY <3>1, <3>2
  <2>3. ASSUME NEW r \in 1 .. Stop PROVE (run.ids \o BatchLines)[r] = r
    <3>1. CASE r <= run.completed
      BY <1>1, <1>2, <2>2, <3>1 DEF Counts
    <3>2. CASE ~(r <= run.completed)
      <4>1. /\ r - run.completed \in 1 .. Stop - run.completed
            /\ run.completed + (r - run.completed) = r
        BY <1>2, <1>3, <3>2
      <4> QED
        BY <2>1, <2>2, <3>2, <4>1
    <3> QED
      BY <3>1, <3>2
  <2> QED
    BY <2>2, <2>3 DEF Counts
<1>6. /\ run.vectors \o BatchVectors(v) \in Seq(Vector)
      /\ Len(run.vectors \o BatchVectors(v)) = Stop
      /\ \A r \in 1 .. Stop :
            (run.vectors \o BatchVectors(v))[r] =
                IF r <= run.completed THEN run.vectors[r]
                ELSE [id |-> run.id, variant |-> v]
  <2>1. /\ BatchVectors(v) \in Seq(Vector)
        /\ Len(BatchVectors(v)) = Stop - run.completed
        /\ \A n \in 1 .. Stop - run.completed :
               BatchVectors(v)[n] = [id |-> run.id, variant |-> v]
    BY <1>1, BatchTyped
  <2>2. /\ run.vectors \o BatchVectors(v) \in Seq(Vector)
        /\ Len(run.vectors \o BatchVectors(v)) = Stop
        /\ \A r \in 1 .. Stop : (run.vectors \o BatchVectors(v))[r] =
              IF r <= run.completed THEN run.vectors[r] ELSE BatchVectors(v)[r - run.completed]
    <3>1. /\ run.vectors \o BatchVectors(v) \in Seq(Vector)
          /\ Len(run.vectors \o BatchVectors(v)) = Len(run.vectors) + Len(BatchVectors(v))
          /\ \A r \in 1 .. Len(run.vectors) + Len(BatchVectors(v)) : (run.vectors \o BatchVectors(v))[r] =
                IF r <= Len(run.vectors) THEN run.vectors[r] ELSE BatchVectors(v)[r - Len(run.vectors)]
      BY <1>2, <2>1, ConcatProperties
    <3>2. Len(run.vectors) = run.completed /\ Len(run.vectors) + Len(BatchVectors(v)) = Stop
      BY <1>1, <1>2, <1>3, <2>1
    <3> QED
      BY <3>1, <3>2
  <2>3. ASSUME NEW r \in 1 .. Stop, ~(r <= run.completed)
        PROVE  r - run.completed \in 1 .. Stop - run.completed
    BY <1>2, <1>3, <2>3
  <2> QED
    BY <2>1, <2>2, <2>3
<1>7. run' \in Run
  <2>1. /\ run.buffer \o BatchLines \in Prefix(Rows)
        /\ run.ids \o BatchLines \in Prefix(Rows)
        /\ run.vectors \o BatchVectors(v) \in Prefix(Vector)
    <3>1. /\ Len(run.buffer \o BatchLines) <= NRows
          /\ Len(run.ids \o BatchLines) <= NRows
          /\ Len(run.vectors \o BatchVectors(v)) <= NRows
      BY <1>2, <1>3, <1>4, <1>5, <1>6 DEF Counts
    <3> QED
      BY <1>4, <1>5, <1>6, <3>1, SeqIsPrefix
  <2> QED
    BY <1>2, <1>3, <2>1 DEF Run
<1> QED
  BY <1>4, <1>5, <1>6, <1>7

\* Writing rows to the memory map leaves the others alone.
LEMMA WrittenRows ==
  ASSUME TypeOK, run # Absent, vecPartial # Absent, NEW v \in Variants,
         NEW rows \in SUBSET Rows
  PROVE  /\ Written(rows, v) \in VecFile /\ Written(rows, v) # Absent
         /\ \A r \in Rows \ rows : Written(rows, v)[r] = vecPartial[r]
         /\ \A r \in rows : Written(rows, v)[r] = [id |-> run.id, variant |-> v]
<1>1. vecPartial \in [Rows -> Vector \union {Absent}]
  BY DEF TypeOK, VecFile
<1>2. [id |-> run.id, variant |-> v] \in Vector
  BY RunTyped DEF Vector
<1>3. Written(rows, v) = [r \in Rows |-> IF r \in rows THEN [id |-> run.id, variant |-> v]
                                         ELSE vecPartial[r]]
  BY <1>1 DEF Written
<1>4. Written(rows, v) \in VecFile
  BY <1>1, <1>2, <1>3 DEF VecFile
<1> QED
  BY <1>3, <1>4, AbsentAssumption

LEMMA BatchKeeps ==
  ASSUME IInv, Batch
  PROVE  IInv'
<1> USE DEF IInv, RunFits
<1>1. PICK v \in Variants :
        /\ vecPartial' = Written(BatchRows, v)
        /\ run' = [run EXCEPT !.completed = Stop, !.budget = @ - 1,
                              !.buffer = @ \o BatchLines, !.ids = @ \o BatchLines,
                              !.vectors = @ \o BatchVectors(v)]
  BY DEF Batch
<1>2. /\ pc = "loop" /\ run.completed < NRows /\ pc' = "batched"
      /\ UNCHANGED <<idsPartial, vecFinal, idsFinal, manifest, ckpt, outcome>>
  BY DEF Batch
<1>3. /\ run # Absent /\ Counts(run.ids, run.completed)
      /\ \A r \in 1 .. run.completed : run.vectors[r].id = run.id
  BY <1>2 DEF DigestsSound
<1>4. /\ ckpt # Absent /\ ckpt.status = "INCOMPLETE" /\ ckpt.id = run.id
      /\ ckpt.completed <= run.completed
      /\ vecPartial # Absent /\ idsPartial # Absent
      /\ Len(idsPartial) + Len(run.buffer) = run.completed
      /\ \A r \in 1 .. Len(idsPartial) : idsPartial[r] = r
      /\ \A n \in 1 .. Len(run.buffer) : run.buffer[n] = Len(idsPartial) + n
      /\ \A r \in 1 .. run.completed : vecPartial[r] = run.vectors[r]
  BY <1>2 DEF Building
<1>5. /\ run \in Run /\ run.completed \in 0 .. NRows /\ Len(run.buffer) \in Nat
      /\ Len(idsPartial) \in Nat /\ ckpt.completed \in Nat
      /\ run.interval \in Nat \ {0} /\ run.batch \in Nat \ {0}
      /\ run.id \in Identities
  BY <1>3, <1>4, RunTyped, IdsTyped, CheckpointTyped
<1>6. Stop \in run.completed + 1 .. NRows
  BY <1>2, <1>3, StopBounds
<1>7. run' = [id |-> run.id, batch |-> run.batch, interval |-> run.interval,
              budget |-> run.budget - 1, completed |-> Stop,
              buffer |-> run.buffer \o BatchLines, ids |-> run.ids \o BatchLines,
              vectors |-> run.vectors \o BatchVectors(v)]
  BY <1>1, <1>5, FieldsAfterBatch
<1>8. /\ run' \in Run /\ run'.id = run.id /\ run'.completed = Stop
      /\ run'.batch = run.batch /\ run'.interval = run.interval
      /\ Counts(run'.ids, Stop)
      /\ Len(run'.buffer) = Len(run.buffer) + (Stop - run.completed)
      /\ \A n \in 1 .. Len(run'.buffer) :
            run'.buffer[n] = IF n <= Len(run.buffer) THEN run.buffer[n]
                             ELSE run.completed + (n - Len(run.buffer))
      /\ Len(run'.vectors) = Stop
      /\ \A r \in 1 .. Stop :
            run'.vectors[r] = IF r <= run.completed THEN run.vectors[r]
                              ELSE [id |-> run.id, variant |-> v]
  <2>1. run.budget > 0 /\ Len(run.buffer) <= run.completed
    BY <1>2, <1>4, <1>5 DEF CheckpointsFollow
  <2> HIDE DEF IInv, RunFits
  <2>2. TypeOK /\ DigestsSound
    BY DEF IInv, RunFits
  <2> QED
    BY <1>2, <1>7, <2>1, <2>2, BatchOfRun
<1>9. /\ vecPartial' \in VecFile /\ vecPartial' # Absent
      /\ \A r \in 1 .. run.completed : vecPartial'[r] = vecPartial[r]
      /\ \A r \in run.completed + 1 .. Stop :
            vecPartial'[r] = [id |-> run.id, variant |-> v]
  <2>1. BatchRows \in SUBSET Rows
    BY <1>5, <1>6 DEF BatchRows, Rows
  <2>2. \A r \in 1 .. run.completed : r \in Rows \ BatchRows
    BY <1>5 DEF BatchRows, Rows
  <2> QED
    <3>1. TypeOK
      OBVIOUS
    <3>2. /\ Written(BatchRows, v) \in VecFile /\ Written(BatchRows, v) # Absent
          /\ \A r \in Rows \ BatchRows : Written(BatchRows, v)[r] = vecPartial[r]
          /\ \A r \in BatchRows : Written(BatchRows, v)[r] = [id |-> run.id, variant |-> v]
      <4> HIDE DEF IInv
      <4> QED
        BY <1>3, <1>4, <2>1, <3>1, WrittenRows
    <3>3. vecPartial' = Written(BatchRows, v)
      BY <1>1, Zenon
    <3> QED
      BY <2>2, <3>2, <3>3 DEF BatchRows
<1>10. run' # Absent
  BY <1>8, AbsentAssumption
<1>11. TypeOK'
  BY <1>2, <1>8, <1>9 DEF TypeOK, Steps
<1>12. CheckpointSound' /\ NothingFinal' /\ SealedStoreIsWhole'
  BY <1>2, <1>4 DEF CheckpointSound, NothingFinal, SealedStoreIsWhole
<1>13. FilesFit'
  BY <1>2, <1>4, <1>5, <1>9 DEF FilesFit
<1>14. DigestsSound'
  <2>1. ASSUME NEW r \in 1 .. Stop PROVE run'.vectors[r].id = run.id
    <3>1. CASE r <= run.completed
      <4>1. r \in 1 .. run.completed
        BY <1>5, <3>1
      <4>2. run'.vectors[r] = run.vectors[r]
        BY <1>8, <3>1
      <4> QED
        BY <1>3, <4>1, <4>2
    <3>2. CASE ~(r <= run.completed)
      <4>1. run'.vectors[r] = [id |-> run.id, variant |-> v]
        BY <1>8, <3>2
      <4> QED
        BY <4>1
    <3> QED
      BY <3>1, <3>2
  <2> QED
    BY <1>2, <1>8, <1>10, <2>1 DEF DigestsSound
<1>15. Building'
  <2>1. Len(idsPartial') + Len(run'.buffer) = run'.completed
    BY <1>2, <1>4, <1>5, <1>6, <1>8
  <2>2. ASSUME NEW n \in 1 .. Len(run'.buffer)
        PROVE  run'.buffer[n] = Len(idsPartial') + n
    <3>1. run'.buffer[n] = IF n <= Len(run.buffer) THEN run.buffer[n]
                           ELSE run.completed + (n - Len(run.buffer))
      BY <1>8
    <3>2. CASE n <= Len(run.buffer)
      <4>1. n \in 1 .. Len(run.buffer)
        BY <1>5, <3>2
      <4> QED
        BY <1>2, <1>4, <3>1, <3>2, <4>1
    <3>3. CASE ~(n <= Len(run.buffer))
      <4>1. n \in Int /\ Len(run.buffer) \in Int /\ Len(idsPartial) \in Int
        BY <1>5
      <4> QED
        BY <1>2, <1>4, <3>1, <3>3, <4>1
    <3> QED
      BY <3>2, <3>3
  <2>3. \A r \in 1 .. run'.completed : vecPartial'[r] = run'.vectors[r]
    <3>1. ASSUME NEW r \in 1 .. Stop PROVE vecPartial'[r] = run'.vectors[r]
      <4>1. CASE r <= run.completed
        BY <1>4, <1>5, <1>8, <1>9, <4>1
      <4>2. CASE ~(r <= run.completed)
        BY <1>5, <1>8, <1>9, <4>2
      <4> QED
        BY <4>1, <4>2
    <3> QED
      BY <1>8, <3>1
  <2> QED
    <3>1. /\ ckpt' # Absent /\ ckpt'.status = "INCOMPLETE" /\ ckpt'.id = run'.id
          /\ ckpt'.completed <= run'.completed
      BY <1>2, <1>4, <1>5, <1>6, <1>8
    <3>2. idsPartial' # Absent /\ \A r \in 1 .. Len(idsPartial') : idsPartial'[r] = r
      BY <1>2, <1>4
    <3> QED
      BY <1>9, <2>1, <2>2, <2>3, <3>1, <3>2 DEF Building
<1>16. CheckpointsFollow'
  <2>1. ASSUME ~CheckpointDue'
        PROVE  run'.completed - ckpt'.completed <= run'.completed % run'.interval
    <3>1. Stop # NRows /\ ~(Stop % run.interval < run.batch)
      BY <1>8, <2>1 DEF CheckpointDue
    <3>2. Stop = run.completed + run.batch
      BY <1>2, <1>3, <1>6, <3>1, StopBounds
    <3>3. Stop \in Nat /\ run.completed \in Nat
      BY <1>5, <1>6
    <3>4. run.completed - ckpt.completed <= run.completed % run.interval
      BY <1>2 DEF CheckpointsFollow
    <3>5. Stop % run.interval = (run.completed % run.interval) + run.batch
      <4> DEFINE c == run.completed
                 b == run.batch
                 k == run.interval
      <4>1. c \in Nat /\ b \in Nat /\ k \in Nat \ {0} /\ Stop = c + b
        BY <1>5, <3>2, <3>3
      <4>2. (c + b) % k >= b
        <5>1. ~(Stop % k < b) /\ Stop % k \in Nat
          BY <3>1, <3>3, <4>1
        <5> HIDE DEF c, b, k
        <5> QED
          BY <4>1, <5>1
      <4> HIDE DEF c, b, k
      <4>3. (c + b) % k = (c % k) + b
        BY <4>1, <4>2, NoMultipleCrossed
      <4> QED
        BY <4>1, <4>3 DEF c, b, k
    <3>6. run.completed % run.interval \in Nat
      BY <1>5, <3>3
    <3>7. Stop - ckpt.completed <= Stop % run.interval
      BY <1>5, <3>2, <3>3, <3>4, <3>5, <3>6
    <3> QED
      BY <1>2, <1>8, <3>7
  <2> QED
    BY <1>2, <2>1 DEF CheckpointsFollow
<1>17. Opening' /\ Sealing'
  BY <1>2 DEF Opening, Sealing
<1> QED
  BY <1>11, <1>12, <1>13, <1>14, <1>15, <1>16, <1>17

\* The buffered lines fit into the ids file.
LEMMA BufferFits ==
  ASSUME IInv, pc # "idle", idsPartial # Absent
  PROVE  Len(idsPartial) + Len(run.buffer) <= NRows
<1> USE DEF IInv, RunFits
<1>1. run # Absent /\ TypeOK
  BY DEF DigestsSound
<1>2. run.completed \in 0 .. NRows /\ Len(idsPartial) \in 0 .. NRows
  BY <1>1, RunTyped, IdsTyped
<1>3. CASE pc \in {"loop", "batched", "flushed", "progress"}
  BY <1>2, <1>3 DEF Building
<1>4. CASE pc \notin {"loop", "batched", "flushed", "progress"}
  <2>1. run.buffer = <<>>
    BY <1>1, <1>4 DEF Opening, Sealing, TypeOK, Steps
  <2>2. Len(run.buffer) = 0
    BY <2>1, EmptySeq
  <2> QED
    BY <1>2, <2>2
<1> QED
  BY <1>3, <1>4

\* So appending no more lines than are buffered makes an ids file again.
LEMMA AppendIds ==
  ASSUME IInv, pc # "idle", idsPartial # Absent,
         NEW t \in Seq(0 .. NRows), Len(t) <= Len(run.buffer)
  PROVE  /\ idsPartial \o t \in IdsFile /\ idsPartial \o t # Absent
         /\ Len(idsPartial \o t) = Len(idsPartial) + Len(t)
         /\ \A r \in 1 .. Len(idsPartial) : (idsPartial \o t)[r] = idsPartial[r]
         /\ \A r \in 1 .. Len(t) : (idsPartial \o t)[Len(idsPartial) + r] = t[r]
<1>1. run # Absent /\ TypeOK
  BY DEF IInv, RunFits, DigestsSound
<1>2. /\ idsPartial \in Seq(0 .. NRows) /\ Len(idsPartial) \in Nat
      /\ Len(t) \in Nat /\ Len(run.buffer) \in Nat
  BY <1>1, IdsTyped, RunTyped, LenProperties
<1>3. Len(idsPartial) + Len(t) <= NRows
  BY <1>2, BufferFits
<1>4. /\ idsPartial \o t \in Seq(0 .. NRows)
      /\ Len(idsPartial \o t) = Len(idsPartial) + Len(t)
      /\ \A r \in 1 .. Len(idsPartial) : (idsPartial \o t)[r] = idsPartial[r]
      /\ \A r \in 1 .. Len(t) : (idsPartial \o t)[Len(idsPartial) + r] = t[r]
  BY <1>2, AppendedKeeps
<1>5. idsPartial \o t \in IdsFile
  BY <1>3, <1>4, SeqIsPrefix, IdsFileIsPrefix
<1> QED
  BY <1>4, <1>5, AbsentAssumption

LEMMA BufferTyped ==
  ASSUME TypeOK, run # Absent
  PROVE  run.buffer \in Seq(0 .. NRows)
  BY RunTyped DEF Rows

\* Flushing completes the ids file.
LEMMA FlushedIds ==
  ASSUME IInv, pc \in {"loop", "batched", "flushed", "progress"}
  PROVE  /\ idsPartial \o run.buffer \in IdsFile /\ idsPartial \o run.buffer # Absent
         /\ Counts(idsPartial \o run.buffer, run.completed)
         /\ \A r \in 1 .. Len(idsPartial) : (idsPartial \o run.buffer)[r] = idsPartial[r]
<1>1. /\ run # Absent /\ TypeOK /\ idsPartial # Absent
      /\ Len(idsPartial) + Len(run.buffer) = run.completed
      /\ \A r \in 1 .. Len(idsPartial) : idsPartial[r] = r
      /\ \A n \in 1 .. Len(run.buffer) : run.buffer[n] = Len(idsPartial) + n
  BY DEF IInv, RunFits, DigestsSound, Building
<1>2. run.buffer \in Seq(0 .. NRows) /\ Len(run.buffer) \in Nat /\ Len(idsPartial) \in Nat
  BY <1>1, BufferTyped, RunTyped, IdsTyped
<1>3. /\ idsPartial \o run.buffer \in IdsFile /\ idsPartial \o run.buffer # Absent
      /\ Len(idsPartial \o run.buffer) = Len(idsPartial) + Len(run.buffer)
      /\ \A r \in 1 .. Len(idsPartial) : (idsPartial \o run.buffer)[r] = idsPartial[r]
      /\ \A r \in 1 .. Len(run.buffer) :
            (idsPartial \o run.buffer)[Len(idsPartial) + r] = run.buffer[r]
  <2>1. pc # "idle" /\ Len(run.buffer) <= Len(run.buffer)
    BY <1>2
  <2> QED
    BY <1>1, <1>2, <2>1, AppendIds
<1>4. ASSUME NEW r \in 1 .. run.completed
      PROVE  (idsPartial \o run.buffer)[r] = r
  <2>1. CASE r <= Len(idsPartial)
    BY <1>1, <1>2, <1>3, <2>1
  <2>2. CASE ~(r <= Len(idsPartial))
    <3> DEFINE n == r - Len(idsPartial)
    <3>1. n \in 1 .. Len(run.buffer) /\ Len(idsPartial) + n = r
      BY <1>1, <1>2, <2>2
    <3>2. /\ (idsPartial \o run.buffer)[Len(idsPartial) + n] = run.buffer[n]
          /\ run.buffer[n] = Len(idsPartial) + n
      <4> HIDE DEF n
      <4> QED
        BY <1>1, <1>3, <3>1
    <3> HIDE DEF n
    <3> QED
      BY <3>1, <3>2
  <2> QED
    BY <2>1, <2>2
<1> QED
  BY <1>1, <1>3, <1>4 DEF Counts

LEMMA FlushKeeps ==
  ASSUME IInv, Flush
  PROVE  IInv'
<1>1. /\ pc = "batched" /\ pc' = "flushed"
      /\ idsPartial' = idsPartial \o run.buffer
      /\ run' = [run EXCEPT !.buffer = <<>>]
      /\ UNCHANGED <<vecPartial, vecFinal, idsFinal, manifest, ckpt, outcome>>
  BY DEF Flush
<1>2. /\ TypeOK /\ run # Absent
      /\ Counts(run.ids, run.completed) /\ Len(run.vectors) = run.completed
      /\ \A r \in 1 .. run.completed : run.vectors[r].id = run.id
  BY <1>1 DEF IInv, RunFits, DigestsSound
<1>3. /\ ckpt # Absent /\ ckpt.status = "INCOMPLETE" /\ ckpt.id = run.id
      /\ ckpt.completed <= run.completed
      /\ vecPartial # Absent /\ idsPartial # Absent
      /\ \A r \in 1 .. run.completed : vecPartial[r] = run.vectors[r]
  BY <1>1 DEF IInv, RunFits, Building
<1>4. /\ idsPartial' \in IdsFile /\ idsPartial' # Absent
      /\ Counts(idsPartial', run.completed)
  BY <1>1, FlushedIds
<1>5. run.completed \in 0 .. NRows /\ ckpt.completed \in 0 .. NRows /\ run \in Run
  BY <1>2, <1>3, RunTyped, CheckpointTyped
<1>6. /\ run' \in Run /\ run'.id = run.id /\ run'.completed = run.completed
      /\ run'.ids = run.ids /\ run'.vectors = run.vectors /\ run'.buffer = <<>>
      /\ run'.interval = run.interval
  BY <1>1, <1>5, EmptyPrefix DEF Run
<1>7. run' # Absent
  BY <1>6, AbsentAssumption
<1>8. TypeOK'
  BY <1>1, <1>2, <1>4, <1>6 DEF TypeOK, Steps
<1>9. CheckpointSound' /\ NothingFinal' /\ SealedStoreIsWhole'
  BY <1>1, <1>3 DEF IInv, CheckpointSound, NothingFinal, SealedStoreIsWhole
<1>10. FilesFit'
  BY <1>1, <1>3, <1>4, <1>5 DEF IInv, FilesFit, Counts
<1>11. DigestsSound'
  BY <1>1, <1>2, <1>6, <1>7 DEF DigestsSound, Counts
<1>12. Building'
  <2>1. Len(run'.buffer) = 0
    BY <1>6, EmptySeq
  <2> QED
    BY <1>1, <1>3, <1>4, <1>5, <1>6, <2>1 DEF Building, Counts
<1>13. CheckpointsFollow' /\ Opening' /\ Sealing'
  BY <1>1, <1>6 DEF CheckpointsFollow, Opening, Sealing
<1> QED
  BY <1>8, <1>9, <1>10, <1>11, <1>12, <1>13 DEF IInv, RunFits

LEMMA WriteCheckpointKeeps ==
  ASSUME IInv, WriteCheckpoint
  PROVE  IInv'
<1> USE DEF IInv, RunFits
<1>1. /\ ckpt' = CheckpointOf(run, "INCOMPLETE") /\ pc = "flushed" /\ pc' = "progress"
      /\ UNCHANGED <<vecPartial, idsPartial, vecFinal, idsFinal, manifest, run, outcome>>
  BY DEF WriteCheckpoint
<1>2. /\ ckpt' \in Checkpoint /\ ckpt' # Absent
      /\ ckpt'.id = run.id /\ ckpt'.completed = run.completed
      /\ ckpt'.status = "INCOMPLETE" /\ ckpt'.ids = run.ids
      /\ ckpt'.idsSize = run.completed /\ ckpt'.vectors = run.vectors
  BY <1>1, CheckpointOfRun
<1>3. /\ run # Absent /\ Counts(run.ids, run.completed)
      /\ Len(run.vectors) = run.completed
      /\ \A r \in 1 .. run.completed : run.vectors[r].id = run.id
  BY <1>1 DEF DigestsSound
<1>4. /\ vecPartial # Absent /\ idsPartial # Absent
      /\ Len(idsPartial) + Len(run.buffer) = run.completed
      /\ \A r \in 1 .. Len(idsPartial) : idsPartial[r] = r
      /\ \A n \in 1 .. Len(run.buffer) : run.buffer[n] = Len(idsPartial) + n
      /\ \A r \in 1 .. run.completed : vecPartial[r] = run.vectors[r]
  BY <1>1 DEF Building
<1>5. run.buffer = <<>> /\ Len(run.buffer) = 0
  BY <1>1, EmptySeq DEF CheckpointsFollow
<1>6. /\ run.completed \in 0 .. NRows /\ run.interval \in Nat \ {0}
      /\ Len(idsPartial) \in Nat /\ Len(idsPartial) = run.completed
  BY <1>3, <1>4, <1>5, RunTyped, IdsTyped
<1>7. run.completed % run.interval >= 0 /\ run.completed - run.completed = 0
  BY <1>6
<1>8. TypeOK'
  BY <1>1, <1>2 DEF TypeOK, Steps
<1>9. CheckpointSound' /\ SealedStoreIsWhole'
  BY <1>1, <1>2, <1>3 DEF CheckpointSound, SealedStoreIsWhole, Counts
<1>10. FilesFit'
  BY <1>1, <1>2, <1>4, <1>6 DEF FilesFit
<1>11. NothingFinal' /\ DigestsSound' /\ Opening' /\ Sealing'
  BY <1>1, <1>3 DEF NothingFinal, DigestsSound, Opening, Sealing, Counts
<1>12. Building'
  BY <1>1, <1>2, <1>4, <1>6 DEF Building
<1>13. CheckpointsFollow'
  BY <1>1, <1>2, <1>5, <1>7 DEF CheckpointsFollow
<1> QED
  BY <1>8, <1>9, <1>10, <1>11, <1>12, <1>13

LEMMA SkipCheckpointKeeps ==
  ASSUME IInv, SkipCheckpoint
  PROVE  IInv'
<1> USE DEF IInv, RunFits
<1>1. /\ pc = "batched" /\ pc' = "progress" /\ ~CheckpointDue
      /\ UNCHANGED <<vecPartial, idsPartial, vecFinal, idsFinal, manifest, ckpt, run, outcome>>
  BY DEF SkipCheckpoint, disk
<1>2. TypeOK'
  BY <1>1 DEF TypeOK, Steps
<1>3. CheckpointSound' /\ FilesFit' /\ NothingFinal' /\ SealedStoreIsWhole'
  BY <1>1 DEF CheckpointSound, FilesFit, NothingFinal, SealedStoreIsWhole
<1>4. DigestsSound' /\ Opening' /\ Building' /\ Sealing'
  BY <1>1 DEF DigestsSound, Opening, Building, Sealing, Counts
<1>5. CheckpointsFollow'
  BY <1>1 DEF CheckpointsFollow, CheckpointDue
<1> QED
  BY <1>2, <1>3, <1>4, <1>5

\* An invocation that leaves the with block, which flushes the ids.
LEMMA CloseKeeps ==
  ASSUME IInv, pc \in {"loop", "batched", "flushed", "progress"}, CloseIds,
         NEW how \in Outcomes, Ends(how),
         UNCHANGED <<vecPartial, vecFinal, idsFinal, manifest, ckpt>>
  PROVE  IInv'
<1>1. /\ TypeOK /\ ckpt # Absent /\ idsPartial # Absent
      /\ FilesFit
  BY DEF IInv, RunFits, Building
<1>2. idsPartial' = idsPartial \o run.buffer
  BY <1>1 DEF CloseIds
<1>3. /\ idsPartial' \in IdsFile /\ idsPartial' # Absent
      /\ Len(idsPartial') = run.completed
      /\ \A r \in 1 .. Len(idsPartial) : idsPartial'[r] = idsPartial[r]
  BY <1>2, FlushedIds DEF Counts
<1>4. ckpt.completed <= run.completed /\ ckpt.completed \in Nat /\ run.completed \in Nat
  BY <1>1, RunTyped, CheckpointTyped DEF IInv, RunFits, Building, DigestsSound
<1>5. vecPartial # Absent /\ ckpt.status = "INCOMPLETE" =>
         \A r \in 1 .. ckpt.completed : r \in 1 .. Len(idsPartial)
  BY <1>1, <1>4, IdsTyped DEF FilesFit
<1> QED
  BY <1>1, <1>3, <1>4, <1>5, EndKeeps DEF TypeOK

LEMMA ProgressKeeps ==
  ASSUME IInv, Progress
  PROVE  IInv'
<1>1. /\ pc = "progress"
      /\ UNCHANGED <<vecPartial, vecFinal, idsFinal, manifest, ckpt>>
  BY DEF Progress
<1>2. CASE CloseIds /\ Ends("INCOMPLETE")
  BY <1>1, <1>2, CloseKeeps DEF Outcomes
<1>3. CASE ~Stopping /\ pc' = "loop" /\ UNCHANGED <<idsPartial, run, outcome>>
  <2> USE DEF IInv, RunFits
  <2>1. TypeOK'
    BY <1>1, <1>3 DEF TypeOK, Steps
  <2>2. CheckpointSound' /\ FilesFit' /\ NothingFinal' /\ SealedStoreIsWhole'
    BY <1>1, <1>3 DEF CheckpointSound, FilesFit, NothingFinal, SealedStoreIsWhole
  <2>3. DigestsSound' /\ Opening' /\ Building' /\ Sealing'
    BY <1>1, <1>3 DEF DigestsSound, Opening, Building, Sealing, Counts
  <2>4. run.budget > 0
    BY <1>1, <1>3, RunTyped DEF DigestsSound, Stopping
  <2>5. CheckpointsFollow'
    BY <1>1, <1>3, <2>4 DEF CheckpointsFollow
  <2> QED
    BY <2>1, <2>2, <2>3, <2>5
<1> QED
  BY <1>2, <1>3 DEF Progress

------------------------------------------------------------------------------
(* Sealing *)

LEMMA RenameVectorsKeeps ==
  ASSUME IInv, RenameVectors
  PROVE  IInv'
<1>1. /\ pc = "loop" /\ run.completed = NRows /\ pc' = "rename_ids"
      /\ vecFinal' = vecPartial /\ vecPartial' = Absent
      /\ CloseIds
      /\ UNCHANGED <<idsFinal, manifest, ckpt, run, outcome>>
  BY DEF RenameVectors
<1>2. /\ TypeOK /\ run # Absent /\ Len(run.vectors) = NRows
      /\ Counts(run.ids, run.completed)
      /\ \A r \in 1 .. run.completed : run.vectors[r].id = run.id
  BY <1>1 DEF IInv, RunFits, DigestsSound
<1>3. /\ ckpt # Absent /\ ckpt.status = "INCOMPLETE" /\ ckpt.id = run.id
      /\ vecPartial # Absent /\ idsPartial # Absent
      /\ \A r \in 1 .. NRows : vecPartial[r] = run.vectors[r]
  BY <1>1 DEF IInv, RunFits, Building
<1>4. ckpt.completed = NRows /\ run.buffer = <<>>
  BY <1>1 DEF IInv, RunFits, CheckpointsFollow
<1>5. idsPartial' = idsPartial \o run.buffer
  BY <1>1, <1>3 DEF CloseIds
<1>6. idsPartial' \in IdsFile /\ idsPartial' # Absent /\ Counts(idsPartial', NRows)
  BY <1>1, <1>5, FlushedIds
<1>7. vecPartial = run.vectors
  <2>1. run.vectors \in [1 .. NRows -> Vector]
    BY <1>2, RunTyped, LenProperties
  <2>2. vecPartial \in [1 .. NRows -> Vector \union {Absent}]
    BY <1>2, <1>3 DEF TypeOK, VecFile, Rows
  <2> QED
    BY <1>3, <2>1, <2>2
<1>8. manifest = Absent
  BY <1>3 DEF IInv, NothingFinal
<1>9. TypeOK'
  BY <1>1, <1>2, <1>6 DEF TypeOK, Steps
<1>10. CheckpointSound' /\ FilesFit' /\ NothingFinal' /\ SealedStoreIsWhole'
  BY <1>1, <1>3
  DEF IInv, CheckpointSound, FilesFit, NothingFinal, SealedStoreIsWhole
<1>11. DigestsSound' /\ Opening' /\ Building' /\ CheckpointsFollow'
  BY <1>1, <1>2 DEF DigestsSound, Opening, Building, CheckpointsFollow, Counts
<1>12. Sealing'
  BY <1>1, <1>3, <1>4, <1>6, <1>7, <1>8 DEF Sealing
<1> QED
  BY <1>9, <1>10, <1>11, <1>12 DEF IInv, RunFits

LEMMA RenameIdsKeeps ==
  ASSUME IInv, RenameIds
  PROVE  IInv'
<1> USE DEF IInv, RunFits
<1>1. /\ pc = "rename_ids" /\ pc' = "manifest"
      /\ idsFinal' = idsPartial /\ idsPartial' = Absent
      /\ UNCHANGED <<vecPartial, vecFinal, manifest, ckpt, run, outcome>>
  BY DEF RenameIds
<1>2. /\ idsPartial # Absent /\ Counts(idsPartial, NRows)
      /\ vecPartial = Absent /\ ckpt # Absent /\ ckpt.status = "INCOMPLETE"
  BY <1>1 DEF Sealing
<1>3. TypeOK'
  BY <1>1 DEF TypeOK, Steps
<1>4. CheckpointSound' /\ FilesFit' /\ NothingFinal' /\ SealedStoreIsWhole'
  BY <1>1, <1>2 DEF CheckpointSound, FilesFit, NothingFinal, SealedStoreIsWhole
<1>5. DigestsSound' /\ Opening' /\ Building' /\ CheckpointsFollow' /\ Sealing'
  BY <1>1, <1>2
  DEF DigestsSound, Opening, Building, CheckpointsFollow, Sealing, Counts
<1> QED
  BY <1>3, <1>4, <1>5

LEMMA WriteManifestKeeps ==
  ASSUME IInv, WriteManifest
  PROVE  IInv'
<1> USE DEF IInv, RunFits
<1>1. /\ pc = "manifest" /\ pc' = "seal"
      /\ manifest' = [id |-> run.id, vectors |-> vecFinal, ids |-> idsFinal]
      /\ UNCHANGED <<vecPartial, idsPartial, vecFinal, idsFinal, ckpt, run, outcome>>
  BY DEF WriteManifest
<1>2. /\ vecPartial = Absent /\ ckpt # Absent /\ ckpt.status = "INCOMPLETE"
      /\ vecFinal # Absent /\ idsFinal # Absent /\ run # Absent
  BY <1>1 DEF Sealing, DigestsSound
<1>3. manifest' \in Manifest
  BY <1>1, <1>2, RunTyped DEF TypeOK, Manifest
<1>4. TypeOK'
  BY <1>1, <1>3 DEF TypeOK, Steps
<1>5. CheckpointSound' /\ FilesFit' /\ NothingFinal' /\ SealedStoreIsWhole'
  BY <1>1, <1>2 DEF CheckpointSound, FilesFit, NothingFinal, SealedStoreIsWhole
<1>6. DigestsSound' /\ Opening' /\ Building' /\ CheckpointsFollow' /\ Sealing'
  BY <1>1, <1>2
  DEF DigestsSound, Opening, Building, CheckpointsFollow, Sealing, Counts
<1> QED
  BY <1>4, <1>5, <1>6

\* The COMPLETE checkpoint, field by field.
LEMMA SealedCheckpoint ==
  ASSUME Seal
  PROVE  ckpt' = [id |-> run.id, completed |-> run.completed, ids |-> idsFinal,
                  idsSize |-> Len(idsFinal), vectors |-> run.vectors,
                  status |-> "COMPLETE"]
  BY DEF Seal, CheckpointOf

LEMMA SealKeeps ==
  ASSUME IInv, Seal
  PROVE  IInv' /\ ckpt' # Absent
<1>1. /\ pc = "seal" /\ Ends("COMPLETE")
      /\ UNCHANGED <<vecPartial, idsPartial, vecFinal, idsFinal, manifest>>
  BY DEF Seal
<1>2. /\ run # Absent /\ TypeOK /\ Len(run.vectors) = run.completed
      /\ \A r \in 1 .. run.completed : run.vectors[r].id = run.id
  BY <1>1 DEF IInv, RunFits, DigestsSound
<1>3. /\ run.completed = NRows
      /\ vecPartial = Absent /\ vecFinal # Absent /\ vecFinal = run.vectors
      /\ idsFinal # Absent /\ Counts(idsFinal, NRows)
      /\ manifest = [id |-> run.id, vectors |-> vecFinal, ids |-> idsFinal]
  BY <1>1 DEF IInv, RunFits, Sealing
<1>4. /\ ckpt' = [id |-> run.id, completed |-> NRows, ids |-> idsFinal,
                  idsSize |-> NRows, vectors |-> vecFinal, status |-> "COMPLETE"]
  BY <1>3, SealedCheckpoint DEF Counts
<1>5. idsFinal = [r \in Rows |-> r] /\ idsFinal \in Prefix(Rows)
  <2>1. idsFinal \in Seq(0 .. NRows)
    BY <1>2, <1>3, IdsFileIsPrefix, PrefixIsSeq DEF TypeOK
  <2>2. idsFinal = [r \in Rows |-> r]
    BY <1>3, <2>1, CountsEqual DEF Rows
  <2>3. idsFinal \in Seq(Rows) /\ Len(idsFinal) = NRows
    <3>1. idsFinal \in [1 .. NRows -> Rows]
      BY <2>2 DEF Rows
    <3> QED
      BY <1>3, <3>1, SeqDef DEF Counts
  <2> QED
    BY <2>2, <2>3, SeqIsPrefix
<1>6. ckpt' \in Checkpoint /\ ckpt' # Absent
  <2>1. vecFinal \in Prefix(Vector) /\ run.id \in Identities
    BY <1>2, <1>3, RunTyped DEF TypeOK, Run
  <2>2. ckpt' \in Checkpoint
    BY <1>4, <1>5, <2>1 DEF Checkpoint
  <2> QED
    BY <2>2, AbsentAssumption
<1>7. \A r \in Rows : vecFinal[r] # Absent /\ vecFinal[r].id = run.id
  <2>1. run.vectors \in Seq(Vector)
    BY <1>2, RunTyped
  <2>2. \A r \in Rows : vecFinal[r] \in Vector
    BY <1>2, <1>3, <2>1, LenProperties DEF Rows
  <2> QED
    BY <1>2, <1>3, <2>2, AbsentAssumption DEF Rows
<1>8. TypeOK'
  BY <1>1, <1>2, <1>6 DEF TypeOK, Ends, Steps, Outcomes
<1>9. CheckpointSound'
  BY <1>1, <1>2, <1>3, <1>4 DEF CheckpointSound, Counts
<1>10. FilesFit' /\ NothingFinal'
  BY <1>1, <1>3 DEF FilesFit, NothingFinal
<1>11. RunFits'
  BY <1>1 DEF Ends, RunFits, DigestsSound, Opening, Building, CheckpointsFollow, Sealing
<1>12. SealedStoreIsWhole'
  <2>1. /\ ckpt'.id = run.id /\ ckpt'.vectors = vecFinal /\ ckpt'.ids = idsFinal
    BY <1>4
  <2>2. manifest' = [id |-> ckpt'.id, vectors |-> vecFinal', ids |-> idsFinal']
    BY <1>1, <1>3, <2>1
  <2>3. manifest' # Absent
    <3>1. manifest \in Manifest
      BY <1>2, <1>3, RunTyped DEF TypeOK, Manifest
    <3> QED
      BY <1>1, <3>1, AbsentAssumption
  <2> QED
    BY <1>1, <1>3, <1>5, <1>7, <2>1, <2>2, <2>3 DEF SealedStoreIsWhole
<1> QED
  BY <1>6, <1>8, <1>9, <1>10, <1>11, <1>12 DEF IInv

------------------------------------------------------------------------------
(* Faults *)

LEMMA RaiseKeeps ==
  ASSUME IInv, Raise
  PROVE  IInv'
<1>1. /\ Ends("raised") /\ "raised" \in Outcomes
      /\ UNCHANGED <<vecPartial, vecFinal, idsFinal, manifest, ckpt>>
  BY DEF Raise, Outcomes
<1>2. CASE pc \in {"loop", "batched", "flushed", "progress"}
  BY <1>1, <1>2, CloseKeeps DEF Raise
<1>3. CASE pc \notin {"loop", "batched", "flushed", "progress"}
  BY <1>1, <1>3, RefusalKeeps DEF Raise, disk
<1> QED
  BY <1>2, <1>3

\* Whatever part of the buffer a kill lets through, torn or not.
LEMMA KilledIds ==
  ASSUME IInv, pc # "idle", idsPartial # Absent,
         NEW n \in 0 .. Len(run.buffer),
         NEW torn \in IF n < Len(run.buffer) THEN BOOLEAN ELSE {FALSE},
         KillLoses(n, torn)
  PROVE  /\ idsPartial' \in IdsFile /\ idsPartial' # Absent
         /\ Len(idsPartial') >= Len(idsPartial)
         /\ \A r \in 1 .. Len(idsPartial) : idsPartial'[r] = idsPartial[r]
<1> DEFINE lines == SubSeq(run.buffer, 1, n)
           tail == IF torn THEN <<TornLine>> ELSE <<>>
<1>1. /\ TypeOK /\ run # Absent
  BY DEF IInv, RunFits, DigestsSound
<1>2. /\ run.buffer \in Seq(0 .. NRows) /\ Len(run.buffer) \in Nat
      /\ idsPartial \in Seq(0 .. NRows) /\ Len(idsPartial) \in Nat
  BY <1>1, BufferTyped, RunTyped, IdsTyped
<1>3. lines \in Seq(0 .. NRows) /\ Len(lines) = n
  <2>1. n \in Nat /\ n <= Len(run.buffer)
    BY <1>2
  <2>2. \A r \in 1 .. n : run.buffer[r] \in 0 .. NRows
    BY <1>2, <2>1, ElementOfSeq
  <2> QED
    BY <1>2, <2>1, <2>2, SubSeqProperties
<1>4. /\ tail \in Seq(0 .. NRows) /\ n + Len(tail) <= Len(run.buffer)
      /\ Len(tail) \in Nat
  <2>1. CASE torn
    <3>1. n < Len(run.buffer)
      BY <2>1
    <3>2. tail = <<TornLine>> /\ TornLine \in 0 .. NRows
      BY <2>1 DEF TornLine
    <3>3. <<TornLine>> \in Seq(0 .. NRows) /\ Len(<<TornLine>>) = 1
      BY <3>2
    <3> HIDE DEF tail
    <3> QED
      BY <1>2, <3>1, <3>2, <3>3
  <2>2. CASE ~torn
    <3>1. tail = <<>> /\ <<>> \in Seq(0 .. NRows) /\ Len(<<>>) = 0
      BY <2>2, EmptySeq
    <3> HIDE DEF tail
    <3> QED
      BY <1>2, <3>1
  <2> QED
    BY <2>1, <2>2
<1>5. idsPartial' = (idsPartial \o lines) \o tail
  BY DEF KillLoses
<1> HIDE DEF lines, tail
<1>6. /\ idsPartial \o lines \in Seq(0 .. NRows)
      /\ Len(idsPartial \o lines) = Len(idsPartial) + n
      /\ \A r \in 1 .. Len(idsPartial) : (idsPartial \o lines)[r] = idsPartial[r]
  <2>1. /\ idsPartial \o lines \in Seq(0 .. NRows)
        /\ Len(idsPartial \o lines) = Len(idsPartial) + Len(lines)
        /\ \A r \in 1 .. Len(idsPartial) : (idsPartial \o lines)[r] = idsPartial[r]
    <3>1. idsPartial \in Seq(0 .. NRows) /\ lines \in Seq(0 .. NRows)
      BY <1>2, <1>3
    <3> QED
      BY ONLY <3>1, AppendedKeeps, Zenon
  <2> QED
    BY <1>3, <2>1
<1>7. /\ idsPartial' \in Seq(0 .. NRows)
      /\ Len(idsPartial') = Len(idsPartial) + n + Len(tail)
      /\ \A r \in 1 .. Len(idsPartial) + n : idsPartial'[r] = (idsPartial \o lines)[r]
  <2>1. /\ (idsPartial \o lines) \o tail \in Seq(0 .. NRows)
        /\ Len((idsPartial \o lines) \o tail) = Len(idsPartial \o lines) + Len(tail)
        /\ \A r \in 1 .. Len(idsPartial \o lines) :
              ((idsPartial \o lines) \o tail)[r] = (idsPartial \o lines)[r]
    <3>1. idsPartial \o lines \in Seq(0 .. NRows) /\ tail \in Seq(0 .. NRows)
      BY <1>4, <1>6
    <3> QED
      BY ONLY <3>1, AppendedKeeps, Zenon
  <2> QED
    BY <1>5, <1>6, <2>1
<1>8. Len(idsPartial') <= NRows /\ Len(idsPartial') >= Len(idsPartial)
  BY <1>2, <1>4, <1>7, BufferFits
<1>9. idsPartial' \in IdsFile
  BY <1>7, <1>8, SeqIsPrefix, IdsFileIsPrefix
<1>10. \A r \in 1 .. Len(idsPartial) : r \in 1 .. Len(idsPartial) + n
  BY <1>2
<1> QED
  BY <1>6, <1>7, <1>8, <1>9, <1>10, AbsentAssumption

LEMMA KillKeeps ==
  ASSUME IInv, Kill
  PROVE  IInv'
<1>1. /\ pc # "idle" /\ Ends("killed") /\ "killed" \in Outcomes
      /\ UNCHANGED <<vecFinal, idsFinal, manifest, ckpt>>
  BY DEF Kill, Outcomes
<1>2. TypeOK /\ run # Absent /\ FilesFit
  BY <1>1 DEF IInv, RunFits, DigestsSound
<1>3. PICK n \in 0 .. Len(run.buffer) :
         \E torn \in IF n < Len(run.buffer) THEN BOOLEAN ELSE {FALSE} :
            KillLoses(n, torn)
  BY Zenon DEF Kill
<1> PICK torn \in IF n < Len(run.buffer) THEN BOOLEAN ELSE {FALSE} :
       KillLoses(n, torn)
  BY <1>3, Zenon
<1>4. /\ idsPartial = Absent => idsPartial' = Absent
      /\ idsPartial # Absent =>
            /\ idsPartial' \in IdsFile /\ idsPartial' # Absent
            /\ Len(idsPartial') >= Len(idsPartial)
            /\ \A r \in 1 .. Len(idsPartial) : idsPartial'[r] = idsPartial[r]
  <2>1. CASE idsPartial = Absent
    BY <1>3, <2>1 DEF KillLoses
  <2>2. CASE idsPartial # Absent
    BY <1>1, <1>3, <2>2, KilledIds
  <2> QED
    BY <2>1, <2>2
<1>5. /\ vecPartial' = Absent <=> vecPartial = Absent
      /\ vecPartial' = Absent \/ vecPartial' \in VecFile
      /\ ckpt # Absent /\ vecPartial # Absent =>
            \A r \in 1 .. ckpt.completed : vecPartial'[r] = vecPartial[r]
  <2>1. CASE UNCHANGED vecPartial
    BY <1>2, <2>1 DEF TypeOK
  <2>2. CASE /\ pc = "loop" /\ run.completed < NRows
             /\ \E last \in BatchRows, v \in Variants :
                   vecPartial' = Written(run.completed + 1 .. last, v)
    <3>1. PICK last \in BatchRows, v \in Variants :
             vecPartial' = Written(run.completed + 1 .. last, v)
      BY <2>2
    <3>2. /\ vecPartial # Absent /\ ckpt # Absent
          /\ ckpt.completed <= run.completed
      BY <2>2 DEF IInv, RunFits, Building
    <3>3. /\ run.completed \in 0 .. NRows /\ ckpt.completed \in 0 .. NRows
          /\ Stop \in run.completed + 1 .. NRows
      BY <1>2, <2>2, <3>2, RunTyped, CheckpointTyped, StopBounds
    <3> DEFINE rows == run.completed + 1 .. last
    <3>4. rows \in SUBSET Rows
      BY <3>1, <3>3 DEF BatchRows, Rows
    <3>5. \A r \in 1 .. ckpt.completed : r \in Rows \ rows
      BY <3>1, <3>2, <3>3 DEF BatchRows, Rows
    <3>6. vecPartial' = Written(rows, v)
      BY <3>1
    <3> HIDE DEF rows
    <3>7. /\ Written(rows, v) \in VecFile /\ Written(rows, v) # Absent
          /\ \A r \in Rows \ rows : Written(rows, v)[r] = vecPartial[r]
      BY <1>2, <3>2, <3>4, WrittenRows
    <3> QED
      BY <3>2, <3>5, <3>6, <3>7
  <2> QED
    BY <2>1, <2>2 DEF Kill
<1>6. ckpt # Absent /\ vecPartial # Absent /\ ckpt.status = "INCOMPLETE" =>
         /\ idsPartial' # Absent /\ Len(idsPartial') >= ckpt.completed
         /\ \A r \in 1 .. ckpt.completed : idsPartial'[r] = idsPartial[r]
  <2>1. SUFFICES ASSUME ckpt # Absent, vecPartial # Absent,
                        ckpt.status = "INCOMPLETE"
                 PROVE  /\ idsPartial' # Absent /\ Len(idsPartial') >= ckpt.completed
                        /\ \A r \in 1 .. ckpt.completed : idsPartial'[r] = idsPartial[r]
    OBVIOUS
  <2>2. /\ idsPartial # Absent /\ ckpt.completed <= Len(idsPartial)
        /\ ckpt.completed \in Nat /\ Len(idsPartial) \in Nat
    BY <1>2, <2>1, IdsTyped, CheckpointTyped DEF FilesFit
  <2>3. Len(idsPartial') \in Nat
    BY <1>4, <2>2, IdsFileIsPrefix, PrefixIsSeq, LenProperties
  <2> QED
    BY <1>4, <2>2, <2>3
<1> QED
  BY <1>1, <1>2, <1>4, <1>5, <1>6, EndKeeps DEF TypeOK

LEMMA NextPreserves == IInv /\ [Next]_vars => IInv'
<1> SUFFICES ASSUME IInv, [Next]_vars PROVE IInv'
  OBVIOUS
<1>1. CASE UNCHANGED vars
  BY <1>1 DEF vars, disk, IInv, TypeOK, CheckpointSound, FilesFit, NothingFinal,
     RunFits, DigestsSound, Opening, Building, CheckpointsFollow, CheckpointDue,
     Stopping, Sealing, SealedStoreIsWhole, Counts
<1>2. ASSUME NEW i \in Identities, NEW b \in BatchSizes, NEW k \in Intervals,
             NEW m \in Budgets, Invoke(i, b, k, m)
      PROVE  IInv'
  BY <1>2, InvokeKeeps
<1>3. CASE Work
  BY <1>3, CreateIdsKeeps, BindKeeps, BatchKeeps, FlushKeeps, WriteCheckpointKeeps,
     SkipCheckpointKeeps, ProgressKeeps, RenameVectorsKeeps, RenameIdsKeeps,
     WriteManifestKeeps, SealKeeps DEF Work
<1>4. CASE Fault
  BY <1>4, RaiseKeeps, KillKeeps DEF Fault
<1> QED
  BY <1>1, <1>2, <1>3, <1>4 DEF Next

\* The invariant holds at first and is kept by every step.
THEOREM Invariance == Spec => []IInv
  BY InitEstablishes, NextPreserves, PTL DEF Spec

------------------------------------------------------------------------------
(* What follows *)

\* Every file, checkpoint and running invocation has its shape; in particular
\* no ids file ever outgrows the rows, whatever a kill tears.
THEOREM TypeCorrect == Spec => []TypeOK
<1>1. IInv => TypeOK
  BY DEF IInv
<1> QED
  BY Invariance, <1>1, PTL

\* The lines a checkpoint counts are the ids it recorded.
LEMMA FilesLoad == IInv => CheckpointLoads
<1> SUFFICES ASSUME IInv, ckpt # Absent, ckpt.status = "INCOMPLETE", vecPartial # Absent
             PROVE  IdsLongEnough /\ PrefixesMatch
  BY DEF CheckpointLoads
<1>1. /\ TypeOK /\ idsPartial # Absent /\ ckpt.completed <= Len(idsPartial)
      /\ \A r \in 1 .. ckpt.completed :
            idsPartial[r] = r /\ vecPartial[r] = ckpt.vectors[r]
      /\ Counts(ckpt.ids, ckpt.completed) /\ ckpt.idsSize = ckpt.completed
      /\ Len(ckpt.vectors) = ckpt.completed
  BY DEF IInv, FilesFit, CheckpointSound
<1>2. /\ idsPartial \in Seq(0 .. NRows) /\ ckpt.completed \in Nat
      /\ ckpt.completed \in 0 .. NRows /\ Len(idsPartial) \in Nat
      /\ ckpt.ids \in Seq(Rows) /\ ckpt.vectors \in Seq(Vector)
  BY <1>1, IdsTyped, CheckpointTyped
<1>3. IdsLongEnough
  BY <1>1, <1>2 DEF IdsLongEnough
<1>4. ckpt.ids = [r \in 1 .. ckpt.completed |-> r]
  BY <1>1, <1>2, CountsEqual
<1>5. IdsPrefix = [r \in 1 .. ckpt.completed |-> r]
  <2>1. \A r \in 1 .. ckpt.completed : idsPartial[r] \in 0 .. NRows
    BY <1>1, <1>2
  <2>2. /\ IdsPrefix \in Seq(0 .. NRows) /\ Len(IdsPrefix) = ckpt.completed
        /\ \A r \in 1 .. ckpt.completed : IdsPrefix[r] = idsPartial[r]
    BY <1>1, <1>2, <2>1, SubSeqProperties DEF IdsPrefix
  <2>3. Counts(IdsPrefix, ckpt.completed)
    BY <1>1, <2>2 DEF Counts
  <2> QED
    BY <1>2, <2>2, <2>3, CountsEqual
<1>6. [r \in 1 .. ckpt.completed |-> vecPartial[r]] = ckpt.vectors
  <2>1. ckpt.vectors \in [1 .. ckpt.completed -> Vector]
    BY <1>1, <1>2, LenProperties
  <2> QED
    BY <1>1, <2>1
<1> QED
  BY <1>3, <1>4, <1>5, <1>6 DEF PrefixesMatch

\* Whatever stopped, raised or killed the earlier invocations, the files left
\* agree with their checkpoint: _load_checkpoint finds no drift.
THEOREM CheckpointsLoad == Spec => []CheckpointLoads
  BY Invariance, FilesLoad, PTL

\* A sealed store is whole, in order, of one identity, its checksums agreeing.
THEOREM SealedIsWhole == Spec => []SealedStoreIsWhole
<1>1. IInv => SealedStoreIsWhole
  BY DEF IInv
<1> QED
  BY Invariance, <1>1, PTL

\* Between two batches fewer rows than the interval are without a checkpoint,
\* for any batch size and any interval, divisible or not.
THEOREM LostWork == Spec => []LostWorkIsBounded
<1>1. IInv => LostWorkIsBounded
  <2> SUFFICES ASSUME IInv, pc = "loop"
               PROVE  run.completed - ckpt.completed < run.interval
    BY DEF LostWorkIsBounded
  <2>1. /\ TypeOK /\ run # Absent /\ ckpt # Absent
        /\ run.completed - ckpt.completed <= run.completed % run.interval
    BY DEF IInv, RunFits, DigestsSound, Building, CheckpointsFollow
  <2>2. /\ run.completed \in Nat /\ ckpt.completed \in Nat
        /\ run.interval \in Nat \ {0}
    BY <2>1, RunTyped, CheckpointTyped
  <2>3. run.completed % run.interval \in 0 .. run.interval - 1
    BY <2>2
  <2>4. run.completed - ckpt.completed \in Int /\ run.completed % run.interval \in Int
    BY <2>2, <2>3
  <2> QED
    BY <2>1, <2>2, <2>3, <2>4
<1> QED
  BY Invariance, <1>1, PTL

(* The refinement: Bind claims the store, WriteCheckpoint advances it, Seal  *)
(* seals it; every other step leaves the checkpoint alone.                   *)

LEMMA InitRefines == Init => Abstract!Init
  BY DEF Init, Abstract!Init

LEMMA StepRefines == IInv /\ [Next]_vars => [Abstract!Next]_(Abstract!vars)
<1> SUFFICES ASSUME IInv, [Next]_vars
             PROVE  [Abstract!Next]_(Abstract!vars)
  OBVIOUS
<1>1. TypeOK
  BY DEF IInv
<1>2. CASE UNCHANGED ckpt
  BY <1>2 DEF Abstract!vars
<1>3. CASE Bind
  <2>1. ckpt = Absent /\ run.completed = 0 /\ pc = "bind" /\ DigestsSound
    BY <1>3 DEF Bind, IInv, RunFits, Opening
  <2>2. /\ ckpt' # Absent /\ ckpt'.id = run.id /\ ckpt'.completed = 0
        /\ ckpt'.status = "INCOMPLETE"
    BY <1>1, <1>3, <2>1, CheckpointOfRun DEF Bind
  <2>3. run.id \in Identities
    BY <1>1, <2>1, RunTyped DEF DigestsSound
  <2>4. Abstract!Claim(run.id)
    BY <2>1, <2>2 DEF Abstract!Claim
  <2> QED
    BY <2>3, <2>4 DEF Abstract!Next
<1>4. CASE WriteCheckpoint
  <2>1. /\ pc = "flushed" /\ DigestsSound /\ ckpt # Absent
        /\ ckpt.status = "INCOMPLETE" /\ ckpt.id = run.id
        /\ ckpt.completed <= run.completed
    BY <1>4 DEF WriteCheckpoint, IInv, RunFits, Building
  <2>2. /\ ckpt' # Absent /\ ckpt'.id = run.id /\ ckpt'.completed = run.completed
        /\ ckpt'.status = "INCOMPLETE"
    BY <1>1, <1>4, <2>1, CheckpointOfRun DEF WriteCheckpoint
  <2>3. ckpt.completed \in 0 .. NRows /\ run.completed \in 0 .. NRows
    BY <1>1, <2>1, CheckpointTyped, RunTyped DEF DigestsSound
  <2>4. CASE ckpt.completed = run.completed
    BY <2>1, <2>2, <2>4 DEF Abstract!vars
  <2>5. CASE ckpt.completed # run.completed
    <3>1. ckpt.completed < run.completed /\ run.completed \in 1 .. NRows
      BY <2>1, <2>3, <2>5
    <3>2. Abstract!Advance(run.completed)
      <4>1. run.completed > ckpt.completed
        BY <2>3, <3>1
      <4> QED
        BY <1>1, <2>1, <2>2, <4>1, CheckpointTyped, AbsentAssumption
        DEF Abstract!Advance
    <3> QED
      BY <3>1, <3>2 DEF Abstract!Next
  <2> QED
    BY <2>4, <2>5
<1>5. CASE Seal
  <2>1. /\ pc = "seal" /\ ckpt # Absent /\ ckpt.status = "INCOMPLETE"
        /\ ckpt.id = run.id /\ ckpt.completed = NRows /\ run.completed = NRows
    BY <1>5 DEF Seal, IInv, RunFits, Sealing
  <2>2. /\ ckpt'.id = run.id /\ ckpt'.completed = NRows /\ ckpt'.status = "COMPLETE"
    BY <1>5, <2>1, SealedCheckpoint
  <2>3. ckpt' # Absent
    BY <1>5, SealKeeps
  <2>4. Abstract!Seal
    BY <1>1, <2>1, <2>2, <2>3, CheckpointTyped, AbsentAssumption DEF Abstract!Seal
  <2> QED
    BY <2>4 DEF Abstract!Next
<1> QED
  BY <1>2, <1>3, <1>4, <1>5
  DEF Next, Invoke, Work, Fault, OpenFresh, RefuseUnbound, RefuseForeign,
      ReturnComplete, RefuseNoPartial, Resume, CreateIds, Batch, Flush,
      SkipCheckpoint, Progress, RenameVectors, RenameIds, WriteManifest, Raise,
      Kill, vars, disk

\* Built by any sequence of interrupted invocations, the store is claimed once,
\* never loses progress a checkpoint recorded, and is sealed last.
THEOREM Refinement == Spec => ImplementsResumableBuild
<1> QED
  BY Invariance, InitRefines, StepRefines, PTL
  DEF Spec, ImplementsResumableBuild, Abstract!Spec
==============================================================================
