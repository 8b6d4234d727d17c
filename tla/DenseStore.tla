----------------------------- MODULE DenseStore -----------------------------
(***************************************************************************)
(* src/src/legal_rag/retrieval/resumable_dense_store.py: the dense index   *)
(* of one output directory, built by one invocation after the other of     *)
(* build_resumable_dense_store.  An invocation may stop at its batch       *)
(* budget, raise, or be killed between any two writes; the next one, with  *)
(* the same identity or another, finds what is left on the disk.           *)
(*                                                                         *)
(* A checksum is modelled by the content it is taken over.  A vector is    *)
(* modelled by who encoded it and which of the possible outputs it is:     *)
(* encoding a row again may give other bits, and the text it is encoded    *)
(* from is read by its offset, long after the checksum of the chunks was   *)
(* compared, and held to the identifier of the row alone.  What a vector   *)
(* says of the text is therefore outside of this module.                   *)
(***************************************************************************)
EXTENDS Naturals, Sequences

CONSTANTS
    Identities,     \* DenseBuildIdentity values that share the directory
    NRows,          \* len(rows)
    Variants,       \* outputs for one row: of the encoder, and for whatever text
                    \* stands at the row's offset under its identifier
    BatchSizes,     \* batch_size arguments
    Intervals,      \* checkpoint_interval_rows arguments
    Budgets,        \* maximum_batches arguments; more than NRows stands for None
    Absent          \* a file that does not exist, a row not written, no process

ASSUME NRowsAssumption == NRows \in Nat \ {0}
ASSUME ArgumentsAssumption ==
    /\ BatchSizes \subseteq Nat \ {0}
    /\ Intervals \subseteq Nat \ {0}
    /\ Budgets \subseteq Nat \ {0}

VARIABLES
    vecPartial,     \* vectors.f16.npy.partial: one entry per row
    idsPartial,     \* chunk-ids.jsonl.partial: its lines
    vecFinal,       \* vectors.f16.npy
    idsFinal,       \* chunk-ids.jsonl
    manifest,       \* manifest.json
    ckpt,           \* checkpoint.json
    run,            \* the local state of the running invocation
    pc,             \* its next step
    outcome         \* how the last invocation ended

disk == <<vecPartial, idsPartial, vecFinal, idsFinal, manifest, ckpt>>
vars == <<disk, run, pc, outcome>>

Rows == 1 .. NRows
TornLine == 0       \* a line of the ids file cut by a kill
Vector == [id : Identities, variant : Variants]
VecFile == [Rows -> Vector \union {Absent}]
IdsFile == UNION {[1 .. n -> 0 .. NRows] : n \in 0 .. NRows}
Prefix(S) == UNION {[1 .. n -> S] : n \in 0 .. NRows}

Checkpoint == [id : Identities, completed : 0 .. NRows, ids : Prefix(Rows),
               idsSize : 0 .. NRows, vectors : Prefix(Vector),
               status : {"INCOMPLETE", "COMPLETE"}]
Manifest == [id : Identities, vectors : VecFile, ids : IdsFile]
Run == [id : Identities, batch : BatchSizes, interval : Intervals,
        budget : Nat, completed : 0 .. NRows, buffer : Prefix(Rows),
        ids : Prefix(Rows), vectors : Prefix(Vector)]
Steps == {"idle", "memmap", "bind", "loop", "batched", "flushed", "progress",
          "rename_ids", "manifest", "seal"}
Outcomes == {"none", "INCOMPLETE", "COMPLETE", "raised", "killed",
             "DENSE_CHECKPOINT_INVALID", "DENSE_CHECKPOINT_FINGERPRINT_MISMATCH",
             "DENSE_INDEX_CHECKSUM_MISMATCH"}

\* "Absent" is neither an identity nor the content of a file nor a process.
ASSUME AbsentAssumption ==
    /\ Absent \notin Identities
    /\ Absent \notin Vector
    /\ Absent \notin VecFile
    /\ Absent \notin IdsFile
    /\ Absent \notin Manifest
    /\ Absent \notin Checkpoint
    /\ Absent \notin Run

TypeOK ==
    /\ vecPartial = Absent \/ vecPartial \in VecFile
    /\ vecFinal = Absent \/ vecFinal \in VecFile
    /\ idsPartial = Absent \/ idsPartial \in IdsFile
    /\ idsFinal = Absent \/ idsFinal \in IdsFile
    /\ manifest = Absent \/ manifest \in Manifest
    /\ ckpt = Absent \/ ckpt \in Checkpoint
    /\ run = Absent \/ run \in Run
    /\ pc \in Steps
    /\ outcome \in Outcomes

Init ==
    /\ vecPartial = Absent /\ idsPartial = Absent
    /\ vecFinal = Absent /\ idsFinal = Absent
    /\ manifest = Absent /\ ckpt = Absent
    /\ run = Absent
    /\ pc = "idle"
    /\ outcome = "none"

Ends(how) ==
    /\ pc' = "idle"
    /\ run' = Absent
    /\ outcome' = how

------------------------------------------------------------------------------
(* Opening the store *)

NewRun(i, b, k, m, completed, ids, vectors) ==
    [id |-> i, batch |-> b, interval |-> k, budget |-> m,
     completed |-> completed, buffer |-> <<>>, ids |-> ids, vectors |-> vectors]

UnboundFiles ==
    \E file \in {vecPartial, idsPartial, vecFinal, idsFinal, manifest} :
        file # Absent

\* open_memmap creates the vector file, all rows unwritten.
OpenFresh(i, b, k, m) ==
    /\ pc = "idle" /\ ckpt = Absent /\ ~UnboundFiles
    /\ vecPartial' = [r \in Rows |-> Absent]
    /\ run' = NewRun(i, b, k, m, 0, <<>>, <<>>)
    /\ pc' = "memmap"
    /\ UNCHANGED <<idsPartial, vecFinal, idsFinal, manifest, ckpt, outcome>>

RefuseUnbound ==
    /\ pc = "idle" /\ ckpt = Absent /\ UnboundFiles
    /\ Ends("DENSE_CHECKPOINT_INVALID")
    /\ UNCHANGED disk

\* A faulty variant: the identity of the checkpoint is not compared.
AnyoneOwns(i) == i \in Identities

Owns(i) == ckpt.id = i

RefuseForeign(i) ==
    /\ pc = "idle" /\ ckpt # Absent /\ ~Owns(i)
    /\ Ends("DENSE_CHECKPOINT_FINGERPRINT_MISMATCH")
    /\ UNCHANGED disk

\* _complete_result
ReturnComplete(i) ==
    /\ pc = "idle" /\ ckpt # Absent /\ Owns(i) /\ ckpt.status = "COMPLETE"
    /\ LET bound == /\ manifest # Absent /\ vecFinal # Absent /\ idsFinal # Absent
                    /\ manifest.id = i /\ ckpt.completed = NRows
       IN Ends(IF ~bound THEN "DENSE_CHECKPOINT_INVALID"
               ELSE IF manifest.vectors = vecFinal /\ manifest.ids = idsFinal
                    THEN "COMPLETE" ELSE "DENSE_INDEX_CHECKSUM_MISMATCH")
    /\ UNCHANGED disk

RefuseNoPartial(i) ==
    /\ pc = "idle" /\ ckpt # Absent /\ Owns(i) /\ ckpt.status = "INCOMPLETE"
    /\ vecPartial = Absent
    /\ Ends("DENSE_CHECKPOINT_INVALID")
    /\ UNCHANGED disk

\* What _load_checkpoint demands of the partial files; the ids file must be
\* long enough before it is truncated.
IdsLongEnough == idsPartial # Absent /\ Len(idsPartial) >= ckpt.idsSize
IdsPrefix == SubSeq(idsPartial, 1, ckpt.idsSize)
PrefixesMatch ==
    /\ IdsPrefix = ckpt.ids
    /\ ckpt.ids = [r \in 1 .. ckpt.completed |-> r]
    /\ [r \in 1 .. ckpt.completed |-> vecPartial[r]] = ckpt.vectors

\* Faulty variant: the first line behind the checkpointed ones is left in the file.
LineKept(prefix) ==
    IF Len(idsPartial) > Len(prefix) THEN SubSeq(idsPartial, 1, Len(prefix) + 1)
    ELSE prefix

\* ids_stream.truncate(prefix_bytes)
Truncated(prefix) == prefix

Resume(i, b, k, m) ==
    /\ pc = "idle" /\ ckpt # Absent /\ Owns(i) /\ ckpt.status = "INCOMPLETE"
    /\ vecPartial # Absent
    /\ idsPartial' = IF IdsLongEnough THEN Truncated(IdsPrefix) ELSE idsPartial
    /\ IF IdsLongEnough /\ PrefixesMatch
       THEN /\ run' = NewRun(i, b, k, m, ckpt.completed, ckpt.ids, ckpt.vectors)
            /\ pc' = "loop"
            /\ UNCHANGED outcome
       ELSE Ends("DENSE_CHECKPOINT_INVALID")
    /\ UNCHANGED <<vecPartial, vecFinal, idsFinal, manifest, ckpt>>

\* ids_partial.write_bytes(b"")
CreateIds ==
    /\ pc = "memmap"
    /\ idsPartial' = <<>>
    /\ pc' = "bind"
    /\ UNCHANGED <<vecPartial, vecFinal, idsFinal, manifest, ckpt, run, outcome>>

CheckpointOf(r, status) ==
    [id |-> r.id, completed |-> r.completed, ids |-> r.ids,
     idsSize |-> Len(r.ids), vectors |-> r.vectors, status |-> status]

Bind ==
    /\ pc = "bind"
    /\ ckpt' = CheckpointOf(run, "INCOMPLETE")
    /\ pc' = "loop"
    /\ UNCHANGED <<vecPartial, idsPartial, vecFinal, idsFinal, manifest, run, outcome>>

------------------------------------------------------------------------------
(* Building *)

Stop ==
    IF run.completed + run.batch < NRows THEN run.completed + run.batch ELSE NRows

BatchRows == run.completed + 1 .. Stop

Written(rows, v) ==
    [r \in DOMAIN vecPartial |->
        IF r \in rows THEN [id |-> run.id, variant |-> v] ELSE vecPartial[r]]

BatchLines == [n \in 1 .. Stop - run.completed |-> run.completed + n]
BatchVectors(v) ==
    [n \in 1 .. Stop - run.completed |-> [id |-> run.id, variant |-> v]]

\* One pass of the loop body up to the checkpoint: the texts are read again, the
\* vectors go to the memory map, the id lines to the stream's buffer, both to running
\* digests.  A text under another identifier, or none, is a Raise.
Batch ==
    /\ pc = "loop" /\ run.completed < NRows
    /\ \E v \in Variants :
          /\ vecPartial' = Written(BatchRows, v)
          /\ run' = [run EXCEPT
                !.completed = Stop,
                !.budget = @ - 1,
                !.buffer = @ \o BatchLines,
                !.ids = @ \o BatchLines,
                !.vectors = @ \o BatchVectors(v)]
    /\ pc' = "batched"
    /\ UNCHANGED <<idsPartial, vecFinal, idsFinal, manifest, ckpt, outcome>>

Stopping == run.budget = 0

\* Faulty variants: only exact multiples of the interval count; stopping does
\* not force a checkpoint.
DueAtMultiples ==
    \/ run.completed = NRows
    \/ Stopping
    \/ run.completed % run.interval = 0

DueUnlessStopping ==
    \/ run.completed = NRows
    \/ run.completed % run.interval < run.batch

CheckpointDue ==
    \/ run.completed = NRows
    \/ Stopping
    \/ run.completed % run.interval < run.batch

\* Faulty variant: the stream is not flushed before the checkpoint.
FlushVectorsOnly ==
    /\ pc = "batched" /\ CheckpointDue
    /\ pc' = "flushed"
    /\ UNCHANGED <<disk, run, outcome>>

\* matrix.flush, ids_stream.flush and fsync
Flush ==
    /\ pc = "batched" /\ CheckpointDue
    /\ idsPartial' = idsPartial \o run.buffer
    /\ run' = [run EXCEPT !.buffer = <<>>]
    /\ pc' = "flushed"
    /\ UNCHANGED <<vecPartial, vecFinal, idsFinal, manifest, ckpt, outcome>>

\* _write_checkpoint: a temporary file, then os.replace
WriteCheckpoint ==
    /\ pc = "flushed"
    /\ ckpt' = CheckpointOf(run, "INCOMPLETE")
    /\ pc' = "progress"
    /\ UNCHANGED <<vecPartial, idsPartial, vecFinal, idsFinal, manifest, run, outcome>>

SkipCheckpoint ==
    /\ pc = "batched" /\ ~CheckpointDue
    /\ pc' = "progress"
    /\ UNCHANGED <<disk, run, outcome>>

\* Leaving the with block closes the ids stream, which flushes it.
CloseIds ==
    idsPartial' = IF idsPartial = Absent THEN Absent ELSE idsPartial \o run.buffer

\* progress(...), then the next batch or the return at the batch budget
Progress ==
    /\ pc = "progress"
    /\ \/ /\ Stopping
          /\ CloseIds
          /\ Ends("INCOMPLETE")
       \/ /\ ~Stopping
          /\ pc' = "loop"
          /\ UNCHANGED <<idsPartial, run, outcome>>
    /\ UNCHANGED <<vecPartial, vecFinal, idsFinal, manifest, ckpt>>

------------------------------------------------------------------------------
(* Sealing *)

RenameVectors ==
    /\ pc = "loop" /\ run.completed = NRows
    /\ vecFinal' = vecPartial
    /\ vecPartial' = Absent
    /\ CloseIds
    /\ pc' = "rename_ids"
    /\ UNCHANGED <<idsFinal, manifest, ckpt, run, outcome>>

RenameIds ==
    /\ pc = "rename_ids"
    /\ idsFinal' = idsPartial
    /\ idsPartial' = Absent
    /\ pc' = "manifest"
    /\ UNCHANGED <<vecPartial, vecFinal, manifest, ckpt, run, outcome>>

\* Checksums of the final files, then write_immutable_bytes (ImmutableArtifact).
WriteManifest ==
    /\ pc = "manifest"
    /\ manifest' = [id |-> run.id, vectors |-> vecFinal, ids |-> idsFinal]
    /\ manifest \in {Absent, manifest'}
    /\ pc' = "seal"
    /\ UNCHANGED <<vecPartial, idsPartial, vecFinal, idsFinal, ckpt, run, outcome>>

\* The COMPLETE checkpoint: the ids as they are on the disk, the vectors by
\* their running digest.
Seal ==
    /\ pc = "seal"
    /\ ckpt' = [CheckpointOf(run, "COMPLETE") EXCEPT
                    !.ids = idsFinal, !.idsSize = Len(idsFinal)]
    /\ Ends("COMPLETE")
    /\ UNCHANGED <<vecPartial, idsPartial, vecFinal, idsFinal, manifest>>

------------------------------------------------------------------------------
(* Faults *)

\* An exception: drifted source text, a backend that fails or returns invalid
\* vectors, a failing write, a raising progress callback.  The with block
\* still closes the ids stream.
Raise ==
    /\ pc # "idle"
    /\ IF pc \in {"loop", "batched", "flushed", "progress"}
       THEN CloseIds ELSE UNCHANGED idsPartial
    /\ Ends("raised")
    /\ UNCHANGED <<vecPartial, vecFinal, idsFinal, manifest, ckpt>>

\* The process is killed.  What went to the memory map stays, also a first
\* part of the batch being written; of the buffered lines any prefix, cut
\* inside a line or not, has reached the file.
KillLoses(n, torn) ==
    idsPartial' = IF idsPartial = Absent THEN Absent
                  ELSE idsPartial \o SubSeq(run.buffer, 1, n)
                                  \o (IF torn THEN <<TornLine>> ELSE <<>>)

Kill ==
    /\ pc # "idle"
    /\ \E n \in 0 .. Len(run.buffer) :
          \E torn \in IF n < Len(run.buffer) THEN BOOLEAN ELSE {FALSE} :
              KillLoses(n, torn)
    /\ \/ UNCHANGED vecPartial
       \/ /\ pc = "loop" /\ run.completed < NRows
          /\ \E last \in BatchRows, v \in Variants :
                vecPartial' = Written(run.completed + 1 .. last, v)
    /\ Ends("killed")
    /\ UNCHANGED <<vecFinal, idsFinal, manifest, ckpt>>

------------------------------------------------------------------------------
(* The specification *)

Invoke(i, b, k, m) ==
    \/ OpenFresh(i, b, k, m)
    \/ RefuseUnbound
    \/ RefuseForeign(i)
    \/ ReturnComplete(i)
    \/ RefuseNoPartial(i)
    \/ Resume(i, b, k, m)

Work ==
    \/ CreateIds \/ Bind
    \/ Batch \/ Flush \/ WriteCheckpoint \/ SkipCheckpoint \/ Progress
    \/ RenameVectors \/ RenameIds \/ WriteManifest \/ Seal

Fault == Raise \/ Kill

Next ==
    \/ \E i \in Identities, b \in BatchSizes, k \in Intervals, m \in Budgets :
           Invoke(i, b, k, m)
    \/ Work
    \/ Fault

\* The store's owner (anyone, while it has none) tries again.
OwnerInvokes ==
    \E i \in Identities, b \in BatchSizes, k \in Intervals, m \in Budgets :
        /\ ckpt # Absent => Owns(i)
        /\ Invoke(i, b, k, m)

\* A running invocation goes on, and its operator starts the next one.
Fairness == WF_vars(Work) /\ WF_vars(OwnerInvokes)

Spec == Init /\ [][Next]_vars
FairSpec == Spec /\ Fairness

------------------------------------------------------------------------------
(* Properties *)

\* Wherever an invocation stopped, raised or was killed, what it left behind
\* agrees with its checkpoint as long as the partial files are in place:
\* _load_checkpoint never finds a drift nobody caused.
CheckpointLoads ==
    ckpt # Absent /\ ckpt.status = "INCOMPLETE" /\ vecPartial # Absent =>
        IdsLongEnough /\ PrefixesMatch

\* A sealed store is whole, in order, of one identity, and all its checksums
\* agree, whatever sequence of interrupted builds, with whatever batch sizes,
\* led to it.
SealedStoreIsWhole ==
    ckpt # Absent /\ ckpt.status = "COMPLETE" =>
        /\ vecFinal # Absent /\ idsFinal # Absent /\ manifest # Absent
        /\ idsFinal = [r \in Rows |-> r]
        /\ \A r \in Rows : vecFinal[r] # Absent /\ vecFinal[r].id = ckpt.id
        /\ ckpt.vectors = vecFinal /\ ckpt.ids = idsFinal
        /\ manifest = [id |-> ckpt.id, vectors |-> vecFinal, ids |-> idsFinal]

\* A kill between two batches costs fewer rows than the checkpoint interval,
\* although the batches do not divide it and the build resumed anywhere.
LostWorkIsBounded ==
    pc = "loop" => run.completed - ckpt.completed < run.interval

\* The checkpoint is a resumable build: bound to one identity for ever, its
\* progress never taken back, sealed last.
Abstract == INSTANCE ResumableBuild WITH
    Nobody <- Absent,
    owner <- IF ckpt = Absent THEN Absent ELSE ckpt.id,
    done <- IF ckpt = Absent THEN 0 ELSE ckpt.completed,
    sealed <- IF ckpt = Absent THEN FALSE ELSE ckpt.status = "COMPLETE"
ImplementsResumableBuild == Abstract!Spec

\* The two places where a fault leaves a store no invocation takes up again:
\* files of a first invocation that died before its first checkpoint, and a
\* build that died between its first rename and its COMPLETE checkpoint.
Stranded ==
    /\ pc = "idle"
    /\ \/ ckpt = Absent /\ UnboundFiles
       \/ ckpt # Absent /\ ckpt.status = "INCOMPLETE" /\ vecPartial = Absent
Sealed == ckpt # Absent /\ ckpt.status = "COMPLETE"

\* Once faults end, retrying finishes the store in any number of budgeted
\* invocations, unless an earlier fault has stranded it.
FaultsEnd == <>[][~Fault]_vars
EventuallySealedOrStranded == FaultsEnd => <>[](Sealed \/ Stranded)

\* build_resumable_dense_store's docstring: "Build or resume one exact
\* fingerprint".  The only identity that uses the directory is never refused
\* once its first checkpoint is written.
BoundOwnerIsNeverRefused == ckpt # Absent => outcome # "DENSE_CHECKPOINT_INVALID"
==============================================================================
