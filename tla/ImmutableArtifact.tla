-------------------------- MODULE ImmutableArtifact --------------------------
(***************************************************************************)
(* src/src/legal_rag/domain/artifacts.py: write_immutable_chunks, the      *)
(* writer every frozen artifact of the repository goes through.  Several   *)
(* processes may write the same destination: each streams its chunks into  *)
(* a temporary file of its own, fsyncs it, and publishes it with os.link,  *)
(* which fails when the destination exists.  A process may be killed       *)
(* between two system calls and started again with the same or another     *)
(* content; the machine may lose power.                                    *)
(***************************************************************************)
EXTENDS Naturals

CONSTANTS
    Writers,     \* processes calling write_immutable_chunks
    Paths,       \* destinations
    Contents,    \* what the bytes of an artifact are
    NChunks,     \* how many chunks a content is streamed in
    NoFile       \* a path that does not exist

File == [data : Contents, chunks : 0 .. NChunks, synced : BOOLEAN]

ASSUME NChunksAssumption == NChunks \in Nat \ {0}
ASSUME NoFileAssumption == NoFile \notin File
ASSUME NoContentAssumption == NoFile \notin Contents

VARIABLES
    dest,        \* Paths -> what each destination holds
    pending,     \* destinations whose directory entry is not yet on the disk
    temp,        \* Writers -> the writer's open temporary file
    call,        \* Writers -> the arguments of the call in progress
    pc,          \* Writers -> the next system call
    result       \* Writers -> the outcome the current call ends with

vars == <<dest, pending, temp, call, pc, result>>

Calls == [path : Paths, data : Contents]
Steps == {"idle", "stream", "exists", "link", "compare", "unlink", "returned"}
Results == {"none", "ok", "ARTIFACT_IMMUTABLE", "ARTIFACT_WRITE_FAILED", "raised"}

\* Before its first call a writer has no arguments: NoFile stands for them.
TypeOK ==
    /\ dest \in [Paths -> File \union {NoFile}]
    /\ pending \subseteq Paths
    /\ temp \in [Writers -> File \union {NoFile}]
    /\ call \in [Writers -> Calls \union {NoFile}]
    /\ pc \in [Writers -> Steps]
    /\ result \in [Writers -> Results]

Init ==
    /\ dest = [p \in Paths |-> NoFile]
    /\ pending = {}
    /\ temp = [w \in Writers |-> NoFile]
    /\ call = [w \in Writers |-> NoFile]
    /\ pc = [w \in Writers |-> "idle"]
    /\ result = [w \in Writers |-> "none"]

Complete(file) == file.chunks = NChunks

\* sizes, then bytes
FilesEqual(left, right) ==
    /\ left.chunks = right.chunks
    /\ left.data = right.data

\* The two ways of starting a call: mkdir and NamedTemporaryFile succeed, or
\* their OSError leaves nothing behind.
Begin(w, p, c) ==
    /\ pc[w] \in {"idle", "returned"}
    /\ call' = [call EXCEPT ![w] = [path |-> p, data |-> c]]
    /\ temp' = [temp EXCEPT ![w] = [data |-> c, chunks |-> 0, synced |-> FALSE]]
    /\ pc' = [pc EXCEPT ![w] = "stream"]
    /\ result' = [result EXCEPT ![w] = "none"]
    /\ UNCHANGED <<dest, pending>>

BeginFails(w, p, c) ==
    /\ pc[w] \in {"idle", "returned"}
    /\ call' = [call EXCEPT ![w] = [path |-> p, data |-> c]]
    /\ pc' = [pc EXCEPT ![w] = "returned"]
    /\ result' = [result EXCEPT ![w] = "ARTIFACT_WRITE_FAILED"]
    /\ UNCHANGED <<dest, pending, temp>>

\* A faulty variant of the next step: the loop misses the end of the iterable.
StreamPastEnd(w) ==
    /\ pc[w] = "stream"
    /\ temp' = [temp EXCEPT ![w].chunks = @ + 1]
    /\ UNCHANGED <<dest, pending, call, pc, result>>

Stream(w) ==
    /\ pc[w] = "stream"
    /\ ~Complete(temp[w])
    /\ temp' = [temp EXCEPT ![w].chunks = @ + 1]
    /\ UNCHANGED <<dest, pending, call, pc, result>>

\* A faulty variant of the next step: the file is closed without an fsync.
FsyncSkipped(w) ==
    /\ pc[w] = "stream"
    /\ Complete(temp[w])
    /\ pc' = [pc EXCEPT ![w] = "exists"]
    /\ UNCHANGED <<dest, pending, temp, call, result>>

\* flush, fsync and close, once the iterable is exhausted
Fsync(w) ==
    /\ pc[w] = "stream"
    /\ Complete(temp[w])
    /\ temp' = [temp EXCEPT ![w].synced = TRUE]
    /\ pc' = [pc EXCEPT ![w] = "exists"]
    /\ UNCHANGED <<dest, pending, call, result>>

\* An exception of the chunk generator ("raised"), or an OSError while
\* writing: the finally clause removes the temporary file.
StreamFails(w) ==
    /\ pc[w] = "stream"
    /\ pc' = [pc EXCEPT ![w] = "unlink"]
    /\ \E r \in {"raised", "ARTIFACT_WRITE_FAILED"} :
           result' = [result EXCEPT ![w] = r]
    /\ UNCHANGED <<dest, pending, temp, call>>

CheckExists(w) ==
    /\ pc[w] = "exists"
    /\ pc' = [pc EXCEPT ![w] =
                IF dest[call[w].path] = NoFile THEN "link" ELSE "compare"]
    /\ UNCHANGED <<dest, pending, temp, call, result>>

Publishes(w) ==
    /\ dest' = [dest EXCEPT ![call[w].path] = temp[w]]
    /\ pending' = pending \union {call[w].path}
    /\ result' = [result EXCEPT ![w] = "ok"]
    /\ pc' = [pc EXCEPT ![w] = "unlink"]
    /\ UNCHANGED <<temp, call>>

\* Faulty variants of Link: an os.replace, which overwrites what another
\* writer published since the check; a link retried until it succeeds; a lost
\* race taken for a success.
LinkReplaces(w) == pc[w] = "link" /\ Publishes(w)

LinkRetries(w) ==
    /\ pc[w] = "link"
    /\ dest[call[w].path] = NoFile
    /\ Publishes(w)

LinkIgnoresRace(w) ==
    /\ pc[w] = "link"
    /\ \/ dest[call[w].path] = NoFile /\ Publishes(w)
       \/ /\ dest[call[w].path] # NoFile
          /\ pc' = [pc EXCEPT ![w] = "unlink"]
          /\ result' = [result EXCEPT ![w] = "ok"]
          /\ UNCHANGED <<dest, pending, temp, call>>

\* os.link: atomic, and refused when another writer came first.
Link(w) ==
    /\ pc[w] = "link"
    /\ \/ dest[call[w].path] = NoFile /\ Publishes(w)
       \/ /\ dest[call[w].path] # NoFile
          /\ pc' = [pc EXCEPT ![w] = "compare"]
          /\ UNCHANGED <<dest, pending, temp, call, result>>

\* An identical retry is accepted, a different one rejected.
Compare(w) ==
    /\ pc[w] = "compare"
    /\ pc' = [pc EXCEPT ![w] = "unlink"]
    /\ result' = [result EXCEPT ![w] =
                    IF FilesEqual(temp[w], dest[call[w].path])
                    THEN "ok" ELSE "ARTIFACT_IMMUTABLE"]
    /\ UNCHANGED <<dest, pending, temp, call>>

\* exists, link or the comparison ends with an OSError of its own.
PublishFails(w) ==
    /\ pc[w] \in {"exists", "link", "compare"}
    /\ pc' = [pc EXCEPT ![w] = "unlink"]
    /\ result' = [result EXCEPT ![w] = "ARTIFACT_WRITE_FAILED"]
    /\ UNCHANGED <<dest, pending, temp, call>>

Unlink(w) ==
    /\ pc[w] = "unlink"
    /\ temp' = [temp EXCEPT ![w] = NoFile]
    /\ pc' = [pc EXCEPT ![w] = "returned"]
    /\ UNCHANGED <<dest, pending, call, result>>

\* unlink in the finally clause raises OSError, which replaces whatever the
\* call was about to return -- also after the artifact was published.  The
\* temporary file stays on the disk, where no code looks for it again.
UnlinkFails(w) ==
    /\ pc[w] = "unlink"
    /\ temp' = [temp EXCEPT ![w] = NoFile]
    /\ pc' = [pc EXCEPT ![w] = "returned"]
    /\ result' = [result EXCEPT ![w] = "ARTIFACT_WRITE_FAILED"]
    /\ UNCHANGED <<dest, pending, call>>

\* The process is killed: its caller learns nothing.
Crash(w) ==
    /\ pc[w] \notin {"idle", "returned"}
    /\ temp' = [temp EXCEPT ![w] = NoFile]
    /\ pc' = [pc EXCEPT ![w] = "idle"]
    /\ result' = [result EXCEPT ![w] = "none"]
    /\ UNCHANGED <<dest, pending, call>>

\* The kernel writes the directory back by itself: the code never fsyncs it.
WriteBack(p) ==
    /\ p \in pending
    /\ pending' = pending \ {p}
    /\ UNCHANGED <<dest, temp, call, pc, result>>

\* The machine stops: every process dies, directory entries not yet written
\* back may be lost, and a file that was never fsynced comes back empty.
PowerLoss(lost) ==
    /\ lost \subseteq pending
    /\ dest' = [p \in Paths |->
                  IF p \in lost THEN NoFile
                  ELSE IF dest[p] # NoFile /\ ~dest[p].synced
                       THEN [dest[p] EXCEPT !.chunks = 0]
                       ELSE dest[p]]
    /\ pending' = {}
    /\ temp' = [w \in Writers |-> NoFile]
    /\ pc' = [w \in Writers |-> "idle"]
    /\ result' = [w \in Writers |-> "none"]
    /\ UNCHANGED call

\* What a process does by itself once a call is in progress.
Step(w) ==
    \/ Stream(w) \/ Fsync(w) \/ CheckExists(w) \/ Link(w)
    \/ Compare(w) \/ Unlink(w)

Fault(w) == StreamFails(w) \/ PublishFails(w) \/ UnlinkFails(w) \/ Crash(w)

Next ==
    \/ \E w \in Writers, p \in Paths, c \in Contents :
           Begin(w, p, c) \/ BeginFails(w, p, c)
    \/ \E w \in Writers : Step(w) \/ Fault(w)
    \/ \E p \in Paths : WriteBack(p)
    \/ \E lost \in SUBSET Paths : PowerLoss(lost)

\* A started Python call keeps running unless its process is killed.
Fairness == \A w \in Writers : WF_vars(Step(w))

Spec == Init /\ [][Next]_vars
FairSpec == Spec /\ Fairness

------------------------------------------------------------------------------
(* Properties *)

\* No destination ever shows a partly written artifact, whichever writers
\* failed or died and wherever the power went: publication follows the fsync
\* of the whole temporary file.
NoTornArtifact == \A p \in Paths : dest[p] # NoFile => Complete(dest[p])

\* What write_immutable_chunks tells its caller is the truth about the
\* destination: a checksum means the caller's own bytes are there,
\* ARTIFACT_IMMUTABLE that others are -- although other writers run between
\* the comparison and the return.
ResultIsTruthful ==
    \A w \in Writers :
        LET mine == [data |-> call[w].data, chunks |-> NChunks]
            there == dest[call[w].path] IN
        /\ result[w] = "ok" => there # NoFile /\ FilesEqual(mine, there)
        /\ result[w] = "ARTIFACT_IMMUTABLE" =>
               there # NoFile /\ ~FilesEqual(mine, there)

\* A published artifact is never exchanged for another, also when several
\* writers all saw the destination absent, and once its directory entry is on
\* the disk it is never lost.
NeverReplaced ==
    [][\A p \in Paths :
          dest[p] # NoFile =>
              /\ dest'[p] \in {dest[p], NoFile}
              /\ p \notin pending => dest'[p] = dest[p]]_vars

\* Readers see a write-once store.
Visible == [p \in Paths |-> IF dest[p] = NoFile THEN NoFile ELSE dest[p].data]
Settled == {p \in Paths : dest[p] # NoFile /\ p \notin pending}
Abstract == INSTANCE WriteOnce WITH store <- Visible, settled <- Settled

\* write_immutable_chunks implements WriteOnce.
ImplementsWriteOnce == Abstract!Spec

\* Every call returns or its process is killed: writers that race for one
\* destination never wait for each other.
CallsReturn ==
    \A w \in Writers : pc[w] = "stream" ~> pc[w] \in {"returned", "idle"}
==============================================================================
