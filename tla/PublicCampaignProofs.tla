------------------------ MODULE PublicCampaignProofs ------------------------
(***************************************************************************)
(* Proofs about PublicCampaign, for any number of hosts, versions of the   *)
(* script and questions: the directories are of one run, and what is       *)
(* submitted is what the remote model answered.                            *)
(***************************************************************************)
EXTENDS PublicCampaign, WellFoundedInduction, TLAPS

\* What a host has received is in the response directory of version s.
Stored(s, l, files) ==
    \A q \in Questions : l.received[q] # NoFile => files[s][q] = l.received[q]

Complete(l) == \A q \in Questions : l.received[q] # NoFile

\* The first questions have a replay checkpoint of this host's run.
ReplayedTo(n, l, kept) ==
    \A q \in Questions : q < n =>
        /\ kept[q] # NoFile
        /\ kept[q] = [run |-> [source |-> l.source, responses |-> l.received],
                      answer |-> l.replayed[q]]

\* What a host's memory says of the disk, by the step it is at.  As long as it
\* receives, the responses are in the directory of its version of the script;
\* once the script is read again they are in some directory.
Fits(step, l, files, kept) ==
    /\ step \notin {"idle", "dead"} => l \in Local
    /\ step \in {"batch", "remote", "store"} => Stored(l.source, l, files)
    /\ step = "batch" => l.position <= NQuestions + BatchSize
    /\ step \in {"remote", "store"} => l.position <= NQuestions
    /\ step \in {"replay", "replay_write", "publish"} =>
          Complete(l) /\ \E s \in Sources : Stored(s, l, files)
    /\ step \in {"replay", "replay_write"} => ReplayedTo(l.position, l, kept)
    /\ step = "replay" => l.position <= NQuestions + 1
    /\ step = "replay_write" => l.position <= NQuestions
    /\ step = "publish" =>
          /\ l.position <= Len(Outputs)
          /\ ReplayedTo(NQuestions + 1, l, kept)
          /\ l.replayed = l.received

\* The replay checkpoints are of the first questions, all of one run, whose
\* responses are in a response directory.
ReplayFits(files, kept) ==
    \A q \in Questions : kept[q] # NoFile =>
        /\ \E s \in Sources : files[s] = kept[q].run.responses
        /\ \A r \in Questions : r <= q =>
              kept[r] # NoFile /\ kept[r].run = kept[q].run

\* Every artifact is the one of the run all replay checkpoints are of.
OutputsFit(kept, artifacts) ==
    \A k \in DOMAIN Outputs, q \in Questions : artifacts[k] # NoFile =>
        /\ kept[q] # NoFile
        /\ artifacts[k] = Content(k, kept[q].run, kept[q].run.responses)

IInv ==
    /\ TypeOK
    /\ \A h \in Hosts : Fits(pc[h], host[h], responses, replay)
    /\ ReplayFits(responses, replay)
    /\ OutputsFit(replay, outputs)

------------------------------------------------------------------------------
(* Lemmas about the operators *)

LEMMA Sizes ==
    /\ NQuestions \in Nat /\ NQuestions >= 1
    /\ BatchSize \in Nat /\ BatchSize >= 1
    /\ DOMAIN Outputs = 1 .. 8 /\ Len(Outputs) = 8 /\ Last = 8
  BY SizesAssumption DEF Outputs, Last

\* A local state is the record of its fields.
LEMMA FieldsOfLocal ==
    ASSUME NEW l \in Local
    PROVE  /\ l.source \in Sources
           /\ l.position \in Nat /\ l.position >= 1
           /\ l.received \in [Questions -> Maybe(Reply)]
           /\ l.batch \in [Questions -> Maybe(Reply)]
           /\ l.replayed \in [Questions -> Maybe(Reply)]
           /\ l = [source |-> l.source, position |-> l.position, received |-> l.received,
                   batch |-> l.batch, replayed |-> l.replayed]
  BY Sizes DEF Local

LEMMA LocalOfFields ==
    ASSUME NEW s \in Sources, NEW n \in Nat, n >= 1,
           n <= NQuestions + BatchSize \/ n <= Len(Outputs),
           NEW a \in [Questions -> Maybe(Reply)], NEW b \in [Questions -> Maybe(Reply)],
           NEW c \in [Questions -> Maybe(Reply)]
    PROVE  [source |-> s, position |-> n, received |-> a, batch |-> b, replayed |-> c]
              \in Local
  <1>1. n \in 1 .. NQuestions + BatchSize + Len(Outputs)
    BY Sizes
  <1> QED
    BY <1>1 DEF Local

\* Every set of questions that is not empty has a first and a last one.
LEMMA FirstIsFirst ==
    ASSUME NEW S \in SUBSET Questions, S # {}
    PROVE  First(S) \in S
  <1>1. S \subseteq Nat
    BY DEF Questions
  <1> DEFINE R == OpToRel(<, Nat)
  <1>2. IsWellFoundedOn(R, Nat)
    BY NatLessThanWellFounded
  <1>3. PICK t \in S : \A u \in S : <<u, t>> \notin R
    <2> HIDE DEF R
    <2> QED
      BY <1>1, <1>2, WFMin
  <1>4. R = {pair \in Nat \X Nat : pair[1] < pair[2]}
    BY Zenon DEF OpToRel
  <1> HIDE DEF R
  <1>5. \A u \in S : ~(u < t)
    BY <1>1, <1>3, <1>4
  <1>6. \A u \in S : t <= u
    BY <1>1, <1>5
  <1> QED
    BY <1>6 DEF First

LEMMA LastExists ==
    ASSUME NEW S \in SUBSET Questions, S # {}
    PROVE  \E t \in S : \A u \in S : u <= t
  <1>1. S \subseteq 1 .. NQuestions /\ NQuestions \in Nat
    BY Sizes DEF Questions
  <1> DEFINE R == OpToRel(<, Nat)
             T == {NQuestions - u : u \in S}
  <1>2. IsWellFoundedOn(R, Nat)
    BY NatLessThanWellFounded
  <1>3. T \subseteq Nat /\ T # {}
    <2>1. ASSUME NEW u \in S PROVE NQuestions - u \in Nat
      <3>1. u \in 1 .. NQuestions
        BY <1>1
      <3> QED
        BY <1>1, <3>1
    <2> QED
      BY <2>1
  <1>4. PICK m \in T : \A n \in T : <<n, m>> \notin R
    <2> HIDE DEF R, T
    <2> QED
      BY <1>2, <1>3, WFMin
  <1>5. R = {pair \in Nat \X Nat : pair[1] < pair[2]}
    BY Zenon DEF OpToRel
  <1>6. PICK t \in S : m = NQuestions - t
    BY <1>4
  <1> HIDE DEF R
  <1>7. \A n \in T : ~(n < m)
    <2> HIDE DEF T
    <2> QED
      BY <1>3, <1>4, <1>5
  <1>8. \A u \in S : ~(NQuestions - u < NQuestions - t)
    BY <1>6, <1>7
  <1>9. \A u \in S : u <= t
    BY <1>1, <1>8
  <1> QED
    BY <1>9

\* A complete host replays a reply.
LEMMA ReplayAnswerIsReply ==
    ASSUME NEW h \in Hosts, host[h] \in Local, Complete(host[h]), NEW q \in Questions
    PROVE  ReplayAnswer(h, q) \in Reply
  <1> DEFINE same == {r \in Questions : KeyOf[r] = KeyOf[q]}
             last == CHOOSE r \in same : \A t \in same : t <= r
  <1>1. last \in Questions
    <2>1. same \in SUBSET Questions /\ same # {}
      OBVIOUS
    <2>2. \E t \in same : \A u \in same : u <= t
      <3> HIDE DEF same
      <3> QED
        BY <2>1, LastExists
    <2>3. last \in same
      <3> HIDE DEF same
      <3> QED
        BY <2>2
    <2> QED
      BY <2>1, <2>3
  <1>2. host[h].received[last] \in Reply
    <2> HIDE DEF last
    <2> QED
      BY <1>1, FieldsOfLocal DEF Complete, Maybe
  <1>3. Refusal \in Reply
    BY DEF Reply
  <1> QED
    BY <1>2, <1>3 DEF ReplayAnswer

------------------------------------------------------------------------------
(* What the disk may do under a running host *)

\* Response files and replay checkpoints are only added.
Grows(files, files1) ==
    \A s \in Sources, q \in Questions :
        files[s][q] # NoFile => files1[s][q] = files[s][q]

GrowsReplay(kept, kept1) ==
    \A q \in Questions : kept[q] # NoFile => kept1[q] = kept[q]

\* What a host's memory says of the disk stays true when other hosts add to it.
LEMMA FitsStays ==
    ASSUME NEW step, NEW l, NEW files, NEW files1, NEW kept, NEW kept1,
           Grows(files, files1), GrowsReplay(kept, kept1),
           Fits(step, l, files, kept)
    PROVE  Fits(step, l, files1, kept1)
  <1>1. ASSUME NEW s \in Sources, Stored(s, l, files)
        PROVE  Stored(s, l, files1)
    BY <1>1 DEF Stored, Grows
  <1>2. ASSUME NEW n, ReplayedTo(n, l, kept)
        PROVE  ReplayedTo(n, l, kept1)
    <2> SUFFICES ASSUME NEW q \in Questions, q < n
                 PROVE  kept1[q] = kept[q] /\ kept[q] # NoFile
      BY <1>2 DEF ReplayedTo
    <2> QED
      BY <1>2 DEF ReplayedTo, GrowsReplay
  <1>3. l \in Local => l.source \in Sources
    BY FieldsOfLocal
  <1> QED
    BY <1>1, <1>2, <1>3 DEF Fits

\* A run the replay is of has all its responses on disk, so they stay.
LEMMA ReplayFitsStays ==
    ASSUME NEW files \in [Sources -> [Questions -> Maybe(Reply)]],
           NEW files1 \in [Sources -> [Questions -> Maybe(Reply)]],
           NEW kept \in [Questions -> Maybe(Checkpoint)],
           Grows(files, files1), ReplayFits(files, kept)
    PROVE  ReplayFits(files1, kept)
  <1> SUFFICES ASSUME NEW q \in Questions, kept[q] # NoFile
               PROVE  \E s \in Sources : files1[s] = kept[q].run.responses
    BY DEF ReplayFits
  <1> DEFINE f == kept[q].run.responses
  <1>1. kept[q] \in Checkpoint
    BY DEF Maybe
  <1>2. f \in [Questions -> Reply]
    BY <1>1 DEF Checkpoint, Run
  <1>3. PICK s \in Sources : files[s] = f
    BY DEF ReplayFits
  <1> HIDE DEF f
  <1>4. \A r \in Questions : f[r] # NoFile
    BY <1>2, NoFileAssumption
  <1>5. \A r \in Questions : files1[s][r] = f[r]
    BY <1>2, <1>3, <1>4 DEF Grows
  <1>6. files1[s] \in [Questions -> Maybe(Reply)]
    BY <1>2
  <1>7. files1[s] = f
    BY <1>2, <1>5, <1>6
  <1> QED
    BY <1>7 DEF f

\* A step of one host keeps the invariant if it only adds to the disk and what
\* the host holds afterwards fits it.
LEMMA StepKeeps ==
    ASSUME IInv, NEW h \in Hosts, NEW l \in Maybe(Local), NEW step \in Steps,
           host' \in [Hosts -> Maybe(Local)], host'[h] = l,
           \A g \in Hosts \ {h} : host'[g] = host[g],
           Goes(h, step),
           responses' \in [Sources -> [Questions -> Maybe(Reply)]],
           replay' \in [Questions -> Maybe(Checkpoint)],
           DOMAIN outputs' = DOMAIN Outputs,
           Grows(responses, responses'), GrowsReplay(replay, replay'),
           Fits(step, l, responses', replay'),
           ReplayFits(responses', replay'), OutputsFit(replay', outputs')
    PROVE  IInv'
  <1>1. pc \in [Hosts -> Steps] /\ pc' = [pc EXCEPT ![h] = step]
    BY DEF IInv, TypeOK, Goes
  <1>2. pc' \in [Hosts -> Steps] /\ pc'[h] = step /\ \A g \in Hosts \ {h} : pc'[g] = pc[g]
    BY <1>1
  <1>3. TypeOK'
    BY <1>2 DEF TypeOK
  <1>4. ASSUME NEW g \in Hosts
        PROVE  Fits(pc'[g], host'[g], responses', replay')
    <2>1. CASE g = h
      BY <2>1, <1>2
    <2>2. CASE g # h
      <3>1. Fits(pc[g], host[g], responses, replay)
        BY DEF IInv
      <3>2. pc'[g] = pc[g] /\ host'[g] = host[g]
        BY <2>2, <1>2
      <3>3. Fits(pc[g], host[g], responses', replay')
        BY ONLY <3>1, FitsStays, Grows(responses, responses'),
                GrowsReplay(replay, replay'), Zenon
      <3> QED
        BY <3>2, <3>3
    <2> QED
      BY <2>1, <2>2
  <1> QED
    BY <1>3, <1>4 DEF IInv

\* The same, when the disk is left as it is.
LEMMA MemoryStepKeeps ==
    ASSUME IInv, NEW h \in Hosts, NEW l \in Maybe(Local), NEW step \in Steps,
           host' \in [Hosts -> Maybe(Local)], host'[h] = l,
           \A g \in Hosts \ {h} : host'[g] = host[g],
           Goes(h, step), UNCHANGED disk,
           Fits(step, l, responses, replay)
    PROVE  IInv'
  <1>1. responses' = responses /\ replay' = replay /\ outputs' = outputs
    BY DEF disk
  <1>2. Grows(responses, responses') /\ GrowsReplay(replay, replay')
    BY <1>1 DEF Grows, GrowsReplay
  <1>3. /\ responses \in [Sources -> [Questions -> Maybe(Reply)]]
        /\ replay \in [Questions -> Maybe(Checkpoint)]
        /\ DOMAIN outputs = DOMAIN Outputs
        /\ ReplayFits(responses, replay) /\ OutputsFit(replay, outputs)
    BY DEF IInv, TypeOK
  <1> QED
    BY <1>1, <1>2, <1>3, StepKeeps

\* An invocation that ends, or dies, leaves nothing in memory.
LEMMA Gone ==
    ASSUME IInv, NEW h \in Hosts, NEW step \in {"idle", "dead"},
           host' = [host EXCEPT ![h] = NoFile], Goes(h, step),
           UNCHANGED disk
    PROVE  IInv'
  <1>1. /\ host' \in [Hosts -> Maybe(Local)] /\ host'[h] = NoFile
        /\ \A g \in Hosts \ {h} : host'[g] = host[g]
    BY DEF IInv, TypeOK, Maybe
  <1>2. Fits(step, NoFile, responses, replay)
    BY DEF Fits
  <1>3. NoFile \in Maybe(Local) /\ step \in Steps
    BY DEF Maybe, Steps
  <1> QED
    BY <1>1, <1>2, <1>3, MemoryStepKeeps

------------------------------------------------------------------------------
(* The steps of a host *)

\* What the invariant says of one host that runs.
LEMMA RunningHost ==
    ASSUME IInv, NEW h \in Hosts, pc[h] \notin {"idle", "dead"}
    PROVE  /\ host \in [Hosts -> Maybe(Local)]
           /\ host[h] \in Local
           /\ pc[h] \in {"batch", "remote", "store"} =>
                 Stored(host[h].source, host[h], responses)
           /\ Fits(pc[h], host[h], responses, replay)
           /\ responses \in [Sources -> [Questions -> Maybe(Reply)]]
           /\ replay \in [Questions -> Maybe(Checkpoint)]
           /\ DOMAIN outputs = DOMAIN Outputs
           /\ ReplayFits(responses, replay) /\ OutputsFit(replay, outputs)
  BY DEF IInv, TypeOK, Fits

LEMMA NothingKnown ==
    Nothing \in [Questions -> Maybe(Reply)] /\ \A q \in Questions : Nothing[q] = NoFile
  BY DEF Nothing, Maybe

LEMMA StartKeeps ==
    ASSUME IInv, NEW h \in Hosts, NEW s \in Sources, Start(h, s)
    PROVE  IInv'
  <1> DEFINE l == [source |-> s, position |-> 1, received |-> Nothing,
                   batch |-> Nothing, replayed |-> Nothing]
  <1>1. l \in Local
    BY Sizes, NothingKnown, LocalOfFields
  <1>2. host' = [host EXCEPT ![h] = l] /\ Goes(h, "batch") /\ UNCHANGED disk
    BY DEF Start
  <1>3. l.position = 1 /\ l.received = Nothing
    OBVIOUS
  <1> HIDE DEF l
  <1>4. /\ host' \in [Hosts -> Maybe(Local)] /\ host'[h] = l
        /\ \A g \in Hosts \ {h} : host'[g] = host[g]
    BY <1>1, <1>2 DEF IInv, TypeOK, Maybe
  <1>5. Fits("batch", l, responses, replay)
    BY <1>1, <1>3, Sizes, NothingKnown DEF Fits, Stored
  <1> QED
    BY <1>1, <1>2, <1>4, <1>5, MemoryStepKeeps DEF Maybe, Steps

LEMMA FaultKeeps ==
    ASSUME IInv, NEW h \in Hosts, Fault(h)
    PROVE  IInv'
  BY Gone DEF Fault

\* The checkpointed responses of a batch are on disk.
LEMMA LoadBatchKeeps ==
    ASSUME IInv, NEW h \in Hosts, LoadBatch(h)
    PROVE  IInv'
  <1> DEFINE loaded == [q \in Questions |->
                          IF q \in Checkpointed(h) THEN responses[host[h].source][q]
                          ELSE host[h].received[q]]
  <1>1. pc[h] = "batch" /\ host[h].position <= NQuestions /\ UNCHANGED disk
    BY DEF LoadBatch
  <1>2. /\ host \in [Hosts -> Maybe(Local)]
        /\ host[h] \in Local /\ Stored(host[h].source, host[h], responses)
        /\ responses \in [Sources -> [Questions -> Maybe(Reply)]]
    BY <1>1, RunningHost
  <1>3. /\ host[h].source \in Sources
        /\ host[h].position \in Nat /\ host[h].position >= 1
        /\ host[h].received \in [Questions -> Maybe(Reply)]
        /\ host[h].batch \in [Questions -> Maybe(Reply)]
        /\ host[h].replayed \in [Questions -> Maybe(Reply)]
        /\ host[h] = [source |-> host[h].source, position |-> host[h].position,
                      received |-> host[h].received, batch |-> host[h].batch,
                      replayed |-> host[h].replayed]
    BY <1>2, FieldsOfLocal
  <1>4. loaded \in [Questions -> Maybe(Reply)]
    BY <1>2, <1>3
  <1>5. \A q \in Questions : loaded[q] # NoFile => responses[host[h].source][q] = loaded[q]
    BY <1>2 DEF Stored
  <1>6. \/ /\ host' = [host EXCEPT ![h].received = loaded, ![h].position = @ + BatchSize]
           /\ UNCHANGED pc
        \/ /\ host' = [host EXCEPT ![h].received = loaded]
           /\ Goes(h, "remote")
    BY DEF LoadBatch
  <1> HIDE DEF loaded
  <1>7. CASE /\ host' = [host EXCEPT ![h].received = loaded, ![h].position = @ + BatchSize]
             /\ UNCHANGED pc
    <2> DEFINE l == [source |-> host[h].source, position |-> host[h].position + BatchSize,
                     received |-> loaded, batch |-> host[h].batch,
                     replayed |-> host[h].replayed]
    <2>1. l \in Local
      BY <1>1, <1>3, <1>4, Sizes, LocalOfFields
    <2>2. /\ host'[h] = l
          /\ \A g \in Hosts \ {h} : host'[g] = host[g]
      BY <1>2, <1>3, <1>7 DEF Maybe
    <2>3. l.position = host[h].position + BatchSize /\ l.received = loaded
          /\ l.source = host[h].source
      OBVIOUS
    <2> HIDE DEF l
    <2>4. host' \in [Hosts -> Maybe(Local)]
      BY <1>2, <1>7, <2>1, <2>2 DEF Maybe
    <2>5. Fits("batch", l, responses, replay)
      BY <1>1, <1>3, <1>5, <2>1, <2>3, Sizes DEF Fits, Stored
    <2>6. Goes(h, "batch")
      BY <1>1, <1>7 DEF Goes, IInv, TypeOK
    <2> QED
      BY <1>1, <2>1, <2>2, <2>4, <2>5, <2>6, MemoryStepKeeps DEF Maybe, Steps
  <1>8. CASE /\ host' = [host EXCEPT ![h].received = loaded]
             /\ Goes(h, "remote")
    <2> DEFINE l == [source |-> host[h].source, position |-> host[h].position,
                     received |-> loaded, batch |-> host[h].batch,
                     replayed |-> host[h].replayed]
    <2>1. l \in Local
      BY <1>1, <1>3, <1>4, Sizes, LocalOfFields
    <2>2. /\ host'[h] = l
          /\ \A g \in Hosts \ {h} : host'[g] = host[g]
      BY <1>2, <1>3, <1>8 DEF Maybe
    <2>3. l.position = host[h].position /\ l.received = loaded
          /\ l.source = host[h].source
      OBVIOUS
    <2> HIDE DEF l
    <2>4. host' \in [Hosts -> Maybe(Local)]
      BY <1>2, <1>8, <2>1, <2>2 DEF Maybe
    <2>5. Fits("remote", l, responses, replay)
      BY <1>1, <1>5, <2>1, <2>3 DEF Fits, Stored
    <2> QED
      BY <1>1, <1>8, <2>1, <2>2, <2>4, <2>5, MemoryStepKeeps DEF Maybe, Steps
  <1> QED
    BY <1>6, <1>7, <1>8

LEMMA GenerateKeeps ==
    ASSUME IInv, NEW h \in Hosts, Generate(h)
    PROVE  IInv'
  <1> DEFINE asked == {q \in BatchOf(h) : host[h].received[q] = NoFile}
  <1>1. pc[h] = "remote" /\ Goes(h, "store") /\ UNCHANGED disk
    BY DEF Generate
  <1>2. /\ host \in [Hosts -> Maybe(Local)]
        /\ host[h] \in Local /\ Stored(host[h].source, host[h], responses)
        /\ Fits("remote", host[h], responses, replay)
    BY <1>1, RunningHost
  <1>3. PICK reply \in Replies(asked) :
           host' = [host EXCEPT ![h].batch =
                      [q \in Questions |-> IF q \in asked THEN reply[q] ELSE NoFile]]
    BY DEF Generate
  <1> DEFINE batch == [q \in Questions |-> IF q \in asked THEN reply[q] ELSE NoFile]
             l == [source |-> host[h].source, position |-> host[h].position,
                   received |-> host[h].received, batch |-> batch,
                   replayed |-> host[h].replayed]
  <1>4. batch \in [Questions -> Maybe(Reply)]
    <2>1. reply \in [asked -> Reply]
      BY DEF Replies
    <2> HIDE DEF asked
    <2> QED
      BY <2>1 DEF Maybe
  <1>5. host' = [host EXCEPT ![h].batch = batch]
    BY <1>3
  <1> HIDE DEF batch, asked
  <1>6. host[h].position <= NQuestions
    BY <1>2 DEF Fits
  <1>7. l \in Local
    BY <1>2, <1>4, <1>6, Sizes, FieldsOfLocal, LocalOfFields
  <1>8. /\ host'[h] = l
        /\ \A g \in Hosts \ {h} : host'[g] = host[g]
    BY <1>2, <1>5, FieldsOfLocal DEF Maybe
  <1>9. /\ l.position = host[h].position /\ l.received = host[h].received
        /\ l.source = host[h].source
    OBVIOUS
  <1> HIDE DEF l
  <1>10. host' \in [Hosts -> Maybe(Local)]
    BY <1>2, <1>5, <1>7, <1>8 DEF Maybe
  <1>11. Fits("store", l, responses, replay)
    BY <1>2, <1>6, <1>7, <1>9 DEF Fits, Stored
  <1> QED
    BY <1>1, <1>7, <1>8, <1>10, <1>11, MemoryStepKeeps DEF Maybe, Steps

\* A response is only written where there was none: nobody's memory of the
\* disk is wrong afterwards.
LEMMA StoreResponseKeeps ==
    ASSUME IInv, NEW h \in Hosts, StoreResponse(h)
    PROVE  IInv'
  <1> DEFINE q == First(ToStore(h))
             s == host[h].source
             b == host[h].batch[q]
  <1>1. /\ pc[h] = "store" /\ ToStore(h) # {} /\ UNCHANGED <<replay, outputs>>
    BY DEF StoreResponse
  <1>2. /\ host \in [Hosts -> Maybe(Local)]
        /\ host[h] \in Local /\ Stored(host[h].source, host[h], responses)
        /\ Fits("store", host[h], responses, replay)
        /\ responses \in [Sources -> [Questions -> Maybe(Reply)]]
        /\ replay \in [Questions -> Maybe(Checkpoint)]
        /\ DOMAIN outputs = DOMAIN Outputs
        /\ ReplayFits(responses, replay) /\ OutputsFit(replay, outputs)
    BY <1>1, RunningHost
  <1>3. host[h].position <= NQuestions
    BY <1>2 DEF Fits
  <1>4. q \in Questions /\ b # NoFile
    <2>1. ToStore(h) \in SUBSET Questions
      BY DEF ToStore
    <2>2. q \in ToStore(h)
      BY <1>1, <2>1, FirstIsFirst
    <2> QED
      BY <2>2 DEF ToStore
  <1>5. s \in Sources /\ b \in Reply
    BY <1>2, <1>4, FieldsOfLocal DEF Maybe
  <1>6. \/ /\ responses[s][q] = NoFile
           /\ responses' = [responses EXCEPT ![s][q] = b]
           /\ host' = [host EXCEPT ![h].received[q] = b, ![h].batch[q] = NoFile]
           /\ UNCHANGED pc
        \/ Ends(h) /\ UNCHANGED responses
    BY DEF StoreResponse
  <1> HIDE DEF q, b
  <1>7. CASE /\ responses[s][q] = NoFile
             /\ responses' = [responses EXCEPT ![s][q] = b]
             /\ host' = [host EXCEPT ![h].received[q] = b, ![h].batch[q] = NoFile]
             /\ UNCHANGED pc
    <2> DEFINE received == [host[h].received EXCEPT ![q] = b]
               batch == [host[h].batch EXCEPT ![q] = NoFile]
               l == [source |-> host[h].source, position |-> host[h].position,
                     received |-> received, batch |-> batch,
                     replayed |-> host[h].replayed]
    <2>1. /\ received \in [Questions -> Maybe(Reply)] /\ received[q] = b
          /\ \A r \in Questions : r # q => received[r] = host[h].received[r]
          /\ batch \in [Questions -> Maybe(Reply)]
      BY <1>2, <1>4, <1>5, FieldsOfLocal DEF Maybe
    <2>2. /\ host'[h] = l
          /\ \A g \in Hosts \ {h} : host'[g] = host[g]
      <3>1. host[h] = [source |-> s, position |-> host[h].position,
                       received |-> host[h].received, batch |-> host[h].batch,
                       replayed |-> host[h].replayed]
        BY <1>2, FieldsOfLocal
      <3>2. host' = [host EXCEPT ![h].received[q] = b, ![h].batch[q] = NoFile]
        BY <1>7
      <3>3. host \in [Hosts -> Maybe(Local)]
        BY <1>2
      <3>4. host'[h] = l
        BY ONLY <3>1, <3>2, <3>3, h \in Hosts
      <3>5. \A g \in Hosts \ {h} : host'[g] = host[g]
        BY ONLY <3>2, <3>3, h \in Hosts
      <3> QED
        BY <3>4, <3>5
    <2> HIDE DEF received, batch
    <2>3. l \in Local
      BY <1>2, <1>3, <2>1, Sizes, FieldsOfLocal, LocalOfFields
    <2>4. /\ l.position = host[h].position /\ l.received = received /\ l.source = s
      OBVIOUS
    <2> HIDE DEF l, s
    <2>5. host' \in [Hosts -> Maybe(Local)]
      BY <1>2, <1>7, <2>2, <2>3 DEF Maybe
    <2>6. /\ responses' \in [Sources -> [Questions -> Maybe(Reply)]]
          /\ responses'[s][q] = b
          /\ \A t \in Sources, r \in Questions :
                t # s \/ r # q => responses'[t][r] = responses[t][r]
      BY <1>2, <1>4, <1>5, <1>7 DEF Maybe
    <2>7. Grows(responses, responses')
      BY <1>7, <2>6 DEF Grows
    <2>8. GrowsReplay(replay, replay') /\ replay' = replay /\ outputs' = outputs
      BY <1>1 DEF GrowsReplay
    <2>9. Stored(l.source, l, responses')
      <3> SUFFICES ASSUME NEW r \in Questions, l.received[r] # NoFile
                   PROVE  responses'[s][r] = l.received[r]
        BY <2>4 DEF Stored
      <3>1. CASE r = q
        BY <3>1, <2>1, <2>4, <2>6
      <3>2. CASE r # q
        <4>1. l.received[r] = host[h].received[r]
          BY <3>2, <2>1, <2>4
        <4>2. responses[s][r] = host[h].received[r]
          BY <1>2, <4>1 DEF Stored, s
        <4> QED
          BY <1>5, <3>2, <4>1, <4>2, <2>6
      <3> QED
        BY <3>1, <3>2
    <2>10. Fits("store", l, responses', replay')
      BY <1>3, <2>3, <2>4, <2>9 DEF Fits
    <2>11. ReplayFits(responses', replay') /\ OutputsFit(replay', outputs')
      BY <1>2, <2>6, <2>7, <2>8, ReplayFitsStays
    <2>12. Goes(h, "store")
      BY <1>1, <1>7 DEF Goes, IInv, TypeOK
    <2> QED
      BY <1>2, <2>2, <2>3, <2>5, <2>6, <2>7, <2>8, <2>10, <2>11, <2>12, StepKeeps
         DEF Maybe, Steps
  <1>8. CASE Ends(h) /\ UNCHANGED responses
    BY <1>1, <1>8, Gone DEF Ends, disk
  <1> QED
    BY <1>6, <1>7, <1>8

LEMMA BatchStoredKeeps ==
    ASSUME IInv, NEW h \in Hosts, BatchStored(h)
    PROVE  IInv'
  <1> DEFINE l == [source |-> host[h].source, position |-> host[h].position + BatchSize,
                   received |-> host[h].received, batch |-> host[h].batch,
                   replayed |-> host[h].replayed]
  <1>1. /\ pc[h] = "store" /\ Goes(h, "batch") /\ UNCHANGED disk
        /\ host' = [host EXCEPT ![h].position = @ + BatchSize]
    BY DEF BatchStored
  <1>2. /\ host \in [Hosts -> Maybe(Local)]
        /\ host[h] \in Local /\ Stored(host[h].source, host[h], responses)
        /\ Fits("store", host[h], responses, replay)
    BY <1>1, RunningHost
  <1>3. host[h].position <= NQuestions /\ host[h].position \in Nat
    BY <1>2, FieldsOfLocal DEF Fits
  <1>4. l \in Local
    <2>1. /\ host[h].position + BatchSize \in Nat /\ host[h].position + BatchSize >= 1
          /\ host[h].position + BatchSize <= NQuestions + BatchSize
      BY <1>3, Sizes
    <2> QED
      BY <1>2, <2>1, FieldsOfLocal, LocalOfFields
  <1>5. /\ host'[h] = l
        /\ \A g \in Hosts \ {h} : host'[g] = host[g]
    BY <1>1, <1>2, FieldsOfLocal DEF Maybe
  <1>6. /\ l.position = host[h].position + BatchSize /\ l.received = host[h].received
        /\ l.source = host[h].source
    OBVIOUS
  <1> HIDE DEF l
  <1>7. host' \in [Hosts -> Maybe(Local)]
    BY <1>1, <1>2, <1>4, <1>5 DEF Maybe
  <1>8. Fits("batch", l, responses, replay)
    BY <1>2, <1>3, <1>4, <1>6, Sizes DEF Fits, Stored
  <1> QED
    BY <1>1, <1>4, <1>5, <1>7, <1>8, MemoryStepKeeps DEF Maybe, Steps

LEMMA AllReceivedKeeps ==
    ASSUME IInv, NEW h \in Hosts, AllReceived(h)
    PROVE  IInv'
  <1>1. pc[h] = "batch" /\ UNCHANGED disk
    BY DEF AllReceived
  <1>2. /\ host \in [Hosts -> Maybe(Local)]
        /\ host[h] \in Local /\ Stored(host[h].source, host[h], responses)
    BY <1>1, RunningHost
  <1>3. ASSUME NEW s \in Sources,
               \A q \in Questions : host[h].received[q] # NoFile,
               host' = [host EXCEPT ![h].position = 1, ![h].source = s],
               Goes(h, "replay")
        PROVE  IInv'
    <2> DEFINE l == [source |-> s, position |-> 1,
                     received |-> host[h].received, batch |-> host[h].batch,
                     replayed |-> host[h].replayed]
    <2>1. l \in Local
      BY <1>2, Sizes, FieldsOfLocal, LocalOfFields
    <2>2. /\ host'[h] = l
          /\ \A g \in Hosts \ {h} : host'[g] = host[g]
      <3>1. host[h] = [source |-> host[h].source, position |-> host[h].position,
                       received |-> host[h].received, batch |-> host[h].batch,
                       replayed |-> host[h].replayed]
        BY <1>2, FieldsOfLocal
      <3>2. host' = [host EXCEPT ![h].position = 1, ![h].source = s]
        BY <1>3
      <3>3. host \in [Hosts -> Maybe(Local)]
        BY <1>2
      <3>4. host'[h] = l
        BY ONLY <3>1, <3>2, <3>3, h \in Hosts
      <3>5. \A g \in Hosts \ {h} : host'[g] = host[g]
        BY ONLY <3>2, <3>3, h \in Hosts
      <3> QED
        BY <3>4, <3>5
    <2>3. l.position = 1 /\ l.received = host[h].received
      OBVIOUS
    <2> HIDE DEF l
    <2>4. host' \in [Hosts -> Maybe(Local)]
      BY <1>2, <1>3, <2>1, <2>2 DEF Maybe
    <2>5. ReplayedTo(1, l, replay)
      BY Sizes DEF ReplayedTo, Questions
    <2>6. Stored(host[h].source, l, responses) /\ Complete(l)
      BY <1>2, <1>3, <2>3 DEF Stored, Complete
    <2>7. Fits("replay", l, responses, replay)
      BY <1>2, <2>1, <2>3, <2>5, <2>6, Sizes, FieldsOfLocal DEF Fits
    <2> QED
      BY <1>1, <1>3, <2>1, <2>2, <2>4, <2>7, MemoryStepKeeps DEF Maybe, Steps
  <1>4. CASE Ends(h)
    BY <1>1, <1>4, Gone DEF Ends
  <1> QED
    BY <1>3, <1>4 DEF AllReceived

\* A host that replays is of a run whose responses are all on disk.
LEMMA RunOfComplete ==
    ASSUME IInv, NEW h \in Hosts, pc[h] \in {"replay", "replay_write", "publish"}
    PROVE  /\ host[h].received \in [Questions -> Reply]
           /\ RunOf(h) \in Run
           /\ RunOf(h).responses = host[h].received
           /\ \E s \in Sources : responses[s] = host[h].received
  <1>1. /\ host[h] \in Local /\ Complete(host[h])
        /\ \E s \in Sources : Stored(s, host[h], responses)
        /\ responses \in [Sources -> [Questions -> Maybe(Reply)]]
    BY RunningHost DEF Fits
  <1>2. host[h].received \in [Questions -> Reply] /\ host[h].source \in Sources
    BY <1>1, FieldsOfLocal DEF Complete, Maybe
  <1>3. PICK s \in Sources : Stored(s, host[h], responses)
    BY <1>1
  <1>4. /\ responses[s] \in [Questions -> Maybe(Reply)]
        /\ \A q \in Questions : responses[s][q] = host[h].received[q]
    BY <1>1, <1>3 DEF Stored, Complete
  <1>5. responses[s] = host[h].received
    BY <1>2, <1>4
  <1> QED
    BY <1>2, <1>5 DEF RunOf, Run

\* The next question's checkpoint is of the host's run.
LEMMA Advanced ==
    ASSUME IInv, NEW h \in Hosts, pc[h] \in {"replay", "replay_write"},
           host[h].position <= NQuestions,
           NEW a \in Reply, ReplayAdvances(h, host[h].position, a),
           NEW kept, GrowsReplay(replay, kept), kept[host[h].position] # NoFile,
           kept[host[h].position] = [run |-> RunOf(h), answer |-> a]
    PROVE  \E l \in Local :
              /\ host' \in [Hosts -> Maybe(Local)] /\ host'[h] = l
              /\ \A g \in Hosts \ {h} : host'[g] = host[g]
              /\ Fits("replay", l, responses, kept)
  <1> DEFINE q == host[h].position
             replayed == [host[h].replayed EXCEPT ![q] = a]
             l == [source |-> host[h].source, position |-> q + 1,
                   received |-> host[h].received, batch |-> host[h].batch,
                   replayed |-> replayed]
  <1>1. /\ host \in [Hosts -> Maybe(Local)]
        /\ host[h] \in Local /\ \E s \in Sources : Stored(s, host[h], responses)
        /\ ReplayedTo(q, host[h], replay) /\ Complete(host[h])
    BY RunningHost DEF Fits
  <1>2. q \in Nat /\ q >= 1 /\ q \in Questions
    BY <1>1, FieldsOfLocal, Sizes DEF Questions
  <1>3. /\ replayed \in [Questions -> Maybe(Reply)] /\ replayed[q] = a
        /\ \A r \in Questions : r # q => replayed[r] = host[h].replayed[r]
    BY <1>1, <1>2, FieldsOfLocal DEF Maybe
  <1>4. host'[h] = l /\ \A g \in Hosts \ {h} : host'[g] = host[g]
    <2>1. host[h] = [source |-> host[h].source, position |-> host[h].position,
                     received |-> host[h].received, batch |-> host[h].batch,
                     replayed |-> host[h].replayed]
      BY <1>1, FieldsOfLocal
    <2>2. host' = [host EXCEPT ![h].replayed[q] = a, ![h].position = q + 1]
      BY DEF ReplayAdvances
    <2>3. host \in [Hosts -> Maybe(Local)]
      BY <1>1
    <2>4. host'[h] = l
      BY ONLY <2>1, <2>2, <2>3, h \in Hosts
    <2>5. \A g \in Hosts \ {h} : host'[g] = host[g]
      BY ONLY <2>2, <2>3, h \in Hosts
    <2> QED
      BY <2>4, <2>5
  <1> HIDE DEF replayed
  <1>5. l \in Local
    BY <1>1, <1>2, <1>3, Sizes, FieldsOfLocal, LocalOfFields
  <1>6. /\ l.position = q + 1 /\ l.received = host[h].received
        /\ l.source = host[h].source /\ l.replayed = replayed
    OBVIOUS
  <1> HIDE DEF l
  <1>7. host' \in [Hosts -> Maybe(Local)]
    BY <1>1, <1>4, <1>5 DEF Maybe, ReplayAdvances
  <1>8. ReplayedTo(q + 1, l, kept)
    <2> SUFFICES ASSUME NEW r \in Questions, r < q + 1
                 PROVE  /\ kept[r] # NoFile
                        /\ kept[r] = [run |-> [source |-> host[h].source,
                                               responses |-> host[h].received],
                                      answer |-> replayed[r]]
      BY <1>6 DEF ReplayedTo
    <2>1. CASE r = q
      BY <2>1, <1>3 DEF RunOf
    <2>2. CASE r # q
      <3>1. r < q
        BY <2>2, <1>2 DEF Questions
      <3>2. /\ replay[r] # NoFile
            /\ replay[r] = [run |-> [source |-> host[h].source,
                                     responses |-> host[h].received],
                            answer |-> host[h].replayed[r]]
        BY <3>1, <1>1 DEF ReplayedTo
      <3>3. kept[r] = replay[r]
        BY <3>2 DEF GrowsReplay
      <3> QED
        BY <3>2, <3>3, <2>2, <1>3
    <2> QED
      BY <2>1, <2>2
  <1>9. Fits("replay", l, responses, kept)
    <2>1. (\E s \in Sources : Stored(s, l, responses)) /\ Complete(l)
      BY <1>1, <1>6 DEF Stored, Complete
    <2>2. l.position <= NQuestions + 1
      BY <1>2, <1>6, Sizes
    <2>3. ReplayedTo(l.position, l, kept)
      BY <1>6, <1>8
    <2> QED
      BY ONLY <1>5, <2>1, <2>2, <2>3 DEF Fits
  <1> QED
    BY <1>4, <1>5, <1>7, <1>9

LEMMA ReplayCheckKeeps ==
    ASSUME IInv, NEW h \in Hosts, ReplayCheck(h)
    PROVE  IInv'
  <1> DEFINE q == host[h].position
  <1>1. pc[h] = "replay" /\ q <= NQuestions /\ UNCHANGED disk
    BY DEF ReplayCheck
  <1>2. /\ host \in [Hosts -> Maybe(Local)] /\ host[h] \in Local
        /\ replay \in [Questions -> Maybe(Checkpoint)]
        /\ Fits("replay", host[h], responses, replay)
    BY <1>1, RunningHost
  <1>3. q \in Questions
    BY <1>1, <1>2, FieldsOfLocal, Sizes DEF Questions
  <1>4. CASE Goes(h, "replay_write") /\ UNCHANGED host
    <2>1. Fits("replay_write", host[h], responses, replay)
      BY <1>1, <1>2 DEF Fits
    <2> QED
      BY <1>1, <1>2, <1>4, <2>1, MemoryStepKeeps DEF Maybe, Steps
  <1>5. CASE /\ replay[q] # NoFile /\ SameRun(h, replay[q])
             /\ ReplayAdvances(h, q, replay[q].answer) /\ UNCHANGED pc
    <2>1. replay[q] \in Checkpoint
      BY <1>2, <1>3, <1>5 DEF Maybe
    <2>2. /\ replay[q].answer \in Reply
          /\ replay[q] = [run |-> RunOf(h), answer |-> replay[q].answer]
      BY <1>5, <2>1 DEF Checkpoint, SameRun
    <2>3. GrowsReplay(replay, replay)
      BY DEF GrowsReplay
    <2>4. PICK l \in Local :
             /\ host' \in [Hosts -> Maybe(Local)] /\ host'[h] = l
             /\ \A g \in Hosts \ {h} : host'[g] = host[g]
             /\ Fits("replay", l, responses, replay)
      BY <1>1, <1>5, <2>2, <2>3, Advanced
    <2>5. Goes(h, "replay")
      BY <1>1, <1>5 DEF Goes, IInv, TypeOK
    <2> QED
      BY <1>1, <2>4, <2>5, MemoryStepKeeps DEF Maybe, Steps
  <1>6. CASE Ends(h)
    BY <1>1, <1>6, Gone DEF Ends
  <1> QED
    BY <1>4, <1>5, <1>6 DEF ReplayCheck

\* A replay checkpoint is only written where there was none, after those of
\* all questions before it.
LEMMA ReplayWriteKeeps ==
    ASSUME IInv, NEW h \in Hosts, ReplayWrite(h)
    PROVE  IInv'
  <1> DEFINE q == host[h].position
             a == ReplayAnswer(h, q)
             c == [run |-> RunOf(h), answer |-> a]
  <1>1. pc[h] = "replay_write" /\ UNCHANGED <<responses, outputs>>
    BY DEF ReplayWrite
  <1>2. /\ host \in [Hosts -> Maybe(Local)] /\ host[h] \in Local
        /\ responses \in [Sources -> [Questions -> Maybe(Reply)]]
        /\ replay \in [Questions -> Maybe(Checkpoint)]
        /\ DOMAIN outputs = DOMAIN Outputs
        /\ Fits("replay_write", host[h], responses, replay)
        /\ ReplayFits(responses, replay) /\ OutputsFit(replay, outputs)
    BY <1>1, RunningHost
  <1>3. q \in Questions /\ q <= NQuestions
    BY <1>2, FieldsOfLocal, Sizes DEF Questions, Fits
  <1>4. a \in Reply
    BY <1>2, <1>3, ReplayAnswerIsReply DEF Fits
  <1>5. CASE /\ replay[q] = NoFile
             /\ replay' = [replay EXCEPT ![q] = c]
             /\ ReplayAdvances(h, q, a)
             /\ Goes(h, "replay")
    <2>1. RunOf(h) \in Run /\ \E s \in Sources : responses[s] = RunOf(h).responses
      BY <1>1, RunOfComplete
    <2>2. c \in Checkpoint /\ c # NoFile /\ c.run = RunOf(h)
      BY <1>4, <2>1, NoFileAssumption DEF Checkpoint
    <2> HIDE DEF a
    <2>3. /\ replay' \in [Questions -> Maybe(Checkpoint)] /\ replay'[q] = c
          /\ \A r \in Questions : r # q => replay'[r] = replay[r]
      <3> HIDE DEF c, q
      <3> QED
        BY <1>2, <1>3, <1>5, <2>2 DEF Maybe
    <2>4. GrowsReplay(replay, replay')
      BY <1>5, <2>3 DEF GrowsReplay
    <2>5. PICK l \in Local :
             /\ host' \in [Hosts -> Maybe(Local)] /\ host'[h] = l
             /\ \A g \in Hosts \ {h} : host'[g] = host[g]
             /\ Fits("replay", l, responses, replay')
      BY <1>1, <1>3, <1>4, <1>5, <2>2, <2>3, <2>4, Advanced
    <2> HIDE DEF c
    <2>6. ReplayFits(responses', replay')
      <3> SUFFICES ASSUME NEW p \in Questions, replay'[p] # NoFile
                   PROVE  /\ \E s \in Sources : responses[s] = replay'[p].run.responses
                          /\ \A r \in Questions : r <= p =>
                                replay'[r] # NoFile /\ replay'[r].run = replay'[p].run
        BY <1>1 DEF ReplayFits
      <3>1. ASSUME NEW r \in Questions, r < q
            PROVE  replay[r] # NoFile /\ replay[r].run = RunOf(h)
        BY <3>1, <1>2 DEF Fits, ReplayedTo, RunOf
      <3>2. CASE p = q
        <4>1. ASSUME NEW r \in Questions, r <= p
              PROVE  replay'[r] # NoFile /\ replay'[r].run = RunOf(h)
          <5>1. CASE r = q
            BY <5>1, <2>2, <2>3
          <5>2. CASE r # q
            <6>1. r < q
              BY <5>2, <4>1, <3>2, <1>3 DEF Questions
            <6> QED
              BY <6>1, <5>2, <3>1, <2>3
          <5> QED
            BY <5>1, <5>2
        <4> QED
          BY <4>1, <3>2, <2>1, <2>2, <2>3
      <3>3. CASE p # q
        <4>1. replay'[p] = replay[p] /\ replay[p] # NoFile
          BY <3>3, <2>3
        <4>2. p < q
          <5>1. ~(q <= p)
            BY <4>1, <1>2, <1>3, <1>5 DEF ReplayFits
          <5> QED
            BY <5>1, <1>3 DEF Questions
        <4>3. ASSUME NEW r \in Questions, r <= p
              PROVE  replay'[r] = replay[r]
          <5>1. r # q
            BY <4>2, <4>3, <1>3 DEF Questions
          <5> QED
            BY <5>1, <2>3
        <4> QED
          BY <4>1, <4>3, <1>2 DEF ReplayFits
      <3> QED
        BY <3>2, <3>3
    <2>7. OutputsFit(replay', outputs')
      BY <1>1, <1>2, <1>3, <1>5 DEF OutputsFit
    <2>8. Grows(responses, responses')
      BY <1>1 DEF Grows
    <2> QED
      BY <1>1, <1>2, <1>5, <2>3, <2>4, <2>5, <2>6, <2>7, <2>8, StepKeeps
         DEF Maybe, Steps
  <1>6. CASE Ends(h) /\ UNCHANGED replay
    BY <1>1, <1>6, Gone DEF Ends, disk
  <1> QED
    BY <1>5, <1>6 DEF ReplayWrite

LEMMA CompareKeeps ==
    ASSUME IInv, NEW h \in Hosts, Compare(h)
    PROVE  IInv'
  <1> DEFINE l == [source |-> host[h].source, position |-> 1,
                   received |-> host[h].received, batch |-> host[h].batch,
                   replayed |-> host[h].replayed]
  <1>1. pc[h] = "replay" /\ host[h].position > NQuestions /\ UNCHANGED disk
    BY DEF Compare
  <1>2. /\ host \in [Hosts -> Maybe(Local)] /\ host[h] \in Local
        /\ Fits("replay", host[h], responses, replay)
    BY <1>1, RunningHost
  <1>3. CASE /\ AnswersAgree(h)
             /\ host' = [host EXCEPT ![h].position = 1]
             /\ Goes(h, "publish")
    <2>1. l \in Local
      BY <1>2, Sizes, FieldsOfLocal, LocalOfFields
    <2>2. /\ host'[h] = l
          /\ \A g \in Hosts \ {h} : host'[g] = host[g]
      BY <1>2, <1>3, FieldsOfLocal DEF Maybe
    <2>3. /\ l.position = 1 /\ l.received = host[h].received
          /\ l.source = host[h].source /\ l.replayed = host[h].replayed
      OBVIOUS
    <2> HIDE DEF l
    <2>4. host' \in [Hosts -> Maybe(Local)]
      BY <1>2, <1>3, <2>1, <2>2 DEF Maybe
    <2>5. ReplayedTo(NQuestions + 1, l, replay)
      <3>1. host[h].position = NQuestions + 1
        BY <1>1, <1>2, FieldsOfLocal, Sizes DEF Fits
      <3> QED
        BY <1>2, <2>3, <3>1 DEF Fits, ReplayedTo
    <2>6. (\E s \in Sources : Stored(s, l, responses)) /\ Complete(l)
      BY <1>2, <2>3 DEF Fits, Stored, Complete
    <2>7. Fits("publish", l, responses, replay)
      BY <1>3, <2>1, <2>3, <2>5, <2>6, Sizes DEF Fits, AnswersAgree
    <2> QED
      BY <1>1, <1>3, <2>1, <2>2, <2>4, <2>7, MemoryStepKeeps DEF Maybe, Steps
  <1>4. CASE Ends(h)
    BY <1>1, <1>4, Gone DEF Ends
  <1> QED
    BY <1>3, <1>4 DEF Compare

\* What a host publishes is of the run all replay checkpoints are of.
LEMMA PublishKeeps ==
    ASSUME IInv, NEW h \in Hosts, Publish(h)
    PROVE  IInv'
  <1> DEFINE k == host[h].position
             content == Content(k, RunOf(h), host[h].replayed)
             l == [source |-> host[h].source, position |-> k + 1,
                   received |-> host[h].received, batch |-> host[h].batch,
                   replayed |-> host[h].replayed]
  <1>1. pc[h] = "publish" /\ UNCHANGED <<responses, replay>>
    BY DEF Publish
  <1>2. /\ host \in [Hosts -> Maybe(Local)] /\ host[h] \in Local
        /\ responses \in [Sources -> [Questions -> Maybe(Reply)]]
        /\ replay \in [Questions -> Maybe(Checkpoint)]
        /\ DOMAIN outputs = DOMAIN Outputs
        /\ Fits("publish", host[h], responses, replay)
        /\ ReplayFits(responses, replay) /\ OutputsFit(replay, outputs)
    BY <1>1, RunningHost
  <1>3. k \in 1 .. 8
    <2>1. k <= Len(Outputs)
      BY <1>2 DEF Fits
    <2>2. k \in Nat /\ k >= 1
      BY <1>2, FieldsOfLocal
    <2> HIDE DEF k
    <2> QED
      BY <2>1, <2>2, Sizes
  <1>4. /\ host[h].replayed = RunOf(h).responses
        /\ \A q \in Questions : replay[q] # NoFile /\ replay[q].run = RunOf(h)
    <2>1. host[h].replayed = host[h].received /\ ReplayedTo(NQuestions + 1, host[h], replay)
      BY <1>2 DEF Fits
    <2>2. \A q \in Questions : q < NQuestions + 1
      BY Sizes DEF Questions
    <2>3. RunOf(h).responses = host[h].received
      BY <1>1, RunOfComplete
    <2>4. ASSUME NEW q \in Questions
          PROVE  replay[q] # NoFile /\ replay[q].run = RunOf(h)
      <3>1. /\ replay[q] # NoFile
            /\ replay[q] = [run |-> RunOf(h), answer |-> host[h].replayed[q]]
        BY <2>1, <2>2 DEF ReplayedTo, RunOf
      <3> QED
        BY <3>1
    <2> QED
      BY <2>1, <2>3, <2>4
  <1>5. \/ /\ outputs' = [outputs EXCEPT ![k] = content]
           /\ \/ k < 8 /\ host' = [host EXCEPT ![h].position = k + 1] /\ UNCHANGED pc
              \/ Ends(h)
        \/ Ends(h) /\ UNCHANGED outputs
    BY Sizes DEF Publish
  <1>6. ASSUME outputs' = [outputs EXCEPT ![k] = content]
        PROVE  /\ DOMAIN outputs' = DOMAIN Outputs
               /\ OutputsFit(replay', outputs')
    <2>1. DOMAIN outputs' = DOMAIN Outputs
      BY <1>2, <1>6
    <2>2. outputs'[k] = content
      <3> HIDE DEF content, k
      <3> QED
        BY <1>2, <1>3, <1>6, Sizes
    <2>3. \A j \in 1 .. 8 : j # k => outputs'[j] = outputs[j]
      BY <1>2, <1>6, Sizes
    <2>4. ASSUME NEW j \in 1 .. 8, NEW q \in Questions, outputs'[j] # NoFile
          PROVE  /\ replay[q] # NoFile
                 /\ outputs'[j] = Content(j, replay[q].run, replay[q].run.responses)
      <3>1. CASE j = k
        BY <3>1, <1>4, <2>2, Zenon
      <3>2. CASE j # k
        BY <3>2, <1>2, <2>3, <2>4, Sizes DEF OutputsFit
      <3> QED
        BY <3>1, <3>2
    <2> QED
      BY <1>1, <2>1, <2>4, Sizes DEF OutputsFit
  <1> HIDE DEF content
  <1>7. Grows(responses, responses') /\ GrowsReplay(replay, replay')
    BY <1>1 DEF Grows, GrowsReplay
  <1>8. CASE /\ outputs' = [outputs EXCEPT ![k] = content]
             /\ k < 8 /\ host' = [host EXCEPT ![h].position = k + 1] /\ UNCHANGED pc
    <2>1. l \in Local
      <3>1. k + 1 \in Nat /\ k + 1 >= 1 /\ k + 1 <= Len(Outputs)
        BY <1>3, <1>8, Sizes
      <3> HIDE DEF k
      <3> QED
        BY <1>2, <3>1, FieldsOfLocal, LocalOfFields
    <2>2. /\ host'[h] = l
          /\ \A g \in Hosts \ {h} : host'[g] = host[g]
      BY <1>2, <1>8, FieldsOfLocal DEF Maybe
    <2>3. /\ l.position = k + 1 /\ l.received = host[h].received
          /\ l.source = host[h].source /\ l.replayed = host[h].replayed
      OBVIOUS
    <2> HIDE DEF l
    <2>4. host' \in [Hosts -> Maybe(Local)]
      BY <1>2, <1>8, <2>1, <2>2 DEF Maybe
    <2>5. Fits("publish", l, responses, replay)
      <3>1. (\E s \in Sources : Stored(s, l, responses)) /\ Complete(l)
        BY <1>2, <2>3 DEF Fits, Stored, Complete
      <3>2. ReplayedTo(NQuestions + 1, l, replay) /\ l.replayed = l.received
        BY <1>2, <2>3 DEF Fits, ReplayedTo
      <3>3. l.position <= Len(Outputs)
        BY <1>3, <1>8, <2>3, Sizes
      <3> QED
        BY <2>1, <3>1, <3>2, <3>3 DEF Fits
    <2>6. Goes(h, "publish")
      BY <1>1, <1>8 DEF Goes, IInv, TypeOK
    <2> QED
      BY <1>1, <1>2, <1>6, <1>7, <1>8, <2>1, <2>2, <2>4, <2>5, <2>6, StepKeeps
         DEF Maybe, Steps
  <1>9. CASE outputs' = [outputs EXCEPT ![k] = content] /\ Ends(h)
    <2>1. /\ host' \in [Hosts -> Maybe(Local)] /\ host'[h] = NoFile
          /\ \A g \in Hosts \ {h} : host'[g] = host[g]
          /\ Goes(h, "idle")
      BY <1>2, <1>9 DEF Ends, Maybe
    <2>2. Fits("idle", NoFile, responses, replay)
      BY DEF Fits
    <2> QED
      BY <1>1, <1>2, <1>6, <1>7, <1>9, <2>1, <2>2, StepKeeps DEF Maybe, Steps
  <1>10. CASE Ends(h) /\ UNCHANGED outputs
    BY <1>1, <1>10, Gone DEF Ends, disk
  <1> QED
    BY <1>5, <1>8, <1>9, <1>10

------------------------------------------------------------------------------
(* Theorems *)

\* The invariant holds at first and is kept by every step of every host.
THEOREM Invariance == Spec => []IInv
  <1>1. Init => IInv
    <2> SUFFICES ASSUME Init PROVE IInv
      OBVIOUS
    <2>1. TypeOK
      BY Sizes DEF Init, TypeOK, Maybe, Steps
    <2>2. \A h \in Hosts : Fits(pc[h], host[h], responses, replay)
      <3> SUFFICES ASSUME NEW h \in Hosts
                   PROVE  Fits(pc[h], host[h], responses, replay)
        OBVIOUS
      <3>1. pc[h] = "idle"
        BY DEF Init
      <3> QED
        BY <3>1 DEF Fits
    <2>3. ReplayFits(responses, replay) /\ OutputsFit(replay, outputs)
      BY DEF Init, ReplayFits, OutputsFit
    <2> QED
      BY <2>1, <2>2, <2>3 DEF IInv
  <1>2. IInv /\ [Next]_vars => IInv'
    <2> SUFFICES ASSUME IInv, [Next]_vars PROVE IInv'
      OBVIOUS
    <2>1. ASSUME NEW h \in Hosts, NEW s \in Sources, Start(h, s) PROVE IInv'
      BY <2>1, StartKeeps
    <2>2. ASSUME NEW h \in Hosts, HostStep(h) PROVE IInv'
      BY <2>2, LoadBatchKeeps, GenerateKeeps, StoreResponseKeeps, BatchStoredKeeps,
         AllReceivedKeeps, ReplayCheckKeeps, ReplayWriteKeeps, CompareKeeps,
         PublishKeeps
         DEF HostStep
    <2>3. ASSUME NEW h \in Hosts, Fault(h) PROVE IInv'
      BY <2>3, FaultKeeps
    <2>4. CASE UNCHANGED vars
      BY <2>4 DEF vars, disk, IInv, TypeOK
    <2> QED
      BY <2>1, <2>2, <2>3, <2>4 DEF Next
  <1> QED
    BY <1>1, <1>2, PTL DEF Spec

\* Every file and every host's memory has its type.
THEOREM TypeCorrect == Spec => []TypeOK
  <1>1. IInv => TypeOK
    BY DEF IInv
  <1> QED
    BY <1>1, Invariance, PTL

\* However many hosts run at a time, whichever versions of the script they run
\* and wherever they are cut, the artifacts in the output directory are of one
\* run, and so are the replay checkpoints.
THEOREM OneRunOnDisk == Spec => []DirectoriesOfOneRun
  <1>1. IInv => DirectoriesOfOneRun
    <2> SUFFICES ASSUME IInv PROVE DirectoriesOfOneRun
      OBVIOUS
    <2>1. ASSUME NEW j \in DOMAIN Outputs, NEW k \in DOMAIN Outputs,
                 outputs[j] # NoFile, outputs[k] # NoFile, Outputs[j].of = "run"
          PROVE  outputs[k] = Content(k, outputs[j], outputs[j].responses)
      <3>1. 1 \in Questions
        BY Sizes DEF Questions
      <3>2. /\ outputs[j] = Content(j, replay[1].run, replay[1].run.responses)
            /\ outputs[k] = Content(k, replay[1].run, replay[1].run.responses)
        BY <2>1, <3>1 DEF IInv, OutputsFit
      <3>3. outputs[j] = replay[1].run
        BY <2>1, <3>2 DEF Content
      <3> QED
        BY <3>2, <3>3
    <2>2. ASSUME NEW q \in Questions, NEW r \in Questions,
                 replay[q] # NoFile, replay[r] # NoFile
          PROVE  replay[q].run = replay[r].run
      <3>1. q <= r \/ r <= q
        BY DEF Questions
      <3> QED
        BY <2>2, <3>1 DEF IInv, ReplayFits
    <2> QED
      BY <2>1, <2>2 DEF DirectoriesOfOneRun
  <1> QED
    BY <1>1, Invariance, PTL

\* What is submitted for a question is the response the remote model gave to
\* it, also where two questions ask the same.
THEOREM SubmittedAsAnswered == Spec => []SubmissionIsWhatWasAnswered
  <1>1. IInv => SubmissionIsWhatWasAnswered
    <2> SUFFICES ASSUME IInv, NEW k \in DOMAIN Outputs,
                        Outputs[k].of = "answers", outputs[k] # NoFile
                 PROVE  \E s \in Sources : outputs[k] = responses[s]
      BY DEF SubmissionIsWhatWasAnswered
    <2>1. 1 \in Questions
      BY Sizes DEF Questions
    <2>2. /\ replay[1] # NoFile
          /\ outputs[k] = Content(k, replay[1].run, replay[1].run.responses)
      BY <2>1 DEF IInv, OutputsFit
    <2>3. outputs[k] = replay[1].run.responses
      BY <2>2 DEF Content
    <2>4. \E s \in Sources : responses[s] = replay[1].run.responses
      BY <2>1, <2>2 DEF IInv, ReplayFits
    <2> QED
      BY <2>3, <2>4
  <1> QED
    BY <1>1, Invariance, PTL
==============================================================================
