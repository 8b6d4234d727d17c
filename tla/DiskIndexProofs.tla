-------------------------- MODULE DiskIndexProofs --------------------------
(***************************************************************************)
(* Proofs about DiskIndex, for any builders, readers, versions of the      *)
(* inputs and bounds: the state stays well typed, an answer is of the      *)
(* database its manifest names, and the manifest names the database.       *)
(*                                                                         *)
(* The type invariant says too little: a builder that links must have a    *)
(* database to link.  IInv adds what a position implies of the memory, and *)
(* that a database which somebody relies on is there, so that nobody links *)
(* another.                                                                *)
(***************************************************************************)
EXTENDS DiskIndex, TLAPS

\* What a builder's position implies.
BuilderReady(b) ==
  /\ Runs(b) => builder[b].chunks \in Versions
  /\ At(b, "alias file") \/ At(b, "chunks") \/ At(b, "populate") \/ At(b, "exists")
       \/ At(b, "link") \/ At(b, "manifest") => builder[b].aliases \in Versions
  /\ At(b, "exists") \/ At(b, "link") \/ At(b, "manifest") => builder[b].temp \in Database
  /\ At(b, "manifest") => db = builder[b].temp

\* What a reader's position implies.
ReaderReady(r) ==
  /\ reader[r].at # "closed" => reader[r].manifest \in Manifest
  /\ reader[r].at \in {"chunks", "open", "answered"} => db = reader[r].manifest.db
  /\ \A k \in DOMAIN reader[r].answer :
       reader[r].at = "answered" /\ reader[r].answer[k] = ChunksOf[reader[r].manifest.db.of][k]

IInv ==
  /\ TypeOK
  /\ \A b \in Builders : BuilderReady(b)
  /\ \A r \in Readers : ReaderReady(r)
  /\ ManifestNamesDatabase

-----------------------------------------------------------------------------
(* Typing of the parts *)

LEMMA IdleTyped == Idle \in BuilderState /\ Idle.at = "idle"
  BY DEF Idle, BuilderState, Maybe

LEMMA NoAnswerTyped == [k \in {} |-> Absent] \in Answer
<1>1. PICK v \in Versions : TRUE
  BY VersionsAssumption
<1>2. {} \in UNION {SUBSET DOMAIN ChunksOf[w] : w \in Versions}
  BY <1>1
<1>3. [k \in {} |-> Absent] \in [{} -> Chunks]
  OBVIOUS
<1> QED
  BY <1>2, <1>3 DEF Answer

LEMMA ClosedTyped == /\ Closed \in ReaderState /\ Closed.at = "closed"
                     /\ DOMAIN Closed.answer = {}
  BY NoAnswerTyped DEF Closed, ReaderState, Maybe

\* The chunks found in a version of the file are an answer.
LEMMA AnswerTyped ==
  ASSUME NEW v \in Versions, NEW docs \in SUBSET DOMAIN ChunksOf[v]
  PROVE  [k \in docs |-> ChunksOf[v][k]] \in Answer
<1>1. docs \in UNION {SUBSET DOMAIN ChunksOf[w] : w \in Versions}
  OBVIOUS
<1>2. \A k \in docs : ChunksOf[v][k] \in Chunks
  BY DEF Chunks
<1>3. [k \in docs |-> ChunksOf[v][k]] \in [docs -> Chunks]
  BY <1>2
<1> QED
  BY <1>1, <1>3 DEF Answer

-----------------------------------------------------------------------------
(* Steps that change one process's memory and nothing else *)

LEMMA BuilderMoves ==
  ASSUME IInv, NEW b \in Builders, NEW s \in BuilderState,
         builder' = [builder EXCEPT ![b] = s], UNCHANGED <<file, published, reader, bounds>>,
         BuilderReady(b)'
  PROVE  IInv'
<1> USE DEF published, bounds
<1>1. TypeOK'
  BY DEF IInv, TypeOK
<1>2. ASSUME NEW c \in Builders PROVE BuilderReady(c)'
  <2>1. CASE c = b
    BY <2>1
  <2>2. CASE c # b
    BY <2>2 DEF IInv, TypeOK, BuilderReady, Runs, At
  <2> QED
    BY <2>1, <2>2
<1>3. ASSUME NEW r \in Readers PROVE ReaderReady(r)'
  BY DEF IInv, ReaderReady
<1>4. ManifestNamesDatabase'
  BY DEF IInv, ManifestNamesDatabase
<1> QED
  BY <1>1, <1>2, <1>3, <1>4 DEF IInv

LEMMA ReaderMoves ==
  ASSUME IInv, NEW r \in Readers, NEW s \in ReaderState,
         reader' = [reader EXCEPT ![r] = s], UNCHANGED <<file, published, builder, bounds>>,
         ReaderReady(r)'
  PROVE  IInv'
<1> USE DEF published, bounds
<1>1. TypeOK'
  BY DEF IInv, TypeOK
<1>2. ASSUME NEW b \in Builders PROVE BuilderReady(b)'
  BY DEF IInv, BuilderReady, Runs, At
<1>3. ASSUME NEW q \in Readers PROVE ReaderReady(q)'
  <2>1. CASE q = r
    BY <2>1
  <2>2. CASE q # r
    BY <2>2 DEF IInv, TypeOK, ReaderReady
  <2> QED
    BY <2>1, <2>2
<1>4. ManifestNamesDatabase'
  BY DEF IInv, ManifestNamesDatabase
<1> QED
  BY <1>1, <1>2, <1>3, <1>4 DEF IInv

LEMMA BuilderEnds ==
  ASSUME IInv, NEW b \in Builders, Ends(b), UNCHANGED <<file, published, reader, bounds>>
  PROVE  IInv'
<1>1. BuilderReady(b)'
  BY IdleTyped DEF Ends, IInv, TypeOK, BuilderReady, Runs, At
<1> QED
  BY <1>1, IdleTyped, BuilderMoves DEF Ends

LEMMA BuilderFailsStep ==
  ASSUME IInv, NEW b \in Builders, BuilderFails(b) PROVE IInv'
<1> DEFINE s == [Idle EXCEPT !.at = "dead"]
<1>1. s \in BuilderState /\ s.at = "dead"
  BY DEF Idle, BuilderState, Maybe
<1>2. builder' = [builder EXCEPT ![b] = s] /\ UNCHANGED <<file, published, reader, bounds>>
  BY DEF BuilderFails
<1>3. builder'[b] = s
  BY <1>2 DEF IInv, TypeOK
<1> HIDE DEF s
<1>4. BuilderReady(b)'
  BY <1>1, <1>3 DEF BuilderReady, Runs, At
<1> QED
  BY <1>1, <1>2, <1>4, BuilderMoves

LEMMA ReaderCloses ==
  ASSUME IInv, NEW r \in Readers, Closes(r), UNCHANGED <<file, published, builder, bounds>>
  PROVE  IInv'
<1>1. ReaderReady(r)'
  BY ClosedTyped DEF Closes, IInv, TypeOK, ReaderReady
<1> QED
  BY <1>1, ClosedTyped, ReaderMoves DEF Closes

-----------------------------------------------------------------------------
(* Building *)

LEMMA StartBuildStep ==
  ASSUME IInv, NEW b \in Builders, StartBuild(b) PROVE IInv'
<1> DEFINE s == [Idle EXCEPT !.at = "aliases", !.chunks = file["chunk manifest"]]
<1>1. file["chunk manifest"] \in Versions
  BY DEF IInv, TypeOK, Inputs
<1>2. s \in BuilderState /\ s.at = "aliases" /\ s.chunks \in Versions
  BY <1>1 DEF Idle, BuilderState, Maybe
<1>3. builder' = [builder EXCEPT ![b] = s] /\ UNCHANGED <<file, published, reader, bounds>>
  BY DEF StartBuild
<1>4. builder'[b] = s
  BY <1>3 DEF IInv, TypeOK
<1>5. BuilderReady(b)'
  BY <1>2, <1>4 DEF BuilderReady, Runs, At
<1> HIDE DEF s
<1> QED
  BY <1>2, <1>3, <1>5, BuilderMoves

LEMMA ReadAliasesStep ==
  ASSUME IInv, NEW b \in Builders, ReadAliases(b) PROVE IInv'
<1> DEFINE s == [builder[b] EXCEPT !.at = "alias file", !.aliases = file["alias manifest"]]
<1>1. CASE Ends(b)
  BY <1>1, BuilderEnds DEF ReadAliases
<1>2. CASE ~Ends(b)
  <2>1. builder' = [builder EXCEPT ![b] = s] /\ UNCHANGED <<file, published, reader, bounds>>
    BY <1>2 DEF ReadAliases, IInv, TypeOK
  <2>2. file["alias manifest"] \in Versions /\ builder[b] \in BuilderState
    BY DEF IInv, TypeOK, Inputs
  <2>3. builder[b].chunks \in Versions
    BY DEF ReadAliases, IInv, BuilderReady, Runs, At
  <2>4. /\ s \in BuilderState /\ s.at = "alias file"
        /\ s.chunks \in Versions /\ s.aliases \in Versions
    BY <2>2, <2>3 DEF BuilderState, Maybe
  <2>5. builder'[b] = s
    BY <2>1 DEF IInv, TypeOK
  <2>6. BuilderReady(b)'
    BY <2>4, <2>5 DEF BuilderReady, Runs, At
  <2> HIDE DEF s
  <2> QED
    BY <2>1, <2>4, <2>6, BuilderMoves
<1> QED
  BY <1>1, <1>2

\* A builder goes on to a place that asks no more of its memory than it has.
LEMMA BuilderGoes ==
  ASSUME IInv, NEW b \in Builders, UNCHANGED <<file, published, reader, bounds>>,
         NEW place \in {"chunks", "populate", "link", "manifest"}, Goes(b, place),
         builder[b].chunks \in Versions, builder[b].aliases \in Versions,
         place \in {"link", "manifest"} => builder[b].temp \in Database,
         place = "manifest" => db = builder[b].temp
  PROVE  IInv'
<1> DEFINE s == [builder[b] EXCEPT !.at = place]
<1>1. builder' = [builder EXCEPT ![b] = s]
  BY DEF Goes, IInv, TypeOK
<1>2. builder[b] \in BuilderState
  BY DEF IInv, TypeOK
<1>3. /\ s \in BuilderState /\ s.at = place
      /\ s.chunks = builder[b].chunks /\ s.aliases = builder[b].aliases
      /\ s.temp = builder[b].temp
  BY <1>2 DEF BuilderState
<1>4. builder'[b] = s
  BY <1>1 DEF IInv, TypeOK
<1>5. BuilderReady(b)'
  BY <1>3, <1>4 DEF BuilderReady, Runs, At, published
<1> HIDE DEF s
<1> QED
  BY <1>1, <1>3, <1>5, BuilderMoves

LEMMA CheckFileSteps ==
  ASSUME IInv, NEW b \in Builders, CheckAliasFile(b) \/ CheckChunks(b) PROVE IInv'
<1>1. builder[b].chunks \in Versions /\ builder[b].aliases \in Versions
  BY DEF CheckAliasFile, CheckChunks, IInv, BuilderReady, Runs, At
<1>2. UNCHANGED <<file, published, reader, bounds>>
  BY DEF CheckAliasFile, CheckChunks
<1>3. CASE Ends(b)
  BY <1>2, <1>3, BuilderEnds
<1>4. CASE Goes(b, "chunks")
  BY <1>1, <1>2, <1>4, BuilderGoes
<1>5. CASE Goes(b, "populate")
  BY <1>1, <1>2, <1>5, BuilderGoes
<1> QED
  BY <1>3, <1>4, <1>5 DEF CheckAliasFile, CheckChunks, GoesIf

LEMMA PopulateStep ==
  ASSUME IInv, NEW b \in Builders, Populate(b) PROVE IInv'
<1> DEFINE d == [of |-> file["chunks"], chunks |-> builder[b].chunks,
                 aliases |-> builder[b].aliases]
           s == [builder[b] EXCEPT !.at = "exists", !.temp = d]
<1>1. CASE Ends(b)
  BY <1>1, BuilderEnds DEF Populate
<1>2. CASE ~Ends(b)
  <2>1. builder' = [builder EXCEPT ![b] = s] /\ UNCHANGED <<file, published, reader, bounds>>
    BY <1>2 DEF Populate, IInv, TypeOK
  <2>2. file["chunks"] \in Versions /\ builder[b] \in BuilderState
    BY DEF IInv, TypeOK, Inputs
  <2>3. builder[b].chunks \in Versions /\ builder[b].aliases \in Versions
    BY DEF Populate, IInv, BuilderReady, Runs, At
  <2>4. d \in Database
    BY <2>2, <2>3 DEF Database
  <2> HIDE DEF d
  <2>5. /\ s \in BuilderState /\ s.at = "exists" /\ s.temp = d
        /\ s.chunks = builder[b].chunks /\ s.aliases = builder[b].aliases
    BY <2>2, <2>4 DEF BuilderState, Maybe
  <2>6. builder'[b] = s
    BY <2>1 DEF IInv, TypeOK
  <2>7. BuilderReady(b)'
    BY <2>3, <2>4, <2>5, <2>6 DEF BuilderReady, Runs, At
  <2> HIDE DEF s
  <2> QED
    BY <2>1, <2>5, <2>7, BuilderMoves
<1> QED
  BY <1>1, <1>2

LEMMA CheckExistsStep ==
  ASSUME IInv, NEW b \in Builders, CheckExists(b) PROVE IInv'
<1>1. /\ builder[b].chunks \in Versions /\ builder[b].aliases \in Versions
      /\ builder[b].temp \in Database
  BY DEF CheckExists, IInv, BuilderReady, Runs, At
<1>2. UNCHANGED <<file, published, reader, bounds>>
  BY DEF CheckExists
<1>3. CASE Ends(b)
  BY <1>2, <1>3, BuilderEnds
<1>4. CASE Goes(b, "link")
  BY <1>1, <1>2, <1>4, BuilderGoes
<1>5. CASE SameDatabase(b) /\ Goes(b, "manifest")
  BY <1>1, <1>2, <1>5, BuilderGoes DEF SameDatabase
<1> QED
  BY <1>3, <1>4, <1>5 DEF CheckExists, GoesIf

\* Whoever relies on a database relies on one that is there, so that a link
\* which succeeds takes it from nobody.
LEMMA LinkDatabaseStep ==
  ASSUME IInv, NEW b \in Builders, LinkDatabase(b) PROVE IInv'
<1>1. CASE db # Absent
  BY <1>1, BuilderEnds DEF LinkDatabase, published
<1>2. CASE db = Absent
  <2> DEFINE s == [builder[b] EXCEPT !.at = "manifest"]
  <2>1. /\ db' = builder[b].temp /\ builder' = [builder EXCEPT ![b] = s]
        /\ UNCHANGED <<file, manifest, settled, reader, edits, losses>>
    BY <1>2 DEF LinkDatabase, Goes, IInv, TypeOK, bounds
  <2>2. /\ builder[b] \in BuilderState
        /\ builder[b].chunks \in Versions /\ builder[b].aliases \in Versions
        /\ builder[b].temp \in Database
    BY DEF LinkDatabase, IInv, TypeOK, BuilderReady, Runs, At
  <2>3. /\ s \in BuilderState /\ s.at = "manifest" /\ s.temp = builder[b].temp
        /\ s.chunks = builder[b].chunks /\ s.aliases = builder[b].aliases
    BY <2>2 DEF BuilderState
  <2>4. builder'[b] = s /\ \A c \in Builders : c # b => builder'[c] = builder[c]
    BY <2>1 DEF IInv, TypeOK
  <2> HIDE DEF s
  <2>5. Absent \notin Database
    BY AbsentAssumption
  <2>6. TypeOK'
    BY <2>1, <2>2, <2>3 DEF IInv, TypeOK, Maybe
  <2>7. ASSUME NEW c \in Builders PROVE BuilderReady(c)'
    <3>1. CASE c = b
      BY <3>1, <2>1, <2>2, <2>3, <2>4 DEF BuilderReady, Runs, At
    <3>2. CASE c # b
      BY <3>2, <1>2, <2>4, <2>5 DEF IInv, BuilderReady, Runs, At
    <3> QED
      BY <3>1, <3>2
  <2>8. ASSUME NEW r \in Readers PROVE ReaderReady(r)'
    <3>1. reader[r].at \notin {"chunks", "open", "answered"}
      BY <1>2, <2>5 DEF IInv, ReaderReady, Manifest
    <3> QED
      BY <3>1, <2>1 DEF IInv, ReaderReady
  <2>9. ManifestNamesDatabase'
    BY <1>2, <2>1, <2>5 DEF IInv, TypeOK, ManifestNamesDatabase, Manifest, Maybe
  <2> QED
    BY <2>6, <2>7, <2>8, <2>9 DEF IInv
<1> QED
  BY <1>1, <1>2

LEMMA WriteManifestStep ==
  ASSUME IInv, NEW b \in Builders, WriteManifest(b) PROVE IInv'
<1>1. /\ builder[b].chunks \in Versions /\ builder[b].aliases \in Versions
      /\ builder[b].temp \in Database /\ db = builder[b].temp
  BY DEF WriteManifest, IInv, BuilderReady, Runs, At
<1>2. /\ builder' = [builder EXCEPT ![b] = Idle]
      /\ UNCHANGED <<file, db, settled, reader, edits, losses>>
  BY DEF WriteManifest, Ends, bounds
<1>3. manifest' = manifest \/ (manifest' \in Manifest /\ manifest'.db = db)
  BY <1>1 DEF WriteManifest, Manifest
<1>4. TypeOK'
  BY <1>2, <1>3, IdleTyped DEF IInv, TypeOK, Maybe
<1>5. ASSUME NEW c \in Builders PROVE BuilderReady(c)'
  BY <1>2, IdleTyped DEF IInv, TypeOK, BuilderReady, Runs, At
<1>6. ASSUME NEW r \in Readers PROVE ReaderReady(r)'
  BY <1>2 DEF IInv, ReaderReady
<1>7. ManifestNamesDatabase'
  BY <1>2, <1>3 DEF IInv, ManifestNamesDatabase
<1> QED
  BY <1>4, <1>5, <1>6, <1>7 DEF IInv

-----------------------------------------------------------------------------
(* Reading *)

LEMMA StartReadStep ==
  ASSUME IInv, NEW r \in Readers, StartRead(r) PROVE IInv'
<1> DEFINE s == [Closed EXCEPT !.at = "database", !.manifest = manifest]
<1>1. manifest \in Manifest
  BY DEF StartRead, IInv, TypeOK, Maybe
<1>2. /\ s \in ReaderState /\ s.at = "database" /\ s.manifest = manifest
      /\ DOMAIN s.answer = {}
  BY <1>1, NoAnswerTyped DEF Closed, ReaderState, Maybe
<1>3. reader' = [reader EXCEPT ![r] = s] /\ UNCHANGED <<file, published, builder, bounds>>
  BY DEF StartRead
<1>4. reader'[r] = s
  BY <1>3 DEF IInv, TypeOK
<1> HIDE DEF s
<1>5. ReaderReady(r)'
  BY <1>1, <1>2, <1>4 DEF ReaderReady, published
<1> QED
  BY <1>2, <1>3, <1>5, ReaderMoves

\* A reader whose database is the manifest's goes on.
LEMMA ReaderGoes ==
  ASSUME IInv, NEW r \in Readers, UNCHANGED <<file, published, builder, bounds>>,
         reader[r].at \in {"database", "chunks"}, db = reader[r].manifest.db,
         NEW place \in {"chunks", "open"}, reader' = [reader EXCEPT ![r].at = place]
  PROVE  IInv'
<1> DEFINE s == [reader[r] EXCEPT !.at = place]
<1>1. reader' = [reader EXCEPT ![r] = s]
  BY DEF IInv, TypeOK
<1>2. reader[r] \in ReaderState /\ reader[r].manifest \in Manifest
      /\ DOMAIN reader[r].answer = {}
  BY DEF IInv, TypeOK, ReaderReady
<1>3. /\ s \in ReaderState /\ s.at = place
      /\ s.manifest = reader[r].manifest /\ s.answer = reader[r].answer
  BY <1>2 DEF ReaderState
<1>4. reader'[r] = s
  BY <1>1 DEF IInv, TypeOK
<1> HIDE DEF s
<1>5. ReaderReady(r)'
  BY <1>2, <1>3, <1>4 DEF ReaderReady, published
<1> QED
  BY <1>1, <1>3, <1>5, ReaderMoves

LEMMA CheckDatabaseStep ==
  ASSUME IInv, NEW r \in Readers, CheckDatabase(r) PROVE IInv'
<1>1. CASE DatabaseMatches(r)
  BY <1>1, ReaderGoes DEF CheckDatabase, ReaderGoesIf, DatabaseMatches
<1>2. CASE ~DatabaseMatches(r)
  BY <1>2, ReaderCloses DEF CheckDatabase, ReaderGoesIf
<1> QED
  BY <1>1, <1>2

LEMMA OpenIndexStep ==
  ASSUME IInv, NEW r \in Readers, OpenIndex(r) PROVE IInv'
<1>1. UNCHANGED <<file, published, builder, bounds>> /\ reader[r].at = "chunks"
  BY DEF OpenIndex
<1>2. db = reader[r].manifest.db
  BY <1>1 DEF IInv, ReaderReady
<1>3. CASE Closes(r)
  BY <1>1, <1>3, ReaderCloses
<1>4. CASE reader' = [reader EXCEPT ![r].at = "open"]
  BY <1>1, <1>2, <1>4, ReaderGoes
<1> QED
  BY <1>3, <1>4 DEF OpenIndex, ReaderGoesIf

\* Loads compares every chunk of the answer with the database's.
LEMMA QueryStep ==
  ASSUME IInv, NEW r \in Readers, Query(r) PROVE IInv'
<1>1. /\ UNCHANGED <<file, published, builder, bounds>>
      /\ reader[r].at \in {"open", "answered"}
  BY DEF Query
<1>2. CASE Closes(r)
  BY <1>1, <1>2, ReaderCloses
<1>3. CASE ~Closes(r)
  <2>1. PICK docs \in Named(db) :
          /\ Loads(docs)
          /\ reader' = [reader EXCEPT ![r].at = "answered",
                          ![r].answer = [k \in docs |-> ChunksOf[file["chunks"]][k]]]
    BY <1>3 DEF Query
  <2> DEFINE a == [k \in docs |-> ChunksOf[file["chunks"]][k]]
             s == [reader[r] EXCEPT !.at = "answered", !.answer = a]
  <2>2. file["chunks"] \in Versions /\ docs \in SUBSET DOMAIN ChunksOf[file["chunks"]]
    BY <2>1 DEF Loads, IInv, TypeOK, Inputs
  <2>3. a \in Answer
    BY <2>2, AnswerTyped
  <2>4. DOMAIN a = docs /\ \A k \in docs : a[k] = ChunksOf[db.of][k]
    BY <2>1 DEF Loads
  <2> HIDE DEF a
  <2>5. reader' = [reader EXCEPT ![r] = s]
    BY <2>1 DEF IInv, TypeOK, a
  <2>6. /\ reader[r] \in ReaderState /\ reader[r].manifest \in Manifest
        /\ db = reader[r].manifest.db
    BY <1>1 DEF IInv, TypeOK, ReaderReady
  <2>7. /\ s \in ReaderState /\ s.at = "answered" /\ s.answer = a
        /\ s.manifest = reader[r].manifest
    BY <2>3, <2>6 DEF ReaderState
  <2>8. reader'[r] = s
    BY <2>5 DEF IInv, TypeOK
  <2> HIDE DEF s
  <2>9. ReaderReady(r)'
    BY <1>1, <2>4, <2>6, <2>7, <2>8 DEF ReaderReady, published
  <2> QED
    BY <1>1, <2>5, <2>7, <2>9, ReaderMoves
<1> QED
  BY <1>2, <1>3

-----------------------------------------------------------------------------
(* Faults *)

LEMMA ReplaceStep ==
  ASSUME IInv, NEW f \in Inputs, NEW v \in Versions, Replace(f, v) PROVE IInv'
<1> USE DEF published
<1>1. TypeOK'
  BY BoundsAssumption DEF IInv, TypeOK, Replace
<1>2. \A b \in Builders : BuilderReady(b)'
  BY DEF IInv, BuilderReady, Runs, At, Replace
<1>3. \A r \in Readers : ReaderReady(r)'
  BY DEF IInv, ReaderReady, Replace
<1>4. ManifestNamesDatabase'
  BY DEF IInv, ManifestNamesDatabase, Replace
<1> QED
  BY <1>1, <1>2, <1>3, <1>4 DEF IInv

LEMMA SettleStep ==
  ASSUME IInv, Settle PROVE IInv'
<1>1. TypeOK'
  BY DEF IInv, TypeOK, Settle, bounds
<1>2. \A b \in Builders : BuilderReady(b)'
  BY DEF IInv, BuilderReady, Runs, At, Settle
<1>3. \A r \in Readers : ReaderReady(r)'
  BY DEF IInv, ReaderReady, Settle
<1>4. ManifestNamesDatabase'
  BY DEF IInv, ManifestNamesDatabase, Settle, bounds
<1> QED
  BY <1>1, <1>2, <1>3, <1>4 DEF IInv

\* A power loss ends everybody who relied on the database, and from then on
\* ManifestNamesDatabase promises nothing.
LEMMA PowerLossStep ==
  ASSUME IInv, PowerLoss PROVE IInv'
<1>1. TypeOK'
  <2>1. db' \in Maybe(Database \cup {Torn}) /\ manifest' \in Maybe(Manifest)
    BY DEF PowerLoss, IInv, TypeOK, Maybe
  <2>2. settled' \subseteq {"db", "manifest"}
    BY DEF PowerLoss
  <2>3. builder' \in [Builders -> BuilderState] /\ reader' \in [Readers -> ReaderState]
    BY IdleTyped, ClosedTyped DEF PowerLoss
  <2>4. /\ file' \in [Inputs -> Versions] /\ edits' \in 0 .. MaxEdits
        /\ losses' \in 0 .. MaxLosses
    BY BoundsAssumption DEF PowerLoss, IInv, TypeOK
  <2> QED
    BY <2>1, <2>2, <2>3, <2>4 DEF TypeOK
<1>2. \A b \in Builders : BuilderReady(b)'
  BY IdleTyped DEF PowerLoss, BuilderReady, Runs, At
<1>3. \A r \in Readers : ReaderReady(r)'
  BY ClosedTyped DEF PowerLoss, ReaderReady
<1>4. ManifestNamesDatabase'
  BY DEF PowerLoss, IInv, TypeOK, ManifestNamesDatabase
<1> QED
  BY <1>1, <1>2, <1>3, <1>4 DEF IInv

-----------------------------------------------------------------------------
(* The theorems *)

LEMMA Initially == Init => IInv
<1> SUFFICES ASSUME Init PROVE IInv
  OBVIOUS
<1>1. (CHOOSE v \in Versions : TRUE) \in Versions
  BY VersionsAssumption
<1>2. TypeOK
  BY <1>1, BoundsAssumption, IdleTyped, ClosedTyped DEF Init, TypeOK, Maybe
<1>3. \A b \in Builders : BuilderReady(b)
  BY IdleTyped DEF Init, BuilderReady, Runs, At
<1>4. \A r \in Readers : ReaderReady(r)
  BY ClosedTyped DEF Init, ReaderReady
<1>5. ManifestNamesDatabase
  BY DEF Init, ManifestNamesDatabase
<1> QED
  BY <1>2, <1>3, <1>4, <1>5 DEF IInv

LEMMA Inductive == IInv /\ [Next]_vars => IInv'
<1> SUFFICES ASSUME IInv, [Next]_vars PROVE IInv'
  OBVIOUS
<1>1. CASE UNCHANGED vars
  BY <1>1 DEF vars, published, bounds, IInv, TypeOK, BuilderReady, Runs, At, ReaderReady,
              ManifestNamesDatabase
<1>2. ASSUME NEW b \in Builders, StartBuild(b) \/ BuildStep(b) PROVE IInv'
  BY <1>2, StartBuildStep, ReadAliasesStep, CheckFileSteps, PopulateStep, CheckExistsStep,
     LinkDatabaseStep, WriteManifestStep DEF BuildStep
<1>3. ASSUME NEW r \in Readers, ReadStep(r) PROVE IInv'
  BY <1>3, StartReadStep, CheckDatabaseStep, OpenIndexStep, QueryStep DEF ReadStep
<1>4. ASSUME NEW r \in Readers, ReaderEnds(r) PROVE IInv'
  BY <1>4, ReaderCloses DEF ReaderEnds
<1>5. ASSUME NEW b \in Builders, BuilderFails(b) PROVE IInv'
  BY <1>5, BuilderFailsStep
<1> QED
  BY <1>1, <1>2, <1>3, <1>4, <1>5, SettleStep, ReplaceStep, PowerLossStep DEF Next, Fault

\* The invariant holds at first and is kept by every step.
THEOREM Invariance == Spec => []IInv
  BY Initially, Inductive, PTL DEF Spec

\* Every state is well typed: what a builder links is a database, what a query
\* returns are chunks of some version of the file.
THEOREM TypeCorrect == Spec => []TypeOK
<1>1. IInv => TypeOK
  BY DEF IInv
<1> QED
  BY Invariance, <1>1, PTL

\* An open index is the database its manifest names, and a query returns that
\* database's own chunks, however the chunks file is replaced meanwhile.
THEOREM AnswersAreExact == Spec => []AnswersAreOfTheNamedIndex
<1>1. IInv => AnswersAreOfTheNamedIndex
  BY DEF IInv, ReaderReady, AnswersAreOfTheNamedIndex
<1> QED
  BY Invariance, <1>1, PTL

\* Racing builders never leave a manifest beside another's database, unless the
\* power fails.
THEOREM OneIndexPublished == Spec => []ManifestNamesDatabase
<1>1. IInv => ManifestNamesDatabase
  BY DEF IInv
<1> QED
  BY Invariance, <1>1, PTL
=============================================================================
