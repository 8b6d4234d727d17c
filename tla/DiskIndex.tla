----------------------------- MODULE DiskIndex -----------------------------
(***************************************************************************)
(* src/legal_rag/retrieval/disk_bm25.py: the serialized sparse index.      *)
(* `legal-rag index build` (cli.py) reads two manifests, checks the files  *)
(* they name, fills a database of its own from the chunks file, links it   *)
(* to its destination and writes a manifest.  Readers check the database   *)
(* and the chunks file against the manifest when they open the index, and  *)
(* read the chunks file again for every query.                             *)
(*                                                                         *)
(* Builders and readers overlap, raise and are killed anywhere; the input  *)
(* files are replaced by other versions; the machine may lose power.  The  *)
(* database is written with synchronous=OFF and linked without an fsync.   *)
(* A checksum is the content it is taken over: a file is its version, and  *)
(* manifest v names the chunks or the aliases v, of corpus v.  The k-th     *)
(* chunk of every version lies at the same offset.                         *)
(***************************************************************************)
EXTENDS Naturals, Sequences

CONSTANTS
  Builders,     \* invocations of `index build`, each again and again
  Readers,      \* processes that open the index
  ChunksOf,     \* version of the chunks file -> its chunks, in their order
  MaxEdits,     \* bound: how often an input is replaced
  MaxLosses,    \* bound: how often the power fails
  Absent,       \* a file that does not exist
  Torn          \* a database whose pages did not all reach the disk

Versions == DOMAIN ChunksOf
Inputs == {"chunk manifest", "alias manifest", "aliases", "chunks"}

ASSUME VersionsAssumption == Versions # {} /\ {Absent, Torn} \cap Versions = {}
ASSUME BoundsAssumption == MaxEdits \in Nat /\ MaxLosses \in Nat

VARIABLES
  file,         \* the version of each input on the disk
  db,           \* what the database's path holds
  manifest,     \* what the manifest's path holds
  settled,      \* which of the two paths would survive a power loss as they are
  builder,      \* each builder's position and memory
  reader,       \* each reader's position and memory
  edits, losses \* counters of the two bounds

published == <<db, manifest, settled>>
bounds == <<edits, losses>>
vars == <<file, published, builder, reader, bounds>>

\* A database: the chunks its tables were filled from, and what its metadata
\* says it is made from.
Database == [of : Versions, chunks : Versions, aliases : Versions]
Manifest == [db : Database, chunks : Versions, aliases : Versions]
Maybe(S) == S \cup {Absent}

ASSUME AbsentAssumption == Absent \notin Database \cup Manifest

Idle == [at |-> "idle", chunks |-> Absent, aliases |-> Absent, temp |-> Absent]
Closed == [at |-> "closed", manifest |-> Absent, answer |-> [k \in {} |-> Absent]]

\* What a query returns: for each of some documents, the chunk it was given.
Chunks == UNION {{ChunksOf[v][k] : k \in DOMAIN ChunksOf[v]} : v \in Versions}
Answer == UNION {[docs -> Chunks] : docs \in UNION {SUBSET DOMAIN ChunksOf[v] : v \in Versions}}

BuilderState == [at : {"idle", "dead", "aliases", "alias file", "chunks", "populate", "exists",
                       "link", "manifest"},
                 chunks : Maybe(Versions), aliases : Maybe(Versions), temp : Maybe(Database)]
ReaderState == [at : {"closed", "database", "chunks", "open", "answered"},
                manifest : Maybe(Manifest), answer : Answer]

TypeOK ==
  /\ file \in [Inputs -> Versions]
  /\ db \in Maybe(Database \cup {Torn})
  /\ manifest \in Maybe(Manifest)
  /\ settled \subseteq {"db", "manifest"}
  /\ builder \in [Builders -> BuilderState]
  /\ reader \in [Readers -> ReaderState]
  /\ edits \in 0 .. MaxEdits /\ losses \in 0 .. MaxLosses

Init ==
  /\ file = [f \in Inputs |-> CHOOSE v \in Versions : TRUE]
  /\ db = Absent /\ manifest = Absent /\ settled = {}
  /\ builder = [b \in Builders |-> Idle]
  /\ reader = [r \in Readers |-> Closed]
  /\ edits = 0 /\ losses = 0

-----------------------------------------------------------------------------
(* Building *)

At(b, place) == builder[b].at = place
Runs(b) == ~At(b, "idle") /\ ~At(b, "dead")
Goes(b, place) == builder' = [builder EXCEPT ![b].at = place]
Ends(b) == builder' = [builder EXCEPT ![b] = Idle]
GoesIf(b, condition, place) == IF condition THEN Goes(b, place) ELSE Ends(b)

\* _run_index reads the chunk manifest, then the alias manifest.
StartBuild(b) ==
  /\ ~Runs(b)
  /\ builder' = [builder EXCEPT ![b] =
                   [Idle EXCEPT !.at = "aliases", !.chunks = file["chunk manifest"]]]
  /\ UNCHANGED <<file, published, reader, bounds>>

\* build_disk_bm25_from_manifests: both manifests name one corpus.
ReadAliases(b) ==
  /\ At(b, "aliases")
  /\ IF file["alias manifest"] = builder[b].chunks
     THEN builder' = [builder EXCEPT ![b].at = "alias file",
                                     ![b].aliases = file["alias manifest"]]
     ELSE Ends(b)
  /\ UNCHANGED <<file, published, reader, bounds>>

CheckAliasFile(b) ==
  /\ At(b, "alias file")
  /\ GoesIf(b, file["aliases"] = builder[b].aliases, "chunks")
  /\ UNCHANGED <<file, published, reader, bounds>>

\* Faulty variant: the database is linked without having been filled.
CheckChunksOnly(b) ==
  /\ At(b, "chunks")
  /\ GoesIf(b, file["chunks"] = builder[b].chunks, "exists")
  /\ UNCHANGED <<file, published, reader, bounds>>

CheckChunks(b) ==
  /\ At(b, "chunks")
  /\ GoesIf(b, file["chunks"] = builder[b].chunks, "populate")
  /\ UNCHANGED <<file, published, reader, bounds>>

\* The chunks file is opened a second time; what was checked before goes into
\* the metadata.  The number of rows must be the manifest's.
Populate(b) ==
  /\ At(b, "populate")
  /\ IF Len(ChunksOf[file["chunks"]]) = Len(ChunksOf[builder[b].chunks])
     THEN builder' = [builder EXCEPT ![b].at = "exists",
                        ![b].temp = [of |-> file["chunks"], chunks |-> builder[b].chunks,
                                     aliases |-> builder[b].aliases]]
     ELSE Ends(b)
  /\ UNCHANGED <<file, published, reader, bounds>>

\* Faulty variants: any database that is there is taken for the builder's own;
\* none is.
AnyDatabase(b) == db # Absent
NoDatabase(b) == db = Absent

SameDatabase(b) == db = builder[b].temp

\* _publish_database
CheckExists(b) ==
  /\ At(b, "exists")
  /\ IF db = Absent THEN Goes(b, "link") ELSE GoesIf(b, SameDatabase(b), "manifest")
  /\ UNCHANGED <<file, published, reader, bounds>>

\* Here a builder that lost the race fails, whatever the winner linked.
LinkDatabase(b) ==
  /\ At(b, "link")
  /\ IF db = Absent
     THEN db' = builder[b].temp /\ Goes(b, "manifest")
     ELSE Ends(b) /\ UNCHANGED db
  /\ UNCHANGED <<file, manifest, settled, reader, bounds>>

\* write_immutable_bytes (ImmutableArtifact): refused when another is there.
WriteManifest(b) ==
  /\ At(b, "manifest")
  /\ manifest' = IF manifest # Absent THEN manifest
                 ELSE [db |-> builder[b].temp, chunks |-> builder[b].chunks,
                       aliases |-> builder[b].aliases]
  /\ Ends(b)
  /\ UNCHANGED <<file, db, settled, reader, bounds>>

-----------------------------------------------------------------------------
(* Reading *)

\* The caller reads the manifest's bytes and hands them to the index.
StartRead(r) ==
  /\ reader[r].at = "closed" /\ manifest # Absent
  /\ reader' = [reader EXCEPT ![r] = [Closed EXCEPT !.at = "database", !.manifest = manifest]]
  /\ UNCHANGED <<file, published, builder, bounds>>

Closes(r) == reader' = [reader EXCEPT ![r] = Closed]
ReaderGoesIf(r, condition, place) ==
  IF condition THEN reader' = [reader EXCEPT ![r].at = place] ELSE Closes(r)

\* Faulty variant: only the metadata is compared.
DatabaseReadable(r) == db \notin {Absent, Torn}

DatabaseMatches(r) == db = reader[r].manifest.db

CheckDatabase(r) ==
  /\ reader[r].at = "database"
  /\ ReaderGoesIf(r, DatabaseMatches(r), "chunks")
  /\ UNCHANGED <<file, published, builder, bounds>>

\* The checksum of the chunks file, and the metadata of the database that is
\* now connected.
OpenIndex(r) ==
  /\ reader[r].at = "chunks"
  /\ ReaderGoesIf(r, /\ file["chunks"] = reader[r].manifest.chunks
                     /\ db.chunks = reader[r].manifest.chunks
                     /\ db.aliases = reader[r].manifest.aliases, "open")
  /\ UNCHANGED <<file, published, builder, bounds>>

\* Faulty variant: the chunk found at the stored offset is not compared.
LoadsAnything(docs) == docs \subseteq DOMAIN ChunksOf[file["chunks"]]

\* _load_chunks: at the offset of every document lies, now, the chunk whose
\* checksum the database has.
Loads(docs) ==
  /\ docs \subseteq DOMAIN ChunksOf[file["chunks"]]
  /\ \A k \in docs : ChunksOf[file["chunks"]][k] = ChunksOf[db.of][k]

\* retrieve, retrieve_bounded_top_k and the three lookups: the documents the
\* database may name.
Named(database) == SUBSET DOMAIN ChunksOf[database.of]

\* The database says which documents, the chunks file what they are.
Query(r) ==
  /\ reader[r].at \in {"open", "answered"}
  /\ \E docs \in Named(db) :
       IF Loads(docs)
       THEN reader' = [reader EXCEPT ![r].at = "answered",
                                     ![r].answer = [k \in docs |-> ChunksOf[file["chunks"]][k]]]
       ELSE Closes(r)
  /\ UNCHANGED <<file, published, builder, bounds>>

-----------------------------------------------------------------------------
(* Faults, and the world outside *)

\* A builder gets an error it could not foresee, or is killed.  Its temporary database is never looked at
\* again; what it published stays.
BuilderFails(b) ==
  /\ Runs(b)
  /\ builder' = [builder EXCEPT ![b] = [Idle EXCEPT !.at = "dead"]]
  /\ UNCHANGED <<file, published, reader, bounds>>

\* A reader closes the index, raises, or is killed.
ReaderEnds(r) ==
  /\ reader[r].at # "closed"
  /\ Closes(r)
  /\ UNCHANGED <<file, published, builder, bounds>>

Replace(f, v) ==
  /\ edits < MaxEdits /\ file[f] # v
  /\ file' = [file EXCEPT ![f] = v]
  /\ edits' = edits + 1
  /\ UNCHANGED <<published, builder, reader, losses>>

\* The kernel writes a file and its directory entry back.
Settle ==
  /\ \/ db # Absent /\ settled' = settled \cup {"db"}
     \/ manifest # Absent /\ settled' = settled \cup {"manifest"}
  /\ settled' # settled
  /\ UNCHANGED <<file, db, manifest, builder, reader, bounds>>

\* A database that has not settled may be gone or torn, a manifest gone.
PowerLoss ==
  /\ losses < MaxLosses
  /\ losses' = losses + 1
  /\ db' \in IF db = Absent \/ "db" \in settled THEN {db} ELSE {db, Torn, Absent}
  /\ manifest' \in IF "manifest" \in settled THEN {manifest} ELSE {manifest, Absent}
  /\ settled' = (IF db' = Absent THEN {} ELSE {"db"})
                  \cup (IF manifest' = Absent THEN {} ELSE {"manifest"})
  /\ builder' = [b \in Builders |-> Idle]
  /\ reader' = [r \in Readers |-> Closed]
  /\ UNCHANGED <<file, edits>>

-----------------------------------------------------------------------------
BuildStep(b) ==
  \/ ReadAliases(b) \/ CheckAliasFile(b) \/ CheckChunks(b) \/ Populate(b)
  \/ CheckExists(b) \/ LinkDatabase(b) \/ WriteManifest(b)

ReadStep(r) == StartRead(r) \/ CheckDatabase(r) \/ OpenIndex(r) \/ Query(r)

Fault ==
  \/ \E b \in Builders : BuilderFails(b)
  \/ \E f \in Inputs, v \in Versions : Replace(f, v)
  \/ PowerLoss

Next ==
  \/ \E b \in Builders : StartBuild(b) \/ BuildStep(b)
  \/ \E r \in Readers : ReadStep(r) \/ ReaderEnds(r)
  \/ Settle
  \/ Fault

\* A build goes on, and is started again.
Fairness ==
  \A b \in Builders : WF_vars(StartBuild(b)) /\ WF_vars(BuildStep(b))

Spec == Init /\ [][Next]_vars
FairSpec == Spec /\ Fairness

-----------------------------------------------------------------------------
(* Properties *)

\* An open index is, for as long as it is open, the database its manifest
\* names; and what a query returns are the very chunks this database was
\* filled from -- although the chunks file may have been replaced since it was
\* checked, and the database torn or exchanged before the index was opened.
AnswersAreOfTheNamedIndex ==
  \A r \in Readers :
    reader[r].at \in {"open", "answered"} =>
      /\ db = reader[r].manifest.db
      /\ \A k \in DOMAIN reader[r].answer :
           reader[r].answer[k] = ChunksOf[reader[r].manifest.db.of][k]

\* Builders that race, from the same inputs or others, leave no manifest of
\* one beside a database of another; only a power loss can part the two.
ManifestNamesDatabase ==
  losses = 0 /\ manifest # Absent => db = manifest.db

\* The places from which building again does not help: the inputs do not
\* belong together; the database is torn; it was filled from other versions
\* than the inputs there are; or a power loss took the database of a manifest
\* that is still there, and another database came in its place.
InputsDisagree == \E f, g \in Inputs : file[f] # file[g]
WouldBuild == LET v == file["chunks"] IN [of |-> v, chunks |-> v, aliases |-> v]
DeadEnd ==
  \/ InputsDisagree
  \/ db \notin {Absent, WouldBuild}
  \/ manifest # Absent /\ manifest.db # WouldBuild

\* Once faults end, building again publishes the index for good, with both its
\* files, also where a power loss has left a manifest without its database; or
\* it stays in one of these dead ends.
FaultsEnd == <>[][~Fault]_vars
Indexed == manifest # Absent /\ db = manifest.db
EventuallyIndexedOrDeadEnd == FaultsEnd => <>[]Indexed \/ <>[]DeadEnd
=============================================================================
