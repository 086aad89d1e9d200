---------------------------- MODULE KnowledgeIndexProofs ----------------------------
(***********************************************************************************)
(* The search index of internal knowledge, for any corpus, any number of builds    *)
(* and any embedding models: the chunks of an index are those of the texts it      *)
(* records, and readers find a whole index as long as no two builds have had the   *)
(* temporary file open at once.                                                    *)
(***********************************************************************************)
EXTENDS KnowledgeIndex, TLAPS

\* The chunks of a snapshot are cut from the texts it records.
Current(index) == \A s \in DOMAIN index.source : index.chunk[s] = index.source[s].hash

\* What a build holds: the corpus it has loaded, then a snapshot it has made.
HasSnapshot(b) == build[b] \in {"opening", "writing", "replacing"}

DraftInv ==
  \A b \in Builder :
    /\ build[b] = "ingesting" => draft[b] \in Fixtures
    /\ HasSnapshot(b) => IsSnapshot(draft[b]) /\ Current(draft[b])

\* Every whole file holds a snapshot whose chunks are current.
DiskInv == \A f \in File : IsSnapshot(disk[f]) => Current(disk[f])

\* A build that has the temporary open has a file; the file a build would create is not
\* in use before.
FileInv ==
  \A b \in Builder :
    /\ Opened(b) => opened[b] \in File
    /\ build[b] \in {"idle", "ingesting", "opening"} => b # indexFile /\ b # tempFile

\* As long as no two builds had it open at once, the temporary is the file of the one
\* build that has it open: empty before it is written, and whole after.  The index is
\* another file, and whole.
AloneInv ==
  ~rivals =>
    /\ \A b, c \in Builder : Opened(b) /\ Opened(c) => b = c
    /\ tempFile # None => tempFile # indexFile /\ \E b \in Builder : Opened(b)
    /\ \A b \in Builder : Opened(b) =>
         /\ tempFile = opened[b]
         /\ build[b] = "writing" => disk[tempFile] = Empty
         /\ build[b] = "replacing" => IsSnapshot(disk[tempFile])
    /\ indexFile # None => IsSnapshot(disk[indexFile])

IndexInv == IndexTypeOK /\ DraftInv /\ DiskInv /\ FileInv /\ AloneInv

-----------------------------------------------------------------------------------
(* Snapshots.                                                                      *)

\* What is read of a corpus, whatever its sources and personas are.
LEMMA FixtureFields ==
  ASSUME NEW fix \in Fixtures
  PROVE  /\ fix.version \in Version
         /\ DOMAIN fix.source \subseteq Source
         /\ \A s \in DOMAIN fix.source :
              fix.source[s].revision \in Revision /\ fix.source[s].body \in Body
                /\ fix.source[s].groups \in SUBSET Group
BY IndexAssumption DEF IsFixture

LEMMA SnapshotFields ==
  ASSUME NEW index, IsSnapshot(index)
  PROVE  /\ DOMAIN index.source = DOMAIN index.chunk
         /\ \A s \in DOMAIN index.source : index.chunk[s] \in Body
BY DEF IsSnapshot

\* ingest_fixture: an incremental build on a current index gives a current index, because
\* chunks are taken over only with the text they were cut from.
LEMMA IngestCurrent ==
  ASSUME NEW fix \in Fixtures, NEW b \in Builder, NEW previous,
         previous = None \/ (IsSnapshot(previous) /\ Current(previous))
  PROVE  /\ IsSnapshot(Ingest(fix, ModelOf[b], previous))
         /\ Current(Ingest(fix, ModelOf[b], previous))
<1> DEFINE index == Ingest(fix, ModelOf[b], previous)
<1>1. \A s \in DOMAIN fix.source : index.chunk[s] = fix.source[s].body
  BY DEF Ingest, Reused, Current
<1>2. DOMAIN index.source = DOMAIN fix.source
      /\ \A s \in DOMAIN fix.source : index.source[s].hash = fix.source[s].body
  BY DEF Ingest
<1>3. Current(index)
  BY <1>1, <1>2 DEF Current
<1>4. IsSnapshot(index)
  <2> DEFINE S == DOMAIN fix.source
  <2>1. index.chunk \in [S -> Body]
    BY <1>1, FixtureFields DEF Ingest
  <2>2. index.source \in [S -> [revision : Revision, hash : Body, groups : SUBSET Group]]
    BY FixtureFields DEF Ingest
  <2>3. index = [version |-> index.version, model |-> index.model,
                 source |-> index.source, chunk |-> index.chunk]
        /\ index.version \in Version /\ index.model \in {ModelOf[c] : c \in Builder}
    BY FixtureFields DEF Ingest
  <2>4. S \in SUBSET Source
    BY FixtureFields
  <2> HIDE DEF index, S
  <2>5. QED
    BY <2>1, <2>2, <2>3, <2>4 DEF IsSnapshot
<1>5. QED
  BY <1>3, <1>4

\* A file that can be parsed is a snapshot.
LEMMA ReadableSnapshot == IndexTypeOK /\ Readable => IsSnapshot(Loaded) /\ indexFile \in File
BY DEF IndexTypeOK, Readable, Loaded, Missing

-----------------------------------------------------------------------------------
(* The invariant.                                                                  *)

LEMMA InitIndexInv == IndexInit => IndexInv
<1> SUFFICES ASSUME IndexInit PROVE IndexInv
  OBVIOUS
<1>1. FirstFixture \in Fixtures /\ Seed \notin Builder /\ None \notin File
  BY IndexAssumption
<1>2. \A f \in File : disk[f] = Empty \/ (IsSnapshot(disk[f]) /\ Current(disk[f]))
  BY <1>1, IngestCurrent DEF IndexInit
<1>3. indexFile # None => indexFile = Seed /\ IsSnapshot(disk[Seed])
  BY <1>1, IngestCurrent DEF IndexInit, File
<1>4. IndexTypeOK
  <2>1. edits \in 0 .. MaxEdits
    BY IndexAssumption DEF IndexInit
  <2>2. QED
    BY <1>1, <1>2, <2>1 DEF IndexInit, IndexTypeOK, File, BuildPhase
<1>5. DraftInv /\ DiskInv /\ FileInv
  BY <1>1, <1>2, <1>3, IndexAssumption
     DEF IndexInit, DraftInv, DiskInv, FileInv, HasSnapshot, Opened, File
<1>6. AloneInv
  BY <1>1, <1>3 DEF IndexInit, AloneInv, Opened
<1>7. QED
  BY <1>4, <1>5, <1>6 DEF IndexInv

\* A build that goes on without touching a file, before it opens the temporary.
LEMMA PrepareStep ==
  ASSUME IndexInv, NEW b \in Builder,
         build[b] \in {"idle", "ingesting"},
         build' \in [Builder -> BuildPhase], DOMAIN draft' = Builder,
         \A c \in Builder : c # b => build'[c] = build[c] /\ draft'[c] = draft[c],
         \/ build'[b] = "ingesting" /\ draft'[b] \in Fixtures
         \/ build'[b] = "opening" /\ IsSnapshot(draft'[b]) /\ Current(draft'[b])
         \/ build'[b] = "done",
         UNCHANGED <<fixture, edits, disk, indexFile, tempFile, opened, rivals>>
  PROVE  IndexInv'
<1>1. IndexTypeOK'
  BY DEF IndexInv, IndexTypeOK
<1>2. DraftInv'
  BY DEF IndexInv, DraftInv, HasSnapshot
<1>3. DiskInv'
  BY DEF IndexInv, DiskInv
<1>4. \A c \in Builder : (Opened(c))' = Opened(c)
  BY DEF Opened
<1>5. FileInv'
  BY <1>4 DEF IndexInv, FileInv
<1>6. AloneInv'
  BY <1>4 DEF IndexInv, AloneInv, Opened
<1>7. QED
  BY <1>1, <1>2, <1>3, <1>5, <1>6 DEF IndexInv

\* ReplaceFixture edits a file that no build reads again.
LEMMA EditStep == IndexInv /\ ReplaceFixture => IndexInv'
<1> SUFFICES ASSUME IndexInv, ReplaceFixture PROVE IndexInv'
  OBVIOUS
<1> USE DEF ReplaceFixture
<1>1. IndexTypeOK'
  BY IndexAssumption DEF IndexInv, IndexTypeOK
<1>2. QED
  BY <1>1 DEF IndexInv, DraftInv, HasSnapshot, DiskInv, FileInv, AloneInv, Opened

LEMMA OpenStep ==
  ASSUME IndexInv, NEW b \in Builder, OpenTemporary(b)
  PROVE  IndexInv'
<1> DEFINE f == IF tempFile = None THEN b ELSE tempFile
<1>1. /\ f \in File /\ f # None /\ b # None
      /\ IndexTypeOK /\ build[b] = "opening"
  BY IndexAssumption DEF IndexInv, IndexTypeOK, File, OpenTemporary
<1>2. /\ tempFile' = f /\ build'[b] = "writing" /\ opened'[b] = f
      /\ \A c \in Builder : c # b => build'[c] = build[c] /\ opened'[c] = opened[c]
      /\ disk' = [disk EXCEPT ![f] = Empty]
      /\ UNCHANGED <<fixture, edits, indexFile, draft>>
  BY <1>1 DEF OpenTemporary, IndexTypeOK
<1>3. rivals' = (rivals \/ \E c \in Builder \ {b} : Opened(c))
  BY DEF OpenTemporary
<1> HIDE DEF f
<1>4. IndexTypeOK'
  BY <1>1, <1>2, <1>3 DEF IndexTypeOK, OpenTemporary, BuildPhase
<1>5. DraftInv'
  BY <1>1, <1>2 DEF IndexInv, DraftInv, HasSnapshot
<1>6. DiskInv'
  BY <1>1, <1>2, IndexAssumption DEF IndexInv, DiskInv, IndexTypeOK
<1>7. FileInv'
  BY <1>1, <1>2 DEF IndexInv, FileInv, Opened, f
<1>8. AloneInv'
  <2> SUFFICES ASSUME ~rivals' PROVE AloneInv'
    BY DEF AloneInv
  <2>1. ~rivals /\ \A c \in Builder : ~Opened(c)
    BY <1>1, <1>3 DEF Opened
  <2>2. tempFile = None /\ f = b /\ b # indexFile
    BY <1>1, <2>1 DEF IndexInv, AloneInv, FileInv, f
  <2>3. \A c \in Builder : (Opened(c))' => c = b
    BY <1>2, <2>1 DEF Opened
  <2>4. disk'[b] = Empty /\ (indexFile # None => disk'[indexFile] = disk[indexFile])
    BY <1>1, <1>2, <2>2 DEF IndexTypeOK
  <2>5. QED
    BY <1>1, <1>2, <2>1, <2>2, <2>3, <2>4 DEF IndexInv, AloneInv, Opened
<1>9. QED
  BY <1>4, <1>5, <1>6, <1>7, <1>8 DEF IndexInv

LEMMA WriteStep ==
  ASSUME IndexInv, NEW b \in Builder, WriteTemporary(b)
  PROVE  IndexInv'
<1> DEFINE f == opened[b]
<1>1. IndexTypeOK /\ build[b] = "writing" /\ f \in File /\ f # None
  BY IndexAssumption DEF IndexInv, FileInv, Opened, WriteTemporary
<1>2. IsSnapshot(draft[b]) /\ Current(draft[b])
  BY <1>1 DEF IndexInv, DraftInv, HasSnapshot
<1>3. PICK content \in {draft[b], Torn} :
        /\ disk' = [disk EXCEPT ![f] = content]
        /\ content = Torn => disk[f] # Empty
  BY <1>2, IndexAssumption DEF WriteTemporary
<1>4. /\ build'[b] = "replacing"
      /\ \A c \in Builder : c # b => build'[c] = build[c]
      /\ UNCHANGED <<fixture, edits, indexFile, tempFile, draft, opened, rivals>>
  BY <1>1 DEF WriteTemporary, IndexTypeOK
<1> HIDE DEF f
<1>5. IndexTypeOK'
  BY <1>1, <1>2, <1>3, <1>4 DEF IndexTypeOK, WriteTemporary, BuildPhase
<1>6. DraftInv'
  BY <1>1, <1>4 DEF IndexInv, DraftInv, HasSnapshot
<1>7. DiskInv'
  BY <1>1, <1>2, <1>3, IndexAssumption DEF IndexInv, DiskInv, IndexTypeOK
<1>8. \A c \in Builder : (Opened(c))' = Opened(c)
  BY <1>1, <1>4 DEF Opened
<1>9. FileInv'
  BY <1>1, <1>4, <1>8 DEF IndexInv, FileInv
<1>10. AloneInv'
  <2> SUFFICES ASSUME ~rivals' PROVE AloneInv'
    BY DEF AloneInv
  <2>1. Opened(b) /\ tempFile = f /\ disk[f] = Empty /\ f # indexFile
    BY <1>1, <1>4 DEF IndexInv, AloneInv, Opened, f
  <2>2. IsSnapshot(disk'[f]) /\ (indexFile # None => disk'[indexFile] = disk[indexFile])
    BY <1>1, <1>2, <1>3, <2>1 DEF IndexTypeOK
  <2>3. QED
    BY <1>1, <1>4, <1>8, <2>1, <2>2 DEF IndexInv, AloneInv, Opened
<1>11. QED
  BY <1>5, <1>6, <1>7, <1>9, <1>10 DEF IndexInv

LEMMA ReplaceStep ==
  ASSUME IndexInv, NEW b \in Builder, ReplaceIndex(b)
  PROVE  IndexInv'
<1>1. IndexTypeOK /\ build[b] = "replacing"
  BY DEF IndexInv, ReplaceIndex
<1>2. /\ build'[b] = "done"
      /\ \A c \in Builder : c # b => /\ build'[c] = build[c] /\ opened'[c] = opened[c]
                                     /\ draft'[c] = draft[c]
      /\ UNCHANGED <<fixture, edits, rivals>>
  BY <1>1 DEF ReplaceIndex, IndexTypeOK
<1>3. \A g \in File : disk'[g] = disk[g] \/ disk'[g] = Empty
  BY <1>1 DEF ReplaceIndex, IndexTypeOK
<1>4. IndexTypeOK'
  BY <1>1, <1>2, <1>3 DEF IndexTypeOK, ReplaceIndex, BuildPhase
<1>5. DraftInv'
  BY <1>1, <1>2 DEF IndexInv, DraftInv, HasSnapshot
<1>6. DiskInv'
  BY <1>3, IndexAssumption DEF IndexInv, DiskInv
<1>7. FileInv'
  BY <1>1, <1>2, IndexAssumption DEF IndexInv, FileInv, Opened, ReplaceIndex, File
<1>8. AloneInv'
  <2> SUFFICES ASSUME ~rivals' PROVE AloneInv'
    BY DEF AloneInv
  <2>1. /\ tempFile = opened[b] /\ opened[b] \in File /\ tempFile # None
        /\ tempFile # indexFile /\ IsSnapshot(disk[tempFile])
        /\ \A c \in Builder : Opened(c) => c = b
    BY <1>1, <1>2, IndexAssumption DEF IndexInv, AloneInv, FileInv, Opened
  <2>2. tempFile' = None /\ indexFile' = tempFile /\ disk'[tempFile] = disk[tempFile]
    BY <2>1 DEF ReplaceIndex
  <2>3. \A c \in Builder : ~(Opened(c))'
    BY <1>2, <2>1 DEF Opened
  <2>4. QED
    BY <2>1, <2>2, <2>3 DEF AloneInv
<1>9. QED
  BY <1>4, <1>5, <1>6, <1>7, <1>8 DEF IndexInv

LEMMA NextIndexInv == IndexInv /\ [IndexNext]_indexVars => IndexInv'
<1> SUFFICES ASSUME IndexInv, [IndexNext]_indexVars PROVE IndexInv'
  OBVIOUS
<1>1. CASE ReplaceFixture
  BY <1>1, EditStep
<1>2. IndexTypeOK
  BY DEF IndexInv
<1>3. ASSUME NEW b \in Builder, LoadFixture(b) PROVE IndexInv'
  <2>1. build'[b] = "ingesting" /\ draft'[b] \in Fixtures
    BY <1>2, <1>3 DEF LoadFixture, IndexTypeOK
  <2>2. build' \in [Builder -> BuildPhase]
    BY <1>2, <1>3 DEF LoadFixture, IndexTypeOK, BuildPhase
  <2>3. QED
    BY <1>2, <1>3, <2>1, <2>2, PrepareStep DEF LoadFixture, IndexTypeOK
<1>4. ASSUME NEW b \in Builder, BuildSnapshot(b) PROVE IndexInv'
  <2>1. draft[b] \in Fixtures
    BY <1>4 DEF BuildSnapshot, IndexInv, DraftInv
  <2>2. Loaded = None \/ (IsSnapshot(Loaded) /\ Current(Loaded))
    BY <1>4, ReadableSnapshot DEF BuildSnapshot, IndexInv, DiskInv, Loaded, Missing
  <2>3. build'[b] = "opening" /\ IsSnapshot(draft'[b]) /\ Current(draft'[b])
    BY <1>2, <1>4, <2>1, <2>2, IngestCurrent DEF BuildSnapshot, IndexTypeOK
  <2>4. build' \in [Builder -> BuildPhase]
    BY <1>2, <1>4 DEF BuildSnapshot, IndexTypeOK, BuildPhase
  <2>5. QED
    BY <1>2, <1>4, <2>3, <2>4, PrepareStep DEF BuildSnapshot, IndexTypeOK
<1>5. ASSUME NEW b \in Builder, BuildFails(b) PROVE IndexInv'
  <2>1. build' \in [Builder -> BuildPhase] /\ build'[b] = "done"
    BY <1>2, <1>5 DEF BuildFails, IndexTypeOK, BuildPhase
  <2>2. QED
    BY <1>2, <1>5, <2>1, PrepareStep DEF BuildFails, IndexTypeOK
<1>6. CASE UNCHANGED indexVars
  BY <1>6 DEF indexVars, IndexInv, IndexTypeOK, DraftInv, HasSnapshot, DiskInv, FileInv,
              AloneInv, Opened
<1>7. QED
  BY <1>1, <1>3, <1>4, <1>5, <1>6, OpenStep, WriteStep, ReplaceStep DEF IndexNext, Build

-----------------------------------------------------------------------------------
(* Theorems.                                                                       *)

\* The inductive invariant holds of every reachable state.
THEOREM IndexInvariance == IndexSpec => []IndexInv
BY InitIndexInv, NextIndexInv, PTL DEF IndexSpec

LEMMA IndexInvCurrent == IndexInv => ChunksCurrent
BY ReadableSnapshot DEF IndexInv, ChunksCurrent, DiskInv, Current, Loaded, Missing, Readable

\* ingestion.py: whatever corpora, models and builds an index came through, and however
\* builds race, its chunks are those of the texts it records.
THEOREM IndexChunksCurrent == IndexSpec => []ChunksCurrent
BY IndexInvariance, IndexInvCurrent, PTL

LEMMA IndexInvWhole == IndexInv => WholeIndex
BY IndexAssumption DEF IndexInv, AloneInv, WholeIndex, Missing, Readable

\* save_index: a reader finds no index or a whole one, however many builds there are and
\* wherever they stop, unless two of them had the temporary file open at once.
THEOREM IndexWhole == IndexSpec => []WholeIndex
BY IndexInvariance, IndexInvWhole, PTL

====
