------------------------------- MODULE KnowledgeIndex -------------------------------
(***********************************************************************************)
(* The search index of internal knowledge (internal_knowledge_action/ingestion.py) *)
(* and its incremental builds.                                                     *)
(*                                                                                 *)
(* The corpus is one JSON file that is edited from outside; the index is another,  *)
(* written by the endpoint and by the command line tool, perhaps at once, and read *)
(* by every answer.  A build writes a temporary file, always of the same name, and *)
(* renames it.  A file keeps its identity when it is renamed or opened again, so   *)
(* `disk` is the content of each file, and `indexFile` and `tempFile` say which    *)
(* file each of the two names refers to.                                           *)
(***********************************************************************************)
EXTENDS Naturals

CONSTANTS Persona,      \* persona identifiers
          Source,       \* source identifiers
          Group,        \* access groups
          Revision,     \* revision labels
          Body,         \* titles and texts of sources
          Version,      \* versions of the corpus
          Fixtures,     \* contents the corpus file may have
          FirstFixture, \* its content at first
          Builder,      \* builds of the index
          ModelOf,      \* [Builder -> embedding models]
          Seed,         \* the index file of an earlier build
          MaxEdits,     \* bound on the edits of the corpus file
          Empty,        \* the content of a file that has just been truncated
          Torn,         \* what is no document: a longer one's end behind a shorter one
          None          \* no file, nothing read

\* What load_fixture accepts: every source has exactly one access rule.
IsFixture(fix) ==
  \E P \in SUBSET Persona, S \in SUBSET Source :
    fix \in [version : Version,
            groups  : [P -> SUBSET Group],
            source  : [S -> [kind : {"ticket", "document"}, revision : Revision,
                             body : Body, groups : SUBSET Group]]]

\* A chunk is cut from a text at exact offsets: what is kept of the chunks of a source is
\* the text they were cut from.  Texts stand for their hashes.
IsSnapshot(index) ==
  \E S \in SUBSET Source :
    index \in [version : Version,
              model   : {ModelOf[b] : b \in Builder},
              source  : [S -> [revision : Revision, hash : Body, groups : SUBSET Group]],
              chunk   : [S -> Body]]

\* Files: the one of an earlier build, and the one each build would create.
File == Builder \cup {Seed}

ASSUME IndexAssumption ==
  /\ \A fix \in Fixtures : IsFixture(fix)
  /\ FirstFixture \in Fixtures
  /\ MaxEdits \in Nat
  /\ Seed \notin Builder
  /\ None \notin File \cup Fixtures
  /\ Empty # Torn
  /\ ~IsSnapshot(Empty) /\ ~IsSnapshot(Torn)

VARIABLES
  fixture,     \* the content of the corpus file
  edits,       \* number of edits so far
  disk,        \* [File -> a snapshot, Empty or Torn]
  indexFile,   \* the file under the name of the index, or None
  tempFile,    \* the file under the name of the temporary, or None
  build,       \* [Builder -> BuildPhase]
  draft,       \* [Builder -> what the build holds: a fixture, then the new snapshot]
  opened,      \* [Builder -> File \cup {None}]
  rivals       \* history: two builds have had the temporary open at once

indexVars == <<fixture, edits, disk, indexFile, tempFile, build, draft, opened, rivals>>

BuildPhase == {"idle", "ingesting", "opening", "writing", "replacing", "done"}

-----------------------------------------------------------------------------------
(* Pure functions of fixtures and snapshots.                                       *)

\* A faulty form of IndexMatchesFixture: access lists are not compared.
IndexMatchesTexts(index, fix) ==
  /\ index.version = fix.version
  /\ DOMAIN index.source = DOMAIN fix.source
  /\ \A s \in DOMAIN fix.source :
       /\ index.source[s].revision = fix.source[s].revision
       /\ index.source[s].hash = fix.source[s].body

\* index_matches_fixture.
IndexMatchesFixture(index, fix) ==
  /\ index.version = fix.version
  /\ DOMAIN index.source = DOMAIN fix.source
  /\ \A s \in DOMAIN fix.source :
       /\ index.source[s].revision = fix.source[s].revision
       /\ index.source[s].hash = fix.source[s].body
       /\ index.source[s].groups = fix.source[s].groups

\* A faulty form of Reused: the revision alone tells whether a source has changed.
ReusedByRevision(fix, model, previous, s) ==
  /\ previous # None
  /\ previous.version = fix.version
  /\ previous.model = model
  /\ s \in DOMAIN previous.source
  /\ previous.source[s].revision = fix.source[s].revision

\* The chunks of a source are taken over from the previous index.
Reused(fix, model, previous, s) ==
  /\ previous # None
  /\ previous.version = fix.version
  /\ previous.model = model
  /\ s \in DOMAIN previous.source
  /\ previous.source[s].hash = fix.source[s].body
  /\ previous.source[s].revision = fix.source[s].revision

\* ingest_fixture: access lists are always those of the fixture.
Ingest(fix, model, previous) ==
  [version |-> fix.version,
   model   |-> model,
   source  |-> [s \in DOMAIN fix.source |->
                  [revision |-> fix.source[s].revision,
                   hash     |-> fix.source[s].body,
                   groups   |-> fix.source[s].groups]],
   chunk   |-> [s \in DOMAIN fix.source |->
                  IF Reused(fix, model, previous, s) THEN previous.chunk[s]
                  ELSE fix.source[s].body]]

\* There is no index, or one of the first corpus.
IndexInit ==
  /\ fixture = FirstFixture
  /\ edits = 0
  /\ \/ /\ indexFile = None
        /\ disk = [f \in File |-> Empty]
     \/ /\ indexFile = Seed
        /\ \E b \in Builder :
             disk = [f \in File |-> IF f = Seed THEN Ingest(fixture, ModelOf[b], None)
                                   ELSE Empty]
  /\ tempFile = None
  /\ build = [b \in Builder |-> "idle"]
  /\ draft = [b \in Builder |-> None]
  /\ opened = [b \in Builder |-> None]
  /\ rivals = FALSE

-----------------------------------------------------------------------------------
(* Reading the index.                                                              *)

Missing == indexFile = None

\* load_index parses the file.
Readable == indexFile # None /\ disk[indexFile] \notin {Empty, Torn}

\* What load_index returns when it does not raise.
Loaded == IF Missing THEN None ELSE disk[indexFile]

-----------------------------------------------------------------------------------
(* Builds.                                                                         *)

\* The corpus file is edited.
ReplaceFixture ==
  /\ edits < MaxEdits
  /\ fixture' \in Fixtures \ {fixture}
  /\ edits' = edits + 1
  /\ UNCHANGED <<disk, indexFile, tempFile, build, draft, opened, rivals>>

\* load_fixture.
LoadFixture(b) ==
  /\ build[b] = "idle"
  /\ build' = [build EXCEPT ![b] = "ingesting"]
  /\ draft' = [draft EXCEPT ![b] = fixture]
  /\ UNCHANGED <<fixture, edits, disk, indexFile, tempFile, opened, rivals>>

\* load_index and ingest_fixture.
BuildSnapshot(b) ==
  /\ build[b] = "ingesting"
  /\ Missing \/ Readable
  /\ build' = [build EXCEPT ![b] = "opening"]
  /\ draft' = [draft EXCEPT ![b] = Ingest(draft[b], ModelOf[b], Loaded)]
  /\ UNCHANGED <<fixture, edits, disk, indexFile, tempFile, opened, rivals>>

\* load_index cannot parse the previous index, or the embedding provider fails.
BuildFails(b) ==
  /\ build[b] = "ingesting"
  /\ build' = [build EXCEPT ![b] = "done"]
  /\ draft' = [draft EXCEPT ![b] = None]
  /\ UNCHANGED <<fixture, edits, disk, indexFile, tempFile, opened, rivals>>

Opened(b) == build[b] \in {"writing", "replacing"}

\* A faulty form of OpenTemporary: save_index writes the index in place.
OpenIndex(b) ==
  /\ build[b] = "opening"
  /\ build' = [build EXCEPT ![b] = "writing"]
  /\ LET f == IF indexFile = None THEN b ELSE indexFile IN
       /\ disk' = [disk EXCEPT ![f] = Empty]
       /\ opened' = [opened EXCEPT ![b] = f]
       /\ indexFile' = f
  /\ rivals' = (rivals \/ \E c \in Builder \ {b} : Opened(c))
  /\ UNCHANGED <<fixture, edits, tempFile, draft>>

\* save_index opens the temporary file: it is created, or truncated if a build left it
\* there or is writing it.
OpenTemporary(b) ==
  /\ build[b] = "opening"
  /\ build' = [build EXCEPT ![b] = "writing"]
  /\ LET f == IF tempFile = None THEN b ELSE tempFile IN
       /\ disk' = [disk EXCEPT ![f] = Empty]
       /\ opened' = [opened EXCEPT ![b] = f]
       /\ tempFile' = f
  /\ rivals' = (rivals \/ \E c \in Builder \ {b} : Opened(c))
  /\ UNCHANGED <<fixture, edits, indexFile, draft>>

\* The document is written from the start of the file.  If another build has written its
\* own there since, a longer one leaves its end behind.
WriteTemporary(b) ==
  /\ build[b] = "writing"
  /\ build' = [build EXCEPT ![b] = "replacing"]
  /\ \E content \in {draft[b]} \cup
        (IF disk[opened[b]] \in {Empty, draft[b]} THEN {} ELSE {Torn}) :
       disk' = [disk EXCEPT ![opened[b]] = content]
  /\ UNCHANGED <<fixture, edits, indexFile, tempFile, draft, opened, rivals>>

\* The rename, which frees the file that had the name of the index; it raises if another
\* build has renamed the temporary file.
ReplaceIndex(b) ==
  /\ build[b] = "replacing"
  /\ build' = [build EXCEPT ![b] = "done"]
  /\ draft' = [draft EXCEPT ![b] = None]
  /\ opened' = [opened EXCEPT ![b] = None]
  /\ IF tempFile = None THEN UNCHANGED <<disk, indexFile, tempFile>>
     ELSE /\ indexFile' = tempFile
          /\ tempFile' = None
          /\ disk' = [f \in File |-> IF f = indexFile THEN Empty ELSE disk[f]]
  /\ UNCHANGED <<fixture, edits, rivals>>

Build(b) ==
  \/ LoadFixture(b)
  \/ BuildSnapshot(b)
  \/ BuildFails(b)
  \/ OpenTemporary(b)
  \/ WriteTemporary(b)
  \/ ReplaceIndex(b)

IndexNext == ReplaceFixture \/ \E b \in Builder : Build(b)

IndexSpec == IndexInit /\ [][IndexNext]_indexVars

-----------------------------------------------------------------------------------
(* Properties.                                                                     *)

IndexTypeOK ==
  /\ fixture \in Fixtures
  /\ edits \in 0 .. MaxEdits
  /\ DOMAIN disk = File
  /\ \A f \in File : disk[f] \in {Empty, Torn} \/ IsSnapshot(disk[f])
  /\ indexFile \in File \cup {None}
  /\ tempFile \in File \cup {None}
  /\ build \in [Builder -> BuildPhase]
  /\ DOMAIN draft = Builder
  /\ opened \in [Builder -> File \cup {None}]
  /\ rivals \in BOOLEAN

\* A source whose revision is not raised when its text is edited, and one whose access
\* list alone changes, take different paths through an incremental build.  Whatever
\* builds an index came through, its chunks are those of the texts it records.
ChunksCurrent ==
  Readable => \A s \in DOMAIN Loaded.source : Loaded.chunk[s] = Loaded.source[s].hash

\* A build is written aside and renamed: unless two builds had the temporary file open at
\* once, readers find no index or a whole one, also when a build stops anywhere.
WholeIndex == ~rivals => Missing \/ Readable

====
