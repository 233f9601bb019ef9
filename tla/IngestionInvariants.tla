------------------------- MODULE IngestionInvariants -------------------------
(***************************************************************************)
(* The inductive invariant behind the safety properties of Ingestion: what *)
(* each call of the worker may rely on.  Its parts say, of the tables, that *)
(* the document table, the chunk rows and the published versions agree, and *)
(* of the worker, what the calls it has already made left behind.           *)
(***************************************************************************)
EXTENDS Ingestion

(* The calls of the worker, by the phase of the ingest. *)
Unnumbered == {"chunk", "embed", "store"}
Writing == {"fetch", "clearPostings", "clearPoints", "indexPostings", "upsertPoints"}
Undoing == {"undoPoints", "undoPostings", "undoChunks"}
Sweeping == {"sweep", "sweepPoints", "sweepPostings", "sweepChunks"}
Numbered == Writing \cup Undoing \cup Sweeping \cup {"invalidate"}

-----------------------------------------------------------------------------
(* The tables *)

\* The document table and the chunk rows know the same versions, which
\* include every committed one, and a document has one committed version.
TablesAgree ==
  /\ \A d \in Docs : \A v \in VersionsIn(documents, d) : OfVersion(chunks, d, v) # {}
  /\ \A c \in chunks : c.version \in VersionsIn(documents, c.doc)
  /\ \A p \in committed : p.version \in VersionsIn(documents, p.doc)

-----------------------------------------------------------------------------
(* The worker *)

\* Until it has a version number the worker may still take one; from then on
\* it has one, and the sweep stays below it.
JobInv ==
  /\ pc \in Unnumbered => LatestVersion(job.doc) < MaxVersion
  /\ pc \in {"embed", "store"} => ChunkCount[job.text] > 0
  /\ pc \in Numbered => job.version \in Versions
  /\ pc \in Sweeping => job.cursor < job.version
  /\ pc \in Sweeping \ {"sweep"} => job.cursor > 0

\* The version in progress is the highest of its document, the committed one
\* is below it until the writes are done and it is the committed one after,
\* and the indexes hold no entry of the document that its rows do not know.
NumberInv ==
  /\ pc \in Numbered =>
       /\ job.version = LatestVersion(job.doc)
       /\ job.version \in VersionsIn(documents, job.doc)
       /\ \A e \in postings \cup points :
            e.doc = job.doc => e.version \in VersionsIn(documents, e.doc)
  /\ pc \in Writing \cup Undoing =>
       /\ job.version - 1 \in VersionsIn(documents, job.doc) \cup {0}
       /\ \A p \in committed : p.doc = job.doc => p.version < job.version
  /\ pc \in Sweeping \cup {"invalidate"} =>
       /\ \A p \in committed : p.doc = job.doc => p.version = job.version
       /\ \E p \in committed : p.doc = job.doc

\* What the writes so far have left of the version in progress.
WriteInv ==
  LET these == ChunksOf(job.doc, job.version, job.text)
  IN  /\ pc \in Writing => OfVersion(chunks, job.doc, job.version) = these
      /\ pc \in Writing \ {"fetch"} => job.fetched = these
      /\ pc \in {"clearPoints", "indexPostings"} =>
           OfVersion(postings, job.doc, job.version) = {}
      /\ pc \in {"indexPostings", "upsertPoints"} =>
           OfVersion(points, job.doc, job.version) = {}
      /\ pc = "upsertPoints" => OfVersion(postings, job.doc, job.version) = these

\* What a rollback without a failure so far has cleared.
UndoInv ==
  /\ pc \in {"undoPostings", "undoChunks"} /\ job.clean =>
       OfVersion(points, job.doc, job.version) = {}
  /\ pc = "undoChunks" /\ job.clean =>
       OfVersion(postings, job.doc, job.version) = {}

\* What the sweep has cleared: every version above the cursor but the new
\* one, and of the version at the cursor the stores already visited.
SweepInv ==
  /\ pc \in Sweeping =>
       \A v \in VersionsIn(documents, job.doc) : v = job.version \/ v <= job.cursor
  /\ pc \in {"sweepPostings", "sweepChunks"} =>
       OfVersion(points, job.doc, job.cursor) = {}
  /\ pc = "sweepChunks" => OfVersion(postings, job.doc, job.cursor) = {}
  /\ pc = "invalidate" => VersionsIn(documents, job.doc) = {job.version}

IngestionInv ==
  /\ TypeOK
  /\ JobInv
  /\ TablesAgree
  /\ NumberInv
  /\ WriteInv
  /\ UndoInv
  /\ SweepInv
  /\ CommittedServed
  /\ OrphansReclaimable
  /\ SuccessLeavesOneVersion
  /\ RollbackLeavesNoOrphans
  /\ OneActiveVersion

=============================================================================
